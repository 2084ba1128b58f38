---------------------------- MODULE RegistryProofs ----------------------------
(***************************************************************************)
(* Proofs about QueueRegistry and StorePlugin, for any names, keys,        *)
(* messages, threads and providers, and any number of objects, crashes and *)
(* failures: what the steps have in common, that they keep the invariant   *)
(* of RegistryInvariant, and what follows from it.                         *)
(***************************************************************************)
EXTENDS RegistryInvariant, WellFoundedInduction, TLAPS

-----------------------------------------------------------------------------
(***************************************************************************)
(* Every variable has its type at the start, and every step keeps that.    *)
(***************************************************************************)
LEMMA TypeInit == Init => TypeOK
<1> SUFFICES ASSUME Init PROVE TypeOK
  BY Zenon
<1> USE RegistryAssumptions, PluginAssumptions DEF Init
<1>1. PluginTypeOK /\ stage \in Stages
  <2>1. attempts \in 0..RetryMax
    BY DEF PluginInit
  <2> QED
    BY <2>1, Zenon DEF PluginInit, PluginTypeOK, Stages, StartStages
<1>2. db \in [Kinds -> SUBSET Rows] /\ rows \in [Queues -> SUBSET Msgs] /\ seq \in [Kinds -> Nat \ {0}]
  OBVIOUS
<1>3. obj \in [Objects -> [id : Nat, inc : 0..MaxInc]] /\ call \in [Threads -> Calls]
  BY DEF Absent, Idle, Calls
<1>4. sent \in [Msgs -> 0..MaxInc]
  OBVIOUS
<1>5. marks \in [interrupted : SUBSET (1..MaxInc), halfDestroyed : SUBSET (1..MaxInc),
                pendingAtDestroy : SUBSET Msgs, tainted : SUBSET Queues]
  BY Zenon DEF NoMarks
<1> QED
  BY <1>1, <1>2, <1>3, <1>4, <1>5 DEF TypeOK

\* A step of the plugin while it starts keeps its types and PluginReady.
LEMMA PluginStep ==
    ASSUME PluginTypeOK, PluginReady, stage \in Stages, Starting
    PROVE  PluginTypeOK' /\ PluginReady' /\ stage' \in Stages
<1> USE PluginAssumptions DEF PluginTypeOK, PluginReady, ForwardsToReady, StartStages, Stages, End
<1>1. CASE StartProcess
  <2>1. attempts' \in 0..RetryMax /\ attempts' < RetryMax /\ "BDB" # End
    BY <1>1 DEF StartProcess
  <2> QED
    BY <1>1, <2>1, Zenon DEF StartProcess
<1>2. CASE InitSucceeds
  BY <1>2 DEF InitSucceeds, Registered
<1>3. CASE InitFails
  BY <1>3 DEF InitFails
<1>4. CASE InitThrows
  BY <1>4, Zenon DEF InitThrows
<1>5. CASE InitReported
  BY <1>5, Zenon DEF InitReported
<1>6. ASSUME NEW name \in Chosen, Select(name)
      PROVE  PluginTypeOK' /\ PluginReady' /\ stage' \in Stages
  <2>1. Choice(name) \subseteq providers
    BY Zenon DEF Choice
  <2>2. CASE providers = {} /\ stage' = "nostore" /\ UNCHANGED <<provider, storeSet>>
    BY <1>6, <2>2, Zenon DEF Select
  <2>3. CASE stage' = "refused" /\ UNCHANGED <<provider, storeSet>>
    BY <1>6, <2>3, Zenon DEF Select
  <2>4. ASSUME NEW p \in Choice(name), provider' = p, storeSet' = TRUE,
               stage' = IF p = "BDB" THEN "configs" ELSE "other"
        PROVE  PluginTypeOK' /\ PluginReady' /\ stage' \in Stages
    BY <1>6, <2>1, <2>4, Zenon DEF Select
  <2> QED
    BY <1>6, <2>2, <2>3, <2>4, Zenon DEF Select
<1> QED
  BY <1>1, <1>2, <1>3, <1>4, <1>5, <1>6, Zenon DEF Starting

-----------------------------------------------------------------------------
\* The fields of a row, and the numbers the bounds are about.
LEMMA RowFields ==
    ASSUME TypeOK, NEW k \in Kinds
    PROVE  /\ \A r \in db[k] : r.id \in Nat \ {0} /\ r.inc \in 1..MaxInc /\ r.name \in Objects
           /\ seq[k] \in Nat \ {0}
<1>1. \A r \in db[k] : r \in Rows
  BY Zenon DEF TypeOK
<1> QED
  BY <1>1, Zenon DEF TypeOK, Rows

\* The number of rows put so far is a number within its bound.
LEMMA BornNatural ==
    ASSUME TypeOK
    PROVE  born \in Nat /\ born + 1 \in Nat /\ MaxInc \in Nat /\ born <= MaxInc /\ born >= born
<1>1. born \in 0..MaxInc /\ MaxInc \in Nat
  BY RegistryAssumptions, Zenon DEF TypeOK
<1> QED
  BY <1>1

(***************************************************************************)
(* An object that a step leaves alone still goes with its row: the rows    *)
(* that come or go are others.                                             *)
(***************************************************************************)
LEMMA MatchKept ==
    ASSUME NEW p \in Objects, Match(p), obj'[p] = obj[p], Known(Kind(p)) => Known(Kind(p))',
           Creating(p)' <=> Creating(p), Destroying(p)' <=> Destroying(p),
           obj[p] # Absent => obj[p].id \in 1..(seq'[Kind(p)] - 1) /\ obj[p].inc \in 1..born',
           obj[p] # Absent => \A r \in db'[Kind(p)] : \/ r \in db[Kind(p)]
                                                      \/ r.id # obj[p].id /\ r.inc # obj[p].inc,
           obj[p] # Absent => \A r \in db[Kind(p)] : r \in db'[Kind(p)] \/ r.id # obj[p].id,
           \A r \in db["queue"] : r.name = p => r \in db'["queue"]
    PROVE  Match(p)'
<1>1. ASSUME obj[p] # Absent
      PROVE  /\ Known(Kind(p))'
             /\ obj'[p].id \in 1..(seq'[Kind(p)] - 1) /\ obj'[p].inc \in 1..born'
             /\ \A r \in db'[Kind(p)] : r.id = obj'[p].id <=> r.inc = obj'[p].inc
             /\ \A r \in db'[Kind(p)] : r.id = obj'[p].id => r.name = p
  BY <1>1, Zenon DEF Match
<1>2. ASSUME obj[p] # Absent
      PROVE  (\E r \in db'[Kind(p)] : r.id = obj'[p].id) <=> ~ Destroying(p)'
  BY <1>2, Zenon DEF Match
<1>3. Creating(p)' => obj'[p] = Absent /\ \E r \in db'["queue"] : r.name = p
  BY Zenon DEF Match
<1>4. Destroying(p)' => obj'[p] # Absent
  BY Zenon DEF Match
<1> QED
  BY <1>1, <1>2, <1>3, <1>4, Zenon DEF Match

\* What the broker knows as absent.
LEMMA AbsentFields == Absent \in [id : Nat, inc : 0..MaxInc] /\ Absent.id = 0 /\ Absent.inc = 0
BY RegistryAssumptions DEF Absent

\* An object the broker does not have, and about which no call runs, matches any rows.
LEMMA AbsentMatch ==
    ASSUME NEW p \in Objects, obj'[p] = Absent, ~ Creating(p)', ~ Destroying(p)'
    PROVE  Match(p)'
BY Zenon DEF Match

\* The id and the row number of an object that is there.
LEMMA KnownId ==
    ASSUME TypeOK, NEW n \in Objects, Match(n), obj[n] # Absent
    PROVE  /\ obj[n].id \in Nat \ {0} /\ obj[n].id < seq[Kind(n)]
           /\ obj[n].inc \in 1..MaxInc /\ obj[n].inc <= born /\ obj[n].inc # 0
<1>1. Kind(n) \in Kinds
  BY Zenon DEF Kind, Kinds
<1>2. seq[Kind(n)] \in Nat /\ born \in Nat /\ MaxInc \in Nat /\ born <= MaxInc
  BY <1>1, RowFields, BornNatural, Zenon
<1>3. obj[n].id \in 1..(seq[Kind(n)] - 1) /\ obj[n].inc \in 1..born
  BY Zenon DEF Match
<1> QED
  BY <1>2, <1>3

\* An object that the broker knows by its row.
LEMMA KnowsRow ==
    ASSUME NEW n \in Objects, NEW row \in db'[Kind(n)], obj'[n].id = row.id, obj'[n].inc = row.inc,
           Known(Kind(n))', row.id \in 1..(seq'[Kind(n)] - 1), row.inc \in 1..born', row.name = n,
           \A r \in db'[Kind(n)] : (r.id = row.id <=> r.inc = row.inc) /\ (r.id = row.id => r.name = n),
           ~ Creating(n)', ~ Destroying(n)'
    PROVE  Match(n)'
BY Zenon DEF Match

\* The other objects when the call about an object ends.
LEMMA OthersMatch ==
    ASSUME ObjectsMatch, NEW n \in Objects, SameOtherCalls(n), UNCHANGED <<stage, seq, born, db>>,
           NEW p \in Objects, p # n, obj'[p] = obj[p]
    PROVE  Match(p)'
<1>1. Match(p) /\ (Known(Kind(p)) => Known(Kind(p))')
  BY Zenon DEF ObjectsMatch, Known
<1>2. (Creating(p)' <=> Creating(p)) /\ (Destroying(p)' <=> Destroying(p))
  BY Zenon DEF SameOtherCalls
<1>3. obj[p] # Absent => obj[p].id \in 1..(seq'[Kind(p)] - 1) /\ obj[p].inc \in 1..born'
  BY <1>1, Zenon DEF Match
<1> QED
  BY <1>1, <1>2, <1>3, MatchKept, Zenon

\* What the broker knows of its objects stays right when neither the rows nor the calls change.
LEMMA ObjectsFrame ==
    ASSUME ObjectsMatch, UNCHANGED <<obj, db, seq, born>>,
           \A n \in Objects : /\ Known(Kind(n))' <=> Known(Kind(n))
                             /\ (Creating(n)' <=> Creating(n)) /\ (Destroying(n)' <=> Destroying(n))
    PROVE  ObjectsMatch'
<1>1. ASSUME NEW n \in Objects PROVE Match(n)'
  <2>1. Match(n)
    BY Zenon DEF ObjectsMatch
  <2>2. obj[n] # Absent => obj[n].id \in 1..(seq'[Kind(n)] - 1) /\ obj[n].inc \in 1..born'
    BY <2>1, Zenon DEF Match
  <2> QED
    BY <2>1, <2>2, MatchKept, Zenon
<1> QED
  BY <1>1, Zenon DEF ObjectsMatch

\* The owners of the messages stay the same when tasks are dropped.
LEMMA OwnedFrame ==
    ASSUME Owned, tasks' \subseteq tasks, UNCHANGED <<rows, db, log, seq, obj, sent, marks>>,
           \A n \in Queues : Destroying(n)' <=> Destroying(n)
    PROVE  Owned'
<1>1. \A m : Marked(m)' <=> Marked(m)
  BY Zenon DEF Marked
<1>2. \A n \in Queues : \A m \in rows'[n] :
        \/ Marked(m)'
        \/ \E r \in db'["queue"] : r.name = n /\ r.inc = sent'[m]
        \/ Destroying(n)' /\ obj'[n].inc = sent'[m]
  BY <1>1, Zenon DEF Owned
<1>3. \A e \in log' : Marked(e.m)' \/ \E r \in db'["queue"] : r.id = e.id /\ r.inc = sent'[e.m]
  BY <1>1, Zenon DEF Owned
<1>4. ASSUME NEW task \in tasks'
      PROVE  /\ task.id < seq'["queue"]
             /\ \A r \in db'["queue"] : r.id = task.id =>
                 r.name = task.name /\ (Marked(task.m)' \/ r.inc = sent'[task.m])
             /\ obj'[task.name].id = task.id => Marked(task.m)' \/ obj'[task.name].inc = sent'[task.m]
  BY <1>1, <1>4, Zenon DEF Owned
<1> QED
  BY <1>2, <1>3, <1>4, Zenon DEF Owned

\* The store stays recoverable when no row, directory, mark or create() in progress is new or lost.
LEMMA RecoverableFrame ==
    ASSUME Recoverable, db'["queue"] \subseteq db["queue"], dir \subseteq dir',
           marks.tainted \subseteq marks'.tainted, marks.interrupted \subseteq marks'.interrupted,
           \A u \in Threads : call[u].op = "create" => call'[u] = call[u]
    PROVE  Recoverable'
<1>1. ASSUME NEW r \in db'["queue"], NEW t \in Threads,
             call[t].op = "create", call[t].step = 1, call[t].name = r.name
      PROVE  \E u \in Threads : call'[u].op = "create" /\ call'[u].step = 1 /\ call'[u].name = r.name
  BY <1>1, Zenon
<1>2. ASSUME NEW r \in db'["queue"]
      PROVE  \/ r.name \in dir'
             \/ r.name \in marks'.tainted \/ r.inc \in marks'.interrupted
             \/ \E t \in Threads : call'[t].op = "create" /\ call'[t].step = 1 /\ call'[t].name = r.name
  BY <1>1, <1>2, Zenon DEF Recoverable
<1> QED
  BY <1>2, Zenon DEF Recoverable

(***************************************************************************)
(* A step of a store that is up keeps each part of the invariant whose     *)
(* variables it leaves alone.                                              *)
(***************************************************************************)
LEMMA Frame ==
    ASSUME RegistryInv, UNCHANGED stage
    PROVE  /\ UNCHANGED plugin => PluginReady'
           /\ UNCHANGED <<db, seq, born>> => RowsUnique'
           /\ UNCHANGED call => CallsOwn' /\ SameCalls
           /\ UNCHANGED <<obj, seq, born, db>> /\ SameCalls => ObjectsMatch'
           /\ UNCHANGED <<db, obj, marks>> /\ SameCalls => Leftovers'
           /\ UNCHANGED <<journals, tasks, obj>> => JournalsMatch'
           /\ UNCHANGED <<sent, born, db, obj>> => SentToLast'
           /\ UNCHANGED <<bindingDb, bound, seq, born>> => BindingIds'
           /\ UNCHANGED <<rows, log, tasks, sent, marks, db, obj, seq>> /\ SameCalls => Owned'
           /\ UNCHANGED <<db, bindingDb, bound>> => BindingsExact'
           /\ UNCHANGED <<recovered, sent, marks>> => NoForeignMessage'
           /\ UNCHANGED <<db, sent, rows, log>> => MessagesKept'
           /\ UNCHANGED <<db, dir, marks, call>> => Recoverable'
<1> USE DEF RegistryInv
<1>1. UNCHANGED plugin => PluginReady'
  BY DEF PluginReady, ForwardsToReady, plugin
<1>2. UNCHANGED <<db, seq, born>> => RowsUnique'
  BY Zenon DEF RowsUnique, Known
<1>3. UNCHANGED call => CallsOwn' /\ SameCalls
  BY Zenon DEF CallsOwn, SameCalls, Creating, Destroying
<1>4. UNCHANGED <<obj, seq, born, db>> /\ SameCalls => ObjectsMatch'
  <2>1. \A n \in Objects : Known(Kind(n))' <=> Known(Kind(n))
    BY Zenon DEF Known
  <2> QED
    BY <2>1, ObjectsFrame, Zenon DEF SameCalls
<1>5. UNCHANGED <<db, obj, marks>> /\ SameCalls => Leftovers'
  <2>1. \A r \in db["queue"] : r.name \in Objects
    BY Zenon DEF TypeOK, Rows, Kinds
  <2> QED
    BY <2>1, Zenon DEF Leftovers, SameCalls, Known
<1>6. UNCHANGED <<journals, tasks, obj>> => JournalsMatch'
  BY Zenon DEF JournalsMatch, Known
<1>7. UNCHANGED <<sent, born, db, obj>> => SentToLast'
  BY Zenon DEF SentToLast, Known
<1>8. UNCHANGED <<bindingDb, bound, seq, born>> => BindingIds'
  BY Zenon DEF BindingIds
<1>9. UNCHANGED <<rows, log, tasks, sent, marks, db, obj, seq>> /\ SameCalls => Owned'
  <2>1. SameCalls => \A n \in Queues : Destroying(n)' <=> Destroying(n)
    BY Zenon DEF SameCalls, Objects
  <2> QED
    BY <2>1, OwnedFrame, Zenon
<1>10. UNCHANGED <<db, bindingDb, bound>> => BindingsExact'
  BY Zenon DEF BindingsExact
<1>11. UNCHANGED <<recovered, sent, marks>> => NoForeignMessage'
  BY Zenon DEF NoForeignMessage
<1>12. UNCHANGED <<db, sent, rows, log>> => MessagesKept'
  BY Zenon DEF MessagesKept
<1>13. ASSUME UNCHANGED <<db, dir, marks, call>> PROVE Recoverable'
  <2>1. Recoverable
    BY Zenon
  <2> QED
    BY <1>13, <2>1, RecoverableFrame, Zenon
<1> QED
  BY <1>1, <1>2, <1>3, <1>4, <1>5, <1>6, <1>7, <1>8, <1>9, <1>10, <1>11, <1>12, <1>13, Zenon

\* The fields of the call of a thread that makes none.
LEMMA IdleFields == Idle.op = "none" /\ Idle.name = "none" /\ Idle.step = 0
BY DEF Idle

(***************************************************************************)
(* A call that goes on is the same call.                                   *)
(***************************************************************************)
LEMMA GoesSame ==
    ASSUME TypeOK, CallsOwn, NEW t \in Threads, NEW op \in {"create", "destroy"}, NEW from,
           NEW to \in 2..(2 + Files), Goes(t, op, from, to), op = "create" => to = 2,
           stage = "up", stage' = "up"
    PROVE  /\ SameCalls /\ CallsOwn' /\ call' \in [Threads -> Calls]
           /\ op = "destroy" /\ Recoverable /\ UNCHANGED <<db, dir, marks>> => Recoverable'
<1>1. \A u \in Threads : /\ call'[u].op = call[u].op /\ call'[u].name = call[u].name
                         /\ u # t => call'[u] = call[u]
  BY Zenon DEF Goes, TypeOK, Calls
<1>2. call'[t].step = to /\ call[t] \in Calls /\ call[t].op = op
  BY Zenon DEF Goes, TypeOK, Calls
<1>3. SameCalls
  BY <1>1, Zenon DEF SameCalls, Creating, Destroying
<1>4. call' \in [Threads -> Calls]
  <2>1. [call[t] EXCEPT !.step = to] \in Calls
    BY <1>2, RegistryAssumptions DEF Calls
  <2> QED
    BY <2>1, Zenon DEF Goes, TypeOK
<1>5. call[t] # Idle /\ to > 0
  BY <1>2, RegistryAssumptions DEF Idle
<1>6. CallsOwn'
  <2>1. \/ call'[t].op = "create" /\ call'[t].name \in Queues /\ call'[t].step \in {1, 2}
        \/ call'[t].op = "destroy" /\ call'[t].name \in Queues \union Exchanges /\ call'[t].step > 0
    <3>1. \/ call[t].op = "create" /\ call[t].name \in Queues /\ call[t].step \in {1, 2}
          \/ call[t].op = "destroy" /\ call[t].name \in Queues \union Exchanges /\ call[t].step > 0
      BY <1>5, Zenon DEF CallsOwn
    <3>2. call'[t].op = call[t].op /\ call'[t].name = call[t].name /\ call'[t].step > 0
      BY <1>1, <1>2, <1>5, Zenon
    <3>3. call[t].op = "create" => call'[t].step \in {1, 2}
      BY <1>2, Zenon
    <3> QED
      BY <3>1, <3>2, <3>3, Zenon
  <2>2. ASSUME NEW u \in Threads
        PROVE  \/ call'[u] = Idle
               \/ call'[u].op = "create" /\ call'[u].name \in Queues /\ call'[u].step \in {1, 2}
               \/ call'[u].op = "destroy" /\ call'[u].name \in Queues \union Exchanges /\ call'[u].step > 0
    <3>1. CASE u = t
      BY <2>1, <3>1, Zenon
    <3>2. CASE u # t
      <4>1. call'[u] = call[u]
        BY <1>1, <3>2, Zenon
      <4> QED
        BY <4>1, Zenon DEF CallsOwn
    <3> QED
      BY <3>1, <3>2, Zenon
  <2>3. ASSUME NEW u \in Threads, NEW v \in Threads, call'[u].name = call'[v].name
        PROVE  u = v \/ call'[u] = Idle
    <3>1. call[u].name = call[v].name
      BY <1>1, <2>3, Zenon
    <3>2. u = v \/ call[u] = Idle
      BY <3>1, Zenon DEF CallsOwn
    <3> QED
      BY <1>1, <1>5, <3>2, Zenon
  <2>4. stage' = "up"
    BY Zenon
  <2> QED
    BY <2>2, <2>3, <2>4, Zenon DEF CallsOwn
<1>7. op = "destroy" /\ Recoverable /\ UNCHANGED <<db, dir, marks>> => Recoverable'
  <2>1. op = "destroy" => \A u \in Threads : call[u].op = "create" => call'[u] = call[u]
    BY <1>1, <1>2, Zenon
  <2> QED
    BY <2>1, RecoverableFrame, Zenon
<1> QED
  BY <1>3, <1>4, <1>6, <1>7, Zenon

(***************************************************************************)
(* A call that begins is the only one about its object, and so is one that *)
(* ends.                                                                   *)
(***************************************************************************)
LEMMA StartsAlone ==
    ASSUME TypeOK, CallsOwn, NEW t \in Threads, NEW n \in Objects, NEW op \in {"create", "destroy"},
           Starts(t, [op |-> op, name |-> n, step |-> 1]), ~ Busy(n), stage = "up", stage' = "up",
           op = "create" => n \in Queues, op = "destroy" => n \in Queues \union Exchanges
    PROVE  /\ CallsOwn' /\ call' \in [Threads -> Calls] /\ SameOtherCalls(n)
           /\ ~ Creating(n) /\ ~ Destroying(n)
           /\ op = "create" => Creating(n)' /\ ~ Destroying(n)'
           /\ op = "destroy" => ~ Creating(n)' /\ Destroying(n)'
           /\ \A u \in Threads : u # t => call'[u] = call[u]
           /\ call[t] = Idle /\ call'[t] = [op |-> op, name |-> n, step |-> 1]
<1> DEFINE c == [op |-> op, name |-> n, step |-> 1]
<1>1. call[t] = Idle /\ call'[t] = c /\ \A u \in Threads : u # t => call'[u] = call[u]
  BY Zenon DEF Starts, TypeOK
<1>2. /\ c \in Calls /\ n # "none" /\ c # Idle
      /\ c.op = op /\ c.name = n /\ c.step = 1 /\ 1 > 0
  BY RegistryAssumptions DEF Calls, Idle
<1>3. \A u \in Threads : call[u].name # n
  BY Zenon DEF Busy
<1>4. call' \in [Threads -> Calls]
  BY <1>2, Zenon DEF Starts, TypeOK
<1>5. SameOtherCalls(n) /\ ~ Creating(n) /\ ~ Destroying(n)
  <2>1. call[t].op = "none"
    BY <1>1, IdleFields, Zenon
  <2>2. ~ Creating(n) /\ ~ Destroying(n)
    BY <1>3, Zenon DEF Creating, Destroying
  <2>3. ASSUME NEW p \in Objects, p # n
        PROVE  (Creating(p)' <=> Creating(p)) /\ (Destroying(p)' <=> Destroying(p))
    <3>1. call'[t].name # p
      BY <1>1, <1>2, <2>3, Zenon
    <3> HIDE DEF c
    <3> QED
      BY <1>1, <2>1, <3>1, Zenon DEF Creating, Destroying
  <2> QED
    BY <2>2, <2>3, Zenon DEF SameOtherCalls
<1>6. /\ op = "create" => Creating(n)' /\ ~ Destroying(n)'
      /\ op = "destroy" => ~ Creating(n)' /\ Destroying(n)'
  <2>1. call'[t].op = op /\ call'[t].name = n /\ \A u \in Threads : u # t => call'[u].name # n
    BY <1>1, <1>2, <1>3, Zenon
  <2> QED
    BY <2>1, Zenon DEF Creating, Destroying
<1>7. CallsOwn'
  <2>1. call'[t].op = op /\ call'[t].name = n /\ call'[t].step = 1 /\ call[t] = Idle
    BY <1>1, <1>2, Zenon
  <2>2. call'[t].step > 0 /\ call'[t].step \in {1, 2}
    BY <1>2, <2>1, Zenon
  <2>3. ASSUME NEW u \in Threads
        PROVE  \/ call'[u] = Idle
               \/ call'[u].op = "create" /\ call'[u].name \in Queues /\ call'[u].step \in {1, 2}
               \/ call'[u].op = "destroy" /\ call'[u].name \in Queues \union Exchanges /\ call'[u].step > 0
    BY <1>1, <2>1, <2>2, Zenon DEF CallsOwn
  <2>4. ASSUME NEW u \in Threads, NEW v \in Threads, call'[u].name = call'[v].name
        PROVE  u = v \/ call'[u] = Idle
    <3>1. CASE u = t \/ v = t
      BY <1>1, <1>3, <2>1, <2>4, <3>1, Zenon
    <3>2. CASE u # t /\ v # t
      BY <1>1, <2>4, <3>2, Zenon DEF CallsOwn
    <3> QED
      BY <3>1, <3>2, Zenon
  <2>5. stage' = "up"
    BY Zenon
  <2> QED
    BY <2>3, <2>4, <2>5, Zenon DEF CallsOwn
<1> QED
  BY <1>1, <1>4, <1>5, <1>6, <1>7, Zenon

\* A call that ends was the only one about its object.
LEMMA EndsAlone ==
    ASSUME TypeOK, CallsOwn, NEW t \in Threads, NEW op \in {"create", "destroy"}, NEW from,
           Ends(t, op, from), stage = "up", stage' = "up", NEW n, n = call[t].name
    PROVE  /\ CallEnds(t, n) /\ n \in Objects /\ n \in Queues \union Exchanges
           /\ op = "create" => Creating(n) /\ ~ Destroying(n) /\ n \in Queues
           /\ op = "destroy" => ~ Creating(n) /\ Destroying(n)
           /\ call[t].op = op /\ call[t].step = from
<1>1. /\ call[t].op = op /\ call[t].step = from /\ call'[t] = Idle
      /\ \A u \in Threads : u # t => call'[u] = call[u]
  BY Zenon DEF Ends, TypeOK
<1>2. call[t] # Idle /\ Idle \in Calls /\ call[t] \in Calls
  BY <1>1, RegistryAssumptions DEF Idle, Calls, TypeOK
<1>3. n \in Queues \union Exchanges /\ n \in Objects /\ n # "none" /\ (op = "create" => n \in Queues)
  BY <1>1, <1>2, RegistryAssumptions, Zenon DEF CallsOwn, Objects
<1>4. \A u \in Threads : u # t => call[u].name # n
  BY <1>2, Zenon DEF CallsOwn
<1>5. call' \in [Threads -> Calls]
  BY <1>2, Zenon DEF Ends, TypeOK
<1>6. SameOtherCalls(n) /\ ~ Creating(n)' /\ ~ Destroying(n)'
  <2>1. call'[t].op = "none" /\ call'[t].name = "none"
    BY <1>1, IdleFields, Zenon
  <2>2. \A p \in Objects : p # n => (Creating(p)' <=> Creating(p)) /\ (Destroying(p)' <=> Destroying(p))
    BY <1>1, <1>3, <2>1, Zenon DEF Creating, Destroying
  <2>3. ~ Creating(n)' /\ ~ Destroying(n)'
    BY <1>1, <1>3, <1>4, <2>1, Zenon DEF Creating, Destroying
  <2> QED
    BY <2>2, <2>3, Zenon DEF SameOtherCalls
<1>7. /\ op = "create" => Creating(n) /\ ~ Destroying(n)
      /\ op = "destroy" => ~ Creating(n) /\ Destroying(n)
  BY <1>1, <1>4, Zenon DEF Creating, Destroying
<1>8. CallsOwn'
  <2>1. \A u \in Threads : call[u].name = "none" => call[u] = Idle
    BY RegistryAssumptions, Zenon DEF CallsOwn, Objects
  <2>2. \A u, v \in Threads : call'[u].name = call'[v].name => u = v \/ call'[u] = Idle
    <3>1. ASSUME NEW u \in Threads, NEW v \in Threads, call'[u].name = call'[v].name, u # v
          PROVE  call'[u] = Idle
      BY <1>1, <2>1, <3>1, IdleFields, Zenon DEF CallsOwn
    <3> QED
      BY <3>1, Zenon
  <2>3. \A u \in Threads : call'[u] = Idle \/ call'[u] = call[u]
    BY <1>1, Zenon
  <2> QED
    BY <2>2, <2>3, Zenon DEF CallsOwn
<1>9. CallEnds(t, n)
  BY <1>1, <1>4, <1>5, <1>6, <1>8, Zenon DEF CallEnds
<1> QED
  BY <1>1, <1>3, <1>7, <1>9, Zenon

\* The end of a create() of a queue, which no other call is about.
LEMMA CreateEnds ==
    ASSUME TypeOK, CallsOwn, NEW t \in Threads, NEW from,
           Ends(t, "create", from), stage = "up", stage' = "up", NEW n, n = call[t].name
    PROVE  /\ CallEnds(t, n) /\ n \in Objects /\ n \in Queues /\ Creating(n) /\ ~ Destroying(n)
           /\ call[t].step = from
<1>1. PICK op \in {"create", "destroy"} : op = "create"
  BY Zenon
<1>2. Ends(t, op, from)
  BY <1>1, Zenon
<1>3. /\ CallEnds(t, n) /\ n \in Objects /\ call[t].step = from
      /\ op = "create" => Creating(n) /\ ~ Destroying(n) /\ n \in Queues
  BY <1>2, EndsAlone, Zenon
<1> QED
  BY <1>1, <1>3, Zenon

(***************************************************************************)
(* The row of a queue or exchange is deleted before the rest.              *)
(***************************************************************************)
LEMMA DestroyedGone ==
    ASSUME RegistryInv, NEW t \in Threads, call[t].op = "destroy"
    PROVE  LET n == call[t].name IN
           /\ n \in Queues \union Exchanges /\ n \in Objects /\ obj[n] # Absent
           /\ obj[n].id \in Nat \ {0} /\ obj[n].inc \in 1..born
           /\ \A r \in db[Kind(n)] : r.id # obj[n].id /\ r.inc # obj[n].inc
<1>1. call[t].name \in Queues \union Exchanges
  <2>1. Idle.op # "destroy" /\ CallsOwn
    BY IdleFields, Zenon DEF RegistryInv
  <2> QED
    BY <2>1, Zenon DEF CallsOwn
<1>2. Destroying(call[t].name) /\ call[t].name \in Objects
  BY <1>1, Zenon DEF Destroying, Objects
<1>3. Match(call[t].name) /\ Kind(call[t].name) \in Kinds /\ TypeOK
  BY <1>2, Zenon DEF RegistryInv, ObjectsMatch, Kinds, Kind
<1>4. /\ obj[call[t].name] # Absent
      /\ obj[call[t].name].id \in 1..(seq[Kind(call[t].name)] - 1) /\ obj[call[t].name].inc \in 1..born
      /\ \A r \in db[Kind(call[t].name)] : r.id # obj[call[t].name].id /\ r.inc # obj[call[t].name].inc
  BY <1>2, <1>3, Zenon DEF Match
<1>5. seq[Kind(call[t].name)] \in Nat
  BY <1>3, Zenon DEF TypeOK
<1>6. obj[call[t].name].id \in Nat \ {0}
  BY <1>4, <1>5
<1> QED
  BY <1>1, <1>2, <1>4, <1>6, Zenon

(***************************************************************************)
(* A row of queueDb has the name of a queue.                               *)
(***************************************************************************)
LEMMA QueueNames ==
    ASSUME TypeOK, RowsUnique
    PROVE  /\ \A r \in db["queue"] : r.name \in Queues /\ r.id \in Nat \ {0} /\ r.inc \in 1..MaxInc
           /\ \A n \in Queues : n \in Objects /\ Kind(n) = "queue" /\ Kind(n) \in Kinds
           /\ \A n \in Exchanges : n \in Objects /\ Kind(n) = "exchange" /\ n \notin Queues
           /\ \A n \in Configs : n \in Objects /\ Kind(n) = "general" /\ n \notin Queues
<1>1. \A r \in db["queue"] : r \in Rows /\ Kind(r.name) = "queue"
  BY Zenon DEF TypeOK, RowsUnique, Kinds
<1> QED
  BY <1>1, RegistryAssumptions, Zenon DEF Kind, Rows, Objects, Kinds

(***************************************************************************)
(* What the invariant says of queues does not depend on other objects.     *)
(***************************************************************************)
LEMMA QueuesApart ==
    ASSUME RegistryInv, SameQueues
    PROVE  /\ Leftovers' /\ JournalsMatch' /\ SentToLast' /\ Owned' /\ MessagesKept'
           /\ NoForeignMessage'
           /\ (\A u \in Threads : call[u].op = "create" => call'[u] = call[u]) => Recoverable'
<1>0. TypeOK /\ born \in Nat
  BY BornNatural, Zenon DEF RegistryInv
<1>1. \A r \in db["queue"] : r.name \in Queues
  BY QueueNames, Zenon DEF RegistryInv
<1>2. Leftovers'
  <2>1. Leftovers
    BY Zenon DEF RegistryInv
  <2> QED
    BY <1>1, <2>1, Zenon DEF Leftovers, SameQueues
<1>3. JournalsMatch'
  <2>1. JournalsMatch /\ \A j \in journals : j.name \in Queues
    BY <1>0, Zenon DEF RegistryInv, TypeOK
  <2> QED
    BY <2>1, Zenon DEF JournalsMatch, SameQueues
<1>4. SentToLast'
  <2>1. SentToLast /\ \A m \in Msgs : sent[m] \in Nat
    <3>1. \A i \in 0..MaxInc : i \in Nat
      OBVIOUS
    <3> QED
      BY <1>0, <3>1, Zenon DEF RegistryInv, TypeOK
  <2>2. /\ Known("queue")' <=> Known("queue")
        /\ db'["queue"] = db["queue"] /\ sent' = sent /\ born' \in Nat /\ born' >= born
        /\ \A n \in Queues : obj'[n] = obj[n]
    BY Zenon DEF SameQueues
  <2> QED
    <3>1. ASSUME NEW m \in Msgs PROVE sent'[m] <= born'
      <4>1. sent[m] \in Nat /\ sent[m] <= born /\ sent' = sent
        BY <2>1, <2>2, Zenon DEF SentToLast
      <4> QED
        BY <1>0, <2>2, <4>1
    <3> QED
      BY <1>1, <2>1, <2>2, <3>1, Zenon DEF SentToLast
<1>5. Owned'
  <2>1. Owned /\ \A task \in tasks : task.name \in Queues
    BY <1>0, Zenon DEF RegistryInv, TypeOK
  <2> QED
    <3>1. /\ UNCHANGED <<rows, log, tasks, sent, marks>> /\ db'["queue"] = db["queue"]
          /\ seq'["queue"] = seq["queue"]
          /\ \A n \in Queues : obj'[n] = obj[n] /\ (Destroying(n)' <=> Destroying(n))
      BY Zenon DEF SameQueues
    <3>2. \A m : Marked(m)' <=> Marked(m)
      BY <3>1, Zenon DEF Marked
    <3>3. \A n \in Queues : \A m \in rows'[n] :
            \/ Marked(m)'
            \/ \E r \in db'["queue"] : r.name = n /\ r.inc = sent'[m]
            \/ Destroying(n)' /\ obj'[n].inc = sent'[m]
      BY <2>1, <3>1, <3>2, Zenon DEF Owned
    <3>4. \A e \in log' : Marked(e.m)' \/ \E r \in db'["queue"] : r.id = e.id /\ r.inc = sent'[e.m]
      BY <2>1, <3>1, <3>2, Zenon DEF Owned
    <3>5. ASSUME NEW task \in tasks'
          PROVE  /\ task.id < seq'["queue"]
                 /\ \A r \in db'["queue"] : r.id = task.id =>
                     r.name = task.name /\ (Marked(task.m)' \/ r.inc = sent'[task.m])
                 /\ obj'[task.name].id = task.id => Marked(task.m)' \/ obj'[task.name].inc = sent'[task.m]
      BY <2>1, <3>1, <3>2, <3>5, Zenon DEF Owned
    <3> QED
      BY <3>3, <3>4, <3>5, Zenon DEF Owned
<1>6. MessagesKept'
  BY Zenon DEF RegistryInv, MessagesKept, SameQueues
<1>7. NoForeignMessage'
  BY Zenon DEF RegistryInv, NoForeignMessage, SameQueues
<1>8. (\A u \in Threads : call[u].op = "create" => call'[u] = call[u]) => Recoverable'
  BY RecoverableFrame, Zenon DEF RegistryInv, SameQueues
<1> QED
  BY <1>2, <1>3, <1>4, <1>5, <1>6, <1>7, <1>8, Zenon

-----------------------------------------------------------------------------
(***************************************************************************)
(* A bounded nonempty set of natural numbers has a greatest element, so    *)
(* the last row of a name and the highest id exist.                        *)
(***************************************************************************)
LEMMA GreatestOfSet ==
    ASSUME NEW T \in SUBSET Nat, T # {}, NEW N \in Nat, \A x \in T : x <= N
    PROVE  \E x \in T : \A y \in T : y <= x
<1> DEFINE U == {N - x : x \in T}
<1>1. U \in SUBSET Nat /\ U # {}
  <2>1. \A x \in T : N - x \in Nat
    OBVIOUS
  <2>2. PICK x : x \in T
    BY Zenon
  <2>3. N - x \in U
    BY <2>2, Zenon
  <2> QED
    BY <2>1, <2>3, Zenon
<1>2. \E u \in U : \A v \in U : ~(<<v, u>> \in OpToRel(<, Nat))
  <2> HIDE DEF U
  <2> QED
    BY <1>1, NatLessThanWellFounded, WFMin, Zenon
<1>3. PICK u \in U : \A v \in U : ~(<<v, u>> \in OpToRel(<, Nat))
  BY <1>2, Zenon
<1>4. \A v \in U : ~(v < u)
  BY <1>1, <1>3, Zenon DEF OpToRel
<1>5. PICK x \in T : u = N - x
  BY Zenon
<1>6. ASSUME NEW y \in T PROVE y <= x
  <2>1. N - y \in U
    BY Zenon
  <2>2. ~(N - y < N - x)
    BY <1>4, <1>5, <2>1, Zenon
  <2> QED
    BY <2>2
<1> QED
  BY <1>6, Zenon

\* NewRow is the last row of its name.
LEMMA NewRowIsLast ==
    ASSUME RegistryInv, NEW n, \E r \in db["queue"] : r.name = n
    PROVE  /\ NewRow(n) \in db["queue"] /\ NewRow(n).name = n
           /\ \A s \in db["queue"] : s.name = n => s.inc <= NewRow(n).inc /\ s.id <= NewRow(n).id
<1> DEFINE T == {r.inc : r \in {s \in db["queue"] : s.name = n}}
<1>1. T \in SUBSET Nat /\ T # {} /\ MaxInc \in Nat /\ \A x \in T : x <= MaxInc
  <2>1. TypeOK /\ RowsUnique /\ MaxInc \in Nat
    BY RegistryAssumptions, Zenon DEF RegistryInv
  <2>2. \A r \in db["queue"] : r.inc \in 1..MaxInc
    BY <2>1, QueueNames, Zenon
  <2>3. \A x \in 1..MaxInc : x \in Nat /\ x <= MaxInc
    BY <2>1
  <2> QED
    BY <2>1, <2>2, <2>3, Zenon
<1>2. PICK x \in T : \A y \in T : y <= x
  <2> HIDE DEF T
  <2> QED
    BY <1>1, GreatestOfSet, Zenon
<1>3. \E r \in db["queue"] : r.name = n /\ \A s \in db["queue"] : s.name = n => s.inc <= r.inc
  BY <1>2, Zenon
<1>4. /\ NewRow(n) \in db["queue"] /\ NewRow(n).name = n
      /\ \A s \in db["queue"] : s.name = n => s.inc <= NewRow(n).inc
  BY <1>3, Zenon DEF NewRow
<1>5. \A r, s \in db["queue"] : r.id <= s.id <=> r.inc <= s.inc
  BY Zenon DEF RegistryInv, RowsUnique, Kinds
<1> QED
  BY <1>4, <1>5, Zenon

\* LastRow is the last row of its name.
LEMMA LastRowIsLast ==
    ASSUME RegistryInv, NEW k \in Kinds, NEW n, n \in Names(k)
    PROVE  /\ LastRow(k, n) \in db[k] /\ LastRow(k, n).name = n
           /\ \A s \in db[k] : s.name = n => s.id <= LastRow(k, n).id
<1> DEFINE T == {r.id : r \in {s \in db[k] : s.name = n}}
<1>1. T \in SUBSET Nat /\ T # {} /\ born + 1 \in Nat /\ \A x \in T : x <= born + 1
  <2>1. TypeOK /\ RowsUnique
    BY Zenon DEF RegistryInv
  <2>2. \A r \in db[k] : r.id \in Nat /\ r.id <= born + 1
    BY <2>1, RowFields, Zenon DEF RowsUnique
  <2>3. born + 1 \in Nat
    BY <2>1, BornNatural, Zenon
  <2>4. PICK r \in db[k] : r.name = n
    BY Zenon DEF Names
  <2> QED
    BY <2>2, <2>3, <2>4, Zenon
<1>2. PICK x \in T : \A y \in T : y <= x
  <2> HIDE DEF T
  <2> QED
    BY <1>1, GreatestOfSet, Zenon
<1>3. \E r \in db[k] : r.name = n /\ \A s \in db[k] : s.name = n => s.id <= r.id
  BY <1>2, Zenon
<1> QED
  BY <1>3, Zenon DEF LastRow

(***************************************************************************)
(* The sequence that recovery restores starts above every id in use.       *)
(***************************************************************************)
LEMMA NextIdAbove ==
    ASSUME RegistryInv, NEW k \in Kinds
    PROVE  NextId(k) \in Nat \ {0} /\ NextId(k) <= born + 2 /\ \A r \in db[k] : r.id < NextId(k)
<1> DEFINE T == Ids(k) \union {1}
<1>1. T \in SUBSET Nat /\ T # {} /\ born \in Nat /\ \A x \in T : x <= born + 1
  <2>1. TypeOK /\ RowsUnique
    BY Zenon DEF RegistryInv
  <2>2. \A r \in db[k] : r.id \in Nat /\ r.id <= born + 1
    BY <2>1, RowFields, Zenon DEF RowsUnique
  <2>3. born \in Nat
    BY <2>1, BornNatural, Zenon
  <2>4. 1 \in Nat /\ 1 <= born + 1
    BY <2>3
  <2> QED
    BY <2>2, <2>3, <2>4, Zenon DEF Ids
<1>2. \A r \in db[k] : r.id \in T
  BY Zenon DEF Ids
<1> HIDE DEF T
<1>3. \E x \in T : \A y \in T : x >= y
  <2>0. born + 1 \in Nat
    BY <1>1
  <2>1. PICK x \in T : \A y \in T : y <= x
    BY <1>1, <2>0, GreatestOfSet, Zenon
  <2> QED
    BY <1>1, <2>1, Zenon
<1>4. Max(T) \in T /\ \A y \in T : Max(T) >= y
  BY <1>3, Zenon DEF Max
<1>5. NextId(k) = 1 + Max(T)
  BY Zenon DEF NextId, T
<1>6. Max(T) \in Nat /\ Max(T) <= born + 1 /\ \A r \in db[k] : r.id \in Nat /\ r.id <= Max(T)
  BY <1>1, <1>2, <1>4, Zenon
<1> QED
  BY <1>1, <1>5, <1>6

-----------------------------------------------------------------------------
(***************************************************************************)
(* The steps of destroying a queue, an exchange or a configuration.        *)
(***************************************************************************)
LEMMA DestroySteps ==
    /\ RegistryInv
    /\ \E t \in Threads :
           \/ \E q \in Queues : DestroyQueue(t, q)
           \/ \E x \in Exchanges : DestroyExchange(t, x)
           \/ \E g \in Configs : DestroyConfig(t, g)
           \/ DeleteBindingsForQueue(t) \/ DeleteBindingsOfExchange(t) \/ DeleteJournal(t)
           \/ \E k \in 0..(Files - 1) : DeleteShard(t, k)
    => RegistryInv'
<1>DeleteBindingsForQueueStep.
    ASSUME RegistryInv, NEW t \in Threads, DeleteBindingsForQueue(t)
    PROVE  RegistryInv'
  <2> USE <1>DeleteBindingsForQueueStep
  <2> DEFINE q == call[t].name
  <2>1. /\ stage = "up" /\ stage' = "up" /\ UNCHANGED stage /\ UNCHANGED plugin /\ UNCHANGED crashes
        /\ q \in Queues /\ Goes(t, "destroy", 1, 2) /\ call[t].op = "destroy"
        /\ UNCHANGED <<db, dir, rows, log, seq, obj, journals, tasks, sent, bound, recovered, marks, born, fails>>
    BY Zenon DEF DeleteBindingsForQueue, Up, plugin, Goes, history
  <2>2. bindingDb' = {b \in bindingDb : b.q # obj[q].id}
    BY Zenon DEF DeleteBindingsForQueue
  <2>3. SameCalls /\ CallsOwn' /\ call' \in [Threads -> Calls] /\ Recoverable'
    <3>1. 2 \in 2..(2 + Files)
      BY RegistryAssumptions
    <3> QED
      BY <2>1, <3>1, GoesSame, Zenon DEF RegistryInv
  <2>4. Kind(q) = "queue" /\ \A r \in db["queue"] : r.id # obj[q].id
    BY <2>1, DestroyedGone, Zenon DEF Kind
  <2>5. BindingsExact'
    <3>1. BindingsExact
      BY Zenon DEF RegistryInv
    <3> QED
      BY <2>1, <2>2, <2>4, <3>1, Zenon DEF BindingsExact
  <2>6. BindingIds'
    <3>1. BindingIds
      BY Zenon DEF RegistryInv
    <3> QED
      BY <2>1, <2>2, <3>1, Zenon DEF BindingIds
  <2>7. TypeOK'
    <3>1. TypeOK
      BY Zenon DEF RegistryInv
    <3> QED
      BY <2>1, <2>2, <2>3, <3>1, Zenon DEF TypeOK, plugin, PluginTypeOK
  <2> QED
    BY <2>1, <2>3, <2>5, <2>6, <2>7, Frame, Zenon DEF RegistryInv

<1>DeleteBindingsOfExchangeStep.
    ASSUME RegistryInv, NEW t \in Threads, DeleteBindingsOfExchange(t)
    PROVE  RegistryInv'
  <2> USE <1>DeleteBindingsOfExchangeStep
  <2>0. PICK x : x = call[t].name
    BY Zenon
  <2>1. /\ stage = "up" /\ stage' = "up" /\ UNCHANGED stage /\ UNCHANGED plugin /\ UNCHANGED crashes
        /\ x \in Exchanges /\ Ends(t, "destroy", 1) /\ call[t].op = "destroy"
        /\ UNCHANGED <<db, dir, rows, log, seq, journals, tasks, sent, bound, recovered, marks, born, fails>>
    BY <2>0, Zenon DEF DeleteBindingsOfExchange, Up, plugin, Ends, history
  <2>2. /\ bindingDb' = {b \in bindingDb : b.x # obj[x].id}
        /\ obj' = [obj EXCEPT ![x] = Absent]
    BY <2>0, Zenon DEF DeleteBindingsOfExchange
  <2>3. TypeOK /\ CallsOwn /\ ObjectsMatch /\ RowsUnique
    BY Zenon DEF RegistryInv
  <2>4. /\ CallsOwn' /\ call' \in [Threads -> Calls] /\ SameOtherCalls(x)
        /\ ~ Creating(x)' /\ ~ Destroying(x)' /\ call'[t] = Idle
        /\ \A u \in Threads : u # t => call'[u] = call[u]
    <3>1. CallEnds(t, x)
      BY <2>0, <2>1, <2>3, EndsAlone, Zenon
    <3> QED
      BY <3>1, Zenon DEF CallEnds
  <2>5. x \in Objects /\ x \notin Queues /\ Kind(x) = "exchange" /\ \A r \in db["exchange"] : r.id # obj[x].id
    BY <2>0, <2>1, <2>3, DestroyedGone, QueueNames, Zenon
  <2>6. \A n \in Objects : n # x => obj'[n] = obj[n]
    BY <2>2, <2>3, Zenon DEF TypeOK
  <2>7. obj'[x] = Absent
    BY <2>2, <2>3, <2>5, Zenon DEF TypeOK
  <2>8. ObjectsMatch'
    <3>1. ASSUME NEW n \in Objects PROVE Match(n)'
      <4>1. CASE n = x
        BY <2>4, <2>7, <4>1, AbsentMatch, Zenon
      <4>2. CASE n # x
        BY <2>1, <2>3, <2>4, <2>5, <2>6, <4>2, OthersMatch, Zenon
      <4> QED
        BY <4>1, <4>2, Zenon
    <3> QED
      BY <3>1, Zenon DEF ObjectsMatch
  <2>9. /\ Leftovers' /\ JournalsMatch' /\ SentToLast' /\ Owned' /\ MessagesKept'
        /\ NoForeignMessage' /\ Recoverable'
    <3>1. \A n \in Queues : /\ obj'[n] = obj[n]
                           /\ (Creating(n)' <=> Creating(n)) /\ (Destroying(n)' <=> Destroying(n))
      BY <2>4, <2>5, <2>6, Zenon DEF SameOtherCalls, Objects
    <3>2. \A u \in Threads : call[u].op = "create" => call'[u] = call[u]
      BY <2>1, <2>4, Zenon
    <3>3. SameQueues
      <4>1. (Known("queue")' <=> Known("queue")) /\ born' \in Nat /\ born' >= born
        BY <2>1, <2>3, BornNatural, Zenon DEF Known
      <4> QED
        BY <2>1, <3>1, <4>1, Zenon DEF SameQueues
    <3> QED
      BY <3>2, <3>3, QueuesApart, Zenon
  <2>10. BindingsExact'
    <3>1. BindingsExact
      BY Zenon DEF RegistryInv
    <3>2. ASSUME NEW e \in db["exchange"], NEW i, NEW key
          PROVE  [x |-> e.id, q |-> i, key |-> key] \in bindingDb'
                  <=> [x |-> e.id, q |-> i, key |-> key] \in bindingDb
      BY <2>2, <2>5, Zenon
    <3> QED
      BY <2>1, <3>1, <3>2, Zenon DEF BindingsExact
  <2>11. BindingIds'
    <3>1. BindingIds
      BY Zenon DEF RegistryInv
    <3> QED
      BY <2>1, <2>2, <3>1, Zenon DEF BindingIds
  <2>12. TypeOK'
    <3>1. obj' \in [Objects -> [id : Nat, inc : 0..MaxInc]]
      <4>1. Absent \in [id : Nat, inc : 0..MaxInc]
        BY AbsentFields, Zenon
      <4> QED
        BY <2>2, <2>3, <4>1, Zenon DEF TypeOK
    <3> QED
      BY <2>1, <2>2, <2>3, <2>4, <3>1, Zenon DEF TypeOK, plugin, PluginTypeOK
  <2> QED
    BY <2>1, <2>4, <2>8, <2>9, <2>10, <2>11, <2>12, Frame, Zenon DEF RegistryInv

(***************************************************************************)
(* destroy(db, p) deletes the row of its object and no other.              *)
(***************************************************************************)
<1>DelRowEffect.
    ASSUME RegistryInv, NEW n \in Objects, obj[n] # Absent, ~ Destroying(n), DelRow(n),
           UNCHANGED <<stage, seq, born>>
    PROVE  /\ db' \in [Kinds -> SUBSET Rows] /\ RowsUnique'
           /\ \A k \in Kinds : db'[k] \subseteq db[k] /\ (k # Kind(n) => db'[k] = db[k])
           /\ \A r \in db[Kind(n)] : r \in db'[Kind(n)] <=> r.id # obj[n].id
           /\ \A r \in db[Kind(n)] : r.id = obj[n].id => r.name = n /\ r.inc = obj[n].inc
           /\ UNCHANGED <<bindingDb, bound>> => BindingsExact'
  <2> USE <1>DelRowEffect
  <2>1. TypeOK /\ RowsUnique /\ ObjectsMatch /\ BindingsExact /\ Kind(n) \in Kinds
    BY Zenon DEF RegistryInv, Kind, Kinds
  <2>2. \A k \in Kinds : db'[k] = IF k = Kind(n) THEN {r \in db[k] : r.id # obj[n].id} ELSE db[k]
    BY <2>1, Zenon DEF DelRow, TypeOK
  <2>3. db' \in [Kinds -> SUBSET Rows]
    BY <2>1, Zenon DEF DelRow, TypeOK
  <2>4. \A k \in Kinds : db'[k] \subseteq db[k] /\ (k # Kind(n) => db'[k] = db[k])
    BY <2>2, Zenon
  <2>5. RowsUnique'
    BY <2>1, <2>4, Zenon DEF RowsUnique, Known
  <2>6. \A r \in db[Kind(n)] : r \in db'[Kind(n)] <=> r.id # obj[n].id
    BY <2>1, <2>2, Zenon
  <2>7. \A r \in db[Kind(n)] : r.id = obj[n].id => r.name = n /\ r.inc = obj[n].inc
    BY <2>1, Zenon DEF ObjectsMatch, Match
  <2>8. UNCHANGED <<bindingDb, bound>> => BindingsExact'
    BY <2>1, <2>4, Zenon DEF BindingsExact, Kinds
  <2> QED
    BY <2>3, <2>4, <2>5, <2>6, <2>7, <2>8, Zenon

<1>DelRowObjects.
    ASSUME RegistryInv, NEW n \in Objects, obj[n] # Absent, ~ Destroying(n), DelRow(n),
           UNCHANGED <<stage, seq, born>>, SameOtherCalls(n), ~ Creating(n)',
           \A p \in Objects : p # n => obj'[p] = obj[p],
           \/ obj'[n] = Absent /\ ~ Destroying(n)'
           \/ obj'[n] = obj[n] /\ Destroying(n)'
    PROVE  ObjectsMatch'
  <2> USE <1>DelRowObjects
  <2>1. /\ \A k \in Kinds : db'[k] \subseteq db[k] /\ (k # Kind(n) => db'[k] = db[k])
        /\ \A r \in db[Kind(n)] : r \in db'[Kind(n)] <=> r.id # obj[n].id
        /\ \A r \in db[Kind(n)] : r.id = obj[n].id => r.name = n /\ r.inc = obj[n].inc
    BY <1>DelRowEffect, Zenon
  <2>2. ObjectsMatch /\ \A p \in Objects : Kind(p) \in Kinds
    BY Zenon DEF RegistryInv, Kind, Kinds
  <2>3. \A p \in Objects : Known(Kind(p))' <=> Known(Kind(p))
    BY Zenon DEF Known
  <2>4. \A p \in Objects : db'[Kind(p)] \subseteq db[Kind(p)]
    BY <2>1, <2>2, Zenon
  <2>5. ASSUME NEW p \in Objects, p # n, obj[p] # Absent
        PROVE  /\ obj[p].id \in 1..(seq'[Kind(p)] - 1) /\ obj[p].inc \in 1..born'
               /\ \A r \in db[Kind(p)] : r \in db'[Kind(p)] \/ r.id # obj[p].id
    <3>1. Match(p) /\ Kind(p) \in Kinds
      BY <2>2, Zenon DEF ObjectsMatch
    <3>2. obj[p].id \in 1..(seq'[Kind(p)] - 1) /\ obj[p].inc \in 1..born'
      BY <2>5, <3>1, Zenon DEF Match
    <3>3. ASSUME NEW r \in db[Kind(p)], r \notin db'[Kind(p)] PROVE r.id # obj[p].id
      <4>1. Kind(p) = Kind(n)
        BY <2>1, <3>1, <3>3, Zenon
      <4>2. r.name = n
        BY <2>1, <3>3, <4>1, Zenon
      <4>3. r.id = obj[p].id => r.name = p
        BY <2>5, <3>1, Zenon DEF Match
      <4> QED
        BY <2>5, <4>2, <4>3, Zenon
    <3> QED
      BY <3>2, <3>3, Zenon
  <2>6. ASSUME NEW p \in Objects, p # n, NEW r \in db["queue"], r.name = p
        PROVE  r \in db'["queue"]
    <3>1. "queue" \in Kinds
      BY Zenon DEF Kinds
    <3> QED
      BY <2>1, <2>6, <3>1, Zenon
  <2>7. \A r \in db'[Kind(n)] : r.id # obj[n].id
    BY <2>1, <2>2, Zenon
  <2>8. ASSUME NEW p \in Objects, p # n
        PROVE  /\ obj'[p] = obj[p] /\ (Creating(p)' <=> Creating(p)) /\ (Destroying(p)' <=> Destroying(p))
    BY <2>8, Zenon DEF SameOtherCalls
  <2>9. Match(n)'
    <3>1. CASE obj'[n] = Absent /\ ~ Destroying(n)'
      BY <3>1, AbsentMatch, Zenon
    <3>2. CASE obj'[n] = obj[n] /\ Destroying(n)'
      <4>1. Match(n) /\ Known(Kind(n))'
        BY <2>2, <2>3, Zenon DEF ObjectsMatch, Match
      <4>2. /\ obj'[n].id \in 1..(seq'[Kind(n)] - 1) /\ obj'[n].inc \in 1..born'
            /\ \A r \in db'[Kind(n)] : r.id = obj'[n].id <=> r.inc = obj'[n].inc
        BY <2>2, <2>4, <3>2, <4>1, Zenon DEF Match
      <4> QED
        BY <2>7, <3>2, <4>1, <4>2, Zenon DEF Match
    <3> QED
      BY <3>1, <3>2, Zenon
  <2>10. ASSUME NEW p \in Objects, p # n PROVE Match(p)'
    <3>1. Match(p) /\ (Known(Kind(p)) => Known(Kind(p))') /\ db'[Kind(p)] \subseteq db[Kind(p)]
      BY <2>2, <2>3, <2>4, Zenon DEF ObjectsMatch
    <3> QED
      BY <2>5, <2>6, <2>8, <2>10, <3>1, MatchKept, Zenon
  <2> QED
    BY <2>9, <2>10, Zenon DEF ObjectsMatch

<1>DestroyConfigStep.
    ASSUME RegistryInv, NEW t \in Threads, NEW g \in Configs, DestroyConfig(t, g)
    PROVE  RegistryInv'
  <2> USE <1>DestroyConfigStep
  <2>1. /\ stage = "up" /\ stage' = "up" /\ UNCHANGED stage /\ UNCHANGED plugin /\ UNCHANGED crashes
        /\ UNCHANGED call /\ UNCHANGED <<bindingDb, bound>>
        /\ UNCHANGED <<bindingDb, dir, rows, log, seq, journals, call, tasks, sent, bound, recovered,
                       marks, born, fails>>
        /\ DelRow(g) /\ obj[g] # Absent /\ ~ Busy(g) /\ obj' = [obj EXCEPT ![g] = Absent]
    BY Zenon DEF DestroyConfig, Created, Up, plugin, history
  <2>2. TypeOK /\ CallsOwn /\ ObjectsMatch /\ RowsUnique
    BY Zenon DEF RegistryInv
  <2>3. g \in Objects /\ Kind(g) = "general" /\ g \notin Queues /\ Kind(g) \in Kinds
    BY <2>2, QueueNames, Zenon DEF Kinds
  <2>4. ~ Destroying(g) /\ ~ Creating(g)
    BY <2>1, Zenon DEF Busy, Destroying, Creating
  <2>5. /\ db' \in [Kinds -> SUBSET Rows] /\ RowsUnique' /\ BindingsExact'
        /\ \A k \in Kinds : db'[k] \subseteq db[k] /\ (k # "general" => db'[k] = db[k])
        /\ \A r \in db["general"] : r \in db'["general"] <=> r.id # obj[g].id
        /\ \A r \in db["general"] : r.id = obj[g].id => r.name = g /\ r.inc = obj[g].inc
    <3>1. /\ db' \in [Kinds -> SUBSET Rows] /\ RowsUnique' /\ BindingsExact'
          /\ \A k \in Kinds : db'[k] \subseteq db[k] /\ (k # Kind(g) => db'[k] = db[k])
          /\ \A r \in db[Kind(g)] : r \in db'[Kind(g)] <=> r.id # obj[g].id
          /\ \A r \in db[Kind(g)] : r.id = obj[g].id => r.name = g /\ r.inc = obj[g].inc
      BY <2>1, <2>3, <2>4, <1>DelRowEffect, Zenon
    <3> QED
      BY <2>3, <3>1, Zenon
  <2>6. obj'[g] = Absent /\ \A n \in Objects : n # g => obj'[n] = obj[n]
    BY <2>1, <2>2, <2>3, Zenon DEF TypeOK
  <2>7. SameCalls /\ CallsOwn'
    BY <2>1, Frame, Zenon
  <2>8. ObjectsMatch'
    <3>1. SameOtherCalls(g) /\ ~ Creating(g)' /\ ~ Destroying(g)'
      BY <2>3, <2>4, <2>7, Zenon DEF SameCalls, SameOtherCalls
    <3> QED
      BY <2>1, <2>3, <2>4, <2>6, <3>1, <1>DelRowObjects, Zenon
  <2>9. /\ Leftovers' /\ JournalsMatch' /\ SentToLast' /\ Owned' /\ MessagesKept'
        /\ NoForeignMessage' /\ Recoverable'
    <3>1. \A n \in Queues : /\ obj'[n] = obj[n]
                           /\ (Creating(n)' <=> Creating(n)) /\ (Destroying(n)' <=> Destroying(n))
      BY <2>3, <2>6, <2>7, Zenon DEF SameCalls, Objects
    <3>2. SameQueues
      <4>1. (Known("queue")' <=> Known("queue")) /\ born' \in Nat /\ born' >= born
        BY <2>1, <2>2, BornNatural, Zenon DEF Known
      <4>2. db'["queue"] = db["queue"]
        BY <2>5, Zenon DEF Kinds
      <4> QED
        BY <2>1, <3>1, <4>1, <4>2, Zenon DEF SameQueues
    <3>3. \A u \in Threads : call[u].op = "create" => call'[u] = call[u]
      BY <2>1, Zenon
    <3> QED
      BY <3>2, <3>3, QueuesApart, Zenon
  <2>10. TypeOK'
    <3>1. obj' \in [Objects -> [id : Nat, inc : 0..MaxInc]]
      <4>1. Absent \in [id : Nat, inc : 0..MaxInc]
        BY AbsentFields, Zenon
      <4> QED
        BY <2>1, <2>2, <4>1, Zenon DEF TypeOK
    <3> QED
      BY <2>1, <2>2, <2>5, <3>1, Zenon DEF TypeOK, plugin, PluginTypeOK
  <2> QED
    BY <2>1, <2>5, <2>7, <2>8, <2>9, <2>10, Frame, Zenon DEF RegistryInv

<1>DestroyExchangeStep.
    ASSUME RegistryInv, NEW t \in Threads, NEW x \in Exchanges, DestroyExchange(t, x)
    PROVE  RegistryInv'
  <2> USE <1>DestroyExchangeStep
  <2>1. /\ stage = "up" /\ stage' = "up" /\ UNCHANGED stage /\ UNCHANGED plugin /\ UNCHANGED crashes
        /\ UNCHANGED <<bindingDb, bound>> /\ UNCHANGED <<bindingDb, bound, seq, born>>
        /\ UNCHANGED <<bindingDb, dir, rows, log, seq, obj, journals, tasks, sent, bound, recovered,
                       marks, born, fails>>
        /\ DelRow(x) /\ obj[x] # Absent /\ ~ Busy(x)
        /\ Starts(t, [op |-> "destroy", name |-> x, step |-> 1])
    BY Zenon DEF DestroyExchange, Created, Up, plugin, history
  <2>2. TypeOK /\ CallsOwn /\ ObjectsMatch /\ RowsUnique
    BY Zenon DEF RegistryInv
  <2>3. x \in Objects /\ Kind(x) = "exchange" /\ x \notin Queues
    BY <2>2, QueueNames, Zenon
  <2>4. /\ CallsOwn' /\ call' \in [Threads -> Calls] /\ SameOtherCalls(x)
        /\ ~ Creating(x) /\ ~ Destroying(x) /\ ~ Creating(x)' /\ Destroying(x)'
        /\ \A u \in Threads : u # t => call'[u] = call[u]
        /\ call[t] = Idle
    BY <2>1, <2>2, <2>3, StartsAlone, Zenon
  <2>5. /\ db' \in [Kinds -> SUBSET Rows] /\ RowsUnique' /\ BindingsExact'
        /\ \A k \in Kinds : db'[k] \subseteq db[k] /\ (k # "exchange" => db'[k] = db[k])
    <3>1. /\ db' \in [Kinds -> SUBSET Rows] /\ RowsUnique' /\ BindingsExact'
          /\ \A k \in Kinds : db'[k] \subseteq db[k] /\ (k # Kind(x) => db'[k] = db[k])
      BY <2>1, <2>3, <2>4, <1>DelRowEffect, Zenon
    <3> QED
      BY <2>3, <3>1, Zenon
  <2>6. ObjectsMatch'
    BY <2>1, <2>3, <2>4, <1>DelRowObjects, Zenon
  <2>7. /\ Leftovers' /\ JournalsMatch' /\ SentToLast' /\ Owned' /\ MessagesKept'
        /\ NoForeignMessage' /\ Recoverable'
    <3>1. \A n \in Queues : /\ obj'[n] = obj[n]
                           /\ (Creating(n)' <=> Creating(n)) /\ (Destroying(n)' <=> Destroying(n))
      BY <2>1, <2>3, <2>4, Zenon DEF SameOtherCalls, Objects
    <3>2. SameQueues
      <4>1. (Known("queue")' <=> Known("queue")) /\ born' \in Nat /\ born' >= born
        BY <2>1, <2>2, BornNatural, Zenon DEF Known
      <4>2. db'["queue"] = db["queue"]
        BY <2>5, Zenon DEF Kinds
      <4> QED
        BY <2>1, <3>1, <4>1, <4>2, Zenon DEF SameQueues
    <3>3. \A u \in Threads : call[u].op = "create" => call'[u] = call[u]
      BY <2>4, IdleFields, Zenon
    <3> QED
      BY <3>2, <3>3, QueuesApart, Zenon
  <2>8. TypeOK'
    BY <2>1, <2>2, <2>4, <2>5, Zenon DEF TypeOK, plugin, PluginTypeOK
  <2> QED
    BY <2>1, <2>4, <2>5, <2>6, <2>7, <2>8, Frame, Zenon DEF RegistryInv

<1>DestroyQueueStep.
    ASSUME RegistryInv, NEW t \in Threads, NEW q \in Queues, DestroyQueue(t, q)
    PROVE  RegistryInv'
  <2> USE <1>DestroyQueueStep
  <2>1. /\ stage = "up" /\ stage' = "up" /\ UNCHANGED stage /\ UNCHANGED plugin /\ UNCHANGED crashes
        /\ UNCHANGED <<bindingDb, bound>> /\ UNCHANGED <<bindingDb, bound, seq, born>>
        /\ UNCHANGED <<bindingDb, dir, rows, log, seq, obj, journals, tasks, sent, bound, recovered,
                       born, fails>>
        /\ DelRow(q) /\ obj[q] # Absent /\ ~ Busy(q)
        /\ Starts(t, [op |-> "destroy", name |-> q, step |-> 1])
    BY Zenon DEF DestroyQueue, Created, Up, plugin
  <2>2. TypeOK /\ CallsOwn /\ ObjectsMatch /\ RowsUnique
    BY Zenon DEF RegistryInv
  <2>3. q \in Objects /\ Kind(q) = "queue" /\ "queue" \in Kinds
    BY <2>2, QueueNames, Zenon DEF Kinds
  <2>4. /\ CallsOwn' /\ call' \in [Threads -> Calls] /\ SameOtherCalls(q)
        /\ ~ Creating(q) /\ ~ Destroying(q) /\ ~ Creating(q)' /\ Destroying(q)'
        /\ \A u \in Threads : u # t => call'[u] = call[u]
        /\ call[t] = Idle
    BY <2>1, <2>2, <2>3, StartsAlone, Zenon
  <2>5. /\ db' \in [Kinds -> SUBSET Rows] /\ RowsUnique' /\ BindingsExact'
        /\ db'["queue"] \subseteq db["queue"]
        /\ \A r \in db["queue"] : r \in db'["queue"] <=> r.id # obj[q].id
        /\ \A r \in db["queue"] : r.id = obj[q].id => r.name = q /\ r.inc = obj[q].inc
    BY <2>1, <2>3, <2>4, <1>DelRowEffect, Zenon
  <2>6. ObjectsMatch'
    BY <2>1, <2>3, <2>4, <1>DelRowObjects, Zenon
  <2>7. /\ marks'.tainted = marks.tainted /\ marks'.interrupted = marks.interrupted
        /\ marks'.halfDestroyed = marks.halfDestroyed
        /\ marks'.pendingAtDestroy = marks.pendingAtDestroy
              \union {e.m : e \in {x \in log : x.id = obj[q].id}}
        /\ marks' \in [interrupted : SUBSET (1..MaxInc), halfDestroyed : SUBSET (1..MaxInc),
                       pendingAtDestroy : SUBSET Msgs, tainted : SUBSET Queues]
    <3>1. {e.m : e \in {x \in log : x.id = obj[q].id}} \subseteq Msgs
      BY <2>2 DEF TypeOK
    <3> QED
      BY <2>2, <3>1, Zenon DEF DestroyQueue, TypeOK
  <2>8. \A r \in db["queue"] : r.name \in Queues /\ r.name \in Objects
    BY <2>2, QueueNames, Zenon
  <2>9. \A n \in Objects : n # q => (Creating(n)' <=> Creating(n)) /\ (Destroying(n)' <=> Destroying(n))
    BY <2>4, Zenon DEF SameOtherCalls
  <2>10. Leftovers'
    <3>1. Leftovers
      BY Zenon DEF RegistryInv
    <3>2. ASSUME NEW r \in db'["queue"], Known("queue")
          PROVE  obj[r.name].inc = r.inc \/ Creating(r.name)' \/ r.name \in marks.tainted
      BY <2>4, <2>5, <2>8, <2>9, <3>1, <3>2, Zenon DEF Leftovers
    <3> QED
      BY <2>1, <2>5, <2>7, <3>1, <3>2, Zenon DEF Leftovers, Known
  <2>11. SentToLast'
    <3>1. SentToLast
      BY Zenon DEF RegistryInv
    <3> QED
      BY <2>1, <2>5, <3>1, Zenon DEF SentToLast, Known
  <2>12. Owned'
    <3>1. Owned /\ \A m : Marked(m) => Marked(m)'
      BY <2>1, <2>7, Zenon DEF RegistryInv, Marked
    <3>2. ASSUME NEW n \in Queues, NEW m \in rows[n]
          PROVE  \/ Marked(m)'
                 \/ \E r \in db'["queue"] : r.name = n /\ r.inc = sent[m]
                 \/ Destroying(n)' /\ obj[n].inc = sent[m]
      <4>1. /\ n \in Objects
            /\ \/ Marked(m) \/ \E r \in db["queue"] : r.name = n /\ r.inc = sent[m]
               \/ Destroying(n) /\ obj[n].inc = sent[m]
        BY <3>1, Zenon DEF Objects, Owned
      <4>2. Destroying(n) => Destroying(n)'
        BY <2>4, <2>9, <4>1, Zenon
      <4>3. ASSUME NEW r \in db["queue"], r.name = n, r.inc = sent[m], r.id = obj[q].id
            PROVE  Destroying(n)' /\ obj[n].inc = sent[m]
        <5>1. n = q
          BY <2>5, <4>3, Zenon
        <5> QED
          BY <2>4, <2>5, <4>3, <5>1, Zenon
      <4> QED
        BY <2>5, <3>1, <4>1, <4>2, <4>3, Zenon
    <3>3. ASSUME NEW e \in log
          PROVE  Marked(e.m)' \/ \E r \in db'["queue"] : r.id = e.id /\ r.inc = sent[e.m]
      <4>1. e.id = obj[q].id => Marked(e.m)'
        BY <2>7, Zenon DEF Marked
      <4> QED
        BY <2>5, <3>1, <4>1, Zenon DEF Owned
    <3>4. ASSUME NEW task \in tasks
          PROVE  /\ task.id < seq["queue"]
                 /\ \A r \in db'["queue"] : r.id = task.id =>
                     r.name = task.name /\ (Marked(task.m)' \/ r.inc = sent[task.m])
                 /\ obj[task.name].id = task.id => Marked(task.m)' \/ obj[task.name].inc = sent[task.m]
      BY <2>5, <3>1, Zenon DEF Owned
    <3> QED
      BY <2>1, <3>2, <3>3, <3>4, Zenon DEF Owned
  <2>13. NoForeignMessage' /\ MessagesKept' /\ Recoverable'
    <3>1. NoForeignMessage /\ MessagesKept /\ Recoverable
      BY Zenon DEF RegistryInv
    <3>2. NoForeignMessage' /\ MessagesKept'
      BY <2>1, <2>5, <2>7, <3>1, Zenon DEF NoForeignMessage, MessagesKept
    <3>3. \A u \in Threads : call[u].op = "create" => call'[u] = call[u]
      BY <2>4, IdleFields, Zenon
    <3> QED
      BY <2>1, <2>5, <2>7, <3>1, <3>2, <3>3, RecoverableFrame, Zenon
  <2>14. TypeOK'
    BY <2>1, <2>2, <2>4, <2>5, <2>7, Zenon DEF TypeOK, plugin, PluginTypeOK
  <2> QED
    BY <2>1, <2>4, <2>5, <2>6, <2>10, <2>11, <2>12, <2>13, <2>14, Frame, Zenon DEF RegistryInv

<1>DeleteShardStep.
    ASSUME RegistryInv, NEW t \in Threads, NEW k \in 0..(Files - 1), DeleteShard(t, k)
    PROVE  RegistryInv'
  <2> USE <1>DeleteShardStep
  <2>0. PICK n : n = call[t].name
    BY Zenon
  <2>1. /\ stage = "up" /\ stage' = "up" /\ UNCHANGED stage /\ UNCHANGED plugin /\ UNCHANGED crashes
        /\ n \in Queues /\ Goes(t, "destroy", 2 + k, 3 + k) /\ call[t].op = "destroy"
        /\ UNCHANGED <<db, bindingDb, dir, log, seq, obj, journals, tasks, sent, bound, recovered,
                       marks, born, fails>>
        /\ rows' = [rows EXCEPT ![n] = {m \in @ : Shard[m] # k}]
    BY <2>0, Zenon DEF DeleteShard, Up, plugin, Goes, history
  <2>2. TypeOK /\ CallsOwn /\ Recoverable /\ SentToLast /\ MessagesKept /\ Owned /\ RowsUnique
    BY Zenon DEF RegistryInv
  <2>3. SameCalls /\ CallsOwn' /\ call' \in [Threads -> Calls] /\ Recoverable'
    <3>1. 3 + k \in 2..(2 + Files)
      BY RegistryAssumptions
    <3> QED
      BY <2>1, <2>2, <3>1, GoesSame, Zenon
  <2>4. /\ rows' \in [Queues -> SUBSET Msgs] /\ \A p \in Queues : rows'[p] \subseteq rows[p]
        /\ \A p \in Queues : p # n => rows'[p] = rows[p]
    BY <2>1, <2>2, Zenon DEF TypeOK
  <2>5. \A r \in db["queue"] : r.inc # obj[n].inc /\ r.name \in Queues
    BY <2>0, <2>1, <2>2, DestroyedGone, QueueNames, Zenon
  <2>6. MessagesKept'
    <3>1. \A r \in db["queue"], m \in Msgs : sent[m] = r.inc => r.name # n
      BY <2>1, <2>2, <2>5, Zenon DEF SentToLast, Known
    <3> QED
      <4>1. ASSUME NEW r \in db["queue"], NEW m \in Msgs, sent[m] = r.inc
            PROVE  m \in rows'[r.name] \/ [m |-> m, id |-> r.id] \in log
        <5>1. rows'[r.name] = rows[r.name]
          BY <2>4, <2>5, <3>1, <4>1, Zenon
        <5> QED
          BY <2>2, <4>1, <5>1, Zenon DEF MessagesKept
      <4> QED
        BY <2>1, <4>1, Zenon DEF MessagesKept
  <2>7. Owned'
    <3>1. \A p \in Queues : Destroying(p)' <=> Destroying(p)
      BY <2>3, Zenon DEF SameCalls, Objects
    <3> QED
      <4>1. \A m : Marked(m)' <=> Marked(m)
        BY <2>1, Zenon DEF Marked
      <4>2. \A p \in Queues : \A m \in rows'[p] :
              \/ Marked(m)
              \/ \E r \in db["queue"] : r.name = p /\ r.inc = sent[m]
              \/ Destroying(p)' /\ obj[p].inc = sent[m]
        BY <2>2, <2>4, <3>1, Zenon DEF Owned
      <4> QED
        BY <2>1, <2>2, <4>1, <4>2, Zenon DEF Owned
  <2>8. TypeOK'
    BY <2>1, <2>2, <2>3, <2>4, Zenon DEF TypeOK, plugin, PluginTypeOK
  <2> QED
    BY <2>1, <2>3, <2>6, <2>7, <2>8, Frame, Zenon DEF RegistryInv

<1>DeleteJournalStep.
    ASSUME RegistryInv, NEW t \in Threads, DeleteJournal(t)
    PROVE  RegistryInv'
  <2> USE <1>DeleteJournalStep
  <2>0. PICK n : n = call[t].name
    BY Zenon
  <2>1. /\ stage = "up" /\ stage' = "up" /\ UNCHANGED stage /\ UNCHANGED plugin /\ UNCHANGED crashes
        /\ n \in Queues /\ Ends(t, "destroy", 2 + Files) /\ call[t].op = "destroy"
        /\ UNCHANGED <<db, bindingDb, log, seq, tasks, sent, bound, recovered, marks, born, fails>>
    BY <2>0, Zenon DEF DeleteJournal, Up, plugin, Ends, history
  <2>2. TypeOK /\ CallsOwn /\ ObjectsMatch /\ RowsUnique
    BY Zenon DEF RegistryInv
  <2>3. /\ CallsOwn' /\ call' \in [Threads -> Calls] /\ SameOtherCalls(n) /\ n \in Objects
        /\ ~ Creating(n) /\ Destroying(n) /\ ~ Creating(n)' /\ ~ Destroying(n)'
        /\ \A u \in Threads : u # t => call'[u] = call[u] /\ call[u].name # n
    <3>1. CallEnds(t, n) /\ n \in Objects /\ ~ Creating(n) /\ Destroying(n)
      BY <2>0, <2>1, <2>2, EndsAlone, Zenon
    <3> QED
      BY <3>1, Zenon DEF CallEnds
  <2>4. /\ dir' = dir \ {n} /\ journals' = {j \in journals : j.id # obj[n].id}
        /\ rows' \in [Queues -> SUBSET Msgs] /\ rows'[n] = {} /\ \A p \in Queues : p # n => rows'[p] = rows[p]
    BY <2>0, <2>1, <2>2, Zenon DEF DeleteJournal, Unlisted, TypeOK
  <2>5. /\ obj'[n] = Absent /\ \A p \in Objects : p # n => obj'[p] = obj[p]
        /\ obj' \in [Objects -> [id : Nat, inc : 0..MaxInc]]
    <3>1. Absent \in [id : Nat, inc : 0..MaxInc]
      BY AbsentFields, Zenon
    <3> QED
      BY <2>0, <2>2, <2>3, <3>1, Zenon DEF DeleteJournal, TypeOK
  <2>6. \A p \in Objects : p # n => (Creating(p)' <=> Creating(p)) /\ (Destroying(p)' <=> Destroying(p))
    BY <2>3, Zenon DEF SameOtherCalls
  <2>7. /\ \A r \in db["queue"] : r.inc # obj[n].inc /\ r.name \in Queues /\ r.name \in Objects
        /\ Known("queue") /\ Known("queue")'
    BY <2>0, <2>1, <2>2, DestroyedGone, QueueNames, Zenon DEF Known
  <2>8. \A r \in db["queue"] : r.name = n => n \in marks.tainted /\ \A m \in Msgs : sent[m] # r.inc
    BY <2>3, <2>7, Zenon DEF RegistryInv, Leftovers, SentToLast
  <2>9. ObjectsMatch'
    <3>1. ASSUME NEW p \in Objects PROVE Match(p)'
      <4>1. CASE p = n
        BY <2>3, <2>5, <4>1, AbsentMatch, Zenon
      <4>2. CASE p # n
        BY <2>1, <2>2, <2>3, <2>5, <4>2, OthersMatch, Zenon
      <4> QED
        BY <4>1, <4>2, Zenon
    <3> QED
      BY <3>1, Zenon DEF ObjectsMatch
  <2>10. Leftovers' /\ SentToLast' /\ Recoverable' /\ MessagesKept'
    <3>1. Leftovers /\ SentToLast /\ Recoverable /\ MessagesKept
      BY Zenon DEF RegistryInv
    <3>2. Leftovers'
      <4>1. \A r \in db["queue"] :
              obj'[r.name].inc = r.inc \/ Creating(r.name)' \/ r.name \in marks.tainted
        BY <2>5, <2>6, <2>7, <2>8, <3>1, Zenon DEF Leftovers
      <4>2. \A p \in Queues : obj'[p] # Absent =>
              \A r \in db["queue"] : r.name = p => r.id <= obj'[p].id
        BY <2>5, <3>1, Zenon DEF Leftovers, Objects
      <4> QED
        BY <2>1, <3>1, <4>1, <4>2, Zenon DEF Leftovers
    <3>3. SentToLast'
      BY <2>1, <2>5, <2>7, <2>8, <3>1, Zenon DEF SentToLast
    <3>4. Recoverable'
      <4>1. \A u \in Threads : call[u].op = "create" => call'[u] = call[u]
        BY <2>1, <2>3, Zenon
      <4>2. ASSUME NEW r \in db["queue"], NEW u \in Threads,
                   call[u].op = "create", call[u].step = 1, call[u].name = r.name
            PROVE  \E v \in Threads : call'[v].op = "create" /\ call'[v].step = 1 /\ call'[v].name = r.name
        BY <4>1, <4>2, Zenon
      <4>3. ASSUME NEW r \in db["queue"], r.name # n, r.name \notin marks.tainted
            PROVE  \/ r.name \in dir' \/ r.inc \in marks.interrupted
                   \/ \E v \in Threads : call'[v].op = "create" /\ call'[v].step = 1 /\ call'[v].name = r.name
        BY <2>4, <3>1, <4>2, <4>3, Zenon DEF Recoverable
      <4> QED
        BY <2>1, <2>8, <4>3, Zenon DEF Recoverable
    <3>5. MessagesKept'
      BY <2>1, <2>4, <2>7, <2>8, <3>1, Zenon DEF MessagesKept
    <3> QED
      BY <3>2, <3>3, <3>4, <3>5, Zenon
  <2>11. JournalsMatch'
    <3>1. JournalsMatch /\ \A j \in journals : j.name \in Objects
      BY <2>2, Zenon DEF RegistryInv, TypeOK, Objects
    <3> QED
      BY <2>1, <2>4, <2>5, <2>7, <3>1, Zenon DEF JournalsMatch
  <2>12. Owned'
    <3>1. Owned /\ \A m : Marked(m)' <=> Marked(m)
      BY <2>1, Zenon DEF RegistryInv, Marked
    <3>2. \A p \in Queues : \A m \in rows'[p] :
              \/ Marked(m)
              \/ \E r \in db["queue"] : r.name = p /\ r.inc = sent[m]
              \/ Destroying(p)' /\ obj'[p].inc = sent[m]
      <4>1. ASSUME NEW p \in Queues, NEW m \in rows'[p]
            PROVE  \/ Marked(m)
                   \/ \E r \in db["queue"] : r.name = p /\ r.inc = sent[m]
                   \/ Destroying(p)' /\ obj'[p].inc = sent[m]
        <5>1. p # n /\ p \in Objects /\ m \in rows[p]
          BY <2>4, <4>1, Zenon DEF Objects
        <5>2. obj'[p] = obj[p] /\ (Destroying(p)' <=> Destroying(p))
          BY <2>5, <2>6, <5>1, Zenon
        <5> QED
          BY <3>1, <5>1, <5>2, Zenon DEF Owned
      <4> QED
        BY <4>1, Zenon
    <3>3. ASSUME NEW task \in tasks, obj'[task.name].id = task.id
          PROVE  Marked(task.m) \/ obj'[task.name].inc = sent[task.m]
      <4>1. task.name \in Objects /\ task.id # 0
        BY <2>2, Zenon DEF TypeOK, Objects
      <4>2. task.name # n
        BY <2>5, <3>3, <4>1, AbsentFields, Zenon
      <4> QED
        BY <2>5, <3>1, <3>3, <4>1, <4>2, Zenon DEF Owned
    <3> QED
      BY <2>1, <3>1, <3>2, <3>3, Zenon DEF Owned
  <2>13. TypeOK'
    BY <2>1, <2>2, <2>3, <2>4, <2>5, Zenon DEF TypeOK, plugin, PluginTypeOK
  <2> QED
    BY <2>1, <2>3, <2>9, <2>10, <2>11, <2>12, <2>13, Frame, Zenon DEF RegistryInv

<1> QED
  BY <1>DestroyQueueStep, <1>DestroyExchangeStep, <1>DestroyConfigStep, <1>DeleteBindingsForQueueStep,
     <1>DeleteBindingsOfExchangeStep, <1>DeleteJournalStep, <1>DeleteShardStep, Zenon

-----------------------------------------------------------------------------
(***************************************************************************)
(* The steps of creating a queue, an exchange or a configuration.          *)
(***************************************************************************)
LEMMA CreateSteps ==
    /\ RegistryInv
    /\ \E t \in Threads :
           \/ \E q \in Queues : CreateQueue(t, q)
           \/ \E x \in Exchanges : CreateExchange(t, x)
           \/ \E g \in Configs : CreateConfig(t, g)
           \/ CreateDir(t) \/ OpenJournal(t) \/ CreateFails(t)
    => RegistryInv'
(***************************************************************************)
(* create(db, seq, p) never meets an id that is in use, and the row it     *)
(* puts has an id and an incarnation above all that are known.             *)
(***************************************************************************)
<1>PutRowEffect.
    ASSUME RegistryInv, NEW n \in Objects, stage = "up", UNCHANGED stage, PutRow(n), NEW row,
           row = [id |-> seq[Kind(n)], name |-> n, inc |-> born + 1]
    PROVE  RowPut(n, row)
  <2> USE <1>PutRowEffect
  <2>1. TypeOK /\ RowsUnique /\ BindingIds /\ BindingsExact
    BY Zenon DEF RegistryInv
  <2>2. Kind(n) \in Kinds /\ \A k \in Kinds : Known(k) /\ Known(k)'
    BY Zenon DEF Kind, Kinds, Known
  <2>3. ~ Taken(n)
    <3>1. \A r \in db[Kind(n)] : r.id < seq[Kind(n)] /\ r.id \in Nat
      BY <2>1, <2>2, RowFields, Zenon DEF RowsUnique
    <3>2. seq[Kind(n)] \in Nat
      BY <2>1, <2>2, Zenon DEF TypeOK
    <3>3. ASSUME NEW r \in db[Kind(n)], r.id = seq[Kind(n)] PROVE FALSE
      <4>1. r.id < seq[Kind(n)] /\ r.id \in Nat
        BY <3>1, Zenon
      <4> QED
        BY <3>2, <3>3, <4>1
    <3> QED
      BY <3>3, Zenon DEF Taken
  <2>4. born < MaxInc /\ born' = born + 1 /\ born \in Nat /\ born' \in 1..MaxInc
    <3>1. born < MaxInc /\ born' = born + 1 /\ born \in Nat /\ MaxInc \in Nat
      BY <2>1, BornNatural, Zenon DEF PutRow
    <3> QED
      BY <3>1
  <2>5. row \in Rows /\ row.id = seq[Kind(n)] /\ row.name = n /\ row.inc = born + 1
    BY <2>1, <2>2, <2>4, Zenon DEF Rows, TypeOK
  <2>6. /\ db' = [db EXCEPT ![Kind(n)] = @ \union {row}]
        /\ seq' = [seq EXCEPT ![Kind(n)] = @ + 1]
        /\ UNCHANGED <<bindingDb, dir, rows, log, journals, tasks, sent, bound, recovered, marks, fails>>
    BY <2>3, <2>4, Zenon DEF PutRow, history
  <2>7. /\ db' \in [Kinds -> SUBSET Rows]
        /\ \A k \in Kinds : db'[k] = IF k = Kind(n) THEN db[k] \union {row} ELSE db[k]
    BY <2>1, <2>2, <2>5, <2>6, Zenon DEF TypeOK
  <2>8. /\ seq' \in [Kinds -> Nat \ {0}]
        /\ \A k \in Kinds : seq'[k] = IF k = Kind(n) THEN seq[k] + 1 ELSE seq[k]
    <3>1. \A i \in Nat \ {0} : i + 1 \in Nat \ {0}
      OBVIOUS
    <3> QED
      BY <2>1, <2>2, <2>6, <3>1, Zenon DEF TypeOK
  <2>9. \A r \in db[Kind(n)] : r.id < row.id /\ r.inc < row.inc
    <3>1. \A i \in 1..MaxInc : i <= born => i < born + 1
      BY <2>4
    <3>2. \A r \in db[Kind(n)] : r.id < seq[Kind(n)] /\ r.inc <= born /\ r.inc \in 1..MaxInc
      BY <2>1, <2>2, RowFields, Zenon DEF RowsUnique
    <3> QED
      BY <2>5, <3>1, <3>2, Zenon
  <2>10. RowsUnique'
    <3>1. ASSUME NEW k \in Kinds
          PROVE  /\ seq'[k] <= born' + 2
                 /\ \A r \in db'[k] : Kind(r.name) = k /\ r.inc <= born' /\ r.id <= born' + 1
                 /\ \A r \in db'[k] : r.id < seq'[k]
      <4>1. /\ seq[k] \in Nat /\ db[k] \subseteq Rows /\ seq[k] <= born + 2
            /\ \A r \in db[k] : Kind(r.name) = k /\ r.inc <= born /\ r.id <= born + 1 /\ r.id < seq[k]
        BY <2>1, <2>2, Zenon DEF RowsUnique, TypeOK
      <4>2. seq'[k] = seq[k] \/ (seq'[k] = seq[k] + 1 /\ k = Kind(n))
        BY <2>8, Zenon
      <4>3. seq'[k] <= born' + 2
        BY <2>4, <4>1, <4>2
      <4>4. ASSUME NEW r \in db[k] PROVE r.inc <= born' /\ r.id <= born' + 1 /\ r.id < seq'[k]
        <5>1. r.inc \in 1..MaxInc /\ r.id \in Nat /\ r.inc <= born /\ r.id <= born + 1 /\ r.id < seq[k]
          BY <2>1, <4>1, RowFields, Zenon
        <5>2. seq[k] \in Nat
          BY <4>1, Zenon
        <5> QED
          BY <2>4, <4>2, <5>1, <5>2
      <4>5. k = Kind(n) => row.inc <= born' /\ row.id <= born' + 1 /\ row.id < seq'[k]
        <5>1. k = Kind(n) => row.id = seq[k] /\ row.inc = born + 1 /\ seq'[k] = seq[k] + 1
          BY <2>5, <2>8, Zenon
        <5>2. seq[k] \in Nat /\ seq[k] <= born + 2
          BY <4>1, Zenon
        <5> QED
          BY <2>4, <5>1, <5>2
      <4>6. \A r \in db'[k] : r \in db[k] \/ (r = row /\ k = Kind(n))
        BY <2>7, Zenon
      <4> QED
        BY <2>5, <4>1, <4>3, <4>4, <4>5, <4>6, Zenon
    <3>2. ASSUME NEW k \in Kinds, NEW r \in db'[k], NEW s \in db'[k]
          PROVE  (r.id <= s.id <=> r.inc <= s.inc) /\ (r.id = s.id => r = s)
      <4>1. \A a, b \in db[k] : (a.id <= b.id <=> a.inc <= b.inc) /\ (a.id = b.id => a = b)
        BY <2>1, Zenon DEF RowsUnique
      <4>2. ASSUME NEW a \in db[k], k = Kind(n)
            PROVE  /\ a.id <= row.id /\ a.inc <= row.inc /\ a.id # row.id
                   /\ ~ (row.id <= a.id) /\ ~ (row.inc <= a.inc)
        <5>1. a.id \in Nat /\ a.inc \in 1..MaxInc /\ a.id < row.id /\ a.inc < row.inc
          BY <2>1, <2>9, <4>2, RowFields, Zenon
        <5>2. row.id \in Nat /\ row.inc \in 1..MaxInc
          BY <2>5, Zenon DEF Rows
        <5> QED
          BY <5>1, <5>2
      <4>3. row.id <= row.id /\ row.inc <= row.inc
        <5>1. row.id \in Nat /\ row.inc \in 1..MaxInc
          BY <2>5, Zenon DEF Rows
        <5> QED
          BY <5>1
      <4>4. /\ r \in db[k] \/ (r = row /\ k = Kind(n))
            /\ s \in db[k] \/ (s = row /\ k = Kind(n))
        BY <2>7, <3>2, Zenon
      <4>5. CASE r \in db[k] /\ s \in db[k]
        BY <4>1, <4>5, Zenon
      <4>6. CASE r \in db[k] /\ s = row /\ k = Kind(n)
        BY <4>2, <4>6, Zenon
      <4>7. CASE r = row /\ s \in db[k] /\ k = Kind(n)
        BY <4>2, <4>7, Zenon
      <4>8. CASE r = row /\ s = row
        BY <4>3, <4>8, Zenon
      <4> QED
        BY <4>4, <4>5, <4>6, <4>7, <4>8, Zenon
    <3> QED
      BY <3>1, <3>2, Zenon DEF RowsUnique
  <2>11. BindingIds'
    <3>1. \A b \in bindingDb : b.x \in Nat /\ b.q \in Nat /\ b.x < seq["exchange"] /\ b.q < seq["queue"]
      BY <2>1, Zenon DEF BindingIds, TypeOK
    <3>2. \A b \in bound : b.x \in 1..MaxInc /\ b.q \in 1..MaxInc /\ b.x <= born /\ b.q <= born
      BY <2>1, Zenon DEF BindingIds, TypeOK
    <3>3. ASSUME NEW k \in Kinds, NEW i \in Nat, i < seq[k] PROVE i < seq'[k]
      <4>1. seq'[k] = seq[k] \/ seq'[k] = seq[k] + 1
        BY <2>8, Zenon
      <4>2. seq[k] \in Nat
        BY <2>1, RowFields, Zenon
      <4> QED
        BY <3>3, <4>1, <4>2
    <3>4. \A b \in bindingDb : b.x < seq'["exchange"] /\ b.q < seq'["queue"]
      BY <3>1, <3>3, Zenon DEF Kinds
    <3>5. \A i \in 1..MaxInc : i <= born => i <= born'
      BY <2>4
    <3> QED
      BY <2>6, <3>2, <3>4, <3>5, Zenon DEF BindingIds
  <2>12. BindingsExact'
    <3>1. ASSUME NEW e \in db'["exchange"], NEW r \in db'["queue"], NEW key \in Keys,
                 (e = row /\ Kind(n) = "exchange") \/ (r = row /\ Kind(n) = "queue")
          PROVE  /\ [x |-> e.id, q |-> r.id, key |-> key] \notin bindingDb
                 /\ [x |-> e.inc, q |-> r.inc, key |-> key] \notin bound
      <4>1. \A b \in bindingDb : b.x \in Nat /\ b.q \in Nat /\ b.x < seq["exchange"] /\ b.q < seq["queue"]
        BY <2>1, Zenon DEF BindingIds, TypeOK
      <4>2. \A b \in bound : b.x <= born /\ b.q <= born
        BY <2>1, Zenon DEF BindingIds
      <4>3. ~ (seq["exchange"] < seq["exchange"]) /\ ~ (seq["queue"] < seq["queue"]) /\ ~ (born + 1 <= born)
        <5>1. seq["exchange"] \in Nat /\ seq["queue"] \in Nat
          BY <2>1, RowFields, Zenon DEF Kinds
        <5> QED
          BY <2>4, <5>1
      <4>4. \A i, j : /\ [x |-> i, q |-> j, key |-> key].x = i
                      /\ [x |-> i, q |-> j, key |-> key].q = j
        OBVIOUS
      <4>5. \/ e.id = seq["exchange"] /\ e.inc = born + 1
            \/ r.id = seq["queue"] /\ r.inc = born + 1
        BY <2>5, <3>1, Zenon
      <4>6. ~ (e.id < seq["exchange"] /\ r.id < seq["queue"]) /\ ~ (e.inc <= born /\ r.inc <= born)
        BY <4>3, <4>5, Zenon
      <4>7. ASSUME NEW i, NEW j, [x |-> i, q |-> j, key |-> key] \in bindingDb
            PROVE  i < seq["exchange"] /\ j < seq["queue"]
        <5>1. PICK b \in bindingDb : b = [x |-> i, q |-> j, key |-> key]
          BY <4>7, Zenon
        <5>2. b.x = i /\ b.q = j
          BY <5>1, <4>4, Zenon
        <5> QED
          BY <4>1, <5>2, Zenon
      <4>8. ASSUME NEW i, NEW j, [x |-> i, q |-> j, key |-> key] \in bound
            PROVE  i <= born /\ j <= born
        <5>1. PICK b \in bound : b = [x |-> i, q |-> j, key |-> key]
          BY <4>8, Zenon
        <5>2. b.x = i /\ b.q = j
          BY <5>1, <4>4, Zenon
        <5> QED
          BY <4>2, <5>2, Zenon
      <4> QED
        BY <4>6, <4>7, <4>8, Zenon
    <3>2. ASSUME NEW e \in db'["exchange"], NEW r \in db'["queue"], NEW key \in Keys
          PROVE  [x |-> e.id, q |-> r.id, key |-> key] \in bindingDb
                  <=> [x |-> e.inc, q |-> r.inc, key |-> key] \in bound
      <4>1. CASE e \in db["exchange"] /\ r \in db["queue"]
        BY <2>1, <4>1, Zenon DEF BindingsExact
      <4>2. CASE (e = row /\ Kind(n) = "exchange") \/ (r = row /\ Kind(n) = "queue")
        BY <3>1, <4>2, Zenon
      <4>3. "exchange" \in Kinds /\ "queue" \in Kinds
        BY Zenon DEF Kinds
      <4>4. e \in IF "exchange" = Kind(n) THEN db["exchange"] \union {row} ELSE db["exchange"]
        BY <2>7, <4>3, Zenon
      <4>5. r \in IF "queue" = Kind(n) THEN db["queue"] \union {row} ELSE db["queue"]
        BY <2>7, <4>3, Zenon
      <4> QED
        BY <4>1, <4>2, <4>4, <4>5, Zenon
    <3> QED
      BY <2>6, <3>2, Zenon DEF BindingsExact
  <2> QED
    BY <2>3, <2>4, <2>5, <2>6, <2>7, <2>8, <2>9, <2>10, <2>11, <2>12, Zenon DEF RowPut

<1>PutRowOthers.
    ASSUME RegistryInv, NEW n \in Objects, stage = "up", UNCHANGED stage, PutRow(n), NEW p \in Objects,
           obj'[p] = obj[p], Creating(p)' <=> Creating(p), Destroying(p)' <=> Destroying(p)
    PROVE  Match(p)'
  <2> USE <1>PutRowOthers
  <2>0. PICK row : row = [id |-> seq[Kind(n)], name |-> n, inc |-> born + 1]
    BY Zenon
  <2>1. /\ born' = born + 1 /\ row \in Rows
        /\ \A k \in Kinds : db'[k] = IF k = Kind(n) THEN db[k] \union {row} ELSE db[k]
        /\ \A k \in Kinds : seq'[k] = IF k = Kind(n) THEN seq[k] + 1 ELSE seq[k]
    <3>1. RowPut(n, row)
      BY <2>0, <1>PutRowEffect, Zenon
    <3> QED
      BY <3>1, Zenon DEF RowPut
  <2>2. TypeOK /\ Match(p) /\ row.id = seq[Kind(n)] /\ row.inc = born + 1
    BY <2>0, Zenon DEF RegistryInv, ObjectsMatch
  <2>3. Kind(p) \in Kinds /\ Known(Kind(p))' /\ "queue" \in Kinds
    BY Zenon DEF Kind, Kinds, Known
  <2>4. seq[Kind(p)] \in Nat /\ born \in Nat
    BY <2>2, <2>3, RowFields, BornNatural, Zenon
  <2>5. \A r : r \in db'[Kind(p)] <=> r \in db[Kind(p)] \/ (r = row /\ Kind(p) = Kind(n))
    BY <2>1, <2>3, Zenon
  <2>6. seq'[Kind(p)] = seq[Kind(p)] \/ seq'[Kind(p)] = seq[Kind(p)] + 1
    BY <2>1, <2>3, Zenon
  <2>7. ASSUME obj[p] # Absent
        PROVE  /\ obj[p].id \in 1..(seq'[Kind(p)] - 1) /\ obj[p].inc \in 1..born'
               /\ obj[p].id # seq[Kind(p)] /\ obj[p].inc # born + 1
    <3>1. obj[p].id \in 1..(seq[Kind(p)] - 1) /\ obj[p].inc \in 1..born
      BY <2>2, <2>7, Zenon DEF Match
    <3>2. born' = born + 1
      BY <2>1, Zenon
    <3> QED
      BY <2>4, <2>6, <3>1, <3>2
  <2>8. ASSUME obj[p] # Absent
        PROVE  \A r \in db'[Kind(p)] : r \in db[Kind(p)] \/ (r.id # obj[p].id /\ r.inc # obj[p].inc)
    BY <2>2, <2>5, <2>7, <2>8, Zenon
  <2>9. db["queue"] \subseteq db'["queue"] /\ db[Kind(p)] \subseteq db'[Kind(p)]
    BY <2>1, <2>3, Zenon
  <2> QED
    BY <2>2, <2>3, <2>7, <2>8, <2>9, MatchKept, Zenon

<1>TakeIdStep.
    ASSUME RegistryInv, NEW t \in Threads, NEW n \in Exchanges \union Configs,
           Creatable(n), PutRow(n), TakeId(t, n)
    PROVE  RegistryInv'
  <2> USE <1>TakeIdStep
  <2>1. /\ stage = "up" /\ stage' = "up" /\ UNCHANGED stage /\ UNCHANGED plugin /\ UNCHANGED crashes
        /\ obj[n] = Absent /\ ~ Busy(n) /\ UNCHANGED call
    BY Zenon DEF Creatable, Up, plugin, TakeId
  <2>2. TypeOK /\ CallsOwn /\ ObjectsMatch /\ RowsUnique
    BY Zenon DEF RegistryInv
  <2>3. n \in Objects /\ Kind(n) \in Kinds /\ Kind(n) # "queue" /\ n \notin Queues
    BY <2>2, QueueNames, Zenon DEF Kinds
  <2>4. PICK row : row = [id |-> seq[Kind(n)], name |-> n, inc |-> born + 1]
    BY Zenon
  <2>5. /\ ~ Taken(n) /\ born' = born + 1 /\ born' \in 1..MaxInc /\ row \in Rows
        /\ db' \in [Kinds -> SUBSET Rows] /\ seq' \in [Kinds -> Nat \ {0}]
        /\ \A k \in Kinds : db'[k] = IF k = Kind(n) THEN db[k] \union {row} ELSE db[k]
        /\ \A k \in Kinds : seq'[k] = IF k = Kind(n) THEN seq[k] + 1 ELSE seq[k]
        /\ \A r \in db[Kind(n)] : r.id < row.id /\ r.inc < row.inc
        /\ UNCHANGED <<bindingDb, dir, rows, log, journals, tasks, sent, bound, recovered, marks, fails>>
        /\ RowsUnique' /\ BindingIds' /\ BindingsExact'
    <3>1. RowPut(n, row)
      BY <2>1, <2>3, <2>4, <1>PutRowEffect, Zenon
    <3> QED
      BY <3>1, Zenon DEF RowPut
  <2>6. row.id = seq[Kind(n)] /\ row.name = n /\ row.inc = born'
    BY <2>4, <2>5, Zenon
  <2>7. obj' = [obj EXCEPT ![n] = [id |-> row.id, inc |-> row.inc]]
    BY <2>5, <2>6, Zenon DEF TakeId
  <2>8. /\ obj'[n] = [id |-> row.id, inc |-> row.inc] /\ obj' \in [Objects -> [id : Nat, inc : 0..MaxInc]]
        /\ \A p \in Objects : p # n => obj'[p] = obj[p]
    <3>1. [id |-> row.id, inc |-> row.inc] \in [id : Nat, inc : 0..MaxInc]
      <4>1. row.id \in Nat \ {0} /\ row.inc \in 1..MaxInc
        BY <2>5, Zenon DEF Rows
      <4> QED
        BY <4>1
    <3>2. obj \in [Objects -> [id : Nat, inc : 0..MaxInc]]
      BY <2>2, Zenon DEF TypeOK
    <3> QED
      BY <2>3, <2>7, <3>1, <3>2, Zenon
  <2>9. SameCalls /\ CallsOwn' /\ ~ Creating(n) /\ ~ Destroying(n) /\ ~ Creating(n)' /\ ~ Destroying(n)'
    <3>1. SameCalls /\ CallsOwn' /\ ~ Creating(n) /\ ~ Destroying(n)
      BY <2>1, Frame, Zenon DEF Busy, Creating, Destroying
    <3> QED
      BY <2>3, <3>1, Zenon DEF SameCalls
  <2>10. ObjectsMatch'
    <3>1. ASSUME NEW p \in Objects, p # n PROVE Match(p)'
      BY <2>1, <2>3, <2>8, <2>9, <3>1, <1>PutRowOthers, Zenon DEF SameCalls
    <3>2. Match(n)'
      <4>1. /\ Known(Kind(n))' /\ row \in db'[Kind(n)] /\ seq'[Kind(n)] = seq[Kind(n)] + 1
            /\ \A r \in db'[Kind(n)] : r = row \/ r \in db[Kind(n)]
        BY <2>1, <2>3, <2>5, Zenon DEF Known
      <4>2. seq[Kind(n)] \in Nat \ {0} /\ born \in Nat
        BY <2>2, <2>3, RowFields, BornNatural, Zenon
      <4>3. row.id \in 1..(seq'[Kind(n)] - 1) /\ row.inc \in 1..born'
        <5>1. row.id = seq[Kind(n)] /\ row.inc = born' /\ born' = born + 1 /\ seq'[Kind(n)] = seq[Kind(n)] + 1
          BY <2>5, <2>6, <4>1, Zenon
        <5> QED
          BY <4>2, <5>1
      <4>4. ASSUME NEW r \in db[Kind(n)] PROVE r.id # row.id /\ r.inc # row.inc
        <5>1. r.id \in Nat /\ r.inc \in 1..MaxInc /\ r.id < row.id /\ r.inc < row.inc
          BY <2>2, <2>3, <2>5, RowFields, Zenon
        <5>2. row.id \in Nat /\ row.inc \in Nat
          BY <4>2, <4>3
        <5> QED
          BY <5>1, <5>2
      <4>5. \A r \in db'[Kind(n)] : (r.id = row.id <=> r.inc = row.inc) /\ (r.id = row.id => r.name = n)
        BY <2>6, <4>1, <4>4, Zenon
      <4> QED
        <5>1. PICK o, i, c : o = obj'[n] /\ i = row.id /\ c = row.inc /\ o = [id |-> i, inc |-> c]
          BY <2>3, <2>8, Zenon
        <5>2. o.id = i /\ o.inc = c
          BY <5>1
        <5>3. obj'[n].id = row.id /\ obj'[n].inc = row.inc
          BY <5>1, <5>2, Zenon
        <5>4. ~ Creating(n)' /\ ~ Destroying(n)' /\ row.name = n /\ row \in db'[Kind(n)] /\ Known(Kind(n))' /\ n \in Objects
          BY <2>3, <2>6, <2>8, <2>9, <4>1, Zenon
        <5> QED
          BY <4>3, <4>5, <5>3, <5>4, KnowsRow, Zenon
    <3> QED
      BY <3>1, <3>2, Zenon DEF ObjectsMatch
  <2>11. /\ Leftovers' /\ JournalsMatch' /\ SentToLast' /\ Owned' /\ MessagesKept'
         /\ NoForeignMessage' /\ Recoverable'
    <3>1. \A p \in Queues : /\ obj'[p] = obj[p]
                           /\ (Creating(p)' <=> Creating(p)) /\ (Destroying(p)' <=> Destroying(p))
      BY <2>3, <2>8, <2>9, Zenon DEF SameCalls, Objects
    <3>2. db'["queue"] = db["queue"] /\ seq'["queue"] = seq["queue"] /\ born' \in Nat /\ born' >= born
      <4>1. born \in Nat /\ born' = born + 1
        BY <2>2, <2>5, BornNatural, Zenon
      <4>2. born' \in Nat /\ born' >= born
        BY <4>1
      <4> QED
        BY <2>3, <2>5, <4>2, Zenon DEF Kinds
    <3>3. SameQueues
      BY <2>1, <2>2, <2>5, <3>1, <3>2, Zenon DEF SameQueues, JournalsMatch, Known
    <3>4. \A u \in Threads : call[u].op = "create" => call'[u] = call[u]
      BY <2>1, Zenon
    <3> QED
      BY <3>3, <3>4, QueuesApart, Zenon
  <2>12. TypeOK'
    <3>1. born' \in 0..MaxInc
      <4>1. born' \in 1..MaxInc
        BY <2>5, Zenon
      <4> QED
        BY <4>1
    <3> QED
      BY <2>1, <2>2, <2>5, <2>8, <3>1, Zenon DEF TypeOK, plugin, PluginTypeOK
  <2> QED
    BY <2>1, <2>5, <2>9, <2>10, <2>11, <2>12, Frame, Zenon DEF RegistryInv

<1>CreateQueueStep.
    ASSUME RegistryInv, NEW t \in Threads, NEW q \in Queues, CreateQueue(t, q)
    PROVE  RegistryInv'
  <2> USE <1>CreateQueueStep
  <2>1. /\ stage = "up" /\ stage' = "up" /\ UNCHANGED stage /\ UNCHANGED plugin /\ UNCHANGED crashes
        /\ obj[q] = Absent /\ ~ Busy(q) /\ UNCHANGED obj /\ PutRow(q)
    BY Zenon DEF CreateQueue, Creatable, Up, plugin
  <2>2. TypeOK /\ CallsOwn /\ ObjectsMatch /\ RowsUnique
    BY Zenon DEF RegistryInv
  <2>3. q \in Objects /\ Kind(q) = "queue" /\ "queue" \in Kinds
    BY <2>2, QueueNames, Zenon DEF Kinds
  <2>4. PICK row : row = [id |-> seq[Kind(q)], name |-> q, inc |-> born + 1]
    BY Zenon
  <2>5. /\ ~ Taken(q) /\ born' = born + 1 /\ born' \in 1..MaxInc /\ row \in Rows
        /\ db' \in [Kinds -> SUBSET Rows] /\ seq' \in [Kinds -> Nat \ {0}]
        /\ \A k \in Kinds : db'[k] = IF k = Kind(q) THEN db[k] \union {row} ELSE db[k]
        /\ \A k \in Kinds : seq'[k] = IF k = Kind(q) THEN seq[k] + 1 ELSE seq[k]
        /\ \A r \in db[Kind(q)] : r.id < row.id /\ r.inc < row.inc
        /\ UNCHANGED <<bindingDb, dir, rows, log, journals, tasks, sent, bound, recovered, marks, fails>>
        /\ RowsUnique' /\ BindingIds' /\ BindingsExact'
    <3>1. PutRow(q) /\ stage = "up" /\ stage' = stage
      BY <2>1, Zenon
    <3>2. RowPut(q, row)
      BY <2>3, <2>4, <3>1, <1>PutRowEffect, Zenon
    <3> QED
      BY <3>2, Zenon DEF RowPut
  <2>6. /\ row.id = seq["queue"] /\ row.name = q /\ row.inc = born + 1 /\ born \in Nat
        /\ seq["queue"] \in Nat /\ seq'["queue"] = seq["queue"] + 1
        /\ db'["queue"] = db["queue"] \union {row}
    <3>1. row.id = seq["queue"] /\ row.name = q /\ row.inc = born + 1
      BY <2>3, <2>4, Zenon
    <3>2. born \in Nat /\ seq["queue"] \in Nat
      BY <2>2, <2>3, BornNatural, RowFields, Zenon
    <3> QED
      BY <2>3, <2>5, <3>1, <3>2, Zenon
  <2>7. /\ CallsOwn' /\ call' \in [Threads -> Calls] /\ SameOtherCalls(q)
        /\ ~ Creating(q) /\ ~ Destroying(q) /\ Creating(q)' /\ ~ Destroying(q)'
        /\ \A u \in Threads : u # t => call'[u] = call[u]
        /\ call[t] = Idle /\ call'[t] = [op |-> "create", name |-> q, step |-> 1]
    <3>1. Starts(t, [op |-> "create", name |-> q, step |-> 1])
      BY <2>5, Zenon DEF CreateQueue
    <3> QED
      BY <2>1, <2>2, <2>3, <3>1, StartsAlone, Zenon
  <2>8. \A p \in Objects : p # q => (Creating(p)' <=> Creating(p)) /\ (Destroying(p)' <=> Destroying(p))
    BY <2>7, Zenon DEF SameOtherCalls
  <2>9. ObjectsMatch'
    <3>1. ASSUME NEW p \in Objects, p # q PROVE Match(p)'
      <4>1. obj'[p] = obj[p] /\ (Creating(p)' <=> Creating(p)) /\ (Destroying(p)' <=> Destroying(p))
        BY <2>1, <2>8, <3>1, Zenon
      <4> QED
        BY <2>1, <2>3, <4>1, <1>PutRowOthers, Zenon
    <3>2. Match(q)'
      BY <2>1, <2>6, <2>7, Zenon DEF Match
    <3> QED
      BY <3>1, <3>2, Zenon DEF ObjectsMatch
  <2>10. /\ \A r \in db["queue"] : /\ r.name \in Queues /\ r.name \in Objects /\ r.inc \in 1..born
                                   /\ r.id \in Nat /\ r.id < row.id
         /\ obj[q].inc = 0 /\ \A m \in Msgs : sent[m] \in 0..born
    <3>1. \A r \in db["queue"] : /\ r.name \in Queues /\ r.name \in Objects
                                /\ r.id \in Nat \ {0} /\ r.inc \in 1..MaxInc /\ r.inc <= born
      BY <2>2, <2>3, QueueNames, Zenon DEF RowsUnique
    <3>2. obj[q].inc = 0
      BY <2>1, AbsentFields, Zenon
    <3>3. \A m \in Msgs : sent[m] \in 0..born
      <4>1. \A i \in 0..MaxInc : i <= born => i \in 0..born
        <5>1. born \in Nat
          BY <2>6, Zenon
        <5> QED
          BY <5>1
      <4> QED
        BY <2>2, <4>1, Zenon DEF RegistryInv, SentToLast, TypeOK
    <3>4. \A r \in db["queue"] : r.id < row.id
      BY <2>3, <2>5, Zenon
    <3>5. \A i \in 1..MaxInc : i <= born => i \in 1..born
      <4>1. born \in Nat
        BY <2>6, Zenon
      <4> QED
        BY <4>1
    <3>6. \A r \in db["queue"] : r.inc \in 1..born /\ r.id \in Nat
      BY <3>1, <3>5, Zenon
    <3> QED
      BY <3>1, <3>2, <3>3, <3>4, <3>6, Zenon
  <2>11. Known("queue") /\ Known("queue")'
    BY <2>1, Zenon DEF Known
  <2>12. Leftovers'
    <3>1. Leftovers
      BY Zenon DEF RegistryInv
    <3>2. ASSUME NEW r \in db["queue"], r.name = q PROVE q \in marks.tainted
      <4>1. obj[q].inc = r.inc \/ Creating(q) \/ q \in marks.tainted
        BY <2>11, <3>1, <3>2, Zenon DEF Leftovers
      <4>2. r.inc \in 1..born /\ obj[q].inc = 0 /\ ~ Creating(q)
        BY <2>7, <2>10, <3>2, Zenon
      <4>3. r.inc # 0
        BY <4>2
      <4> QED
        BY <4>1, <4>2, <4>3, Zenon
    <3>3. \A r, s \in db'["queue"] : r.name = s.name => r = s \/ r.name \in marks.tainted
      BY <2>6, <3>1, <3>2, Zenon DEF Leftovers
    <3>4. \A r \in db'["queue"] :
              obj[r.name].inc = r.inc \/ Creating(r.name)' \/ r.name \in marks.tainted
      BY <2>6, <2>7, <2>8, <2>10, <2>11, <3>1, Zenon DEF Leftovers
    <3>5. \A n \in Queues : obj[n] # Absent =>
              \A r \in db'["queue"] : r.name = n => r.id <= obj[n].id
      BY <2>1, <2>6, <3>1, Zenon DEF Leftovers
    <3> QED
      BY <2>1, <2>5, <3>3, <3>4, <3>5, Zenon DEF Leftovers
  <2>13. SentToLast'
    <3>1. SentToLast
      BY Zenon DEF RegistryInv
    <3>2. \A m \in Msgs : sent[m] <= born'
      <4>1. born' = born + 1 /\ born \in Nat /\ \A m \in Msgs : sent[m] \in 0..born
        BY <2>5, <2>6, <2>10, Zenon
      <4> QED
        BY <4>1
    <3>3. ASSUME NEW r \in db'["queue"], NEW m \in Msgs, sent[m] = r.inc
          PROVE  /\ \A s \in db'["queue"] : s.name = r.name => s.id <= r.id
                 /\ obj[r.name].inc = r.inc
      <4>0. \A i \in 0..born : i # born + 1 /\ (i \in 1..born => i # 0)
        <5>1. born \in Nat
          BY <2>6, Zenon
        <5> QED
          BY <5>1
      <4>1. r \in db["queue"]
        BY <2>6, <2>10, <3>3, <4>0, Zenon
      <4>2. obj[r.name].inc = r.inc /\ r.inc # 0
        BY <2>10, <2>11, <3>1, <3>3, <4>0, <4>1, Zenon DEF SentToLast
      <4>3. r.name # q
        BY <2>10, <4>2, Zenon
      <4> QED
        BY <2>6, <3>1, <3>3, <4>1, <4>2, <4>3, Zenon DEF SentToLast
    <3> QED
      BY <2>1, <2>5, <3>2, <3>3, Zenon DEF SentToLast
  <2>14. Owned'
    <3>1. Owned /\ \A m : Marked(m)' <=> Marked(m)
      BY <2>5, Zenon DEF RegistryInv, Marked
    <3>2. \A n \in Queues : Destroying(n) => Destroying(n)'
      BY <2>7, <2>8, Zenon DEF Objects
    <3>3. \A task \in tasks : task.id < seq["queue"] /\ task.id \in Nat
      BY <2>2, <3>1, Zenon DEF Owned, TypeOK
    <3>4. \A n \in Queues : \A m \in rows[n] :
              \/ Marked(m)
              \/ \E r \in db'["queue"] : r.name = n /\ r.inc = sent[m]
              \/ Destroying(n)' /\ obj[n].inc = sent[m]
      BY <2>6, <3>1, <3>2, Zenon DEF Owned
    <3>5. \A e \in log : Marked(e.m) \/ \E r \in db'["queue"] : r.id = e.id /\ r.inc = sent[e.m]
      BY <2>6, <3>1, Zenon DEF Owned
    <3>6. \A task \in tasks :
              /\ task.id < seq'["queue"]
              /\ \A r \in db'["queue"] : r.id = task.id =>
                  r.name = task.name /\ (Marked(task.m) \/ r.inc = sent[task.m])
              /\ obj[task.name].id = task.id => Marked(task.m) \/ obj[task.name].inc = sent[task.m]
      <4>1. \A i \in Nat : i < seq["queue"] => i < seq'["queue"] /\ i # seq["queue"]
        <5>1. seq["queue"] \in Nat /\ seq'["queue"] = seq["queue"] + 1
          BY <2>6, Zenon
        <5> QED
          BY <5>1
      <4> QED
        BY <2>6, <3>1, <3>3, <4>1, Zenon DEF Owned
    <3>7. rows' = rows /\ log' = log /\ tasks' = tasks /\ sent' = sent /\ obj' = obj
      BY <2>1, <2>5, Zenon
    <3> QED
      BY <3>1, <3>4, <3>5, <3>6, <3>7, Zenon DEF Owned
  <2>15. MessagesKept' /\ NoForeignMessage' /\ JournalsMatch'
    <3>1. MessagesKept /\ NoForeignMessage /\ JournalsMatch
      BY Zenon DEF RegistryInv
    <3>2. \A m \in Msgs : sent[m] # row.inc
      <4>1. \A i \in 0..born : i # born + 1
        <5>1. born \in Nat
          BY <2>6, Zenon
        <5> QED
          BY <5>1
      <4> QED
        BY <2>6, <2>10, <4>1, Zenon
    <3> QED
      BY <2>1, <2>5, <2>6, <3>1, <3>2, Zenon DEF MessagesKept, NoForeignMessage, JournalsMatch, Known
  <2>16. Recoverable'
    <3>1. Recoverable
      BY Zenon DEF RegistryInv
    <3>2. \A u \in Threads : call[u].op = "create" => call'[u] = call[u]
      BY <2>7, IdleFields, Zenon
    <3>3. ASSUME NEW r \in db'["queue"]
          PROVE  \/ r.name \in dir \/ r.name \in marks.tainted \/ r.inc \in marks.interrupted
                 \/ \E u \in Threads : call'[u].op = "create" /\ call'[u].step = 1 /\ call'[u].name = r.name
      <4>1. CASE r = row
        <5>1. PICK c : c = [op |-> "create", name |-> q, step |-> 1]
          BY Zenon
        <5>2. c.op = "create" /\ c.name = q /\ c.step = 1
          BY <5>1, Zenon
        <5> QED
          BY <2>6, <2>7, <4>1, <5>1, <5>2, Zenon
      <4>2. CASE r \in db["queue"]
        <5>1. ASSUME NEW u \in Threads, call[u].op = "create", call[u].step = 1, call[u].name = r.name
              PROVE  call'[u].op = "create" /\ call'[u].step = 1 /\ call'[u].name = r.name
          BY <3>2, <5>1, Zenon
        <5> QED
          BY <3>1, <4>2, <5>1, Zenon DEF Recoverable
      <4> QED
        BY <2>6, <4>1, <4>2, Zenon
    <3> QED
      BY <2>5, <3>3, Zenon DEF Recoverable
  <2>17. TypeOK'
    <3>1. born' \in 0..MaxInc
      <4>1. born' \in 1..MaxInc
        BY <2>5, Zenon
      <4> QED
        BY <4>1
    <3> QED
      BY <2>1, <2>2, <2>5, <2>7, <3>1, Zenon DEF TypeOK, plugin, PluginTypeOK
  <2> QED
    BY <2>1, <2>5, <2>7, <2>9, <2>12, <2>13, <2>14, <2>15, <2>16, <2>17, Frame, Zenon DEF RegistryInv

<1>CreateDirStep.
    ASSUME RegistryInv, NEW t \in Threads, CreateDir(t)
    PROVE  RegistryInv'
  <2> USE <1>CreateDirStep
  <2>1. /\ stage = "up" /\ stage' = "up" /\ UNCHANGED stage /\ UNCHANGED plugin /\ UNCHANGED crashes
        /\ Goes(t, "create", 1, 2) /\ call[t].op = "create" /\ dir' = dir \union {call[t].name}
        /\ UNCHANGED <<db, bindingDb, rows, log, seq, obj, journals, tasks, sent, bound, recovered,
                       marks, born, fails>>
    BY Zenon DEF CreateDir, Up, plugin, Goes, history
  <2>2. TypeOK /\ CallsOwn /\ Recoverable
    BY Zenon DEF RegistryInv
  <2>3. SameCalls /\ CallsOwn' /\ call' \in [Threads -> Calls]
    <3>1. 2 \in 2..(2 + Files)
      BY RegistryAssumptions
    <3> QED
      BY <2>1, <2>2, <3>1, GoesSame, Zenon
  <2>4. call[t].name \in Queues /\ \A u \in Threads : u # t => call'[u] = call[u]
    <3>1. call[t] # Idle
      BY <2>1, IdleFields, Zenon
    <3>2. \A u \in Threads : u # t => call'[u] = call[u]
      BY <2>1, <2>2, Zenon DEF Goes, TypeOK
    <3> QED
      BY <2>1, <2>2, <3>1, <3>2, Zenon DEF CallsOwn
  <2>5. Recoverable'
    <3>1. dir' = dir \union {call[t].name} /\ db' = db /\ marks' = marks
      BY <2>1, Zenon
    <3>2. ASSUME NEW r \in db["queue"]
          PROVE  \/ r.name \in dir' \/ r.name \in marks.tainted \/ r.inc \in marks.interrupted
                 \/ \E u \in Threads : call'[u].op = "create" /\ call'[u].step = 1 /\ call'[u].name = r.name
      <4>1. ASSUME NEW u \in Threads, call[u].op = "create", call[u].step = 1, call[u].name = r.name
            PROVE  r.name \in dir' \/ (call'[u].op = "create" /\ call'[u].step = 1 /\ call'[u].name = r.name)
        BY <2>4, <3>1, <4>1, Zenon
      <4> QED
        BY <2>2, <3>1, <4>1, Zenon DEF Recoverable
    <3> QED
      BY <3>1, <3>2, Zenon DEF Recoverable
  <2>6. TypeOK'
    BY <2>1, <2>2, <2>3, <2>4, Zenon DEF TypeOK, plugin, PluginTypeOK
  <2> QED
    BY <2>1, <2>3, <2>5, <2>6, Frame, Zenon DEF RegistryInv

<1>CreateFailsStep.
    ASSUME RegistryInv, NEW t \in Threads, CreateFails(t)
    PROVE  RegistryInv'
  <2> USE <1>CreateFailsStep
  <2>0. PICK n : n = call[t].name
    BY Zenon
  <2>1. /\ stage = "up" /\ stage' = "up" /\ UNCHANGED stage /\ UNCHANGED plugin /\ UNCHANGED crashes
        /\ UNCHANGED <<db, bindingDb, dir, rows, log, seq, obj, journals, tasks, sent, bound, recovered, born>>
        /\ Ends(t, "create", 1) \/ Ends(t, "create", 2)
    BY Zenon DEF CreateFails, Up, plugin, durable
  <2>2. TypeOK /\ CallsOwn /\ ObjectsMatch /\ RowsUnique
    BY Zenon DEF RegistryInv
  <2>3. /\ CallsOwn' /\ call' \in [Threads -> Calls] /\ SameOtherCalls(n) /\ n \in Objects /\ n \in Queues
        /\ Creating(n) /\ ~ Destroying(n) /\ ~ Creating(n)' /\ ~ Destroying(n)'
        /\ \A u \in Threads : u # t => call'[u] = call[u] /\ call[u].name # n
    <3>1. CallEnds(t, n) /\ n \in Objects /\ n \in Queues /\ Creating(n) /\ ~ Destroying(n)
      BY <2>0, <2>1, <2>2, CreateEnds, Zenon
    <3> QED
      BY <3>1, Zenon DEF CallEnds
  <2>4. /\ marks'.tainted = marks.tainted \union {n} /\ marks'.interrupted = marks.interrupted
        /\ marks'.halfDestroyed = marks.halfDestroyed
        /\ marks'.pendingAtDestroy = marks.pendingAtDestroy
        /\ marks' \in [interrupted : SUBSET (1..MaxInc), halfDestroyed : SUBSET (1..MaxInc),
                       pendingAtDestroy : SUBSET Msgs, tainted : SUBSET Queues]
        /\ fails' \in 0..MaxFails
    <3>1. marks' = [marks EXCEPT !.tainted = @ \union {n}]
      BY <2>0, Zenon DEF CreateFails
    <3>2. fails' \in 0..MaxFails
      <4>1. fails \in 0..MaxFails /\ fails < MaxFails /\ fails' = fails + 1 /\ MaxFails \in Nat
        BY <2>2, RegistryAssumptions, Zenon DEF CreateFails, TypeOK
      <4> QED
        BY <4>1
    <3> QED
      BY <2>2, <2>3, <3>1, <3>2, Zenon DEF TypeOK
  <2>5. \A p \in Objects : p # n => (Creating(p)' <=> Creating(p)) /\ (Destroying(p)' <=> Destroying(p))
    BY <2>3, Zenon DEF SameOtherCalls
  <2>6. ObjectsMatch'
    <3>1. ASSUME NEW p \in Objects, p # n PROVE Match(p)'
      BY <2>1, <2>2, <2>3, <3>1, OthersMatch, Zenon
    <3>2. Match(n) /\ obj[n] = Absent
      BY <2>2, <2>3, Zenon DEF ObjectsMatch, Match
    <3>3. Match(n)'
      BY <2>1, <2>3, <3>2, AbsentMatch, Zenon
    <3> QED
      BY <3>1, <3>3, Zenon DEF ObjectsMatch
  <2>7. Leftovers'
    <3>1. Leftovers /\ \A r \in db["queue"] : r.name \in Objects
      BY <2>2, QueueNames, Zenon DEF RegistryInv
    <3>2. ASSUME NEW r \in db["queue"], Known("queue")
          PROVE  obj[r.name].inc = r.inc \/ Creating(r.name)' \/ r.name \in marks'.tainted
      BY <2>4, <2>5, <3>1, <3>2, Zenon DEF Leftovers
    <3> QED
      BY <2>1, <2>4, <3>1, <3>2, Zenon DEF Leftovers, Known
  <2>8. Owned'
    <3>1. Owned /\ \A m : Marked(m)' <=> Marked(m)
      BY <2>1, <2>4, Zenon DEF RegistryInv, Marked
    <3>2. \A p \in Queues : Destroying(p)' <=> Destroying(p)
      BY <2>3, <2>5, Zenon DEF Objects
    <3> QED
      BY <2>1, <3>1, <3>2, Zenon DEF Owned
  <2>9. NoForeignMessage' /\ Recoverable'
    <3>1. NoForeignMessage /\ Recoverable
      BY Zenon DEF RegistryInv
    <3>2. NoForeignMessage'
      BY <2>1, <2>4, <3>1, Zenon DEF NoForeignMessage
    <3>3. ASSUME NEW r \in db["queue"]
          PROVE  \/ r.name \in dir \/ r.name \in marks'.tainted \/ r.inc \in marks'.interrupted
                 \/ \E u \in Threads : call'[u].op = "create" /\ call'[u].step = 1 /\ call'[u].name = r.name
      <4>1. ASSUME NEW u \in Threads, call[u].op = "create", call[u].step = 1, call[u].name = r.name, r.name # n
            PROVE  call'[u].op = "create" /\ call'[u].step = 1 /\ call'[u].name = r.name
        BY <2>0, <2>3, <4>1, Zenon
      <4>2. CASE r.name = n
        BY <2>4, <4>2, Zenon
      <4>3. CASE r.name # n
        BY <2>4, <3>1, <4>1, <4>3, Zenon DEF Recoverable
      <4> QED
        BY <4>2, <4>3, Zenon
    <3> QED
      BY <2>1, <3>2, <3>3, Zenon DEF Recoverable
  <2>10. TypeOK'
    BY <2>1, <2>2, <2>3, <2>4, Zenon DEF TypeOK, plugin, PluginTypeOK
  <2> QED
    BY <2>1, <2>3, <2>6, <2>7, <2>8, <2>9, <2>10, Frame, Zenon DEF RegistryInv

<1>OpenJournalStep.
    ASSUME RegistryInv, NEW t \in Threads, OpenJournal(t)
    PROVE  RegistryInv'
  <2> USE <1>OpenJournalStep
  <2>0. PICK n, r : n = call[t].name /\ r = NewRow(n)
    BY Zenon
  <2>1. /\ stage = "up" /\ stage' = "up" /\ UNCHANGED stage /\ UNCHANGED plugin /\ UNCHANGED crashes
        /\ Ends(t, "create", 2)
        /\ UNCHANGED <<db, bindingDb, dir, rows, log, seq, tasks, sent, bound, recovered, marks, born, fails>>
        /\ obj' = [obj EXCEPT ![n] = [id |-> r.id, inc |-> r.inc]]
        /\ journals' = journals \union {[id |-> r.id, name |-> n]}
    BY <2>0, Zenon DEF OpenJournal, Up, plugin, durable, history
  <2>2. TypeOK /\ CallsOwn /\ ObjectsMatch /\ RowsUnique
    BY Zenon DEF RegistryInv
  <2>3. /\ CallsOwn' /\ call' \in [Threads -> Calls] /\ SameOtherCalls(n) /\ n \in Objects /\ n \in Queues
        /\ Creating(n) /\ ~ Destroying(n) /\ ~ Creating(n)' /\ ~ Destroying(n)' /\ call[t].step = 2
        /\ \A u \in Threads : u # t => call'[u] = call[u] /\ call[u].name # n
    <3>0. Ends(t, "create", 2) /\ stage = "up" /\ stage' = "up" /\ TypeOK /\ CallsOwn /\ n = call[t].name
      BY <2>0, <2>1, <2>2, Zenon
    <3>1. CallEnds(t, n) /\ n \in Objects /\ n \in Queues /\ Creating(n) /\ ~ Destroying(n) /\ call[t].step = 2
      BY <3>0, CreateEnds, Zenon
    <3> QED
      BY <3>1, Zenon DEF CallEnds
  <2>4. obj[n] = Absent /\ Kind(n) = "queue" /\ "queue" \in Kinds /\ Known("queue") /\ Known("queue")'
    BY <2>1, <2>2, <2>3, Zenon DEF ObjectsMatch, Match, Kind, Known, Kinds
  <2>5. /\ r \in db["queue"] /\ r.name = n
        /\ \A s \in db["queue"] : s.name = n => s.inc <= r.inc /\ s.id <= r.id
    BY <2>0, <2>2, <2>3, NewRowIsLast, Zenon DEF ObjectsMatch, Match
  <2>6. /\ r.id \in Nat \ {0} /\ r.inc \in 1..MaxInc /\ r.id < seq["queue"] /\ r.inc <= born
        /\ seq["queue"] \in Nat /\ born \in Nat
        /\ \A s \in db["queue"] : /\ s.id \in Nat /\ s.inc \in Nat \ {0} /\ (r.id = s.id <=> r.inc = s.inc)
                                  /\ (r.id = s.id => r = s) /\ s.name \in Objects
    <3>1. \A s \in db["queue"] : s.id \in Nat \ {0} /\ s.inc \in 1..MaxInc /\ s.name \in Objects
      BY <2>2, QueueNames, Zenon
    <3>2. \A s \in db["queue"] : (r.id <= s.id <=> r.inc <= s.inc) /\ (s.id <= r.id <=> s.inc <= r.inc)
                                  /\ (r.id = s.id => r = s)
      BY <2>2, <2>4, <2>5, Zenon DEF RowsUnique
    <3>3. r.id < seq["queue"] /\ r.inc <= born /\ seq["queue"] \in Nat /\ born \in Nat
      BY <2>2, <2>4, <2>5, RowFields, BornNatural, Zenon DEF RowsUnique
    <3>4. ASSUME NEW s \in db["queue"]
          PROVE  s.id \in Nat /\ s.inc \in Nat \ {0} /\ (r.id = s.id <=> r.inc = s.inc)
      <4>1. s.id \in Nat \ {0} /\ s.inc \in 1..MaxInc /\ r.id \in Nat \ {0} /\ r.inc \in 1..MaxInc
        BY <2>5, <3>1, Zenon
      <4>2. (r.id <= s.id <=> r.inc <= s.inc) /\ (s.id <= r.id <=> s.inc <= r.inc)
        BY <3>2, Zenon
      <4> QED
        BY <4>1, <4>2
    <3> QED
      BY <2>5, <3>1, <3>2, <3>3, <3>4, Zenon
  <2>7. /\ obj'[n] = [id |-> r.id, inc |-> r.inc] /\ obj' \in [Objects -> [id : Nat, inc : 0..MaxInc]]
        /\ \A p \in Objects : p # n => obj'[p] = obj[p]
    <3>1. [id |-> r.id, inc |-> r.inc] \in [id : Nat, inc : 0..MaxInc]
      <4>1. r.id \in Nat \ {0} /\ r.inc \in 1..MaxInc
        BY <2>6, Zenon
      <4> QED
        BY <4>1
    <3>2. obj \in [Objects -> [id : Nat, inc : 0..MaxInc]]
      BY <2>2, Zenon DEF TypeOK
    <3> QED
      BY <2>1, <2>3, <3>1, <3>2, Zenon
  <2>8. \A p \in Objects : p # n => (Creating(p)' <=> Creating(p)) /\ (Destroying(p)' <=> Destroying(p))
    BY <2>3, Zenon DEF SameOtherCalls
  <2>9. ObjectsMatch' /\ obj'[n].id = r.id /\ obj'[n].inc = r.inc
    <3>1. ASSUME NEW p \in Objects, p # n PROVE Match(p)'
      BY <2>1, <2>2, <2>3, <2>7, <3>1, OthersMatch, Zenon
    <3>2. Match(n)' /\ obj'[n].id = r.id /\ obj'[n].inc = r.inc
      <4>1. r.id \in 1..(seq'["queue"] - 1) /\ r.inc \in 1..born'
        <5>1. /\ r.id \in Nat \ {0} /\ r.inc \in 1..MaxInc /\ r.id < seq["queue"] /\ r.inc <= born
              /\ seq["queue"] \in Nat /\ born \in Nat /\ seq' = seq /\ born' = born
          BY <2>1, <2>6, Zenon
        <5> QED
          BY <5>1
      <4>2. r \in db'["queue"] /\ \A s \in db'["queue"] : (s.id = r.id <=> s.inc = r.inc) /\ (s.id = r.id => s.name = n)
        BY <2>1, <2>5, <2>6, Zenon
      <4> QED
        <5>1. Kind(n) = "queue" /\ n \in Objects /\ Known("queue")' /\ ~ Creating(n)' /\ ~ Destroying(n)' /\ r.name = n
          BY <2>3, <2>4, <2>5, Zenon
        <5>2. PICK o, i, c : o = obj'[n] /\ i = r.id /\ c = r.inc /\ o = [id |-> i, inc |-> c]
          BY <2>3, <2>7, Zenon
        <5>3. o.id = i /\ o.inc = c
          BY <5>2
        <5>4. obj'[n].id = r.id /\ obj'[n].inc = r.inc
          BY <5>2, <5>3, Zenon
        <5> QED
          BY <4>1, <4>2, <5>1, <5>4, KnowsRow, Zenon
    <3> QED
      BY <3>1, <3>2, Zenon DEF ObjectsMatch
  <2>10. Leftovers'
    <3>1. Leftovers
      BY Zenon DEF RegistryInv
    <3>2. \A s \in db["queue"] :
              obj'[s.name].inc = s.inc \/ Creating(s.name)' \/ s.name \in marks.tainted
      <4>1. ASSUME NEW s \in db["queue"], s.name = n PROVE obj'[n].inc = s.inc \/ n \in marks.tainted
        BY <2>5, <2>9, <3>1, <4>1, Zenon DEF Leftovers
      <4>2. ASSUME NEW s \in db["queue"], s.name # n
            PROVE  obj'[s.name].inc = s.inc \/ Creating(s.name)' \/ s.name \in marks.tainted
        <5>1. s.name \in Objects
          BY <2>6, Zenon
        <5>2. obj'[s.name] = obj[s.name] /\ (Creating(s.name)' <=> Creating(s.name))
          BY <2>7, <2>8, <4>2, <5>1, Zenon
        <5>3. obj[s.name].inc = s.inc \/ Creating(s.name) \/ s.name \in marks.tainted
          BY <2>4, <3>1, Zenon DEF Leftovers
        <5> QED
          BY <5>2, <5>3, Zenon
      <4>3. ASSUME NEW s \in db["queue"]
            PROVE  obj'[s.name].inc = s.inc \/ Creating(s.name)' \/ s.name \in marks.tainted
        <5>1. CASE s.name = n
          BY <4>1, <5>1, Zenon
        <5>2. CASE s.name # n
          BY <4>2, <5>2, Zenon
        <5> QED
          BY <5>1, <5>2, Zenon
      <4> QED
        BY <4>3, Zenon
    <3>3. ASSUME NEW p \in Queues, obj'[p] # Absent, NEW s \in db["queue"], s.name = p
          PROVE  s.id <= obj'[p].id
      <4>1. CASE p = n
        <5>1. r.id <= r.id
          BY <2>6
        <5> QED
          BY <2>5, <2>6, <2>9, <3>1, <3>3, <4>1, <5>1, Zenon DEF Leftovers
      <4>2. CASE p # n
        BY <2>7, <3>1, <3>3, <4>2, Zenon DEF Leftovers, Objects
      <4> QED
        BY <4>1, <4>2, Zenon
    <3> QED
      BY <2>1, <3>1, <3>2, <3>3, Zenon DEF Leftovers
  <2>11. JournalsMatch' /\ journals' \subseteq [id : Nat \ {0}, name : Queues]
    <3>1. JournalsMatch /\ \A j \in journals : j.id \in Nat \ {0} /\ j.name \in Queues
      BY <2>2, Zenon DEF RegistryInv, TypeOK
    <3>2. \A j \in journals : j.name # n /\ obj'[j.name].id = j.id
      <4>1. ASSUME NEW j \in journals PROVE j.name # n /\ j.name \in Objects /\ obj[j.name].id = j.id
        BY <2>4, <3>1, AbsentFields, Zenon DEF JournalsMatch, Objects
      <4> QED
        BY <2>7, <4>1, Zenon
    <3>3. \A j \in journals' : obj'[j.name].id = j.id
      <4>1. PICK i : i = r.id /\ obj'[n].id = i
        BY <2>9, Zenon
      <4>2. ASSUME NEW j, j = [id |-> i, name |-> n] PROVE obj'[j.name].id = j.id
        <5>1. j.id = i /\ j.name = n
          BY <4>2
        <5> QED
          BY <4>1, <5>1, Zenon
      <4> QED
        BY <2>1, <3>2, <4>1, <4>2, Zenon
    <3>4. journals' \subseteq [id : Nat \ {0}, name : Queues]
      <4>1. journals \subseteq [id : Nat \ {0}, name : Queues]
        BY <2>2, Zenon DEF TypeOK
      <4>2. [id |-> r.id, name |-> n] \in [id : Nat \ {0}, name : Queues]
        BY <2>3, <2>6, Zenon
      <4> QED
        BY <2>1, <4>1, <4>2, Zenon
    <3> QED
      BY <2>1, <2>4, <3>1, <3>3, <3>4, Zenon DEF JournalsMatch
  <2>12. SentToLast'
    <3>1. SentToLast
      BY Zenon DEF RegistryInv
    <3>2. ASSUME NEW s \in db["queue"], NEW m \in Msgs, sent[m] = s.inc
          PROVE  s.name # n /\ obj'[s.name].inc = s.inc
      <4>1. obj[s.name].inc = s.inc /\ s.inc # 0
        BY <2>4, <2>6, <3>1, <3>2, Zenon DEF SentToLast
      <4> QED
        BY <2>4, <2>6, <2>7, <4>1, AbsentFields, Zenon
    <3> QED
      BY <2>1, <3>1, <3>2, Zenon DEF SentToLast
  <2>13. Owned'
    <3>1. Owned /\ \A m : Marked(m)' <=> Marked(m)
      BY <2>1, Zenon DEF RegistryInv, Marked
    <3>2. \A p \in Queues : Destroying(p) => Destroying(p)' /\ obj'[p] = obj[p]
      BY <2>3, <2>7, <2>8, Zenon DEF Objects
    <3>3. ASSUME NEW task \in tasks, obj'[task.name].id = task.id
          PROVE  Marked(task.m) \/ obj'[task.name].inc = sent[task.m]
      <4>1. task.name \in Objects
        BY <2>2, Zenon DEF TypeOK, Objects
      <4>2. CASE task.name = n
        <5>1. r.id = task.id /\ obj'[task.name].inc = r.inc
          BY <2>9, <3>3, <4>2, Zenon
        <5>2. \A s \in db["queue"] : s.id = task.id => Marked(task.m) \/ s.inc = sent[task.m]
          BY <3>1, Zenon DEF Owned
        <5> QED
          BY <2>5, <5>1, <5>2, Zenon
      <4>3. CASE task.name # n
        BY <2>7, <3>1, <3>3, <4>1, <4>3, Zenon DEF Owned
      <4> QED
        BY <4>2, <4>3, Zenon
    <3>4. ASSUME NEW p \in Queues, NEW m \in rows[p]
          PROVE  \/ Marked(m)
                 \/ \E s \in db["queue"] : s.name = p /\ s.inc = sent[m]
                 \/ Destroying(p)' /\ obj'[p].inc = sent[m]
      <4>1. \/ Marked(m) \/ \E s \in db["queue"] : s.name = p /\ s.inc = sent[m]
            \/ Destroying(p) /\ obj[p].inc = sent[m]
        BY <3>1, Zenon DEF Owned
      <4> QED
        BY <3>2, <4>1, Zenon
    <3>5. \A e \in log : Marked(e.m) \/ \E s \in db["queue"] : s.id = e.id /\ s.inc = sent[e.m]
      BY <3>1, Zenon DEF Owned
    <3>6. \A task \in tasks : /\ task.id < seq["queue"]
                             /\ \A s \in db["queue"] : s.id = task.id =>
                                 s.name = task.name /\ (Marked(task.m) \/ s.inc = sent[task.m])
      BY <3>1, Zenon DEF Owned
    <3>7. UNCHANGED <<rows, db, log, tasks, seq, sent>>
      BY <2>1, Zenon
    <3> QED
      BY <3>1, <3>3, <3>4, <3>5, <3>6, <3>7, Zenon DEF Owned
  <2>14. Recoverable'
    <3>1. Recoverable
      BY Zenon DEF RegistryInv
    <3>2. \A u \in Threads : call[u].step = 1 => call'[u] = call[u]
      <4>1. 1 # 2
        OBVIOUS
      <4> QED
        BY <2>3, <4>1, Zenon
    <3>3. ASSUME NEW s \in db["queue"]
          PROVE  \/ s.name \in dir \/ s.name \in marks.tainted \/ s.inc \in marks.interrupted
                 \/ \E u \in Threads : call'[u].op = "create" /\ call'[u].step = 1 /\ call'[u].name = s.name
      <4>1. ASSUME NEW u \in Threads, call[u].op = "create", call[u].step = 1, call[u].name = s.name
            PROVE  call'[u].op = "create" /\ call'[u].step = 1 /\ call'[u].name = s.name
        BY <3>2, <4>1, Zenon
      <4> QED
        BY <3>1, <4>1, Zenon DEF Recoverable
    <3> QED
      BY <2>1, <3>3, Zenon DEF Recoverable
  <2>15. TypeOK'
    BY <2>1, <2>2, <2>3, <2>7, <2>11, Zenon DEF TypeOK, plugin, PluginTypeOK
  <2> QED
    BY <2>1, <2>3, <2>9, <2>10, <2>11, <2>12, <2>13, <2>14, <2>15, Frame, Zenon DEF RegistryInv

<1> QED
  BY <1>CreateQueueStep, <1>TakeIdStep, <1>CreateDirStep, <1>OpenJournalStep, <1>CreateFailsStep, Zenon
     DEF CreateExchange, CreateConfig

-----------------------------------------------------------------------------
(***************************************************************************)
(* The steps of bindings and messages, and the pools that shut down.       *)
(***************************************************************************)
LEMMA MessageSteps ==
    /\ RegistryInv
    /\ \/ \E x \in Exchanges, q \in Queues, key \in Keys : Bind(x, q, key) \/ Unbind(x, q, key)
       \/ \E m \in Msgs, q \in Queues : Enqueue(m, q)
       \/ \E task \in tasks : Store(task)
       \/ tasks' \subseteq tasks /\ UNCHANGED <<plugin, durable, seq, obj, journals, call, history, bounds>>
       \/ ClearPools
    => RegistryInv'
<1>BindStep.
    ASSUME RegistryInv, NEW x \in Exchanges, NEW q \in Queues, NEW key \in Keys,
           Bind(x, q, key) \/ Unbind(x, q, key)
    PROVE  RegistryInv'
  <2> USE <1>BindStep
  <2>1. /\ stage = "up" /\ stage' = "up" /\ UNCHANGED stage /\ UNCHANGED plugin /\ UNCHANGED crashes
        /\ UNCHANGED call /\ obj[x] # Absent /\ obj[q] # Absent
        /\ UNCHANGED <<db, dir, rows, log, seq, obj, journals, call, tasks, sent, recovered, marks, born, fails>>
    BY Zenon DEF Bind, Unbind, Up, plugin, volatile
  <2>2. PICK b, c : /\ b = [x |-> obj[x].id, q |-> obj[q].id, key |-> key]
                    /\ c = [x |-> obj[x].inc, q |-> obj[q].inc, key |-> key]
    BY Zenon
  <2>3. \/ bindingDb' = bindingDb \union {b} /\ bound' = bound \union {c}
        \/ bindingDb' = bindingDb \ {b} /\ bound' = bound \ {c}
    BY <2>2, Zenon DEF Bind, Unbind, PutBinding, DeleteBinding
  <2>4. TypeOK /\ ObjectsMatch /\ RowsUnique /\ BindingIds /\ BindingsExact
    BY Zenon DEF RegistryInv
  <2>5. /\ x \in Objects /\ Kind(x) = "exchange" /\ q \in Objects /\ Kind(q) = "queue"
        /\ "exchange" \in Kinds /\ "queue" \in Kinds
    BY <2>4, QueueNames, Zenon DEF Kinds
  <2>6. /\ obj[x].id \in Nat \ {0} /\ obj[x].id < seq["exchange"]
        /\ obj[q].id \in Nat \ {0} /\ obj[q].id < seq["queue"]
        /\ obj[x].inc \in 1..MaxInc /\ obj[x].inc <= born
        /\ obj[q].inc \in 1..MaxInc /\ obj[q].inc <= born
        /\ \A r \in db["exchange"] : r.id = obj[x].id <=> r.inc = obj[x].inc
        /\ \A r \in db["queue"] : r.id = obj[q].id <=> r.inc = obj[q].inc
    BY <2>1, <2>4, <2>5, KnownId, Zenon DEF ObjectsMatch, Match
  <2>7. b \in [x : Nat \ {0}, q : Nat \ {0}, key : Keys] /\ c \in [x : 1..MaxInc, q : 1..MaxInc, key : Keys]
    BY <2>2, <2>6, Zenon
  <2>8. BindingIds'
    <3>1. b.x < seq["exchange"] /\ b.q < seq["queue"] /\ c.x <= born /\ c.q <= born
      <4>1. \A i, j : [x |-> i, q |-> j, key |-> key].x = i /\ [x |-> i, q |-> j, key |-> key].q = j
        OBVIOUS
      <4>2. b.x = obj[x].id /\ b.q = obj[q].id /\ c.x = obj[x].inc /\ c.q = obj[q].inc
        BY <2>2, <4>1, Zenon
      <4> QED
        BY <2>6, <4>2, Zenon
    <3> QED
      BY <2>1, <2>3, <2>4, <3>1, Zenon DEF BindingIds
  <2>9. BindingsExact'
    <3>1. \A e \in db["exchange"], r \in db["queue"], k \in Keys :
              [x |-> e.id, q |-> r.id, key |-> k] = b <=> [x |-> e.inc, q |-> r.inc, key |-> k] = c
      BY <2>2, <2>6, Zenon
    <3> QED
      BY <2>1, <2>3, <2>4, <3>1, Zenon DEF BindingsExact
  <2>10. TypeOK'
    BY <2>1, <2>3, <2>4, <2>7, Zenon DEF TypeOK, plugin, PluginTypeOK
  <2> QED
    BY <2>1, <2>8, <2>9, <2>10, Frame, Zenon DEF RegistryInv

<1>EnqueueStep.
    ASSUME RegistryInv, NEW m \in Msgs, NEW q \in Queues, Enqueue(m, q)
    PROVE  RegistryInv'
  <2> USE <1>EnqueueStep
  <2>1. /\ stage = "up" /\ stage' = "up" /\ UNCHANGED stage /\ UNCHANGED plugin /\ UNCHANGED crashes
        /\ UNCHANGED call /\ obj[q] # Absent /\ ~ Busy(q) /\ sent[m] = 0
        /\ UNCHANGED <<db, bindingDb, dir, rows, seq, obj, journals, call, bound, recovered, marks, born, fails>>
        /\ sent' = [sent EXCEPT ![m] = obj[q].inc]
        /\ log' = log \union {[m |-> m, id |-> obj[q].id]}
        /\ tasks' = tasks \union {[m |-> m, id |-> obj[q].id, name |-> q]}
    BY Zenon DEF Enqueue, Created, Up, plugin
  <2>2. TypeOK /\ CallsOwn /\ ObjectsMatch /\ RowsUnique
    BY Zenon DEF RegistryInv
  <2>3. /\ q \in Objects /\ Kind(q) = "queue" /\ Known("queue")
        /\ ~ Destroying(q) /\ ~ Creating(q)
    BY <2>1, <2>2, QueueNames, Zenon DEF Known, Busy, Destroying, Creating
  <2>4. /\ obj[q].id \in Nat \ {0} /\ obj[q].id < seq["queue"]
        /\ obj[q].inc \in 1..MaxInc /\ obj[q].inc <= born
        /\ \A r \in db["queue"] : r.id = obj[q].id <=> r.inc = obj[q].inc
        /\ \A r \in db["queue"] : r.id = obj[q].id => r.name = q
    BY <2>1, <2>2, <2>3, KnownId, Zenon DEF ObjectsMatch, Match
  <2>5. PICK row \in db["queue"] : row.id = obj[q].id /\ row.inc = obj[q].inc /\ row.name = q
    BY <2>1, <2>2, <2>3, <2>4, Zenon DEF ObjectsMatch, Match
  <2>6. /\ sent'[m] = obj[q].inc /\ sent' \in [Msgs -> 0..MaxInc] /\ sent[m] = 0
        /\ \A n \in Msgs : n # m => sent'[n] = sent[n]
    <3>1. \A i \in 1..MaxInc : i \in 0..MaxInc
      BY RegistryAssumptions
    <3>2. sent \in [Msgs -> 0..MaxInc] /\ obj[q].inc \in 0..MaxInc
      BY <2>2, <2>4, <3>1, Zenon DEF TypeOK
    <3> QED
      BY <2>1, <3>2, Zenon
  <2>7. /\ \A r \in db["queue"] : r.inc # 0
        /\ 0 \notin marks.halfDestroyed
        /\ \A n \in Queues : Destroying(n) => obj[n].inc # 0
    <3>1. \A n \in Queues : Destroying(n) => obj[n].inc # 0
      BY <2>2, KnownId, Zenon DEF ObjectsMatch, Match, Objects
    <3>2. marks.halfDestroyed \in SUBSET (1..MaxInc)
      BY <2>2, Zenon DEF TypeOK
    <3> QED
      <4>1. 0 \notin 1..MaxInc
        OBVIOUS
      <4> QED
        BY <2>2, <3>1, <3>2, <4>1, QueueNames, Zenon
  <2>8. \A n \in Msgs : Marked(n) => Marked(n)'
    BY <2>1, <2>6, <2>7, Zenon DEF Marked
  <2>9. SameCalls
    BY <2>1, Frame, Zenon
  <2>10. SentToLast'
    <3>1. SentToLast /\ Leftovers
      BY Zenon DEF RegistryInv
    <3>2. \A n \in Msgs : sent'[n] <= born
      BY <2>4, <2>6, <3>1, Zenon DEF SentToLast
    <3>3. ASSUME NEW r \in db["queue"], NEW n \in Msgs, sent'[n] = r.inc
          PROVE  /\ \A s \in db["queue"] : s.name = r.name => s.id <= r.id
                 /\ obj[r.name].inc = r.inc
      <4>1. CASE n # m
        BY <2>3, <2>6, <3>1, <3>3, <4>1, Zenon DEF SentToLast
      <4>2. CASE n = m
        <5>1. r.id = obj[q].id /\ r.name = q /\ r.inc = obj[q].inc
          BY <2>4, <2>6, <3>3, <4>2, Zenon
        <5> QED
          BY <2>1, <3>1, <5>1, Zenon DEF Leftovers
      <4> QED
        BY <4>1, <4>2, Zenon
    <3> QED
      BY <2>1, <3>2, <3>3, Zenon DEF SentToLast
  <2>11. Owned'
    <3>1. Owned
      BY Zenon DEF RegistryInv
    <3>2. \A n \in Queues : Destroying(n)' <=> Destroying(n)
      BY <2>9, Zenon DEF SameCalls, Objects
    <3>3. ASSUME NEW n \in Queues, NEW c \in rows[n]
          PROVE  \/ Marked(c)'
                 \/ \E r \in db["queue"] : r.name = n /\ r.inc = sent'[c]
                 \/ Destroying(n) /\ obj[n].inc = sent'[c]
      <4>1. c \in Msgs
        BY <2>2, Zenon DEF TypeOK
      <4>2. \/ Marked(c) \/ \E r \in db["queue"] : r.name = n /\ r.inc = sent[c]
            \/ Destroying(n) /\ obj[n].inc = sent[c]
        BY <3>1, Zenon DEF Owned
      <4>3. c # m \/ Marked(c)
        BY <2>6, <2>7, <4>2, Zenon
      <4> QED
        BY <2>6, <2>8, <4>1, <4>2, <4>3, Zenon
    <3>4. ASSUME NEW e \in log'
          PROVE  Marked(e.m)' \/ \E r \in db["queue"] : r.id = e.id /\ r.inc = sent'[e.m]
      <4>1. CASE e \in log
        <5>1. e.m \in Msgs /\ (Marked(e.m) \/ \E r \in db["queue"] : r.id = e.id /\ r.inc = sent[e.m])
          BY <2>2, <3>1, <4>1, Zenon DEF Owned, TypeOK
        <5>2. e.m # m \/ Marked(e.m)
          BY <2>6, <2>7, <5>1, Zenon
        <5> QED
          BY <2>6, <2>8, <5>1, <5>2, Zenon
      <4>2. CASE e = [m |-> m, id |-> obj[q].id]
        BY <2>5, <2>6, <4>2, Zenon
      <4> QED
        BY <2>1, <4>1, <4>2, Zenon
    <3>5. ASSUME NEW task \in tasks'
          PROVE  /\ task.id < seq["queue"]
                 /\ \A r \in db["queue"] : r.id = task.id =>
                     r.name = task.name /\ (Marked(task.m)' \/ r.inc = sent'[task.m])
                 /\ obj[task.name].id = task.id => Marked(task.m)' \/ obj[task.name].inc = sent'[task.m]
      <4>1. CASE task \in tasks
        <5>1. /\ task.m \in Msgs /\ task.id < seq["queue"] /\ task.id # 0
              /\ \A r \in db["queue"] : r.id = task.id =>
                  r.name = task.name /\ (Marked(task.m) \/ r.inc = sent[task.m])
              /\ obj[task.name].id = task.id => Marked(task.m) \/ obj[task.name].inc = sent[task.m]
          BY <2>2, <3>1, <4>1, Zenon DEF Owned, TypeOK
        <5>2. CASE task.m # m
          BY <2>6, <2>8, <5>1, <5>2, Zenon
        <5>3. CASE task.m = m
          <6>1. obj[task.name].id = task.id => obj[task.name].inc # 0
            <7>1. task.name \in Objects
              BY <2>2, <4>1, Zenon DEF TypeOK, Objects
            <7> QED
              BY <2>2, <5>1, <7>1, KnownId, AbsentFields, Zenon DEF ObjectsMatch
          <6> QED
            BY <2>6, <2>7, <2>8, <5>1, <5>3, <6>1, Zenon
        <5> QED
          BY <5>2, <5>3, Zenon
      <4>2. CASE task = [m |-> m, id |-> obj[q].id, name |-> q]
        BY <2>4, <2>6, <4>2, Zenon
      <4> QED
        BY <2>1, <4>1, <4>2, Zenon
    <3> QED
      BY <2>1, <3>2, <3>3, <3>4, <3>5, Zenon DEF Owned
  <2>12. NoForeignMessage' /\ MessagesKept' /\ JournalsMatch'
    <3>1. NoForeignMessage /\ MessagesKept /\ JournalsMatch
      BY Zenon DEF RegistryInv
    <3>2. NoForeignMessage'
      <4>1. ASSUME NEW n \in Msgs, NEW i \in 1..MaxInc, <<n, i>> \in recovered
            PROVE  sent'[n] = i \/ sent'[n] \in marks.halfDestroyed \/ n \in marks.pendingAtDestroy
        <5>1. sent[n] = i \/ sent[n] \in marks.halfDestroyed \/ n \in marks.pendingAtDestroy
          BY <3>1, <4>1, Zenon DEF NoForeignMessage
        <5>2. i # 0
          OBVIOUS
        <5> QED
          BY <2>6, <2>7, <5>1, <5>2, Zenon
      <4> QED
        BY <2>1, <4>1, Zenon DEF NoForeignMessage
    <3>3. ASSUME NEW r \in db["queue"], NEW n \in Msgs, sent'[n] = r.inc
          PROVE  n \in rows[r.name] \/ [m |-> n, id |-> r.id] \in log'
      BY <2>1, <2>4, <2>6, <3>1, <3>3, Zenon DEF MessagesKept
    <3> QED
      BY <2>1, <2>3, <3>1, <3>2, <3>3, Zenon DEF MessagesKept, JournalsMatch, Known
  <2>13. TypeOK'
    <3>1. /\ log' \subseteq [m : Msgs, id : Nat \ {0}]
          /\ tasks' \subseteq [m : Msgs, id : Nat \ {0}, name : Queues]
      <4>1. /\ log \subseteq [m : Msgs, id : Nat \ {0}]
            /\ tasks \subseteq [m : Msgs, id : Nat \ {0}, name : Queues]
        BY <2>2, Zenon DEF TypeOK
      <4>2. /\ [m |-> m, id |-> obj[q].id] \in [m : Msgs, id : Nat \ {0}]
            /\ [m |-> m, id |-> obj[q].id, name |-> q] \in [m : Msgs, id : Nat \ {0}, name : Queues]
        BY <2>4, Zenon
      <4> QED
        BY <2>1, <4>1, <4>2, Zenon
    <3> QED
      BY <2>1, <2>2, <2>6, <3>1, Zenon DEF TypeOK, plugin, PluginTypeOK
  <2> QED
    BY <2>1, <2>9, <2>10, <2>11, <2>12, <2>13, Frame, Zenon DEF RegistryInv

<1>StoreStep.
    ASSUME RegistryInv, NEW task \in tasks, Store(task)
    PROVE  RegistryInv'
  <2> USE <1>StoreStep
  <2>1. /\ UNCHANGED stage /\ UNCHANGED plugin /\ UNCHANGED crashes /\ UNCHANGED call
        /\ UNCHANGED <<db, bindingDb, dir, seq, obj, journals, call, sent, bound, recovered, marks, born, fails>>
        /\ rows' = [rows EXCEPT ![task.name] = @ \union {task.m}]
        /\ log' = log \ {[m |-> task.m, id |-> task.id]} /\ tasks' = tasks \ {task}
        /\ [id |-> task.id, name |-> task.name] \in journals
    BY Zenon DEF Store, Working, JournalOpen, plugin, history
  <2>2. TypeOK /\ ObjectsMatch /\ JournalsMatch /\ Owned /\ MessagesKept
    BY Zenon DEF RegistryInv
  <2>3. task.m \in Msgs /\ task.id \in Nat \ {0} /\ task.name \in Queues /\ task.name \in Objects
    BY <2>2, Zenon DEF TypeOK, Objects
  <2>4. obj[task.name].id = task.id /\ obj[task.name] # Absent
    <3>1. PICK j \in journals : j = [id |-> task.id, name |-> task.name]
      BY <2>1, Zenon
    <3>2. PICK i, n : i = task.id /\ n = task.name /\ j = [id |-> i, name |-> n]
      BY <3>1, Zenon
    <3>3. j.id = i /\ j.name = n
      BY <3>2
    <3> QED
      BY <2>2, <2>3, <3>2, <3>3, AbsentFields, Zenon DEF JournalsMatch
  <2>5. /\ rows' \in [Queues -> SUBSET Msgs] /\ rows'[task.name] = rows[task.name] \union {task.m}
        /\ \A n \in Queues : n # task.name => rows'[n] = rows[n]
    BY <2>1, <2>2, <2>3, Zenon DEF TypeOK
  <2>6. SameCalls /\ \A n \in Queues : Destroying(n)' <=> Destroying(n)
    <3>1. SameCalls
      BY <2>1, Frame, Zenon
    <3> QED
      BY <3>1, Zenon DEF SameCalls, Objects
  <2>7. Owned'
    <3>1. \/ Marked(task.m)
          \/ \E r \in db["queue"] : r.name = task.name /\ r.inc = sent[task.m]
          \/ Destroying(task.name) /\ obj[task.name].inc = sent[task.m]
      <4>1. Marked(task.m) \/ obj[task.name].inc = sent[task.m]
        BY <2>2, <2>4, Zenon DEF Owned
      <4>2. /\ Kind(task.name) = "queue"
            /\ Destroying(task.name)
               \/ \E r \in db["queue"] : r.id = obj[task.name].id
        BY <2>2, <2>3, <2>4, Zenon DEF ObjectsMatch, Match, Kind
      <4>3. \A r \in db["queue"] : r.id = obj[task.name].id => r.name = task.name /\ r.inc = obj[task.name].inc
        BY <2>2, <2>3, <2>4, <4>2, Zenon DEF ObjectsMatch, Match
      <4> QED
        BY <4>1, <4>2, <4>3, Zenon
    <3>2. \A n \in Queues : \A m \in rows'[n] :
              \/ Marked(m)
              \/ \E r \in db["queue"] : r.name = n /\ r.inc = sent[m]
              \/ Destroying(n) /\ obj[n].inc = sent[m]
      BY <2>2, <2>5, <3>1, Zenon DEF Owned
    <3>3. \A m : Marked(m)' <=> Marked(m)
      BY <2>1, Zenon DEF Marked
    <3>4. /\ db' = db /\ seq' = seq /\ obj' = obj /\ sent' = sent
          /\ log' \subseteq log /\ tasks' \subseteq tasks
      BY <2>1, Zenon
    <3> QED
      BY <2>2, <2>6, <3>2, <3>3, <3>4, Zenon DEF Owned
  <2>8. MessagesKept'
    <3>1. ASSUME NEW r \in db["queue"], NEW m \in Msgs, sent[m] = r.inc
          PROVE  m \in rows'[r.name] \/ [m |-> m, id |-> r.id] \in log'
      <4>1. CASE m = task.m /\ r.id = task.id
        BY <2>2, <2>5, <4>1, Zenon DEF Owned
      <4>2. CASE ~ (m = task.m /\ r.id = task.id)
        <5>1. r.name \in Queues
          BY QueueNames, Zenon DEF RegistryInv
        <5> QED
          BY <2>1, <2>2, <2>5, <3>1, <4>2, <5>1, Zenon DEF MessagesKept
      <4> QED
        BY <4>1, <4>2, Zenon
    <3> QED
      BY <2>1, <3>1, Zenon DEF MessagesKept
  <2>9. JournalsMatch'
    BY <2>1, <2>2, Zenon DEF JournalsMatch, Known
  <2>10. TypeOK'
    BY <2>1, <2>2, <2>5, Zenon DEF TypeOK, plugin, PluginTypeOK
  <2> QED
    BY <2>1, <2>6, <2>7, <2>8, <2>9, <2>10, Frame, Zenon DEF RegistryInv

<1>DropTaskStep.
    ASSUME RegistryInv, tasks' \subseteq tasks, UNCHANGED <<plugin, durable, seq, obj, journals, call, history, bounds>>
    PROVE  RegistryInv'
  <2> USE <1>DropTaskStep
  <2>1. /\ UNCHANGED stage /\ UNCHANGED plugin /\ UNCHANGED call
        /\ UNCHANGED <<attempts, isInit, providers, provider, storeSet>>
        /\ UNCHANGED <<db, bindingDb, dir, rows, log, seq, obj, journals, call, sent, bound, recovered, marks,
                       born, crashes, fails>>
    BY Zenon DEF plugin, durable, history, bounds
  <2>2. TypeOK /\ JournalsMatch /\ Owned
    BY Zenon DEF RegistryInv
  <2>3. SameCalls /\ \A n \in Queues : Destroying(n)' <=> Destroying(n)
    <3>1. SameCalls
      BY <2>1, Frame, Zenon
    <3> QED
      BY <3>1, Zenon DEF SameCalls, Objects
  <2>4. JournalsMatch'
    BY <2>1, <2>2, Zenon DEF JournalsMatch, Known
  <2>5. Owned'
    BY <2>1, <2>2, <2>3, OwnedFrame, Zenon
  <2>6. TypeOK'
    BY <2>1, <2>2, Zenon DEF TypeOK, PluginTypeOK
  <2> QED
    BY <2>1, <2>3, <2>4, <2>5, <2>6, Frame, Zenon DEF RegistryInv

<1>ClearPoolsStep.
    ASSUME RegistryInv, ClearPools
    PROVE  RegistryInv'
  <2> USE <1>ClearPoolsStep
  <2>1. /\ stage = "up" /\ stage' = "closing" /\ tasks' \subseteq tasks
        /\ UNCHANGED <<attempts, isInit, providers, provider, storeSet, db, bindingDb, dir, rows, log, seq, obj,
                       journals, call, sent, bound, recovered, marks, born, fails>>
        /\ \A t \in Threads : call[t] = Idle
    BY Zenon DEF ClearPools, durable, history
  <2>2. TypeOK /\ PluginReady /\ CallsOwn
    BY Zenon DEF RegistryInv
  <2>3. /\ \A k : Known(k) /\ Known(k)'
        /\ \A n : (Creating(n)' <=> Creating(n)) /\ (Destroying(n)' <=> Destroying(n))
    BY <2>1, Zenon DEF Known, Creating, Destroying
  <2>4. TypeOK' /\ PluginReady' /\ CallsOwn'
    <3>1. crashes' \in 0..MaxCrashes
      <4>1. crashes \in 0..MaxCrashes /\ MaxCrashes \in Nat /\ (crashes' = crashes \/ (crashes < MaxCrashes /\ crashes' = crashes + 1))
        BY <2>2, RegistryAssumptions, Zenon DEF ClearPools, TypeOK
      <4> QED
        BY <4>1
    <3>2. PluginTypeOK' /\ stage' \in Stages
      BY <2>1, <2>2, Zenon DEF TypeOK, PluginTypeOK, Stages
    <3>3. TypeOK'
      BY <2>1, <2>2, <3>1, <3>2, Zenon DEF TypeOK
    <3>4. PluginReady'
      BY <2>1, <2>2, Zenon DEF PluginReady, ForwardsToReady, StartStages
    <3>5. CallsOwn'
      BY <2>1, <2>2, Zenon DEF CallsOwn
    <3> QED
      BY <3>3, <3>4, <3>5, Zenon
  <2>5. RowsUnique' /\ ObjectsMatch' /\ Leftovers' /\ JournalsMatch' /\ SentToLast'
    <3>1. RowsUnique' /\ SentToLast'
      BY <2>1, <2>3, Zenon DEF RegistryInv, RowsUnique, SentToLast
    <3>2. ObjectsMatch'
      <4>1. ObjectsMatch /\ UNCHANGED <<obj, db, seq, born>>
        BY <2>1, Zenon DEF RegistryInv
      <4> QED
        BY <2>3, <4>1, ObjectsFrame, Zenon
    <3>3. Leftovers' /\ JournalsMatch'
      BY <2>1, <2>3, Zenon DEF RegistryInv, Leftovers, JournalsMatch
    <3> QED
      BY <3>1, <3>2, <3>3, Zenon
  <2>6. BindingIds' /\ BindingsExact' /\ NoForeignMessage' /\ MessagesKept'
    BY <2>1, Zenon DEF RegistryInv, BindingIds, BindingsExact, NoForeignMessage, MessagesKept
  <2>7. Owned' /\ Recoverable'
    BY <2>1, <2>3, Zenon DEF RegistryInv, Owned, Marked, Recoverable
  <2> QED
    BY <2>4, <2>5, <2>6, <2>7, Zenon DEF RegistryInv

<1> QED
  BY <1>BindStep, <1>EnqueueStep, <1>StoreStep, <1>DropTaskStep, <1>ClearPoolsStep, Zenon

(***************************************************************************)
(* Whenever the process ends, the next one finds a store it can recover:   *)
(* what was interrupted is marked, and nothing else is out of place.       *)
(***************************************************************************)
LEMMA DownStep ==
    ASSUME RegistryInv, Down, crashes' \in 0..MaxCrashes
    PROVE  RegistryInv'
<1>1. /\ obj' = [n \in Objects |-> Absent] /\ journals' = {} /\ tasks' = {}
      /\ call' = [t \in Threads |-> Idle] /\ seq' = [k \in Kinds |-> 1]
      /\ stage' = "down" /\ attempts' = 0 /\ isInit' = FALSE
      /\ providers' = {} /\ provider' = End /\ storeSet' = FALSE
      /\ UNCHANGED <<db, bindingDb, dir, rows, log, sent, bound, recovered, born, fails>>
  BY Zenon DEF Down, durable
<1>2. PICK cut, half :
        /\ cut = {NewRow(call[t].name).inc : t \in {u \in Threads : call[u].op = "create" /\ call[u].step = 1}}
        /\ half = {obj[call[t].name].inc : t \in {u \in Threads : call[u].op = "destroy"}}
  BY Zenon
<1>3. marks' = [marks EXCEPT !.interrupted = @ \union cut, !.halfDestroyed = @ \union half]
  BY <1>2, Zenon DEF Down
<1>4. TypeOK /\ RowsUnique /\ CallsOwn /\ ObjectsMatch
  BY Zenon DEF RegistryInv
<1>5. cut \subseteq 1..MaxInc /\ half \subseteq 1..MaxInc
  <2>1. ASSUME NEW t \in Threads, call[t].op = "create" PROVE NewRow(call[t].name).inc \in 1..MaxInc
    <3>1. call[t].name \in Objects /\ Creating(call[t].name)
      BY <1>4, <2>1, IdleFields, Zenon DEF CallsOwn, Objects, Creating
    <3>2. NewRow(call[t].name) \in db["queue"]
      BY <1>4, <3>1, NewRowIsLast, Zenon DEF ObjectsMatch, Match
    <3> QED
      BY <1>4, <3>2, QueueNames, Zenon
  <2>2. ASSUME NEW t \in Threads, call[t].op = "destroy" PROVE obj[call[t].name].inc \in 1..MaxInc
    <3>1. call[t].name \in Objects /\ obj[call[t].name] # Absent
      BY <2>2, DestroyedGone, Zenon
    <3> QED
      BY <1>4, <3>1, KnownId, Zenon DEF ObjectsMatch
  <2> QED
    BY <1>2, <2>1, <2>2, Zenon
<1>6. /\ marks'.tainted = marks.tainted /\ marks'.pendingAtDestroy = marks.pendingAtDestroy
      /\ marks'.interrupted = marks.interrupted \union cut
      /\ marks'.halfDestroyed = marks.halfDestroyed \union half
      /\ marks' \in [interrupted : SUBSET (1..MaxInc), halfDestroyed : SUBSET (1..MaxInc),
                     pendingAtDestroy : SUBSET Msgs, tainted : SUBSET Queues]
  BY <1>3, <1>4, <1>5, Zenon DEF TypeOK
<1>7. /\ \A k : ~ Known(k)'
      /\ \A n : ~ Creating(n)' /\ ~ Destroying(n)'
      /\ \A t \in Threads : call'[t] = Idle
  BY <1>1, Zenon DEF Known, Creating, Destroying, Idle
<1>8. \A n \in Objects : obj'[n] = Absent
  BY <1>1, Zenon
<1>9. TypeOK' /\ PluginReady'
  <2>1. Absent \in [id : Nat, inc : 0..MaxInc] /\ Idle \in Calls /\ attempts' \in 0..RetryMax
    BY <1>1, RegistryAssumptions, PluginAssumptions DEF Absent, Idle, Calls
  <2>2. PluginTypeOK' /\ stage' \in Stages /\ PluginReady'
    <3>1. PluginTypeOK' /\ stage' \in Stages
      BY <1>1, <2>1, Zenon DEF PluginTypeOK, Stages, StartStages
    <3>2. provider' # "BDB" /\ "BDB" \notin providers' /\ stage' # "init"
      BY <1>1, Zenon DEF End
    <3> QED
      BY <1>1, <3>1, <3>2, Zenon DEF PluginReady, ForwardsToReady
  <2>3. obj' \in [Objects -> [id : Nat, inc : 0..MaxInc]] /\ call' \in [Threads -> Calls]
        /\ seq' \in [Kinds -> Nat \ {0}]
    BY <1>1, <2>1
  <2> QED
    BY <1>1, <1>4, <1>6, <2>2, <2>3, Zenon DEF TypeOK
<1>10. RowsUnique' /\ CallsOwn' /\ ObjectsMatch'
  <2>1. RowsUnique'
    <3>1. born \in Nat
      BY <1>4, BornNatural, Zenon
    <3>2. 1 <= born + 2
      BY <3>1
    <3> QED
      BY <1>1, <1>4, <1>7, <3>2, Zenon DEF RowsUnique
  <2>2. CallsOwn'
    BY <1>7, Zenon DEF CallsOwn
  <2>3. ObjectsMatch'
    BY <1>7, <1>8, Zenon DEF ObjectsMatch, Match
  <2> QED
    BY <2>1, <2>2, <2>3, Zenon
<1>11. Leftovers' /\ JournalsMatch' /\ SentToLast' /\ BindingIds'
  <2>1. Leftovers /\ SentToLast /\ BindingIds
    BY Zenon DEF RegistryInv
  <2>2. Leftovers'
    BY <1>1, <1>6, <1>7, <1>8, <2>1, Zenon DEF Leftovers, Objects
  <2>3. JournalsMatch' /\ SentToLast' /\ BindingIds'
    BY <1>1, <1>7, <2>1, Zenon DEF JournalsMatch, SentToLast, BindingIds
  <2> QED
    BY <2>2, <2>3, Zenon
<1>12. Owned'
  <2>1. Owned /\ \A m : Marked(m) => Marked(m)'
    BY <1>1, <1>6, Zenon DEF RegistryInv, Marked
  <2>2. \A n : Destroying(n) => obj[n].inc \in half
    BY <1>2, Zenon DEF Destroying
  <2>3. \A n \in Queues : \A m \in rows[n] :
            Marked(m)' \/ \E r \in db["queue"] : r.name = n /\ r.inc = sent[m]
    <3>1. ASSUME NEW n \in Queues, NEW m \in rows[n], Destroying(n), obj[n].inc = sent[m] PROVE Marked(m)'
      BY <1>1, <1>6, <2>2, <3>1, Zenon DEF Marked
    <3> QED
      BY <2>1, <3>1, Zenon DEF Owned
  <2>4. \A e \in log : Marked(e.m)' \/ \E r \in db["queue"] : r.id = e.id /\ r.inc = sent[e.m]
    BY <2>1, Zenon DEF Owned
  <2> QED
    BY <1>1, <2>3, <2>4, Zenon DEF Owned
<1>13. BindingsExact' /\ NoForeignMessage' /\ MessagesKept'
  BY <1>1, <1>6, Zenon DEF RegistryInv, BindingsExact, NoForeignMessage, MessagesKept
<1>14. Recoverable'
  <2>1. ASSUME NEW r \in db["queue"], NEW t \in Threads, call[t].op = "create", call[t].step = 1,
               call[t].name = r.name, r.name \notin marks.tainted
        PROVE  r.inc \in cut
    <3>1. /\ NewRow(r.name) \in db["queue"] /\ NewRow(r.name).name = r.name
      BY NewRowIsLast, Zenon
    <3>2. NewRow(r.name) = r
      BY <2>1, <3>1, Zenon DEF RegistryInv, Leftovers
    <3> QED
      BY <1>2, <2>1, <3>2, Zenon
  <2>2. ASSUME NEW r \in db["queue"]
        PROVE  r.name \in dir \/ r.name \in marks'.tainted \/ r.inc \in marks'.interrupted
    BY <1>6, <2>1, Zenon DEF RegistryInv, Recoverable
  <2> QED
    BY <1>1, <2>2, Zenon DEF Recoverable
<1> QED
  BY <1>9, <1>10, <1>11, <1>12, <1>13, <1>14, Zenon DEF RegistryInv

(***************************************************************************)
(* The process ends: finalize, a crash, or an enqueue that used what was   *)
(* destroyed under it.                                                     *)
(***************************************************************************)
LEMMA EndStep ==
    ASSUME RegistryInv, Finalized \/ Crash \/ \E task \in tasks : StoreDangling(task) /\ Down /\ UNCHANGED crashes
    PROVE  RegistryInv'
<1>1. crashes \in 0..MaxCrashes /\ MaxCrashes \in Nat
  BY RegistryAssumptions, Zenon DEF RegistryInv, TypeOK
<1>2. Down /\ crashes' \in 0..MaxCrashes
  BY <1>1 DEF Finalized, Crash
<1> QED
  BY <1>2, DownStep, Zenon

-----------------------------------------------------------------------------
(***************************************************************************)
(* The steps of the recovery, and of the plugin before it.                 *)
(***************************************************************************)
LEMMA RecoverySteps ==
    /\ RegistryInv
    /\ \/ RecoverConfigs \/ RecoverExchanges \/ RecoverQueues \/ RecoverBindings \/ RecoverMessages
       \/ Starting /\ UNCHANGED <<durable, volatile, history, bounds>>
    => RegistryInv'
(***************************************************************************)
(* A recovered object is that of the last row with its name, and the ids   *)
(* given from then on are new.                                             *)
(***************************************************************************)
<1>RecoverRowsEffect.
    ASSUME RegistryInv, NEW k \in Kinds, RecoverRows(k), UNCHANGED <<db, born, call>>, stage # "up",
           ~ Known(k), NowKnown(k)
    PROVE  /\ seq' \in [Kinds -> Nat \ {0}] /\ obj' \in [Objects -> [id : Nat, inc : 0..MaxInc]]
           /\ RowsUnique' /\ CallsOwn' /\ ObjectsMatch' /\ SameCalls
           /\ \A j \in Kinds : j # k => seq'[j] = seq[j]
           /\ \A n \in Objects : Kind(n) # k => obj'[n] = obj[n]
           /\ \A r \in db[k] : /\ r.name \in Objects /\ r.id <= obj'[r.name].id
                               /\ (r.id = obj'[r.name].id <=> r.inc = obj'[r.name].inc)
                               /\ \E s \in db[k] : s.name = r.name /\ s.inc = obj'[r.name].inc
           /\ \A n \in Objects : obj'[n] # Absent /\ Kind(n) = k =>
                \E r \in db[k] : r.name = n /\ r.id = obj'[n].id /\ r.inc = obj'[n].inc
  <2> USE <1>RecoverRowsEffect
  <2>1. TypeOK /\ RowsUnique /\ CallsOwn /\ ObjectsMatch
    BY Zenon DEF RegistryInv
  <2>2. \A j \in Kinds : Known(j)' <=> (Known(j) \/ j = k)
    BY Zenon DEF NowKnown
  <2>3. /\ NextId(k) \in Nat \ {0} /\ NextId(k) <= born + 2
        /\ \A r \in db[k] : r.id < NextId(k)
    BY NextIdAbove, Zenon
  <2>4. /\ seq' \in [Kinds -> Nat \ {0}] /\ seq'[k] = NextId(k)
        /\ \A j \in Kinds : j # k => seq'[j] = seq[j]
    BY <2>1, <2>3, Zenon DEF RecoverRows, TypeOK
  <2>5. \A n \in Objects : Kind(n) = k => obj[n] = Absent
    BY <2>1, Zenon DEF ObjectsMatch, Match
  <2>6. \A r \in db[k] : r \in Rows /\ Kind(r.name) = k /\ r.name \in Names(k)
    BY <2>1, Zenon DEF TypeOK, RowsUnique, Names
  <2>7. \A n \in Names(k) : n \in Objects /\ Kind(n) = k
    BY <2>6, Zenon DEF Names, Rows
  <2>8. \A n \in Names(k) : /\ LastRow(k, n) \in db[k] /\ LastRow(k, n).name = n
                            /\ \A s \in db[k] : s.name = n => s.id <= LastRow(k, n).id
    BY LastRowIsLast, Zenon
  <2>9. /\ \A n \in Names(k) : obj'[n].id = LastRow(k, n).id /\ obj'[n].inc = LastRow(k, n).inc
        /\ \A n \in Objects : n \notin Names(k) => obj'[n] = obj[n]
    BY <2>7, Zenon DEF RecoverRows
  <2>10. obj' \in [Objects -> [id : Nat, inc : 0..MaxInc]]
    <3>0. (\A i \in 1..MaxInc : i \in 0..MaxInc) /\ (\A i \in Nat \ {0} : i \in Nat)
      OBVIOUS
    <3>1. \A n \in Names(k) : LastRow(k, n).id \in Nat /\ LastRow(k, n).inc \in 0..MaxInc
      BY <2>1, <2>8, <3>0, RowFields, Zenon
    <3>2. obj \in [Objects -> [id : Nat, inc : 0..MaxInc]]
      BY <2>1, Zenon DEF TypeOK
    <3> QED
      BY <3>1, <3>2, Zenon DEF RecoverRows
  <2>11. RowsUnique'
    <3>1. ASSUME NEW j \in Kinds
          PROVE  /\ seq'[j] <= born + 2
                 /\ Known(j)' => \A r \in db[j] : r.id < seq'[j]
      <4>1. CASE j = k
        BY <2>3, <2>4, <4>1, Zenon
      <4>2. CASE j # k
        BY <2>1, <2>2, <2>4, <4>2, Zenon DEF RowsUnique
      <4> QED
        BY <4>1, <4>2, Zenon
    <3> QED
      BY <2>1, <3>1, Zenon DEF RowsUnique
  <2>12. SameCalls /\ CallsOwn' /\ \A n : ~ Creating(n) /\ ~ Destroying(n) /\ ~ Creating(n)' /\ ~ Destroying(n)'
    <3>1. \A t \in Threads : call[t] = Idle /\ call'[t] = Idle
      BY <2>1, Zenon DEF CallsOwn
    <3>2. \A n : ~ Creating(n) /\ ~ Destroying(n) /\ ~ Creating(n)' /\ ~ Destroying(n)'
      BY <3>1, IdleFields, Zenon DEF Creating, Destroying
    <3> QED
      BY <3>1, <3>2, Zenon DEF SameCalls, CallsOwn
  <2>13. \A r, s \in db[k] : (r.id = s.id <=> r.inc = s.inc) /\ (r.id = s.id => r = s)
    <3>1. \A r, s \in db[k] : (r.id <= s.id <=> r.inc <= s.inc) /\ (r.id = s.id => r = s)
      BY <2>1, Zenon DEF RowsUnique
    <3>3. \A r \in db[k] : r.id \in Nat \ {0} /\ r.inc \in 1..MaxInc
      BY <2>1, RowFields, Zenon
    <3>4. ASSUME NEW r \in db[k], NEW s \in db[k] PROVE r.id = s.id <=> r.inc = s.inc
      <4>1. (r.id <= s.id <=> r.inc <= s.inc) /\ (s.id <= r.id <=> s.inc <= r.inc)
        BY <3>1, Zenon
      <4>2. r.id \in Nat \ {0} /\ s.id \in Nat \ {0} /\ r.inc \in 1..MaxInc /\ s.inc \in 1..MaxInc
        BY <3>3, Zenon
      <4> QED
        BY <4>1, <4>2
    <3> QED
      BY <3>1, <3>4, Zenon
  <2>14. \A n \in Objects : obj'[n] # Absent /\ Kind(n) = k =>
              \E r \in db[k] : r.name = n /\ r.id = obj'[n].id /\ r.inc = obj'[n].inc
    BY <2>5, <2>8, <2>9, Zenon
  <2>15. \A r \in db[k] : /\ r.name \in Objects /\ r.id <= obj'[r.name].id
                          /\ (r.id = obj'[r.name].id <=> r.inc = obj'[r.name].inc)
                          /\ \E s \in db[k] : s.name = r.name /\ s.inc = obj'[r.name].inc
    <3>1. ASSUME NEW r \in db[k]
          PROVE  /\ r.name \in Objects /\ r.id <= obj'[r.name].id
                 /\ (r.id = obj'[r.name].id <=> r.inc = obj'[r.name].inc)
                 /\ \E s \in db[k] : s.name = r.name /\ s.inc = obj'[r.name].inc
      <4>1. r.name \in Names(k) /\ r.name \in Objects
        BY <2>6, <2>7, Zenon
      <4>2. PICK s \in db[k] : /\ s.name = r.name /\ r.id <= s.id
                              /\ obj'[r.name].id = s.id /\ obj'[r.name].inc = s.inc
        BY <2>8, <2>9, <4>1, Zenon
      <4>3. r.id = s.id <=> r.inc = s.inc
        BY <2>13, Zenon
      <4> QED
        BY <4>1, <4>2, <4>3, Zenon
    <3> QED
      BY <3>1, Zenon
  <2>16. \A n \in Objects : Kind(n) # k => obj'[n] = obj[n]
    BY <2>7, <2>9, Zenon
  <2>17. ObjectsMatch'
    <3>1. ASSUME NEW n \in Objects, obj'[n] # Absent
          PROVE  /\ Known(Kind(n))'
                 /\ obj'[n].id \in 1..(seq'[Kind(n)] - 1) /\ obj'[n].inc \in 1..born
                 /\ \A r \in db[Kind(n)] : r.id = obj'[n].id <=> r.inc = obj'[n].inc
                 /\ \A r \in db[Kind(n)] : r.id = obj'[n].id => r.name = n
                 /\ \E r \in db[Kind(n)] : r.id = obj'[n].id
      <4>1. CASE Kind(n) = k
        <5>1. PICK r \in db[k] : r.name = n /\ r.id = obj'[n].id /\ r.inc = obj'[n].inc
          BY <2>14, <3>1, <4>1, Zenon
        <5>2. /\ r.id \in Nat \ {0} /\ r.inc \in 1..MaxInc /\ r.inc <= born /\ born \in Nat
              /\ seq'[k] \in Nat \ {0} /\ r.id < seq'[k]
          <6>1. r.id \in Nat \ {0} /\ r.inc \in 1..MaxInc /\ born \in Nat
            BY <2>1, RowFields, BornNatural, Zenon
          <6>2. r.inc <= born
            BY <2>1, Zenon DEF RowsUnique
          <6>3. seq'[k] \in Nat \ {0} /\ r.id < seq'[k]
            BY <2>3, <2>4, Zenon
          <6> QED
            BY <6>1, <6>2, <6>3, Zenon
        <5>3. r.id \in 1..(seq'[k] - 1) /\ r.inc \in 1..born
          BY <5>2
        <5>4. ASSUME NEW s \in db[k] PROVE (s.id = r.id <=> s.inc = r.inc) /\ (s.id = r.id => s.name = n)
          BY <2>13, <5>1, Zenon
        <5> QED
          BY <2>2, <4>1, <5>1, <5>3, <5>4, Zenon
      <4>2. CASE Kind(n) # k
        <5>1. Kind(n) \in Kinds
          BY Zenon DEF Kind, Kinds
        <5>2. obj'[n] = obj[n] /\ seq'[Kind(n)] = seq[Kind(n)] /\ (Known(Kind(n)) => Known(Kind(n))')
          BY <2>2, <2>4, <2>16, <4>2, <5>1, Zenon
        <5>3. Match(n) /\ obj[n] # Absent /\ ~ Destroying(n)
          BY <2>1, <2>12, <3>1, <5>2, Zenon DEF ObjectsMatch
        <5> QED
          BY <5>2, <5>3, Zenon DEF Match
      <4> QED
        BY <4>1, <4>2, Zenon
    <3> QED
      BY <2>12, <3>1, Zenon DEF ObjectsMatch, Match
  <2> QED
    BY <2>4, <2>10, <2>11, <2>12, <2>14, <2>15, <2>16, <2>17, Zenon

(***************************************************************************)
(* What a step of the recovery leaves alone.                               *)
(***************************************************************************)
<1>RecoversEffect.
    ASSUME RegistryInv, NEW from \in {"configs", "exchanges", "queues", "bindings", "messages"},
           NEW to \in {"exchanges", "queues", "bindings", "messages", "up", "stuck"}, Recovers(from, to)
    PROVE  /\ stage = from /\ stage # "up" /\ stage' = to /\ stage' \in Stages /\ PluginTypeOK' /\ PluginReady'
           /\ UNCHANGED <<call, born, crashes, fails>> /\ UNCHANGED call /\ tasks = {}
           /\ \A t \in Threads : call[t] = Idle
  <2> USE <1>RecoversEffect
  <2>1. /\ stage = from /\ stage' = to /\ stage # "up" /\ stage \notin {"up", "closing"}
        /\ UNCHANGED <<attempts, isInit, providers, provider, storeSet, call, born, crashes, fails>>
    BY Zenon DEF Recovers
  <2>2. TypeOK /\ PluginReady /\ CallsOwn /\ JournalsMatch
    BY Zenon DEF RegistryInv
  <2>3. PluginTypeOK' /\ stage' \in Stages
    BY <2>1, <2>2, Zenon DEF TypeOK, PluginTypeOK, Stages
  <2>4. PluginReady'
    BY <2>1, <2>2, Zenon DEF PluginReady, ForwardsToReady, StartStages
  <2>5. tasks = {} /\ \A t \in Threads : call[t] = Idle
    BY <2>1, <2>2, Zenon DEF JournalsMatch, CallsOwn
  <2> QED
    BY <2>1, <2>3, <2>4, <2>5, Zenon

<1>RecoverOthersStep.
    ASSUME RegistryInv, RecoverConfigs \/ RecoverExchanges
    PROVE  RegistryInv'
  <2> USE <1>RecoverOthersStep
  <2>1. PICK k \in {"general", "exchange"}, from \in {"configs", "exchanges"}, to \in {"exchanges", "queues"} :
          /\ Recovers(from, to) /\ RecoverRows(k)
          /\ k = "general" => from = "configs" /\ to = "exchanges"
          /\ k = "exchange" => from = "exchanges" /\ to = "queues"
    BY Zenon DEF RecoverConfigs, RecoverExchanges
  <2>2. UNCHANGED <<db, bindingDb, dir, rows, log, journals, tasks, sent, bound, recovered, marks>>
    BY Zenon DEF RecoverConfigs, RecoverExchanges, durable, history
  <2>3. /\ stage = from /\ stage # "up" /\ stage' = to /\ stage' \in Stages /\ PluginTypeOK' /\ PluginReady'
        /\ UNCHANGED <<call, born, crashes, fails>> /\ UNCHANGED call /\ tasks = {}
        /\ \A t \in Threads : call[t] = Idle
    BY <2>1, <1>RecoversEffect, Zenon
  <2>4. k \in Kinds /\ ~ Known(k) /\ NowKnown(k)
    BY <2>1, <2>3, Zenon DEF Known, NowKnown, Kinds
  <2>5. /\ seq' \in [Kinds -> Nat \ {0}] /\ obj' \in [Objects -> [id : Nat, inc : 0..MaxInc]]
        /\ RowsUnique' /\ CallsOwn' /\ ObjectsMatch' /\ SameCalls
        /\ \A j \in Kinds : j # k => seq'[j] = seq[j]
        /\ \A n \in Objects : Kind(n) # k => obj'[n] = obj[n]
    BY <2>1, <2>2, <2>3, <2>4, <1>RecoverRowsEffect, Zenon
  <2>6. TypeOK /\ RowsUnique
    BY Zenon DEF RegistryInv
  <2>7. /\ Leftovers' /\ JournalsMatch' /\ SentToLast' /\ Owned' /\ MessagesKept'
        /\ NoForeignMessage' /\ Recoverable'
    <3>1. \A n \in Queues : /\ obj'[n] = obj[n]
                           /\ (Creating(n)' <=> Creating(n)) /\ (Destroying(n)' <=> Destroying(n))
      BY <2>1, <2>5, <2>6, QueueNames, Zenon DEF SameCalls
    <3>2. (Known("queue")' <=> Known("queue")) /\ seq'["queue"] = seq["queue"] /\ born \in Nat
      BY <2>1, <2>3, <2>5, <2>6, BornNatural, Zenon DEF Known, Kinds
    <3>3. SameQueues
      <4>1. born' = born /\ born' >= born
        BY <2>3, <2>6, BornNatural, Zenon
      <4> QED
        BY <2>2, <2>3, <3>1, <3>2, <4>1, Zenon DEF SameQueues
    <3>4. \A u \in Threads : call[u].op = "create" => call'[u] = call[u]
      BY <2>3, Zenon
    <3> QED
      BY <3>3, <3>4, QueuesApart, Zenon
  <2>8. BindingIds' /\ BindingsExact'
    BY <2>1, <2>2, <2>3, Zenon DEF RegistryInv, BindingIds, BindingsExact
  <2>9. TypeOK'
    BY <2>2, <2>3, <2>5, <2>6, Zenon DEF TypeOK
  <2> QED
    BY <2>3, <2>5, <2>7, <2>8, <2>9, Zenon DEF RegistryInv

<1>RecoverQueuesStep.
    ASSUME RegistryInv, RecoverQueues
    PROVE  RegistryInv'
  <2> USE <1>RecoverQueuesStep
  <2>1. /\ Recovers("queues", "bindings") /\ RecoverRows("queue")
        /\ UNCHANGED <<db, bindingDb, dir, rows, log, tasks, sent, bound, recovered, marks>>
        /\ journals' = {[id |-> LastRow("queue", n).id, name |-> n] : n \in Names("queue")}
    BY Zenon DEF RecoverQueues, durable, history
  <2>2. /\ stage = "queues" /\ stage # "up" /\ stage' = "bindings" /\ stage' \in Stages /\ PluginTypeOK'
        /\ PluginReady' /\ UNCHANGED <<call, born, crashes, fails>> /\ UNCHANGED call /\ tasks = {}
        /\ \A t \in Threads : call[t] = Idle
    BY <2>1, <1>RecoversEffect, Zenon
  <2>3. "queue" \in Kinds /\ ~ Known("queue") /\ NowKnown("queue") /\ Known("queue")'
    BY <2>2, Zenon DEF Known, NowKnown, Kinds
  <2>4. /\ seq' \in [Kinds -> Nat \ {0}] /\ obj' \in [Objects -> [id : Nat, inc : 0..MaxInc]]
        /\ RowsUnique' /\ CallsOwn' /\ ObjectsMatch' /\ SameCalls
        /\ \A r \in db["queue"] : /\ r.name \in Objects /\ r.id <= obj'[r.name].id
                                  /\ (r.id = obj'[r.name].id <=> r.inc = obj'[r.name].inc)
                                  /\ \E s \in db["queue"] : s.name = r.name /\ s.inc = obj'[r.name].inc
        /\ \A n \in Objects : obj'[n] # Absent /\ Kind(n) = "queue" =>
              \E r \in db["queue"] : r.name = n /\ r.id = obj'[n].id /\ r.inc = obj'[n].inc
    BY <2>1, <2>2, <2>3, <1>RecoverRowsEffect, Zenon
  <2>5. TypeOK /\ RowsUnique
    BY Zenon DEF RegistryInv
  <2>6. /\ \A r \in db["queue"] : r.name \in Queues /\ r.id \in Nat \ {0} /\ r.inc \in 1..MaxInc
        /\ \A n \in Queues : n \in Objects /\ Kind(n) = "queue"
    BY <2>5, QueueNames, Zenon
  <2>7. Leftovers'
    <3>1. Leftovers
      BY Zenon DEF RegistryInv
    <3>2. \A r \in db["queue"] : obj'[r.name].inc = r.inc \/ r.name \in marks.tainted
      <4>1. ASSUME NEW r \in db["queue"] PROVE obj'[r.name].inc = r.inc \/ r.name \in marks.tainted
        <5>1. PICK s \in db["queue"] : s.name = r.name /\ s.inc = obj'[r.name].inc
          BY <2>4, Zenon
        <5>2. r = s \/ r.name \in marks.tainted
          BY <3>1, <5>1, Zenon DEF Leftovers
        <5> QED
          BY <5>1, <5>2, Zenon
      <4> QED
        BY <4>1, Zenon
    <3>3. \A n \in Queues : obj'[n] # Absent => \A r \in db["queue"] : r.name = n => r.id <= obj'[n].id
      BY <2>4, Zenon
    <3> QED
      BY <2>1, <3>1, <3>2, <3>3, Zenon DEF Leftovers
  <2>8. JournalsMatch' /\ journals' \subseteq [id : Nat \ {0}, name : Queues]
    <3>1. ASSUME NEW n \in Names("queue")
          PROVE  n \in Queues /\ LastRow("queue", n).id \in Nat \ {0} /\ obj'[n].id = LastRow("queue", n).id
      <4>1. n \in Queues /\ LastRow("queue", n) \in db["queue"]
        BY <2>3, <2>6, LastRowIsLast, Zenon DEF Names
      <4> QED
        BY <2>1, <2>6, <4>1, Zenon DEF RecoverRows
    <3>2. ASSUME NEW j \in journals' PROVE obj'[j.name].id = j.id
      <4>1. PICK n \in Names("queue") : j = [id |-> LastRow("queue", n).id, name |-> n]
        BY <2>1, Zenon
      <4>2. PICK i : i = LastRow("queue", n).id /\ j = [id |-> i, name |-> n]
        BY <4>1, Zenon
      <4>3. j.id = i /\ j.name = n
        BY <4>2
      <4> QED
        BY <3>1, <4>2, <4>3, Zenon
    <3>3. journals' \subseteq [id : Nat \ {0}, name : Queues]
      <4>1. ASSUME NEW n \in Names("queue")
            PROVE  [id |-> LastRow("queue", n).id, name |-> n] \in [id : Nat \ {0}, name : Queues]
        BY <3>1, Zenon
      <4> QED
        BY <2>1, <4>1, Zenon
    <3> QED
      BY <2>1, <2>2, <2>3, <3>2, <3>3, Zenon DEF JournalsMatch
  <2>9. SentToLast'
    <3>1. SentToLast
      BY Zenon DEF RegistryInv
    <3>2. ASSUME NEW r \in db["queue"], NEW m \in Msgs, sent[m] = r.inc
          PROVE  obj'[r.name].inc = r.inc
      <4>1. PICK s \in db["queue"] : s.name = r.name /\ s.inc = obj'[r.name].inc
        BY <2>4, Zenon
      <4>2. s.id <= r.id /\ s.id = obj'[r.name].id /\ r.id <= obj'[r.name].id
        BY <2>4, <3>1, <3>2, <4>1, Zenon DEF SentToLast
      <4>3. r.id = obj'[r.name].id
        <5>1. r.id \in Nat /\ s.id \in Nat /\ s.id <= r.id /\ r.id <= s.id
          BY <2>6, <4>2, Zenon
        <5>2. r.id = s.id
          BY <5>1
        <5> QED
          BY <4>2, <5>2, Zenon
      <4> QED
        BY <2>4, <4>3, Zenon
    <3> QED
      BY <2>1, <2>2, <3>1, <3>2, Zenon DEF SentToLast
  <2>10. Owned'
    <3>1. Owned /\ \A n \in Queues : ~ Destroying(n)
      BY <2>2, IdleFields, Zenon DEF RegistryInv, Destroying
    <3>2. \A m : Marked(m)' <=> Marked(m)
      BY <2>1, Zenon DEF Marked
    <3>3. \A n \in Queues : \A m \in rows[n] :
              Marked(m) \/ \E r \in db["queue"] : r.name = n /\ r.inc = sent[m]
      BY <3>1, Zenon DEF Owned
    <3>4. \A e \in log : Marked(e.m) \/ \E r \in db["queue"] : r.id = e.id /\ r.inc = sent[e.m]
      BY <3>1, Zenon DEF Owned
    <3>5. db' = db /\ rows' = rows /\ log' = log /\ sent' = sent /\ tasks' = {}
      BY <2>1, <2>2, Zenon
    <3> QED
      BY <3>2, <3>3, <3>4, <3>5, Zenon DEF Owned
  <2>11. BindingIds' /\ BindingsExact' /\ NoForeignMessage' /\ MessagesKept' /\ Recoverable'
    <3>1. BindingIds' /\ BindingsExact'
      BY <2>1, <2>2, Zenon DEF RegistryInv, BindingIds, BindingsExact
    <3>2. NoForeignMessage' /\ MessagesKept' /\ Recoverable'
      <4>1. /\ db' = db /\ dir' = dir /\ rows' = rows /\ log' = log /\ sent' = sent
            /\ recovered' = recovered /\ marks' = marks /\ call' = call
        BY <2>1, <2>2, Zenon
      <4>2. NoForeignMessage /\ MessagesKept /\ Recoverable
        BY Zenon DEF RegistryInv
      <4>3. NoForeignMessage' /\ MessagesKept'
        BY <4>1, <4>2, Zenon DEF NoForeignMessage, MessagesKept
      <4>4. Recoverable'
        BY <4>1, <4>2, Zenon DEF Recoverable
      <4> QED
        BY <4>3, <4>4, Zenon
    <3> QED
      BY <3>1, <3>2, Zenon
  <2>12. TypeOK'
    BY <2>1, <2>2, <2>4, <2>5, <2>8, Zenon DEF TypeOK
  <2> QED
    BY <2>2, <2>4, <2>7, <2>8, <2>9, <2>10, <2>11, <2>12, Zenon DEF RegistryInv

<1>StageFrame.
    ASSUME RegistryInv, SameKnown, stage # "up", tasks = {},
           UNCHANGED <<db, dir, rows, log, seq, obj, journals, call, sent, marks, born>>
    PROVE  /\ RowsUnique' /\ ObjectsMatch' /\ CallsOwn'
           /\ UNCHANGED <<tasks, recovered>> =>
                /\ Leftovers' /\ JournalsMatch' /\ SentToLast' /\ Owned' /\ MessagesKept'
                /\ NoForeignMessage' /\ Recoverable'
  <2> USE <1>StageFrame
  <2>1. TypeOK /\ RowsUnique /\ ObjectsMatch /\ CallsOwn /\ JournalsMatch
    BY Zenon DEF RegistryInv
  <2>2. \A k \in Kinds : Known(k)' <=> Known(k)
    BY Zenon DEF SameKnown
  <2>3. \A n \in Objects : Kind(n) \in Kinds
    BY Zenon DEF Kind, Kinds
  <2>4. \A n : (Creating(n)' <=> Creating(n)) /\ (Destroying(n)' <=> Destroying(n))
    BY Zenon DEF Creating, Destroying
  <2>5. RowsUnique' /\ CallsOwn'
    BY <2>1, <2>2, Zenon DEF RowsUnique, CallsOwn
  <2>6. ObjectsMatch'
    <3>1. ObjectsMatch /\ \A n \in Objects : Known(Kind(n))' <=> Known(Kind(n))
      BY <2>1, <2>2, <2>3, Zenon
    <3> QED
      BY <2>4, <3>1, ObjectsFrame, Zenon
  <2>7. ASSUME UNCHANGED <<tasks, recovered>>
        PROVE  /\ Leftovers' /\ JournalsMatch' /\ SentToLast' /\ Owned' /\ MessagesKept'
               /\ NoForeignMessage' /\ Recoverable'
    <3>1. /\ Known("queue")' <=> Known("queue")
          /\ born \in Nat
      BY <2>1, <2>2 DEF TypeOK, Kinds
    <3>2. Leftovers' /\ SentToLast'
      BY <2>4, <3>1, Zenon DEF RegistryInv, Leftovers, SentToLast
    <3>3. JournalsMatch'
      BY <2>1, <2>7, <3>1, Zenon DEF JournalsMatch
    <3>4. Owned' /\ MessagesKept' /\ NoForeignMessage' /\ Recoverable'
      BY <2>4, <2>7, Zenon DEF RegistryInv, Owned, Marked, MessagesKept, NoForeignMessage, Recoverable
    <3> QED
      BY <3>2, <3>3, <3>4, Zenon
  <2> QED
    BY <2>5, <2>6, <2>7, Zenon

<1>RecoverBindingsStep.
    ASSUME RegistryInv, RecoverBindings
    PROVE  RegistryInv'
  <2> USE <1>RecoverBindingsStep
  <2>1. /\ Recovers("bindings", "messages") /\ bindingDb' = {b \in bindingDb : ~ Stale(b)}
        /\ UNCHANGED <<db, dir, rows, log, seq, obj, journals, tasks, sent, bound, recovered, marks>>
    BY Zenon DEF RecoverBindings, history
  <2>2. /\ stage = "bindings" /\ stage # "up" /\ stage' = "messages" /\ stage' \in Stages /\ PluginTypeOK'
        /\ PluginReady' /\ UNCHANGED <<call, born, crashes, fails>> /\ tasks = {}
    BY <2>1, <1>RecoversEffect, Zenon
  <2>3. TypeOK /\ RowsUnique /\ BindingIds /\ BindingsExact
    BY Zenon DEF RegistryInv
  <2>4. SameKnown
    BY <2>2, Zenon DEF SameKnown, Known
  <2>5. /\ RowsUnique' /\ ObjectsMatch' /\ CallsOwn' /\ Leftovers' /\ JournalsMatch' /\ SentToLast'
        /\ Owned' /\ MessagesKept' /\ NoForeignMessage' /\ Recoverable'
    BY <2>1, <2>2, <2>4, <1>StageFrame, Zenon
  <2>6. BindingIds'
    <3>1. \A r \in db["exchange"] : r.id < seq["exchange"]
      BY <2>2, <2>3, Zenon DEF RowsUnique, Known, Kinds
    <3>2. \A r \in db["queue"] : r.id < seq["queue"]
      BY <2>2, <2>3, Zenon DEF RowsUnique, Known, Kinds
    <3>3. \A b \in bindingDb' : b.x < seq["exchange"] /\ b.q < seq["queue"]
      BY <2>1, <3>1, <3>2, Zenon DEF Stale, Ids
    <3> QED
      BY <2>1, <2>2, <2>3, <3>3, Zenon DEF BindingIds
  <2>7. BindingsExact'
    <3>1. ASSUME NEW e \in db["exchange"], NEW r \in db["queue"], NEW key \in Keys
          PROVE  [x |-> e.id, q |-> r.id, key |-> key] \in bindingDb'
                  <=> [x |-> e.id, q |-> r.id, key |-> key] \in bindingDb
      BY <2>1, Zenon DEF Stale, Ids
    <3> QED
      BY <2>1, <2>3, <3>1, Zenon DEF BindingsExact
  <2>8. TypeOK'
    BY <2>1, <2>2, <2>3, Zenon DEF TypeOK
  <2> QED
    BY <2>2, <2>5, <2>6, <2>7, <2>8, Zenon DEF RegistryInv

<1>RecoverMessagesStep.
    ASSUME RegistryInv, RecoverMessages
    PROVE  RegistryInv'
  <2> USE <1>RecoverMessagesStep
  <2>1. /\ UNCHANGED <<db, bindingDb, dir, rows, log, seq, obj, journals, sent, bound, marks>>
        /\ \/ Recovers("messages", "up")
           \/ Recovers("messages", "stuck") /\ UNCHANGED <<tasks, recovered>>
    BY Zenon DEF RecoverMessages, durable, history
  <2>2. /\ stage = "messages" /\ stage # "up" /\ stage' \in {"up", "stuck"} /\ stage' \in Stages /\ PluginTypeOK'
        /\ PluginReady' /\ UNCHANGED <<call, born, crashes, fails>> /\ tasks = {}
        /\ \A t \in Threads : call[t] = Idle
    BY <2>1, <1>RecoversEffect, Zenon
  <2>3. TypeOK /\ RowsUnique /\ ObjectsMatch /\ JournalsMatch /\ SentToLast /\ Owned
    BY Zenon DEF RegistryInv
  <2>4. SameKnown /\ Known("queue") /\ Known("queue")'
    BY <2>2, Zenon DEF SameKnown, Known
  <2>5. RowsUnique' /\ ObjectsMatch' /\ CallsOwn'
    BY <2>1, <2>2, <2>4, <1>StageFrame, Zenon
  <2>6. BindingIds' /\ BindingsExact'
    BY <2>1, <2>2, Zenon DEF RegistryInv, BindingIds, BindingsExact
  <2>7. CASE UNCHANGED <<tasks, recovered>>
    <3>1. /\ Leftovers' /\ JournalsMatch' /\ SentToLast' /\ Owned' /\ MessagesKept'
          /\ NoForeignMessage' /\ Recoverable'
      BY <2>1, <2>2, <2>4, <2>7, <1>StageFrame, Zenon
    <3>2. TypeOK'
      BY <2>1, <2>2, <2>3, <2>7, Zenon DEF TypeOK
    <3> QED
      BY <2>2, <2>5, <2>6, <3>1, <3>2, Zenon DEF RegistryInv
  <2>8. CASE /\ stage' = "up"
             /\ recovered' = UNION {{<<m, obj[j.name].inc>> : m \in Held(j)} : j \in journals}
             /\ tasks' = UNION {{[m |-> e.m, id |-> j.id, name |-> j.name] :
                                  e \in {x \in log : x.id = j.id}} : j \in journals}
    <3>1. ASSUME NEW j \in journals
          PROVE  /\ j.name \in Queues /\ j.id \in Nat \ {0} /\ obj[j.name].id = j.id
                 /\ obj[j.name].inc \in 1..MaxInc /\ j.id < seq["queue"] /\ ~ Destroying(j.name)
                 /\ \A r \in db["queue"] : r.id = j.id => r.name = j.name /\ r.inc = obj[j.name].inc
      <4>1. j.name \in Queues /\ j.id \in Nat \ {0} /\ obj[j.name].id = j.id /\ j.name \in Objects
        BY <2>3, Zenon DEF JournalsMatch, TypeOK, Objects
      <4>2. obj[j.name] # Absent /\ Kind(j.name) = "queue"
        BY <4>1, AbsentFields, Zenon DEF Kind
      <4>3. /\ obj[j.name].inc \in 1..MaxInc /\ j.id < seq["queue"]
            /\ \A r \in db["queue"] : r.id = obj[j.name].id <=> r.inc = obj[j.name].inc
            /\ \A r \in db["queue"] : r.id = obj[j.name].id => r.name = j.name
        BY <2>3, <4>1, <4>2, KnownId, Zenon DEF ObjectsMatch, Match
      <4>4. ~ Destroying(j.name)
        BY <2>2, IdleFields, Zenon DEF Destroying
      <4> QED
        BY <4>1, <4>3, <4>4, Zenon
    <3>2. ASSUME NEW j \in journals, NEW e \in log, e.id = j.id
          PROVE  e.m \in Msgs /\ (Marked(e.m) \/ obj[j.name].inc = sent[e.m])
      <4>1. e.m \in Msgs /\ (Marked(e.m) \/ \E r \in db["queue"] : r.id = e.id /\ r.inc = sent[e.m])
        BY <2>3, Zenon DEF Owned, TypeOK
      <4> QED
        BY <3>1, <3>2, <4>1, Zenon
    <3>3. ASSUME NEW j \in journals, NEW m \in Held(j)
          PROVE  m \in Msgs /\ (Marked(m) \/ obj[j.name].inc = sent[m])
      <4>1. CASE m \in rows[j.name]
        <5>1. m \in Msgs
          BY <2>3, <3>1, <4>1, Zenon DEF TypeOK
        <5>2. Marked(m) \/ \E r \in db["queue"] : r.name = j.name /\ r.inc = sent[m]
          BY <2>3, <3>1, <4>1, Zenon DEF Owned
        <5> QED
          BY <2>3, <2>4, <5>1, <5>2, Zenon DEF SentToLast
      <4>2. CASE \E e \in log : e.id = j.id /\ e.m = m
        BY <3>2, <4>2, Zenon
      <4> QED
        BY <4>1, <4>2, Zenon DEF Held
    <3>4. /\ recovered' \subseteq Msgs \X (1..MaxInc)
          /\ \A m \in Msgs, i \in 1..MaxInc : <<m, i>> \in recovered' => Marked(m) \/ sent[m] = i
      <4>1. ASSUME NEW x \in recovered'
            PROVE  \E m \in Msgs, i \in 1..MaxInc : x = <<m, i>> /\ (Marked(m) \/ sent[m] = i)
        <5>1. PICK j \in journals : \E m \in Held(j) : x = <<m, obj[j.name].inc>>
          BY <2>8, Zenon
        <5>2. PICK m \in Held(j) : x = <<m, obj[j.name].inc>>
          BY <5>1, Zenon
        <5> QED
          BY <3>1, <3>3, <5>2, Zenon
      <4>2. ASSUME NEW m \in Msgs, NEW i \in 1..MaxInc, <<m, i>> \in recovered' PROVE Marked(m) \/ sent[m] = i
        <5>1. PICK n \in Msgs, c \in 1..MaxInc : <<m, i>> = <<n, c>> /\ (Marked(n) \/ sent[n] = c)
          BY <4>1, <4>2, Zenon
        <5>2. m = n /\ i = c
          BY <5>1, Zenon
        <5> QED
          BY <5>1, <5>2, Zenon
      <4>3. ASSUME NEW x \in recovered' PROVE x \in Msgs \X (1..MaxInc)
        <5>1. PICK m \in Msgs, i \in 1..MaxInc : x = <<m, i>>
          BY <4>1, Zenon
        <5> QED
          BY <5>1
      <4> QED
        BY <4>2, <4>3, Zenon
    <3>5. ASSUME NEW task \in tasks'
          PROVE  /\ task \in [m : Msgs, id : Nat \ {0}, name : Queues] /\ task.id < seq["queue"]
                 /\ \A r \in db["queue"] : r.id = task.id =>
                     r.name = task.name /\ (Marked(task.m) \/ r.inc = sent[task.m])
                 /\ obj[task.name].id = task.id => Marked(task.m) \/ obj[task.name].inc = sent[task.m]
      <4>1. PICK j \in journals, e \in log : e.id = j.id /\ task = [m |-> e.m, id |-> j.id, name |-> j.name]
        BY <2>8, Zenon
      <4>2. PICK m, i, n : m = e.m /\ i = j.id /\ n = j.name /\ task = [m |-> m, id |-> i, name |-> n]
        BY <4>1, Zenon
      <4>3. task.m = m /\ task.id = i /\ task.name = n
        BY <4>2
      <4>4. task \in [m : Msgs, id : Nat \ {0}, name : Queues]
        <5>1. m \in Msgs /\ i \in Nat \ {0} /\ n \in Queues
          BY <3>1, <3>2, <4>1, <4>2, Zenon
        <5> QED
          BY <4>2, <5>1, Zenon
      <4>5. Marked(task.m) \/ obj[task.name].inc = sent[task.m]
        BY <3>2, <4>1, <4>2, <4>3, Zenon
      <4>6. /\ task.id < seq["queue"]
            /\ \A r \in db["queue"] : r.id = task.id => r.name = task.name /\ r.inc = obj[task.name].inc
        BY <3>1, <4>2, <4>3, Zenon
      <4> QED
        BY <4>4, <4>5, <4>6, Zenon
    <3>6. \A n : (Creating(n)' <=> Creating(n)) /\ (Destroying(n)' <=> Destroying(n))
      BY <2>2, Zenon DEF Creating, Destroying
    <3>7. \A m : Marked(m)' <=> Marked(m)
      BY <2>1, Zenon DEF Marked
    <3>8. TypeOK'
      BY <2>1, <2>2, <2>3, <3>4, <3>5, Zenon DEF TypeOK
    <3>9. Owned'
      BY <2>1, <2>3, <3>5, <3>6, <3>7, Zenon DEF Owned
    <3>10. NoForeignMessage'
      BY <2>1, <3>4, Zenon DEF NoForeignMessage, Marked
    <3>11. Leftovers' /\ SentToLast' /\ JournalsMatch'
      BY <2>1, <2>2, <2>4, <2>8, <3>6, Zenon DEF RegistryInv, Leftovers, SentToLast, JournalsMatch
    <3>12. MessagesKept' /\ Recoverable'
      BY <2>1, <2>2, Zenon DEF RegistryInv, MessagesKept, Recoverable
    <3> QED
      BY <2>2, <2>5, <2>6, <3>8, <3>9, <3>10, <3>11, <3>12, Zenon DEF RegistryInv
  <2> QED
    BY <2>7, <2>8, Zenon DEF RecoverMessages, Recovers, history

<1>StartingStep.
    ASSUME RegistryInv, Starting, UNCHANGED <<durable, volatile, history, bounds>>
    PROVE  RegistryInv'
  <2> USE <1>StartingStep
  <2>1. UNCHANGED <<db, bindingDb, dir, rows, log, seq, obj, journals, call, tasks, sent, bound, recovered, marks,
                    born, crashes, fails>>
    BY Zenon DEF durable, volatile, history, bounds
  <2>2. TypeOK /\ PluginReady /\ JournalsMatch /\ BindingIds /\ BindingsExact
    BY Zenon DEF RegistryInv
  <2>3. PluginTypeOK' /\ PluginReady' /\ stage' \in Stages
    BY <2>2, PluginStep, Zenon DEF TypeOK
  <2>4. stage \in {"down", "init", "select"}
    BY Zenon DEF Starting, StartProcess, InitSucceeds, InitFails, InitThrows, InitReported, Select
  <2>5. stage' \in {"init", "select", "aborted", "nostore", "refused", "configs", "other"}
    BY Zenon DEF Starting, StartProcess, InitSucceeds, InitFails, InitThrows, InitReported, Select
  <2>6. SameKnown /\ tasks = {}
    BY <2>2, <2>4, <2>5, Zenon DEF SameKnown, Known, JournalsMatch
  <2>7. /\ RowsUnique' /\ ObjectsMatch' /\ CallsOwn' /\ Leftovers' /\ JournalsMatch' /\ SentToLast'
        /\ Owned' /\ MessagesKept' /\ NoForeignMessage' /\ Recoverable'
    BY <2>1, <2>4, <2>6, <1>StageFrame, Zenon
  <2>8. BindingIds' /\ BindingsExact'
    BY <2>1, <2>2, <2>5, Zenon DEF BindingIds, BindingsExact
  <2>9. TypeOK'
    BY <2>1, <2>2, <2>3, Zenon DEF TypeOK
  <2> QED
    BY <2>3, <2>7, <2>8, <2>9, Zenon DEF RegistryInv

<1> QED
  BY <1>RecoverOthersStep, <1>RecoverQueuesStep, <1>RecoverBindingsStep, <1>RecoverMessagesStep,
     <1>StartingStep, Zenon

-----------------------------------------------------------------------------
\* The invariant holds at first.
LEMMA RegistryInit == Init => RegistryInv
<1> SUFFICES ASSUME Init PROVE RegistryInv
  BY Zenon
<1>1. TypeOK
  BY TypeInit, Zenon
<1>2. /\ stage = "down" /\ isInit = FALSE /\ providers = {} /\ provider = End /\ storeSet = FALSE
      /\ db = [k \in Kinds |-> {}] /\ bindingDb = {} /\ dir = {} /\ rows = [q \in Queues |-> {}] /\ log = {}
      /\ seq = [k \in Kinds |-> 1] /\ obj = [n \in Objects |-> Absent] /\ journals = {}
      /\ call = [t \in Threads |-> Idle] /\ tasks = {} /\ sent = [m \in Msgs |-> 0] /\ bound = {}
      /\ recovered = {} /\ born = 0
  BY Zenon DEF Init, PluginInit
<1>3. /\ \A k : ~ Known(k)
      /\ \A n : ~ Creating(n) /\ ~ Destroying(n)
      /\ \A k \in Kinds : db[k] = {} /\ seq[k] = 1
      /\ "queue" \in Kinds /\ "exchange" \in Kinds
  BY <1>2, Zenon DEF Known, Creating, Destroying, Idle, Kinds
<1>4. PluginReady
  <2>1. provider # "BDB" /\ "BDB" \notin providers /\ stage # "init"
    BY <1>2, Zenon DEF End
  <2> QED
    BY <1>2, <2>1, Zenon DEF PluginReady, ForwardsToReady
<1>5. RowsUnique /\ CallsOwn
  <2>1. 1 <= 0 + 2
    OBVIOUS
  <2> QED
    BY <1>2, <1>3, <2>1, Zenon DEF RowsUnique, CallsOwn
<1>6. ObjectsMatch /\ Leftovers /\ JournalsMatch /\ SentToLast
  <2>1. 0 <= 0 /\ \A n \in Objects : obj[n] = Absent
    BY <1>2
  <2>2. ObjectsMatch
    BY <1>3, <2>1, Zenon DEF ObjectsMatch, Match
  <2>3. Leftovers /\ JournalsMatch /\ SentToLast
    BY <1>2, <1>3, <2>1, Zenon DEF Leftovers, JournalsMatch, SentToLast, Objects
  <2> QED
    BY <2>2, <2>3, Zenon
<1>7. BindingIds /\ Owned /\ BindingsExact /\ NoForeignMessage /\ MessagesKept /\ Recoverable
  BY <1>2, <1>3, Zenon DEF BindingIds, Owned, BindingsExact, NoForeignMessage, MessagesKept, Recoverable
<1> QED
  BY <1>1, <1>4, <1>5, <1>6, <1>7, Zenon DEF RegistryInv

\* The invariant is inductive.
LEMMA RegistryNext == RegistryInv /\ [Next]_vars => RegistryInv'
<1> SUFFICES ASSUME RegistryInv, [Next]_vars PROVE RegistryInv'
  BY Zenon
<1>1. CASE Starting /\ UNCHANGED <<durable, volatile, history, bounds>>
  BY <1>1, RecoverySteps, Zenon
<1>2. CASE Recovery
  BY <1>2, RecoverySteps, Zenon DEF Recovery
<1>3. ASSUME NEW t \in Threads, NEW q \in Queues, CreateQueue(t, q) \/ DestroyQueue(t, q)
      PROVE  RegistryInv'
  BY <1>3, CreateSteps, DestroySteps, Zenon
<1>4. ASSUME NEW t \in Threads, NEW x \in Exchanges, CreateExchange(t, x) \/ DestroyExchange(t, x)
      PROVE  RegistryInv'
  BY <1>4, CreateSteps, DestroySteps, Zenon
<1>5. ASSUME NEW t \in Threads, NEW g \in Configs, CreateConfig(t, g) \/ DestroyConfig(t, g)
      PROVE  RegistryInv'
  BY <1>5, CreateSteps, DestroySteps, Zenon
<1>6. ASSUME NEW t \in Threads, CreateDir(t) \/ OpenJournal(t) \/ CreateFails(t)
      PROVE  RegistryInv'
  BY <1>6, CreateSteps, Zenon
<1>7. ASSUME NEW t \in Threads,
             DeleteBindingsForQueue(t) \/ DeleteBindingsOfExchange(t) \/ DeleteJournal(t)
      PROVE  RegistryInv'
  BY <1>7, DestroySteps, Zenon
<1>8. ASSUME NEW t \in Threads, NEW k \in 0..(Files - 1), DeleteShard(t, k)
      PROVE  RegistryInv'
  BY <1>8, DestroySteps, Zenon
<1>9. ASSUME NEW x \in Exchanges, NEW q \in Queues, NEW key \in Keys, Bind(x, q, key) \/ Unbind(x, q, key)
      PROVE  RegistryInv'
  BY <1>9, MessageSteps, Zenon
<1>10. ASSUME NEW m \in Msgs, NEW q \in Queues, Enqueue(m, q)
       PROVE  RegistryInv'
  BY <1>10, MessageSteps, Zenon
<1>11. ASSUME NEW task \in tasks, Store(task) \/ StoreDangling(task)
       PROVE  RegistryInv'
  <2>1. CASE Store(task)
    BY <2>1, MessageSteps, Zenon
  <2>2. CASE StoreDangling(task) /\ Down /\ UNCHANGED crashes
    BY <2>2, EndStep, Zenon
  <2>3. CASE /\ tasks' = tasks \ {task}
             /\ UNCHANGED <<plugin, durable, seq, obj, journals, call, history, bounds>>
    BY <2>3, MessageSteps, Zenon
  <2> QED
    BY <1>11, <2>1, <2>2, <2>3, Zenon DEF StoreDangling
<1>12. CASE ClearPools
  BY <1>12, MessageSteps, Zenon
<1>13. CASE Finalized \/ Crash
  BY <1>13, EndStep, Zenon
<1>14. CASE UNCHANGED vars
  <2>1. tasks' \subseteq tasks /\ UNCHANGED <<plugin, durable, seq, obj, journals, call, history, bounds>>
    BY <1>14, Zenon DEF vars, volatile
  <2> QED
    BY <2>1, MessageSteps, Zenon
<1> QED
  BY <1>1, <1>2, <1>3, <1>4, <1>5, <1>6, <1>7, <1>8, <1>9, <1>10, <1>11, <1>12, <1>13, <1>14, Zenon DEF Next

(***************************************************************************)
(* The invariant holds always; the theorems below are its parts.           *)
(***************************************************************************)
THEOREM RegistryInvariance == Spec => []RegistryInv
<1> QED
  BY RegistryInit, RegistryNext, PTL DEF Spec

(***************************************************************************)
(* Every variable of the registry and of the plugin keeps its type.        *)
(***************************************************************************)
THEOREM RegistryTypes == Spec => []TypeOK
<1>1. RegistryInv => TypeOK
  BY Zenon DEF RegistryInv
<1> QED
  BY <1>1, RegistryInvariance, PTL

(***************************************************************************)
(* create() never meets an id that is in use, and no two objects share     *)
(* one, however often recovery has set the sequences back.                 *)
(***************************************************************************)
THEOREM IdsAlwaysFresh == Spec => []IdsFresh
<1>1. RegistryInv => IdsFresh
  BY Zenon DEF RegistryInv, RowsUnique, IdsFresh, Known
<1> QED
  BY <1>1, RegistryInvariance, PTL

(***************************************************************************)
(* Between the objects that exist, bindingDb has the bindings the broker   *)
(* made and did not take back: deleteBindingsForQueue and                  *)
(* recoverBindings leave none for the next owner of an id.                 *)
(***************************************************************************)
THEOREM BindingsAlwaysExact == Spec => []BindingsExact
<1>1. RegistryInv => BindingsExact
  BY Zenon DEF RegistryInv
<1> QED
  BY <1>1, RegistryInvariance, PTL

(***************************************************************************)
(* recoverMessages puts a message on no queue but its own, except where a  *)
(* crash interrupted a destroy() or a destroyed queue had insertions       *)
(* pending.                                                                *)
(***************************************************************************)
THEOREM NoForeignMessageEver == Spec => []NoForeignMessage
<1>1. RegistryInv => NoForeignMessage
  BY Zenon DEF RegistryInv
<1> QED
  BY <1>1, RegistryInvariance, PTL

(***************************************************************************)
(* A message that was enqueued is in the files of its queue or in the log, *)
(* as long as the row of the queue is there.                               *)
(***************************************************************************)
THEOREM MessagesAlwaysKept == Spec => []MessagesKept
<1>1. RegistryInv => MessagesKept
  BY Zenon DEF RegistryInv
<1> QED
  BY <1>1, RegistryInvariance, PTL

(***************************************************************************)
(* Each queue in the database has the journal directory that recoverQueues *)
(* opens, unless its create() did not get that far.                        *)
(***************************************************************************)
THEOREM AlwaysRecoverable == Spec => []Recoverable
<1>1. RegistryInv => Recoverable
  BY Zenon DEF RegistryInv
<1> QED
  BY <1>1, RegistryInvariance, PTL

(***************************************************************************)
(* The plugin forwards calls only to a provider that registered after its  *)
(* init() succeeded.                                                       *)
(***************************************************************************)
THEOREM AlwaysForwardsToReady == Spec => []ForwardsToReady
<1>1. RegistryInv => ForwardsToReady
  BY Zenon DEF RegistryInv, PluginReady
<1> QED
  BY <1>1, RegistryInvariance, PTL
===============================================================================
