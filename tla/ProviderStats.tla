---------------------------- MODULE ProviderStats ----------------------------
(***************************************************************************)
(* The statistics of the provider's management object, which each thread   *)
(* counts in a slot of its own without a lock.  The agent adds the slots   *)
(* up while the threads go on.  What is counted are the tasks of enqueue,  *)
(* store, dequeue and async_dequeue; total times behave as the other       *)
(* counters do, and the dequeue times as the enqueue times, of which the   *)
(* count stands for minimum, maximum and sum.                              *)
(***************************************************************************)
EXTENDS Integers, Sequences, FiniteSetsExt

CONSTANTS
    Brokers,        \* threads that call enqueue and dequeue
    EnqWorkers,     \* threads of enqueuePool
    DeqWorkers,     \* threads of dequeuePool
    Slots,          \* the threads in the order of their index in perThreadStatsArray
    Msgs,           \* messages on a queue
    Width,          \* 2^32 in the code: counters wrap
    MaxReports      \* bound: reports

Threads == Brokers \union EnqWorkers \union DeqWorkers

ASSUME StatsAssumptions ==
    /\ Slots \in Seq(Threads) /\ Len(Slots) = Cardinality(Threads)
    /\ \A t \in Threads : \E k \in 1..Len(Slots) : Slots[k] = t
    /\ Width \in Nat \ {0} /\ MaxReports \in Nat

VARIABLES
    enq, deq,       \* how far the insertion and the deletion of each message are
    op,             \* what each thread does and the counters it has still to update
    at,             \* where it is in updating the first of them
    slot,           \* its PerThreadStats: "absent", "raw" (allocated) or "ready"
    stats,          \* the counters in it
    held,           \* a count it has read and not yet written back
    instChanged,    \* there is something to report
    agent,          \* the report being written: its phase and the slot it is at
    sum,            \* totals
    report,         \* the statistics last reported
    fresh, known,   \* history: times counted since a report that met no thread counting one
    reports

tasks == <<enq, deq>>
threads == <<op, at, slot, stats, held>>
history == <<fresh, known>>
vars == <<tasks, threads, instChanged, agent, sum, report, history, reports>>

Fields ==
    {"pendingEnqueue", "pendingDequeue", "executedEnqueue", "executedDequeue",
     "skippedEnqueue", "skippedDequeue", "timeCount"}
Zero == [f \in Fields |-> 0]
Rest == [kind |-> "none", msg |-> "none", todo |-> <<>>]
Up(f) == <<f, 1>>
Downwards(f) == <<f, -1>>

Init ==
    /\ enq = [m \in Msgs |-> "new"] /\ deq = [m \in Msgs |-> "none"]
    /\ op = [t \in Threads |-> Rest] /\ at = [t \in Threads |-> "idle"]
    /\ slot = [t \in Threads |-> "absent"] /\ stats = [t \in Threads |-> Zero]
    /\ held = [t \in Threads |-> 0]
    /\ instChanged = TRUE
    /\ agent = [phase |-> "idle", next |-> 1] /\ sum = Zero /\ report = Zero
    /\ fresh = 0 /\ known = TRUE /\ reports = 0

-----------------------------------------------------------------------------
(***************************************************************************)
(* The calls, with the counters each updates.  The pending counter goes up *)
(* before the task is scheduled.                                           *)
(***************************************************************************)
Begins(t, kind, m, todo) ==
    /\ at[t] = "idle"
    /\ op' = [op EXCEPT ![t] = [kind |-> kind, msg |-> m, todo |-> todo]]
    /\ at' = [at EXCEPT ![t] = "apply"]
    /\ UNCHANGED <<slot, stats, held, instChanged, agent, sum, report, history, reports>>

Enqueue(t, m) ==
    /\ enq[m] = "new" /\ enq' = [enq EXCEPT ![m] = "entering"]
    /\ Begins(t, "enqueue", m, <<Up("pendingEnqueue")>>)
    /\ UNCHANGED deq

\* Mutant: an insertion that is skipped stays counted as pending.
StoreUpdatesIfRun(run) ==
    IF run THEN <<Downwards("pendingEnqueue"), Up("timeCount"), Up("executedEnqueue")>>
    ELSE <<Up("timeCount"), Up("skippedEnqueue")>>

StoreUpdates(run) ==
    <<Downwards("pendingEnqueue"), Up("timeCount"),
      Up(IF run THEN "executedEnqueue" ELSE "skippedEnqueue")>>

\* The end of store(), after addPid; it is skipped if the deletion was, by dequeueCheck.
Store(t, m) ==
    /\ enq[m] = "queued" /\ enq' = [enq EXCEPT ![m] = "storing"]
    /\ Begins(t, "store", m, StoreUpdates(deq[m] # "skipped"))
    /\ UNCHANGED deq

\* enqueue_data throws: neither the counters nor the tracker hear of it.
StoreThrows(t, m) ==
    /\ at[t] = "idle" /\ enq[m] = "queued" /\ deq[m] # "skipped"
    /\ enq' = [enq EXCEPT ![m] = "failed"]
    /\ UNCHANGED <<deq, threads, instChanged, agent, sum, report, history, reports>>

\* dequeue(), after dequeueCheck: with smart async a task that has not started is cancelled.
Dequeue(t, m) ==
    /\ deq[m] = "none" /\ enq[m] \notin {"new", "entering"}
    /\ \/ /\ deq' = [deq EXCEPT ![m] = "entering"]
          /\ Begins(t, "dequeue", m, <<Up("pendingDequeue")>>)
       \/ /\ enq[m] = "queued"
          /\ deq' = [deq EXCEPT ![m] = "skipped"]
          /\ Begins(t, "skip", m, <<Up("skippedDequeue")>>)
    /\ UNCHANGED enq

\* The end of async_dequeue(), which has waited for addPid.
AsyncDequeue(t, m) ==
    /\ deq[m] = "queued" /\ enq[m] \in {"storing", "ended"}
    /\ deq' = [deq EXCEPT ![m] = "removing"]
    /\ Begins(t, "async_dequeue", m, <<Downwards("pendingDequeue"), Up("executedDequeue")>>)
    /\ UNCHANGED enq

-----------------------------------------------------------------------------
(***************************************************************************)
(* The increments: getThreadStats publishes a slot before it fills it in;  *)
(* the flag is set after the counter.  Only the agent's reset writes to    *)
(* the slot of another thread, and only to the times.                      *)
(***************************************************************************)
Counting == <<tasks, agent, sum, report, reports>>
Agent(phase) == agent.phase = phase

Publish(t) ==
    /\ at[t] = "apply" /\ slot[t] = "absent"
    /\ slot' = [slot EXCEPT ![t] = "raw"]
    /\ UNCHANGED <<Counting, op, at, stats, held, instChanged, history>>

FillIn(t) ==
    /\ at[t] = "apply" /\ slot[t] = "raw"
    /\ slot' = [slot EXCEPT ![t] = "ready"] /\ stats' = [stats EXCEPT ![t] = Zero]
    /\ UNCHANGED <<Counting, op, at, held, instChanged, history>>

\* Mutant: counters do not wrap.
PlainSum(a, b) == a + b

Plus(a, b) == (a + b) % Width

Add(t) ==
    LET u == Head(op[t].todo) IN
    /\ at[t] = "apply" /\ slot[t] = "ready"
    /\ IF u[1] = "timeCount"
       THEN /\ held' = [held EXCEPT ![t] = stats[t]["timeCount"]]
            /\ at' = [at EXCEPT ![t] = "loaded"]
            /\ known' = (known /\ Agent("idle"))
            /\ UNCHANGED stats
       ELSE /\ stats' = [stats EXCEPT ![t][u[1]] = Plus(@, u[2])]
            /\ at' = [at EXCEPT ![t] = "flag"]
            /\ UNCHANGED <<held, known>>
    /\ UNCHANGED <<Counting, op, slot, instChanged, fresh>>

\* set_enqueueTime writes back what it has read.
CountTime(t) ==
    /\ at[t] = "loaded"
    /\ stats' = [stats EXCEPT ![t]["timeCount"] = Plus(held[t], 1)]
    /\ held' = [held EXCEPT ![t] = 0]
    /\ at' = [at EXCEPT ![t] = "flag"]
    /\ fresh' = Plus(fresh, 1)
    /\ known' = (known /\ Agent("idle"))
    /\ UNCHANGED <<Counting, op, slot, instChanged>>

\* The flag; after the last counter the task is scheduled, or ends.
Flag(t) ==
    LET m == op[t].msg
        last == Tail(op[t].todo) = <<>>
        ends(kind) == last /\ op[t].kind = kind
    IN  /\ at[t] = "flag"
        /\ instChanged' = TRUE
        /\ op' = [op EXCEPT ![t] = IF last THEN Rest ELSE [@ EXCEPT !.todo = Tail(@)]]
        /\ at' = [at EXCEPT ![t] = IF last THEN "idle" ELSE "apply"]
        /\ enq' = IF ends("enqueue") THEN [enq EXCEPT ![m] = "queued"]
                  ELSE IF ends("store") THEN [enq EXCEPT ![m] = "ended"] ELSE enq
        /\ deq' = IF ends("dequeue") THEN [deq EXCEPT ![m] = "queued"]
                  ELSE IF ends("async_dequeue") THEN [deq EXCEPT ![m] = "ended"] ELSE deq
        /\ UNCHANGED <<slot, stats, held, agent, sum, report, history, reports>>

-----------------------------------------------------------------------------
(***************************************************************************)
(* writeStatistics, or mapEncodeValues: the flag is cleared, the slots are *)
(* added up one by one, and then their times are reset one by one.         *)
(***************************************************************************)
BeginReport ==
    /\ Agent("idle") /\ reports < MaxReports
    /\ reports' = reports + 1
    /\ instChanged' = FALSE
    /\ agent' = [phase |-> "reading", next |-> 1] /\ sum' = Zero
    /\ known' = \A t \in Threads : at[t] # "loaded"
    /\ UNCHANGED <<tasks, threads, report, fresh>>

\* Mutant: the flag is cleared when the totals are complete.
FlagClearedLate(last) == IF last THEN FALSE ELSE instChanged

FlagAfterRead(last) == instChanged

\* Mutant: the first slot is not reset.
ResetFromSecond == 2

ResetFrom == 1

ReadSlot ==
    LET t == Slots[agent.next]
        last == agent.next = Len(Slots)
    IN  /\ Agent("reading")
        /\ \/ slot[t] = "absent" /\ sum' = sum
           \/ slot[t] = "ready" /\ sum' = [f \in Fields |-> Plus(sum[f], stats[t][f])]
           \/ slot[t] = "raw" /\ \E g \in 0..(Width - 1) : sum' = [f \in Fields |-> g]
        /\ instChanged' = FlagAfterRead(last)
        /\ agent' = IF last THEN [phase |-> "resetting", next |-> ResetFrom]
                    ELSE [agent EXCEPT !.next = @ + 1]
        /\ report' = IF last THEN sum' ELSE report
        /\ UNCHANGED <<tasks, threads, history, reports>>

ResetSlot ==
    LET t == Slots[agent.next]
        last == agent.next = Len(Slots)
    IN  /\ Agent("resetting")
        /\ stats' = IF slot[t] = "absent" THEN stats ELSE [stats EXCEPT ![t]["timeCount"] = 0]
        /\ agent' = IF last THEN [phase |-> "idle", next |-> 1] ELSE [agent EXCEPT !.next = @ + 1]
        /\ sum' = IF last THEN Zero ELSE sum
        /\ fresh' = IF last THEN 0 ELSE fresh
        /\ UNCHANGED <<tasks, op, at, slot, held, instChanged, report, known, reports>>

Next ==
    \/ \E m \in Msgs :
        \/ \E t \in Brokers : Enqueue(t, m) \/ Dequeue(t, m)
        \/ \E t \in EnqWorkers : Store(t, m) \/ StoreThrows(t, m)
        \/ \E t \in DeqWorkers : AsyncDequeue(t, m)
    \/ \E t \in Threads : Publish(t) \/ FillIn(t) \/ Add(t) \/ CountTime(t) \/ Flag(t)
    \/ BeginReport \/ ReadSlot \/ ResetSlot

Spec == Init /\ [][Next]_vars

-----------------------------------------------------------------------------
TypeOK ==
    /\ enq \in [Msgs -> {"new", "entering", "queued", "storing", "ended", "failed"}]
    /\ deq \in [Msgs -> {"none", "entering", "queued", "removing", "ended", "skipped"}]
    /\ at \in [Threads -> {"idle", "apply", "loaded", "flag"}]
    /\ slot \in [Threads -> {"absent", "raw", "ready"}]
    /\ stats \in [Threads -> [Fields -> 0..(Width - 1)]]
    /\ report \in [Fields -> 0..(Width - 1)]
    /\ agent \in [phase : {"idle", "reading", "resetting"}, next : 1..Len(Slots)]
    /\ instChanged \in BOOLEAN /\ known \in BOOLEAN

Quiet == \A t \in Threads : at[t] = "idle"
Total(f) == MapThenSumSet(LAMBDA t : stats[t][f], Threads) % Width
Number(S) == Cardinality(S) % Width

(***************************************************************************)
(* When no thread is counting, the totals over all threads are right,      *)
(* although a task is counted up by one thread and down by another, whose  *)
(* own counter wraps below zero: what is pending, run or skipped is what   *)
(* happened.  An insertion that threw stays counted as pending for ever.   *)
(***************************************************************************)
CountersAgree ==
    Quiet =>
        /\ Total("pendingEnqueue") = Number({m \in Msgs : enq[m] \in {"queued", "failed"}})
        /\ Total("pendingDequeue") = Number({m \in Msgs : deq[m] = "queued"})
        /\ Total("skippedDequeue") = Number({m \in Msgs : deq[m] = "skipped"})
        /\ Total("skippedEnqueue") = Number({m \in Msgs : deq[m] = "skipped" /\ enq[m] = "ended"})
        /\ Total("executedEnqueue") = Number({m \in Msgs : deq[m] # "skipped" /\ enq[m] = "ended"})
        /\ Total("executedDequeue") = Number({m \in Msgs : deq[m] = "ended"})

(***************************************************************************)
(* No change goes unreported: when instChanged is clear, no report is      *)
(* being written and no thread is counting, the last report holds the      *)
(* totals, whatever changed while it was added up and even if it read a    *)
(* slot that was not filled in yet.                                        *)
(***************************************************************************)
NoMissedChange ==
    ~ instChanged /\ Quiet /\ Agent("idle") =>
        \A f \in Fields \ {"timeCount"} : report[f] = Total(f)

(***************************************************************************)
(* The times counted are those since the last report, if no thread was     *)
(* counting one while that report was written; otherwise a time may be     *)
(* lost, or counted in two reports.                                        *)
(***************************************************************************)
TimesCounted ==
    known /\ Agent("idle") /\ (\A t \in Threads : at[t] # "loaded") => Total("timeCount") = fresh
===============================================================================
