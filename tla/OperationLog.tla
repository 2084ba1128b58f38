----------------------------- MODULE OperationLog -----------------------------
(***************************************************************************)
(* One of the two logs of lib/AsyncOperationLogger.cpp (the enqueue log;   *)
(* the dequeue log is the same code with other names), with the thread     *)
(* that cleans it and the recovery that reads it after a crash.            *)
(*                                                                         *)
(* A record says that an asynchronous operation was started or completed.  *)
(* Records are appended to the current one of two files.  The cleaner      *)
(* makes the other file current, extracts from the file it took over the   *)
(* operations still pending, writes their starts to a temporary file,      *)
(* removes the old file, renames the temporary one, and logs again the     *)
(* completions whose start was not in that file.  A crash kills the        *)
(* process between any two steps; what was flushed to a file survives.     *)
(***************************************************************************)
EXTENDS Integers, Sequences, Functions

CONSTANTS
    Ops,            \* operations, each a <<message id, queue id>> of the code
    Twice,          \* operations whose completion smart async logs twice
    MaxFaults       \* bound: crashes, and times the temporary file cannot be opened

ASSUME Assumptions ==
    /\ Twice \subseteq Ops
    /\ MaxFaults \in Nat

VARIABLES
    file,       \* enq00.log and enq01.log; a missing file reads as an empty one
    tmp,        \* enq_tmp.log
    index,      \* enqueueFileIndex
    mode,       \* what the process is doing: "up", or a step of the recovery
    cleaner,    \* where the cleaner is
    handling,   \* handlingIndex of the cleaner
    pend, lost, \* aeset and lostSet, of the cleaner or of the recovery
    started,    \* starts of each operation logged by this process (0 or 1)
    completed,  \* completions of it logged by this process
    live,       \* the operations the process knows to be pending
    leftover,   \* operations in a temporary file that a crash left behind
    forgotten,  \* operations a recovery had in its memory when it crashed
    crashes, openFails

files == <<file, tmp, index>>
work == <<cleaner, handling, pend, lost>>
history == <<started, completed, live, leftover, forgotten>>
vars == <<files, mode, work, history, crashes, openFails>>

Start(op) == [kind |-> "start", op |-> op]
Complete(op) == [kind |-> "complete", op |-> op]

MaxCompletes(op) == IF op \in Twice THEN 2 ELSE 1

Cleaner == {"sleep", "extract", "write", "remove", "rename", "relog"}
Modes == {"up", "read0", "read1", "relog"}

Init ==
    /\ file = [i \in {0, 1} |-> <<>>] /\ tmp = <<>>
    /\ index = 0
    /\ mode = "up"
    /\ cleaner = "sleep" /\ handling = 0
    /\ pend = {} /\ lost = {}
    /\ started = [op \in Ops |-> 0] /\ completed = [op \in Ops |-> 0]
    /\ live = {} /\ leftover = {} /\ forgotten = {}
    /\ crashes = 0 /\ openFails = 0

-----------------------------------------------------------------------------
(***************************************************************************)
(* extractPendingEnqueueFromFile: a start cancels a completion read        *)
(* before, a completion cancels a start read before.                       *)
(***************************************************************************)
ReadRecord(sets, r) ==
    IF r.kind = "start"
    THEN IF r.op \in sets.lost
         THEN [sets EXCEPT !.lost = @ \ {r.op}]
         ELSE [sets EXCEPT !.pend = @ \union {r.op}]
    ELSE IF r.op \in sets.pend
         THEN [sets EXCEPT !.pend = @ \ {r.op}]
         ELSE [sets EXCEPT !.lost = @ \union {r.op}]

ExtractPending(sets, records) ==
    LET read[n \in 0..Len(records)] ==
            IF n = 0 THEN sets ELSE ReadRecord(read[n - 1], records[n])
    IN  read[Len(records)]

NoSets == [pend |-> {}, lost |-> {}]

\* What a recovery that started now would find pending.
Recoverable == ExtractPending(ExtractPending(NoSets, file[0]), file[1]).pend

AppendToCurrent(r) == file' = [file EXCEPT ![index] = Append(@, r)]

-----------------------------------------------------------------------------
(***************************************************************************)
(* The callers: store, dequeue and async_dequeue of BdbStoreProvider.      *)
(***************************************************************************)

LogStart(op) ==
    /\ mode = "up"
    /\ started[op] = 0
    /\ AppendToCurrent(Start(op))
    /\ started' = [started EXCEPT ![op] = 1]
    /\ live' = live \union {op}
    /\ UNCHANGED <<tmp, index, mode, work, completed, leftover, forgotten, crashes,
                   openFails>>

\* log_enqueue_complete, from whoever finished the operation.
LogComplete(op) ==
    /\ mode = "up"
    /\ op \in live \/ completed[op] > 0
    /\ completed[op] < MaxCompletes(op)
    /\ AppendToCurrent(Complete(op))
    /\ completed' = [completed EXCEPT ![op] = @ + 1]
    /\ live' = live \ {op}
    /\ UNCHANGED <<tmp, index, mode, work, started, leftover, forgotten, crashes,
                   openFails>>

-----------------------------------------------------------------------------
(***************************************************************************)
(* cleanEnqueueLog.                                                        *)
(***************************************************************************)

CleanerUp(pc) == mode = "up" /\ cleaner = pc /\ UNCHANGED <<mode, history, crashes>>

\* Mutant: the file that becomes current is truncated when it is opened.
SwapTruncates ==
    /\ CleanerUp("sleep")
    /\ handling' = index
    /\ index' = (index + 1) % 2
    /\ file' = [file EXCEPT ![index'] = <<>>]
    /\ cleaner' = "extract"
    /\ UNCHANGED <<tmp, pend, lost, openFails>>

\* Mutant: the index is advanced past the second file.
SwapNoModulo ==
    /\ CleanerUp("sleep")
    /\ handling' = index
    /\ index' = index + 1
    /\ cleaner' = "extract"
    /\ UNCHANGED <<file, tmp, pend, lost, openFails>>

\* The time interval or the warning size has been exceeded.
Swap ==
    /\ CleanerUp("sleep")
    /\ handling' = index
    /\ index' = (index + 1) % 2
    /\ cleaner' = "extract"
    /\ UNCHANGED <<file, tmp, pend, lost, openFails>>

\* Mutant: completions without a start in the file are forgotten.
ExtractForgets ==
    /\ CleanerUp("extract")
    /\ pend' = ExtractPending(NoSets, file[handling]).pend
    /\ lost' = {}
    /\ cleaner' = "write"
    /\ UNCHANGED <<files, handling, openFails>>

\* The temporary file may fail to open: the old file is then left alone.
Extract ==
    LET sets == ExtractPending(NoSets, file[handling])
    IN  /\ CleanerUp("extract")
        /\ pend' = sets.pend /\ lost' = sets.lost
        /\ \/ cleaner' = "write" /\ UNCHANGED openFails
           \/ /\ crashes + openFails < MaxFaults
              /\ openFails' = openFails + 1
              /\ cleaner' = "relog"
        /\ UNCHANGED <<files, handling>>

\* pend shrinks to what is still to be written.
WriteStart(op) ==
    /\ CleanerUp("write")
    /\ op \in pend
    /\ tmp' = Append(tmp, Start(op))
    /\ pend' = pend \ {op}
    /\ UNCHANGED <<file, index, cleaner, handling, lost, openFails>>

CloseTmp ==
    /\ CleanerUp("write")
    /\ pend = {}
    /\ cleaner' = "remove"
    /\ UNCHANGED <<files, handling, pend, lost, openFails>>

RemoveOld ==
    /\ CleanerUp("remove")
    /\ file' = [file EXCEPT ![handling] = <<>>]
    /\ cleaner' = "rename"
    /\ UNCHANGED <<tmp, index, handling, pend, lost, openFails>>

RenameTmp ==
    /\ CleanerUp("rename")
    /\ file' = [file EXCEPT ![handling] = tmp]
    /\ tmp' = <<>>
    /\ cleaner' = "relog"
    /\ UNCHANGED <<index, handling, pend, lost, openFails>>

\* Mutant: the completions go back to the file they came from.
RelogSame(op) ==
    /\ CleanerUp("relog")
    /\ op \in lost
    /\ file' = [file EXCEPT ![handling] = Append(@, Complete(op))]
    /\ lost' = lost \ {op}
    /\ UNCHANGED <<tmp, index, cleaner, handling, pend, openFails>>

\* lost shrinks to what is still to be logged again.
Relog(op) ==
    /\ CleanerUp("relog")
    /\ op \in lost
    /\ AppendToCurrent(Complete(op))
    /\ lost' = lost \ {op}
    /\ UNCHANGED <<tmp, index, cleaner, handling, pend, openFails>>

CleanerDone ==
    /\ CleanerUp("relog")
    /\ lost = {}
    /\ pend' = {}
    /\ cleaner' = "sleep"
    /\ UNCHANGED <<files, handling, lost, openFails>>

CleanerStep ==
    \/ Swap \/ Extract \/ CloseTmp \/ RemoveOld \/ RenameTmp \/ CleanerDone
    \/ \E op \in Ops : WriteStart(op) \/ Relog(op)

-----------------------------------------------------------------------------
(***************************************************************************)
(* A crash, and recoverAsyncEnqueue when the broker is back.               *)
(***************************************************************************)

Crash ==
    /\ crashes + openFails < MaxFaults
    /\ crashes' = crashes + 1
    /\ mode' = "read0"
    /\ cleaner' = "sleep" /\ handling' = 0
    /\ pend' = {} /\ lost' = {}
    /\ leftover' = leftover \union {tmp[i].op : i \in DOMAIN tmp}
    /\ forgotten' = IF mode = "up" THEN forgotten ELSE forgotten \union pend
    /\ UNCHANGED <<files, started, completed, live, openFails>>

\* Each file is read and removed in turn.
ReadFile(from, k, to) ==
    LET sets == ExtractPending([pend |-> pend, lost |-> lost], file[k])
    IN  /\ mode = from
        /\ mode' = to
        /\ pend' = sets.pend /\ lost' = sets.lost
        /\ file' = [file EXCEPT ![k] = <<>>]
        /\ UNCHANGED <<tmp, cleaner, handling, crashes, openFails>>

ReadFile0 == ReadFile("read0", 0, "read1") /\ UNCHANGED <<index, history>>

\* What was found is, from here on, what the process holds to be pending.  Its
\* other ids may be given again: messageIdSequence starts above what was found.
ReadFile1 ==
    /\ ReadFile("read1", 1, "relog")
    /\ index' = 0
    /\ live' = pend'
    /\ started' = [op \in Ops |-> IF op \in live' THEN 1 ELSE 0]
    /\ completed' = [op \in Ops |-> 0]
    /\ UNCHANGED <<leftover, forgotten>>

RelogStart(op) ==
    /\ mode = "relog"
    /\ op \in pend
    /\ AppendToCurrent(Start(op))
    /\ pend' = pend \ {op}
    /\ UNCHANGED <<tmp, index, mode, cleaner, handling, lost, history, crashes, openFails>>

RecoveryDone ==
    /\ mode = "relog"
    /\ pend = {}
    /\ mode' = "up"
    /\ lost' = {}
    /\ UNCHANGED <<files, cleaner, handling, pend, history, crashes, openFails>>

Recovery ==
    \/ ReadFile0 \/ ReadFile1 \/ RecoveryDone
    \/ \E op \in Ops : RelogStart(op)

-----------------------------------------------------------------------------
Next ==
    \/ \E op \in Ops : LogStart(op) \/ LogComplete(op)
    \/ CleanerStep
    \/ Crash
    \/ Recovery

Spec == Init /\ [][Next]_vars

(***************************************************************************)
(* The cleaner's loop never ends and each of its steps can be taken; the   *)
(* workers of the pools finish what they were given.                       *)
(***************************************************************************)
Fairness ==
    /\ WF_vars(CleanerStep)
    /\ WF_vars(Recovery)
    /\ \A op \in Ops : WF_vars(LogComplete(op))

FairSpec == Spec /\ Fairness

-----------------------------------------------------------------------------
Records == [kind : {"start", "complete"}, op : Ops]

TypeOK ==
    /\ file \in [{0, 1} -> Seq(Records)] /\ tmp \in Seq(Records)
    /\ index \in {0, 1} /\ handling \in {0, 1}
    /\ mode \in Modes /\ cleaner \in Cleaner
    /\ pend \subseteq Ops /\ lost \subseteq Ops
    /\ UNION {live, leftover, forgotten} \subseteq Ops
    /\ started \in [Ops -> 0..1] /\ completed \in [Ops -> 0..2]
    /\ crashes \in 0..MaxFaults /\ openFails \in 0..MaxFaults

TmpOps == {tmp[i].op : i \in DOMAIN tmp}

(***************************************************************************)
(* However the callers and the cleaner interleave, a crash loses no        *)
(* pending operation, except in one place: between the remove() and the    *)
(* rename() of the cleaner the only copy of a pending start is in the      *)
(* temporary file, which recoverAsyncEnqueue does not read.  During a      *)
(* recovery what is not in the files is in its memory, or was when an      *)
(* earlier recovery crashed.                                               *)
(***************************************************************************)
NothingLost ==
    \A op \in live \ Recoverable :
        IF mode = "up"
        THEN cleaner = "rename" /\ op \in TmpOps
        ELSE op \in pend \union leftover \union forgotten

(***************************************************************************)
(* However the callers and the cleaner interleave, a crash brings back no  *)
(* completed operation, except two kinds: those whose completion the       *)
(* cleaner holds in lostSet and has not logged again, and those whose      *)
(* start an earlier crash left in the temporary file, which the cleaner    *)
(* opens for appending.                                                    *)
(***************************************************************************)
NothingRevived ==
    mode = "up" =>
        \A op \in Recoverable \ live :
            \/ cleaner \in {"rename", "relog"} /\ op \in lost
            \/ op \in leftover

(***************************************************************************)
(* The log does not keep what is over: once the last operation has         *)
(* completed, the cleaner leaves no record in either file for good, but    *)
(* for a completion that has lost its start and is carried from file to    *)
(* file (smart async logged it twice, or the cleaner did because it could  *)
(* not open the temporary file) and for starts that came back out of a     *)
(* temporary file left by a crash.                                         *)
(***************************************************************************)
LogDrains ==
    <>[](\A i \in {0, 1} : \A r \in Range(file[i]) :
            \/ r.kind = "complete" /\ (completed[r.op] > 1 \/ openFails > 0)
            \/ r.op \in leftover)

(***************************************************************************)
(* A recovery that is interrupted can start again from the beginning: no   *)
(* step of recoverAsyncEnqueue takes a pending operation off the disk.     *)
(***************************************************************************)
RecoveryRestartable == [][mode # "up" => Recoverable \subseteq Recoverable']_vars
===============================================================================
