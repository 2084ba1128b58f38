------------------------------ MODULE LogProofs -------------------------------
(***************************************************************************)
(* Proofs about OperationLog, for any operations and any number of faults: *)
(* what reading a file makes of each operation, that the two files say     *)
(* of every operation what the process knows of it, and that a recovery    *)
(* therefore loses and revives only what NothingLost and NothingRevived    *)
(* name.                                                                   *)
(***************************************************************************)
EXTENDS OperationLog, WellFoundedInduction, TLAPS

-----------------------------------------------------------------------------
(***************************************************************************)
(* What a sequence of records says of one operation.                       *)
(***************************************************************************)

HasStart(records, op) == \E n \in DOMAIN records : records[n] = Start(op)
Closed(records, op) == \E n \in DOMAIN records : records[n] = Complete(op)

\* Nothing but a single start.
OneStart(records, op) ==
    \E n \in DOMAIN records :
        /\ records[n] = Start(op)
        /\ \A k \in DOMAIN records : k # n => records[k].op # op

\* Its last word is that the operation completed.
Over(records, op) ==
    \E n \in DOMAIN records :
        /\ records[n] = Complete(op)
        /\ \A k \in DOMAIN records : k > n => records[k] # Start(op)

-----------------------------------------------------------------------------
(***************************************************************************)
(* The inductive invariant.                                                *)
(***************************************************************************)

\* Where the cleaner and the recovery are, and what the files are then.
Stages ==
    /\ mode # "up" => cleaner = "sleep"
    /\ cleaner # "sleep" => handling # index
    /\ cleaner \in {"remove", "rename"} => pend = {}
    /\ cleaner = "rename" => file[handling] = <<>>
    /\ \A n \in DOMAIN tmp : tmp[n].kind = "start"
    /\ cleaner \notin {"write", "remove", "rename"} => TmpOps \subseteq leftover
    /\ mode = "read0" => lost = {}
    /\ mode = "read1" => file[0] = <<>>
    /\ mode = "relog" =>
        /\ index = 0 /\ file[1] = <<>>
        /\ pend \subseteq live
        /\ \A op \in Ops : completed[op] = 0

\* An operation is known to be pending from its start to its first completion,
\* and no completion is on record before the first is logged.
Counts ==
    \A op \in Ops :
        /\ op \in live <=> started[op] = 1 /\ completed[op] = 0
        /\ started[op] = 0 => completed[op] = 0
        /\ completed[op] = 0 =>
            /\ \A i \in {0, 1} : ~Closed(file[i], op)
            /\ mode # "relog" => op \notin lost

\* The start of a pending operation is on record.
Kept ==
    \A op \in live :
        /\ \/ \E i \in {0, 1} : HasStart(file[i], op)
           \/ mode = "up" /\ cleaner = "rename" /\ op \in TmpOps
           \/ mode = "relog" /\ op \in pend
           \/ mode \in {"read0", "read1"} /\ op \in pend \union leftover \union forgotten
        /\ cleaner \in {"write", "remove"} =>
            HasStart(file[index], op) \/ op \in pend \union TmpOps

\* At most one start of the operation is on record, before its completions.
Once(op) ==
    /\ \A i \in {0, 1} : ~HasStart(file[i], op) \/ OneStart(file[i], op) \/ Over(file[i], op)
    /\ \A i, j \in {0, 1} : i # j /\ HasStart(file[i], op) => ~HasStart(file[j], op)
    /\ started[op] = 0 =>
        op \notin pend \union TmpOps /\ \A i \in {0, 1} : ~HasStart(file[i], op)
    /\ mode = "relog" /\ op \in pend => ~HasStart(file[0], op)

\* A completion answers the start: it is in the other file, or the cleaner has it.
Answered(op) ==
    completed[op] # 0 =>
        \A i, j \in {0, 1} : i # j /\ OneStart(file[i], op) =>
            Closed(file[j], op) \/ (cleaner \in {"rename", "relog"} /\ op \in lost)

\* What the cleaner copies of the file it took over.
Copied(op) ==
    /\ op \in TmpOps => OneStart(tmp, op)
    /\ cleaner \in {"write", "remove"} =>
        /\ op \in pend \union TmpOps => OneStart(file[handling], op)
        /\ op \notin pend \intersect TmpOps
        /\ Closed(file[handling], op) /\ ~HasStart(file[handling], op) => op \in lost
    /\ cleaner = "rename" /\ op \in TmpOps =>
        /\ ~HasStart(file[index], op)
        /\ completed[op] # 0 => Closed(file[index], op)

\* So it is with every operation that no crash left in the temporary file.
Single ==
    mode \in {"up", "relog"} => \A op \in Ops \ leftover : Once(op) /\ Answered(op) /\ Copied(op)

LogInv == TypeOK /\ Stages /\ Counts /\ Kept /\ Single

-----------------------------------------------------------------------------
(***************************************************************************)
(* Reading a file.                                                         *)
(***************************************************************************)

Sets == [pend : SUBSET Ops, lost : SUBSET Ops]

\* What holds at 0 and carries over from n - 1 to n holds up to N.
LEMMA UpTo ==
    ASSUME NEW N \in Nat, NEW G, 0 \in G, \A n \in 1..N : n - 1 \in G => n \in G
    PROVE  \A n \in 0..N : n \in G
<1> DEFINE T == {n \in 0..N : n \notin G}
<1>1. SUFFICES ASSUME T # {} PROVE FALSE
  BY Zenon
<1>2. T \subseteq Nat
  OBVIOUS
<1>3. \E x \in T : \A y \in T : ~(<<y, x>> \in OpToRel(<, Nat))
  BY <1>1, <1>2, NatLessThanWellFounded, WFMin, Zenon
<1>4. PICK x \in T : \A y \in T : ~(<<y, x>> \in OpToRel(<, Nat))
  BY <1>3, Zenon
<1>5. \A y \in T : ~(y < x)
  BY <1>2, <1>4, Zenon DEF OpToRel
<1>6. x \in 1..N
  <2>1. x \in 0..N /\ x # 0
    BY <1>4, Zenon
  <2> QED
    BY <2>1
<1>7. x - 1 \in 0..N /\ x - 1 < x
  BY <1>6
<1>8. x - 1 \notin T
  BY <1>5, <1>7, Zenon
<1>9. x - 1 \in G
  BY <1>7, <1>8, Zenon
<1>10. x \in G
  BY <1>6, <1>9, Zenon
<1> QED
  BY <1>4, <1>10, Zenon

\* What reading record r, which takes s to t, means for one operation.
Reads(s, r, t, op) ==
    \/ /\ r # Start(op) /\ r # Complete(op) /\ r.op # op
       /\ op \in t.pend <=> op \in s.pend
       /\ op \in t.lost <=> op \in s.lost
    \/ /\ r = Start(op) /\ r # Complete(op)
       /\ op \in t.pend <=> (op \in s.pend \/ op \notin s.lost)
       /\ op \notin t.lost
    \/ /\ r = Complete(op) /\ r # Start(op)
       /\ op \notin t.pend
       /\ op \in t.lost <=> (op \in s.lost \/ op \notin s.pend)

\* extractPendingEnqueueFromFile reads each record so.
LEMMA ReadOne ==
    ASSUME NEW s \in Sets, NEW r \in Records
    PROVE  /\ ReadRecord(s, r) \in Sets
           /\ \A op \in Ops : Reads(s, r, ReadRecord(s, r), op)
  BY DEF ReadRecord, Sets, Records, Start, Complete, Reads

\* The states that reading a file goes through.
LEMMA Reading ==
    ASSUME NEW sets \in Sets, NEW records \in Seq(Records)
    PROVE  \E read \in [0..Len(records) -> Sets] :
               /\ read[0] = sets
               /\ \A n \in 1..Len(records) : read[n] = ReadRecord(read[n - 1], records[n])
               /\ ExtractPending(sets, records) = read[Len(records)]
<1> DEFINE N == Len(records)
           Body(f) == [n \in 0..N |-> IF n = 0 THEN sets ELSE ReadRecord(f[n - 1], records[n])]
           Follows(f, m) == /\ f \in [0..m -> Sets]
                          /\ f[0] = sets
                          /\ \A n \in 1..m : f[n] = ReadRecord(f[n - 1], records[n])
           G == {m \in 0..N : \E f : Follows(f, m)}
<1>1. N \in Nat /\ \A n \in 1..N : records[n] \in Records
  OBVIOUS
<1>2. 0 \in G
  <2>1. Follows([n \in 0..0 |-> sets], 0)
    OBVIOUS
  <2>2. 0 \in 0..N
    BY <1>1
  <2> HIDE DEF Follows, N
  <2> QED
    BY <2>1, <2>2, Zenon
<1>3. ASSUME NEW m \in 1..N, m - 1 \in G
      PROVE  m \in G
  <2>1. PICK f : Follows(f, m - 1)
    BY <1>3, Zenon
  <2> DEFINE g == [n \in 0..m |-> IF n = m THEN ReadRecord(f[m - 1], records[m]) ELSE f[n]]
  <2>2. ReadRecord(f[m - 1], records[m]) \in Sets
    <3>1. f[m - 1] \in Sets
      BY <1>1, <2>1
    <3>2. records[m] \in Records
      BY <1>1
    <3> QED
      BY <3>1, <3>2, ReadOne, Zenon
  <2>3. g \in [0..m -> Sets]
    BY <1>1, <2>1, <2>2
  <2>4. g[0] = sets
    BY <1>1, <2>1
  <2>5. ASSUME NEW n \in 1..m
        PROVE  g[n] = ReadRecord(g[n - 1], records[n])
    <3>1. n - 1 \in 0..m /\ n - 1 # m /\ n \in 0..m
      BY <1>1, <2>5
    <3>2. g[n - 1] = f[n - 1]
      BY <3>1
    <3>3. CASE n = m
      BY <3>1, <3>2, <3>3
    <3>4. CASE n # m
      <4>1. n \in 1..(m - 1)
        BY <1>1, <2>5, <3>4
      <4>2. g[n] = f[n]
        BY <3>1, <3>4
      <4>3. f[n] = ReadRecord(f[n - 1], records[n])
        BY <2>1, <4>1, Zenon
      <4> QED
        BY <3>2, <4>2, <4>3, Zenon
    <3> QED
      BY <3>3, <3>4, Zenon
  <2>6. Follows(g, m)
    BY <2>3, <2>4, <2>5, Zenon
  <2>7. m \in 0..N
    BY <1>1
  <2> HIDE DEF g, Follows
  <2> QED
    BY <2>6, <2>7, Zenon
<1>4. N \in G
  <2> HIDE DEF G, N
  <2>1. \A n \in 0..N : n \in G
    BY <1>1, <1>2, <1>3, UpTo, Zenon
  <2>2. N \in 0..N
    BY <1>1
  <2> QED
    BY <2>1, <2>2, Zenon
<1>5. PICK f : Follows(f, N)
  BY <1>4, Zenon
<1>6. f = Body(f)
  <2>1. f = [n \in 0..N |-> f[n]]
    BY <1>5
  <2>2. \A n \in 0..N : f[n] = IF n = 0 THEN sets ELSE ReadRecord(f[n - 1], records[n])
    BY <1>5, <1>1
  <2> QED
    BY <2>1, <2>2
<1> DEFINE read == CHOOSE r : r = Body(r)
<1>7. read = Body(read)
  BY <1>6, Zenon
<1>8. ExtractPending(sets, records) = read[N]
  BY Zenon DEF ExtractPending
<1>9. read[0] = sets
  <2> HIDE DEF read
  <2> QED
    BY <1>1, <1>7
<1>10. \A n \in 1..N : read[n] = ReadRecord(read[n - 1], records[n])
  <2> HIDE DEF read
  <2> QED
    BY <1>1, <1>7
<1>11. \A n \in 0..N : read[n] \in Sets
  <2> HIDE DEF read
  <2> DEFINE H == {n \in 0..N : read[n] \in Sets}
  <2>1. 0 \in H
    BY <1>1, <1>9
  <2>2. ASSUME NEW n \in 1..N, n - 1 \in H
        PROVE  n \in H
    <3>1. read[n - 1] \in Sets
      BY <2>2, Zenon
    <3>2. ReadRecord(read[n - 1], records[n]) \in Sets
      BY <1>1, <3>1, ReadOne, Zenon
    <3>3. read[n] \in Sets
      BY <1>10, <3>2, Zenon
    <3> QED
      BY <3>3
  <2>3. \A n \in 0..N : n \in H
    <3> HIDE DEF H, N
    <3> QED
      BY <1>1, <2>1, <2>2, UpTo, Zenon
  <2> QED
    BY <2>3, Zenon
<1>12. read \in [0..N -> Sets]
  <2> HIDE DEF read
  <2>1. read = [n \in 0..N |-> read[n]]
    BY <1>7
  <2> QED
    BY <1>11, <2>1
<1> QED
  <2> HIDE DEF read, Body, Follows, G
  <2> QED
    BY <1>8, <1>9, <1>10, <1>12, Zenon

\* The same, when P and L are the places of a file where the operation is in
\* pend and in lost.
Turns(r, P, L, n, op) ==
    \/ /\ r # Start(op) /\ r # Complete(op) /\ r.op # op
       /\ n \in P <=> n - 1 \in P
       /\ n \in L <=> n - 1 \in L
    \/ /\ r = Start(op) /\ r # Complete(op)
       /\ n \in P <=> (n - 1 \in P \/ n - 1 \notin L)
       /\ n \notin L
    \/ /\ r = Complete(op) /\ r # Start(op)
       /\ n \notin P
       /\ n \in L <=> (n - 1 \in L \/ n - 1 \notin P)

\* How an operation comes and goes while a file is read.
LEMMA ReadingOf ==
    ASSUME NEW sets \in Sets, NEW records \in Seq(Records), NEW op \in Ops
    PROVE  \E P, L \in SUBSET (0..Len(records)) :
               /\ 0 \in P <=> op \in sets.pend
               /\ 0 \in L <=> op \in sets.lost
               /\ Len(records) \in P <=> op \in ExtractPending(sets, records).pend
               /\ Len(records) \in L <=> op \in ExtractPending(sets, records).lost
               /\ \A n \in 1..Len(records) : Turns(records[n], P, L, n, op)
<1>1. PICK read \in [0..Len(records) -> Sets] :
          /\ read[0] = sets
          /\ \A n \in 1..Len(records) : read[n] = ReadRecord(read[n - 1], records[n])
          /\ ExtractPending(sets, records) = read[Len(records)]
  BY Reading, Zenon
<1> DEFINE P == {n \in 0..Len(records) : op \in read[n].pend}
           L == {n \in 0..Len(records) : op \in read[n].lost}
<1>2. Len(records) \in 0..Len(records) /\ 0 \in 0..Len(records)
  OBVIOUS
<1>3. ASSUME NEW n \in 1..Len(records)
      PROVE  /\ n \in 0..Len(records) /\ n - 1 \in 0..Len(records)
             /\ records[n] \in Records
             /\ read[n - 1] \in Sets
             /\ read[n] = ReadRecord(read[n - 1], records[n])
  <2>1. n \in 0..Len(records) /\ n - 1 \in 0..Len(records) /\ records[n] \in Records
    OBVIOUS
  <2> QED
    BY <1>1, <2>1, Zenon
<1>4. /\ 0 \in P <=> op \in sets.pend
      /\ 0 \in L <=> op \in sets.lost
      /\ Len(records) \in P <=> op \in ExtractPending(sets, records).pend
      /\ Len(records) \in L <=> op \in ExtractPending(sets, records).lost
  BY <1>1, <1>2, Zenon
<1>5. ASSUME NEW n \in 1..Len(records)
      PROVE  Turns(records[n], P, L, n, op)
  <2>1. /\ n \in P <=> op \in ReadRecord(read[n - 1], records[n]).pend
        /\ n \in L <=> op \in ReadRecord(read[n - 1], records[n]).lost
        /\ n - 1 \in P <=> op \in read[n - 1].pend
        /\ n - 1 \in L <=> op \in read[n - 1].lost
    BY <1>3, Zenon
  <2> HIDE DEF P, L
  <2>2. Reads(read[n - 1], records[n], ReadRecord(read[n - 1], records[n]), op)
    BY <1>3, ReadOne, Zenon
  <2> QED
    BY <2>1, <2>2, Zenon DEF Reads, Turns
<1>6. P \in SUBSET (0..Len(records)) /\ L \in SUBSET (0..Len(records))
  BY Zenon
<1> HIDE DEF P, L
<1> QED
  BY <1>4, <1>5, <1>6, Zenon

\* An operation with a start and no completion in the file is found pending.
LEMMA StartsPend ==
    ASSUME NEW sets \in Sets, NEW records \in Seq(Records), NEW op \in Ops,
           op \in sets.pend \/ HasStart(records, op), ~Closed(records, op), op \notin sets.lost
    PROVE  op \in ExtractPending(sets, records).pend
<1>1. PICK P, L \in SUBSET (0..Len(records)) :
          /\ 0 \in P <=> op \in sets.pend
          /\ 0 \in L <=> op \in sets.lost
          /\ Len(records) \in P <=> op \in ExtractPending(sets, records).pend
          /\ Len(records) \in L <=> op \in ExtractPending(sets, records).lost
          /\ \A n \in 1..Len(records) : Turns(records[n], P, L, n, op)
  BY ReadingOf, Zenon
<1>2. Len(records) \in Nat /\ DOMAIN records = 1..Len(records)
  OBVIOUS
<1> DEFINE G == {n \in Int : n \notin L /\ ((op \in sets.pend \/ \E k \in 1..n : records[k] = Start(op)) => n \in P)}
<1>4. 0 \in G
  BY <1>1, <1>2
<1>5. ASSUME NEW n \in 1..Len(records), n - 1 \in G
      PROVE  n \in G
  <2>1. Turns(records[n], P, L, n, op)
    BY <1>1, Zenon
  <2>2. n - 1 \notin L /\ (op \in sets.pend => n - 1 \in P)
    BY <1>5, Zenon
  <2>3. records[n] # Complete(op)
    BY <1>2, Zenon DEF Closed
  <2>4. n \notin L
    BY <2>1, <2>2, <2>3, Zenon DEF Turns
  <2>5. ASSUME op \in sets.pend \/ \E k \in 1..n : records[k] = Start(op)
        PROVE  n \in P
    <3>1. CASE records[n] = Start(op)
      BY <2>1, <2>2, <3>1, Zenon DEF Turns
    <3>2. CASE records[n] # Start(op)
      <4>1. (\E k \in 1..n : records[k] = Start(op)) => \E k \in 1..(n - 1) : records[k] = Start(op)
        BY <3>2
      <4>2. n - 1 \in P
        BY <1>5, <2>5, <4>1, Zenon
      <4> QED
        BY <2>1, <2>3, <3>2, <4>2, Zenon DEF Turns
    <3> QED
      BY <3>1, <3>2, Zenon
  <2>6. n \in Int
    OBVIOUS
  <2> QED
    BY <2>4, <2>5, <2>6, Zenon
<1>6. \A n \in 0..Len(records) : n \in G
  <2> HIDE DEF G
  <2> QED
    BY <1>2, <1>4, <1>5, UpTo, Zenon
<1>7. Len(records) \in G
  <2> HIDE DEF G
  <2> QED
    BY <1>2, <1>6
<1> QED
  BY <1>1, <1>2, <1>7 DEF HasStart

\* A completion that has lost its start was lost before or is in the file.
LEMMA LostClosed ==
    ASSUME NEW sets \in Sets, NEW records \in Seq(Records), NEW op \in Ops,
           op \in ExtractPending(sets, records).lost
    PROVE  op \in sets.lost \/ Closed(records, op)
<1>1. PICK P, L \in SUBSET (0..Len(records)) :
          /\ 0 \in P <=> op \in sets.pend
          /\ 0 \in L <=> op \in sets.lost
          /\ Len(records) \in P <=> op \in ExtractPending(sets, records).pend
          /\ Len(records) \in L <=> op \in ExtractPending(sets, records).lost
          /\ \A n \in 1..Len(records) : Turns(records[n], P, L, n, op)
  BY ReadingOf, Zenon
<1>2. Len(records) \in Nat /\ DOMAIN records = 1..Len(records)
  OBVIOUS
<1> DEFINE G == {n \in Int : n \in L => op \in sets.lost \/ Closed(records, op)}
<1>4. 0 \in G
  BY <1>1, <1>2
<1>5. ASSUME NEW n \in 1..Len(records), n - 1 \in G
      PROVE  n \in G
  <2>1. Turns(records[n], P, L, n, op)
    BY <1>1, Zenon
  <2>2. n \in Int
    OBVIOUS
  <2>3. records[n] = Complete(op) => Closed(records, op)
    BY <1>2, Zenon DEF Closed
  <2> QED
    BY <1>5, <2>1, <2>2, <2>3, Zenon DEF Turns
<1>6. \A n \in 0..Len(records) : n \in G
  <2> HIDE DEF G
  <2> QED
    BY <1>2, <1>4, <1>5, UpTo, Zenon
<1>7. Len(records) \in G
  <2> HIDE DEF G
  <2> QED
    BY <1>2, <1>6
<1> QED
  BY <1>1, <1>2, <1>7 DEF Closed

\* An operation found pending was pending before or has a start in the file.
LEMMA PendStarts ==
    ASSUME NEW sets \in Sets, NEW records \in Seq(Records), NEW op \in Ops,
           op \in ExtractPending(sets, records).pend
    PROVE  op \in sets.pend \/ HasStart(records, op)
<1>1. PICK P, L \in SUBSET (0..Len(records)) :
          /\ 0 \in P <=> op \in sets.pend
          /\ 0 \in L <=> op \in sets.lost
          /\ Len(records) \in P <=> op \in ExtractPending(sets, records).pend
          /\ Len(records) \in L <=> op \in ExtractPending(sets, records).lost
          /\ \A n \in 1..Len(records) : Turns(records[n], P, L, n, op)
  BY ReadingOf, Zenon
<1>2. Len(records) \in Nat /\ DOMAIN records = 1..Len(records)
  OBVIOUS
<1> DEFINE G == {n \in Int : n \in P => op \in sets.pend \/ HasStart(records, op)}
<1>4. 0 \in G
  BY <1>1, <1>2
<1>5. ASSUME NEW n \in 1..Len(records), n - 1 \in G
      PROVE  n \in G
  <2>1. Turns(records[n], P, L, n, op)
    BY <1>1, Zenon
  <2>2. n \in Int
    OBVIOUS
  <2>3. records[n] = Start(op) => HasStart(records, op)
    BY <1>2, Zenon DEF HasStart
  <2> QED
    BY <1>5, <2>1, <2>2, <2>3, Zenon DEF Turns
<1>6. \A n \in 0..Len(records) : n \in G
  <2> HIDE DEF G
  <2> QED
    BY <1>2, <1>4, <1>5, UpTo, Zenon
<1>7. Len(records) \in G
  <2> HIDE DEF G
  <2> QED
    BY <1>2, <1>6
<1> QED
  BY <1>1, <1>2, <1>7 DEF HasStart

\* An operation whose last word in the file is its completion is not found pending.
LEMMA OverPend ==
    ASSUME NEW sets \in Sets, NEW records \in Seq(Records), NEW op \in Ops,
           Over(records, op)
    PROVE  op \notin ExtractPending(sets, records).pend
<1>1. PICK P, L \in SUBSET (0..Len(records)) :
          /\ 0 \in P <=> op \in sets.pend
          /\ 0 \in L <=> op \in sets.lost
          /\ Len(records) \in P <=> op \in ExtractPending(sets, records).pend
          /\ Len(records) \in L <=> op \in ExtractPending(sets, records).lost
          /\ \A n \in 1..Len(records) : Turns(records[n], P, L, n, op)
  BY ReadingOf, Zenon
<1>2. Len(records) \in Nat /\ DOMAIN records = 1..Len(records)
  OBVIOUS
<1>3. PICK j \in DOMAIN records :
          /\ records[j] = Complete(op)
          /\ \A k \in DOMAIN records : k > j => records[k] # Start(op)
  BY Zenon DEF Over
<1> DEFINE G == {n \in Int : n >= j => n \notin P}
<1>4. 0 \in G
  BY <1>1, <1>2, <1>3
<1>5. ASSUME NEW n \in 1..Len(records), n - 1 \in G
      PROVE  n \in G
  <2>1. Turns(records[n], P, L, n, op)
    BY <1>1, Zenon
  <2> QED
    BY <1>2, <1>5, <2>1, <1>3 DEF Turns
<1>6. \A n \in 0..Len(records) : n \in G
  <2> HIDE DEF G
  <2> QED
    BY <1>2, <1>4, <1>5, UpTo, Zenon
<1>7. Len(records) \in G
  <2> HIDE DEF G
  <2> QED
    BY <1>2, <1>6
<1> QED
  BY <1>1, <1>2, <1>7, <1>3

\* A single start only cancels a completion read before.
LEMMA OneStartLost ==
    ASSUME NEW sets \in Sets, NEW records \in Seq(Records), NEW op \in Ops,
           OneStart(records, op), op \in sets.lost, op \notin sets.pend
    PROVE  op \notin ExtractPending(sets, records).pend
<1>1. PICK P, L \in SUBSET (0..Len(records)) :
          /\ 0 \in P <=> op \in sets.pend
          /\ 0 \in L <=> op \in sets.lost
          /\ Len(records) \in P <=> op \in ExtractPending(sets, records).pend
          /\ Len(records) \in L <=> op \in ExtractPending(sets, records).lost
          /\ \A n \in 1..Len(records) : Turns(records[n], P, L, n, op)
  BY ReadingOf, Zenon
<1>2. Len(records) \in Nat /\ DOMAIN records = 1..Len(records)
  OBVIOUS
<1>3. PICK j \in DOMAIN records :
          /\ records[j] = Start(op)
          /\ \A k \in DOMAIN records : k # j => records[k].op # op
  BY Zenon DEF OneStart
<1> DEFINE G == {n \in Int : n \notin P /\ (n < j => n \in L)}
<1>4. 0 \in G
  BY <1>1, <1>2, <1>3
<1>5. ASSUME NEW n \in 1..Len(records), n - 1 \in G
      PROVE  n \in G
  <2>1. Turns(records[n], P, L, n, op)
    BY <1>1, Zenon
  <2>2. n - 1 \notin P /\ (n - 1 < j => n - 1 \in L)
    BY <1>5, Zenon
  <2>3. n \in Int /\ j \in Int
    BY <1>2, <1>3
  <2>4. CASE n = j
    <3>1. n - 1 \in L
      BY <2>2, <2>3, <2>4
    <3>2. records[n] = Start(op)
      BY <1>3, <2>4, Zenon
    <3>3. n \notin P
      BY <2>1, <2>2, <3>1, <3>2, Zenon DEF Turns
    <3>4. ~(n < j)
      BY <2>3, <2>4
    <3> QED
      BY <2>3, <3>3, <3>4, Zenon
  <2>5. CASE n # j
    <3>1. records[n].op # op
      BY <1>2, <1>3, <2>5, Zenon
    <3>2. records[n] # Start(op) /\ records[n] # Complete(op)
      BY <3>1 DEF Start, Complete
    <3>3. n < j => n - 1 \in L
      BY <2>2, <2>3
    <3> QED
      BY <2>1, <2>2, <2>3, <3>2, <3>3, Zenon DEF Turns
  <2> QED
    BY <2>4, <2>5, Zenon
<1>6. \A n \in 0..Len(records) : n \in G
  <2> HIDE DEF G
  <2> QED
    BY <1>2, <1>4, <1>5, UpTo, Zenon
<1>7. Len(records) \in G
  <2> HIDE DEF G
  <2> QED
    BY <1>2, <1>6
<1> QED
  BY <1>1, <1>2, <1>7, <1>3

\* A completion without a start is found lost.
LEMMA ClosedLost ==
    ASSUME NEW sets \in Sets, NEW records \in Seq(Records), NEW op \in Ops,
           Closed(records, op), ~HasStart(records, op), op \notin sets.pend
    PROVE  op \in ExtractPending(sets, records).lost
<1>1. PICK P, L \in SUBSET (0..Len(records)) :
          /\ 0 \in P <=> op \in sets.pend
          /\ 0 \in L <=> op \in sets.lost
          /\ Len(records) \in P <=> op \in ExtractPending(sets, records).pend
          /\ Len(records) \in L <=> op \in ExtractPending(sets, records).lost
          /\ \A n \in 1..Len(records) : Turns(records[n], P, L, n, op)
  BY ReadingOf, Zenon
<1>2. Len(records) \in Nat /\ DOMAIN records = 1..Len(records)
  OBVIOUS
<1> DEFINE G == {n \in Int : n \notin P /\ ((\E k \in 1..n : records[k] = Complete(op)) => n \in L)}
<1>4. 0 \in G
  BY <1>1, <1>2
<1>5. ASSUME NEW n \in 1..Len(records), n - 1 \in G
      PROVE  n \in G
  <2>1. Turns(records[n], P, L, n, op)
    BY <1>1, Zenon
  <2>2. n - 1 \notin P
    BY <1>5, Zenon
  <2>3. records[n] # Start(op)
    BY <1>2, Zenon DEF HasStart
  <2>4. n \notin P
    BY <2>1, <2>2, <2>3, Zenon DEF Turns
  <2>5. ASSUME \E k \in 1..n : records[k] = Complete(op)
        PROVE  n \in L
    <3>1. CASE records[n] = Complete(op)
      BY <2>1, <2>2, <3>1, Zenon DEF Turns
    <3>2. CASE records[n] # Complete(op)
      <4>1. \E k \in 1..(n - 1) : records[k] = Complete(op)
        BY <2>5, <3>2
      <4>2. n - 1 \in L
        BY <1>5, <4>1, Zenon
      <4> QED
        BY <2>1, <2>3, <3>2, <4>2, Zenon DEF Turns
    <3> QED
      BY <3>1, <3>2, Zenon
  <2>6. n \in Int
    OBVIOUS
  <2> QED
    BY <2>4, <2>5, <2>6, Zenon
<1>6. \A n \in 0..Len(records) : n \in G
  <2> HIDE DEF G
  <2> QED
    BY <1>2, <1>4, <1>5, UpTo, Zenon
<1>7. Len(records) \in G
  <2> HIDE DEF G
  <2> QED
    BY <1>2, <1>6
<1> QED
  BY <1>1, <1>2, <1>7 DEF Closed

-----------------------------------------------------------------------------
(***************************************************************************)
(* What writing to a file makes of what it says.                           *)
(***************************************************************************)

\* How the four words of a file about an operation exclude and imply each other.
LEMMA Words ==
    ASSUME NEW records \in Seq(Records), NEW op \in Ops
    PROVE  /\ OneStart(records, op) => HasStart(records, op) /\ ~Closed(records, op)
           /\ Over(records, op) => Closed(records, op)
<1>1. Complete(op).op = op /\ Complete(op) # Start(op)
  BY DEF Start, Complete
<1>2. ASSUME OneStart(records, op), Closed(records, op)
      PROVE  FALSE
  <2>1. PICK n \in DOMAIN records :
            records[n] = Start(op) /\ \A k \in DOMAIN records : k # n => records[k].op # op
    BY <1>2, Zenon DEF OneStart
  <2>2. PICK k \in DOMAIN records : records[k] = Complete(op)
    BY <1>2, Zenon DEF Closed
  <2> QED
    BY <1>1, <2>1, <2>2, Zenon
<1> QED
  BY <1>2, Zenon DEF OneStart, HasStart, Over, Closed

\* An empty file says nothing of any operation.
LEMMA EmptyWords ==
    ASSUME NEW op
    PROVE  /\ ~HasStart(<<>>, op) /\ ~Closed(<<>>, op)
           /\ ~OneStart(<<>>, op) /\ ~Over(<<>>, op)
  BY DEF HasStart, Closed, OneStart, Over

\* What record r, added at the end of old, makes new say of an operation.
Adds(old, r, new, op) ==
    /\ HasStart(new, op) <=> HasStart(old, op) \/ r = Start(op)
    /\ Closed(new, op) <=> Closed(old, op) \/ r = Complete(op)
    /\ r.op # op => (OneStart(new, op) <=> OneStart(old, op)) /\ (Over(new, op) <=> Over(old, op))
    /\ r = Complete(op) => ~OneStart(new, op) /\ Over(new, op)
    /\ r = Start(op) /\ ~HasStart(old, op) /\ ~Closed(old, op) => OneStart(new, op)

\* What Append makes a file say: see Adds.
LEMMA AppendWords ==
    ASSUME NEW records \in Seq(Records), NEW r \in Records, NEW op \in Ops
    PROVE  Adds(records, r, Append(records, r), op)
<1> DEFINE N == Len(records)
           new == Append(records, r)
<1>1. /\ N \in Nat /\ DOMAIN records = 1..N /\ DOMAIN new = 1..(N + 1)
      /\ new[N + 1] = r
      /\ \A n \in 1..N : new[n] = records[n] /\ records[n] \in Records
      /\ new \in Seq(Records)
  OBVIOUS
<1>2. /\ \A n \in 1..N : n \in 1..(N + 1) /\ n # N + 1 /\ ~(n > N + 1)
      /\ \A n \in 1..(N + 1) : n \in 1..N \/ n = N + 1
      /\ N + 1 \in 1..(N + 1) /\ ~(N + 1 > N + 1)
      /\ \A n \in 1..N : N + 1 > n
  BY <1>1
<1> HIDE DEF N, new
<1>3. HasStart(new, op) <=> HasStart(records, op) \/ r = Start(op)
  BY <1>1, <1>2, Zenon DEF HasStart
<1>4. Closed(new, op) <=> Closed(records, op) \/ r = Complete(op)
  BY <1>1, <1>2, Zenon DEF Closed
<1>5. Start(op).op = op /\ Complete(op).op = op /\ Start(op) # Complete(op)
  BY DEF Start, Complete
<1>6. ASSUME r.op # op
      PROVE  OneStart(new, op) <=> OneStart(records, op)
  <2>1. ASSUME OneStart(records, op) PROVE OneStart(new, op)
    <3>1. PICK n \in 1..N : records[n] = Start(op) /\ \A k \in 1..N : k # n => records[k].op # op
      BY <1>1, <2>1, Zenon DEF OneStart
    <3>2. \A k \in 1..(N + 1) : k # n => new[k].op # op
      BY <1>1, <1>2, <1>6, <3>1, Zenon
    <3>3. n \in 1..(N + 1) /\ new[n] = Start(op)
      BY <1>1, <1>2, <3>1, Zenon
    <3> QED
      BY <1>1, <3>2, <3>3, Zenon DEF OneStart
  <2>2. ASSUME OneStart(new, op) PROVE OneStart(records, op)
    <3>1. PICK n \in 1..(N + 1) :
              new[n] = Start(op) /\ \A k \in 1..(N + 1) : k # n => new[k].op # op
      BY <1>1, <2>2, Zenon DEF OneStart
    <3>2. n \in 1..N
      BY <1>1, <1>2, <1>5, <1>6, <3>1, Zenon
    <3>3. records[n] = Start(op) /\ \A k \in 1..N : k # n => records[k].op # op
      BY <1>1, <1>2, <3>1, <3>2, Zenon
    <3> QED
      BY <1>1, <3>2, <3>3, Zenon DEF OneStart
  <2> QED
    BY <2>1, <2>2, Zenon
<1>7. ASSUME r.op # op
      PROVE  Over(new, op) <=> Over(records, op)
  <2>1. ASSUME Over(records, op) PROVE Over(new, op)
    <3>1. PICK n \in 1..N :
              records[n] = Complete(op) /\ \A k \in 1..N : k > n => records[k] # Start(op)
      BY <1>1, <2>1, Zenon DEF Over
    <3>2. \A k \in 1..(N + 1) : k > n => new[k] # Start(op)
      BY <1>1, <1>2, <1>5, <1>7, <3>1, Zenon
    <3>3. n \in 1..(N + 1) /\ new[n] = Complete(op)
      BY <1>1, <1>2, <3>1, Zenon
    <3> QED
      BY <1>1, <3>2, <3>3, Zenon DEF Over
  <2>2. ASSUME Over(new, op) PROVE Over(records, op)
    <3>1. PICK n \in 1..(N + 1) :
              new[n] = Complete(op) /\ \A k \in 1..(N + 1) : k > n => new[k] # Start(op)
      BY <1>1, <2>2, Zenon DEF Over
    <3>2. n \in 1..N
      BY <1>1, <1>2, <1>5, <1>7, <3>1, Zenon
    <3>3. records[n] = Complete(op) /\ \A k \in 1..N : k > n => records[k] # Start(op)
      BY <1>1, <1>2, <3>1, <3>2, Zenon
    <3> QED
      BY <1>1, <3>2, <3>3, Zenon DEF Over
  <2> QED
    BY <2>1, <2>2, Zenon
<1>8. ASSUME r = Complete(op)
      PROVE  ~OneStart(new, op) /\ Over(new, op)
  <2>1. Closed(new, op)
    BY <1>4, <1>8, Zenon
  <2>2. ~OneStart(new, op)
    BY <1>1, <2>1, Words, Zenon
  <2>3. \A k \in 1..(N + 1) : ~(k > N + 1)
    BY <1>2, Zenon
  <2> QED
    BY <1>1, <1>2, <1>8, <2>2, <2>3, Zenon DEF Over
<1>9. ASSUME r = Start(op), ~HasStart(records, op), ~Closed(records, op)
      PROVE  OneStart(new, op)
  <2>1. ASSUME NEW k \in 1..N
        PROVE  new[k].op # op
    <3>1. records[k] # Start(op) /\ records[k] # Complete(op)
      BY <1>1, <1>9, Zenon DEF HasStart, Closed
    <3>2. records[k] \in Records
      BY <1>1, Zenon
    <3>3. records[k].op # op
      BY <3>1, <3>2 DEF Records, Start, Complete
    <3> QED
      BY <1>1, <3>3, Zenon
  <2>2. \A k \in 1..(N + 1) : k # N + 1 => new[k].op # op
    BY <1>2, <2>1, Zenon
  <2> QED
    BY <1>1, <1>2, <1>9, <2>2, Zenon DEF OneStart
<1> QED
  BY <1>3, <1>4, <1>6, <1>7, <1>8, <1>9, Zenon DEF new, Adds

Both == [{0, 1} -> Seq(Records)]

\* AppendToCurrent, and the cleaner's other writes to a file.
LEMMA AppendFile ==
    ASSUME file \in Both, NEW k \in {0, 1}, NEW r \in Records,
           file' = [file EXCEPT ![k] = Append(@, r)]
    PROVE  /\ file' \in Both
           /\ file'[k] = Append(file[k], r)
           /\ \A i \in {0, 1} : i # k => file'[i] = file[i]
           /\ \A i \in {0, 1} : file[i] \in Seq(Records)
<1>1. file[k] \in Seq(Records)
  BY DEF Both
<1>2. Append(file[k], r) \in Seq(Records)
  BY <1>1
<1> QED
  BY <1>1, <1>2 DEF Both

\* A file that is written as a whole leaves the other one alone.
LEMMA SetFile ==
    ASSUME file \in Both, NEW k \in {0, 1}, NEW records \in Seq(Records),
           file' = [file EXCEPT ![k] = records]
    PROVE  /\ file' \in Both
           /\ file'[k] = records
           /\ \A i \in {0, 1} : i # k => file'[i] = file[i]
  BY DEF Both

\* A file is replaced by one without completions.
LEMMA SetOpen ==
    ASSUME file \in Both, NEW k \in {0, 1}, NEW records \in Seq(Records),
           file' = [file EXCEPT ![k] = records],
           \A op \in Ops : ~Closed(records, op)
    PROVE  \A i \in {0, 1}, op \in Ops : Closed(file'[i], op) => Closed(file[i], op)
<1>1. file'[k] = records /\ \A i \in {0, 1} : i # k => file'[i] = file[i]
  BY SetFile, Zenon
<1>2. ASSUME NEW i \in {0, 1}, NEW op \in Ops, Closed(file'[i], op)
      PROVE  Closed(file[i], op)
  <2>1. CASE i = k
    BY <1>1, <1>2, <2>1, Zenon
  <2>2. CASE i # k
    BY <1>1, <1>2, <2>2, Zenon
  <2> QED
    BY <2>1, <2>2, Zenon
<1> QED
  BY <1>2, Zenon

\* What an append makes of the two files, for every operation.
LEMMA AppendBoth ==
    ASSUME file \in Both, NEW k \in {0, 1}, NEW r \in Records,
           file' = [file EXCEPT ![k] = Append(@, r)]
    PROVE  /\ \A op \in Ops : Adds(file[k], r, file'[k], op)
           /\ \A i \in {0, 1} : i # k => file'[i] = file[i]
           /\ \A i \in {0, 1}, op \in Ops :
               /\ HasStart(file[i], op) => HasStart(file'[i], op)
               /\ Closed(file[i], op) => Closed(file'[i], op)
<1>1. /\ file'[k] = Append(file[k], r)
      /\ \A i \in {0, 1} : i # k => file'[i] = file[i]
      /\ file[k] \in Seq(Records)
  BY AppendFile, Zenon
<1>2. \A op \in Ops : Adds(file[k], r, file'[k], op)
  BY <1>1, AppendWords, Zenon
<1>3. ASSUME NEW i \in {0, 1}, NEW op \in Ops
      PROVE  /\ HasStart(file[i], op) => HasStart(file'[i], op)
             /\ Closed(file[i], op) => Closed(file'[i], op)
  <2>1. CASE i = k
    BY <1>2, <2>1, Zenon DEF Adds
  <2>2. CASE i # k
    BY <1>1, <2>2, Zenon
  <2> QED
    BY <2>1, <2>2, Zenon
<1> QED
  BY <1>1, <1>2, <1>3, Zenon

\* The temporary file holds starts only.
LEMMA TmpWords ==
    ASSUME TypeOK, Stages, NEW op \in Ops
    PROVE  (op \in TmpOps <=> HasStart(tmp, op)) /\ ~Closed(tmp, op)
<1>1. tmp \in Seq(Records) /\ \A n \in DOMAIN tmp : tmp[n].kind = "start"
  BY Zenon DEF TypeOK, Stages
<1>2. \A n \in DOMAIN tmp : tmp[n] \in Records
  BY <1>1
<1>3. ASSUME NEW n \in DOMAIN tmp
      PROVE  (tmp[n].op = op <=> tmp[n] = Start(op)) /\ tmp[n] # Complete(op)
  <2>1. tmp[n] \in Records /\ tmp[n].kind = "start"
    BY <1>1, <1>2, Zenon
  <2> QED
    BY <2>1 DEF Records, Start, Complete
<1>4. op \in TmpOps <=> HasStart(tmp, op)
  BY <1>3, Zenon DEF TmpOps, HasStart
<1> QED
  BY <1>3, <1>4, Zenon DEF Closed

\* The sets that the reading of a file starts from are empty.
LEMMA NoSetsType == NoSets \in Sets /\ NoSets.pend = {} /\ NoSets.lost = {}
  BY DEF NoSets, Sets

\* The records of an operation are told apart by their kind, and from those of another.
LEMMA RecordType ==
    ASSUME NEW op \in Ops
    PROVE  /\ Start(op) \in Records /\ Complete(op) \in Records
           /\ Start(op).op = op /\ Complete(op).op = op
           /\ \A o : Start(op) # Complete(o)
           /\ \A o : Start(op) = Start(o) => o = op
           /\ \A o : Complete(op) = Complete(o) => o = op
           /\ Start(op).kind = "start"
  BY DEF Start, Complete, Records

\* Reading a file gives two sets of operations.
LEMMA ExtractType ==
    ASSUME NEW sets \in Sets, NEW records \in Seq(Records)
    PROVE  /\ ExtractPending(sets, records) \in Sets
           /\ ExtractPending(sets, records).pend \subseteq Ops
           /\ ExtractPending(sets, records).lost \subseteq Ops
<1>1. PICK read \in [0..Len(records) -> Sets] : ExtractPending(sets, records) = read[Len(records)]
  BY Reading, Zenon
<1>2. Len(records) \in 0..Len(records)
  OBVIOUS
<1>3. ExtractPending(sets, records) \in Sets
  BY <1>1, <1>2, Zenon
<1> QED
  BY <1>3 DEF Sets

-----------------------------------------------------------------------------
(***************************************************************************)
(* Every step keeps the invariant.                                         *)
(***************************************************************************)

\* Every step of the log, its cleaner, a crash and the recovery keeps the types.
LEMMA TypeStep ==
    ASSUME TypeOK, [Next]_vars
    PROVE  TypeOK'
<1>1. /\ file \in Both /\ index \in {0, 1} /\ handling \in {0, 1}
      /\ file[0] \in Seq(Records) /\ file[1] \in Seq(Records)
      /\ tmp \in Seq(Records)
      /\ <<>> \in Seq(Records)
  BY DEF TypeOK, Both
<1>2. ASSUME NEW op \in Ops, AppendToCurrent(Start(op)) \/ AppendToCurrent(Complete(op))
      PROVE  file' \in Both
  BY <1>1, <1>2, AppendFile, RecordType, Zenon DEF AppendToCurrent
<1>3. ASSUME NEW op \in Ops, LogStart(op)
      PROVE  TypeOK'
  <2>1. file' \in Both
    BY <1>2, <1>3, Zenon DEF LogStart
  <2>2. started' \in [Ops -> 0..1]
    BY <1>3 DEF LogStart, TypeOK
  <2>3. live' \subseteq Ops
    BY <1>3, Zenon DEF LogStart, TypeOK
  <2> QED
    BY <1>3, <2>1, <2>2, <2>3, Zenon DEF LogStart, TypeOK, Both, work
<1>4. ASSUME NEW op \in Ops, LogComplete(op)
      PROVE  TypeOK'
  <2>1. file' \in Both
    BY <1>2, <1>4, Zenon DEF LogComplete
  <2>2. completed' \in [Ops -> 0..2]
    BY <1>4 DEF LogComplete, TypeOK, MaxCompletes
  <2>3. live' \subseteq Ops
    BY <1>4, Zenon DEF LogComplete, TypeOK
  <2> QED
    BY <1>4, <2>1, <2>2, <2>3, Zenon DEF LogComplete, TypeOK, Both, work
<1>5. ASSUME Swap
      PROVE  TypeOK'
  <2>1. (index + 1) % 2 \in {0, 1}
    BY <1>1
  <2> QED
    BY <1>5, <2>1, Zenon DEF Swap, TypeOK, CleanerUp, Cleaner, history
<1>6. ASSUME Extract
      PROVE  TypeOK'
  <2>1. pend' \subseteq Ops /\ lost' \subseteq Ops
    <3>1. file[handling] \in Seq(Records)
      BY <1>1
    <3> QED
      BY <1>6, <3>1, NoSetsType, ExtractType, Zenon DEF Extract
  <2>2. openFails' \in 0..MaxFaults
    BY <1>6, Assumptions DEF Extract, TypeOK
  <2> QED
    BY <1>6, <2>1, <2>2, Zenon DEF Extract, TypeOK, CleanerUp, Cleaner, history, files
<1>7. ASSUME NEW op \in Ops, WriteStart(op)
      PROVE  TypeOK'
  <2>1. tmp' \in Seq(Records)
    <3>1. Start(op) \in Records
      BY RecordType, Zenon
    <3> QED
      BY <1>1, <1>7, <3>1 DEF WriteStart
  <2> QED
    BY <1>7, <2>1, Zenon DEF WriteStart, TypeOK, CleanerUp, history
<1>8. ASSUME CloseTmp
      PROVE  TypeOK'
  BY <1>8, Zenon DEF CloseTmp, TypeOK, CleanerUp, Cleaner, history, files
<1>9. ASSUME RemoveOld
      PROVE  TypeOK'
  <2>1. file' \in Both
    BY <1>1, <1>9, SetFile, Zenon DEF RemoveOld
  <2> QED
    BY <1>9, <2>1, Zenon DEF RemoveOld, TypeOK, Both, CleanerUp, Cleaner, history
<1>10. ASSUME RenameTmp
       PROVE  TypeOK'
  <2>1. file' \in Both
    BY <1>1, <1>10, SetFile, Zenon DEF RenameTmp
  <2> QED
    BY <1>1, <1>10, <2>1, Zenon DEF RenameTmp, TypeOK, Both, CleanerUp, Cleaner, history
<1>11. ASSUME NEW op \in Ops, Relog(op)
       PROVE  TypeOK'
  <2>1. file' \in Both
    BY <1>2, <1>11, Zenon DEF Relog
  <2> QED
    BY <1>11, <2>1, Zenon DEF Relog, TypeOK, Both, CleanerUp, history
<1>12. ASSUME CleanerDone
       PROVE  TypeOK'
  BY <1>12, Zenon DEF CleanerDone, TypeOK, CleanerUp, Cleaner, history, files
<1>13. ASSUME Crash
       PROVE  TypeOK'
  <2>1. crashes' \in 0..MaxFaults
    BY <1>13, Assumptions DEF Crash, TypeOK
  <2>2. leftover' \subseteq Ops
    <3>1. \A n \in DOMAIN tmp : tmp[n] \in Records
      BY <1>1
    <3>2. \A r \in Records : r.op \in Ops
      BY DEF Records
    <3> QED
      BY <1>13, <3>1, <3>2, Zenon DEF Crash, TypeOK
  <2>3. forgotten' \subseteq Ops
    <3>1. CASE mode = "up"
      BY <1>13, <3>1 DEF Crash, TypeOK
    <3>2. CASE mode # "up"
      BY <1>13, <3>2 DEF Crash, TypeOK
    <3> QED
      BY <3>1, <3>2, Zenon
  <2>4. crashes' \in 0..MaxFaults /\ 0 \in {0, 1} /\ {} \subseteq Ops
    BY <2>1
  <2> QED
    BY <1>13, <2>2, <2>3, <2>4, Zenon DEF Crash, TypeOK, Modes, Cleaner, files
<1>14. ASSUME NEW from, NEW k \in {0, 1}, NEW to, ReadFile(from, k, to)
       PROVE  pend' \subseteq Ops /\ lost' \subseteq Ops /\ file' \in Both
  <2>1. [pend |-> pend, lost |-> lost] \in Sets
    BY DEF TypeOK, Sets
  <2>2. file[k] \in Seq(Records)
    BY <1>1
  <2>3. pend' \subseteq Ops /\ lost' \subseteq Ops
    BY <1>14, <2>1, <2>2, ExtractType, Zenon DEF ReadFile
  <2> QED
    BY <1>1, <1>14, <2>3, SetFile, Zenon DEF ReadFile
<1>15. ASSUME ReadFile0
       PROVE  TypeOK'
  <2>1. pend' \subseteq Ops /\ lost' \subseteq Ops /\ file' \in Both
    BY <1>14, <1>15, Zenon DEF ReadFile0
  <2> QED
    BY <1>15, <2>1, Zenon DEF ReadFile0, ReadFile, TypeOK, Modes, Both, history
<1>16. ASSUME ReadFile1
       PROVE  TypeOK'
  <2>1. pend' \subseteq Ops /\ lost' \subseteq Ops /\ file' \in Both
    BY <1>14, <1>16, Zenon DEF ReadFile1
  <2>2. started' \in [Ops -> 0..1] /\ completed' \in [Ops -> 0..2]
    BY <1>16 DEF ReadFile1
  <2>3. UNION {live', leftover', forgotten'} \subseteq Ops
    BY <1>16, <2>1 DEF ReadFile1, TypeOK
  <2> QED
    BY <1>16, <2>1, <2>2, <2>3, Zenon DEF ReadFile1, ReadFile, TypeOK, Modes, Both
<1>17. ASSUME NEW op \in Ops, RelogStart(op)
       PROVE  TypeOK'
  <2>1. file' \in Both
    BY <1>2, <1>17, Zenon DEF RelogStart
  <2> QED
    BY <1>17, <2>1, Zenon DEF RelogStart, TypeOK, Both, history
<1>18. ASSUME RecoveryDone
       PROVE  TypeOK'
  BY <1>18, Zenon DEF RecoveryDone, TypeOK, Modes, history, files
<1>19. ASSUME UNCHANGED vars
       PROVE  TypeOK'
  BY <1>19, Zenon DEF vars, files, work, history, TypeOK
<1> QED
  BY <1>3, <1>4, <1>5, <1>6, <1>7, <1>8, <1>9, <1>10, <1>11, <1>12, <1>13, <1>15, <1>16,
     <1>17, <1>18, <1>19, Zenon DEF Next, CleanerStep, Recovery

\* The cleaner adds a start to the temporary file.
LEMMA AppendTmp ==
    ASSUME tmp \in Seq(Records), NEW op \in Ops, tmp' = Append(tmp, Start(op)),
           \A n \in DOMAIN tmp : tmp[n].kind = "start"
    PROVE  /\ TmpOps' = TmpOps \union {op}
           /\ \A n \in DOMAIN tmp' : tmp'[n].kind = "start"
<1>1. Start(op) \in Records /\ Start(op).op = op /\ Start(op).kind = "start"
  BY RecordType, Zenon
<1> DEFINE N == Len(tmp)
<1>2. /\ N \in Nat /\ DOMAIN tmp = 1..N /\ DOMAIN tmp' = 1..(N + 1)
      /\ tmp'[N + 1] = Start(op)
      /\ \A n \in 1..N : tmp'[n] = tmp[n]
  BY <1>1
<1>3. /\ \A n \in 1..N : n \in 1..(N + 1)
      /\ \A n \in 1..(N + 1) : n \in 1..N \/ n = N + 1
      /\ N + 1 \in 1..(N + 1)
  BY <1>2
<1> HIDE DEF N
<1>4. \A n \in DOMAIN tmp' : tmp'[n].kind = "start"
  BY <1>1, <1>2, <1>3, Zenon
<1>5. ASSUME NEW x
      PROVE  x \in TmpOps' <=> x \in TmpOps \/ x = op
  <2>1. ASSUME x \in TmpOps' PROVE x \in TmpOps \/ x = op
    <3>1. PICK n \in 1..(N + 1) : x = tmp'[n].op
      BY <1>2, <2>1, Zenon DEF TmpOps
    <3>2. CASE n \in 1..N
      BY <1>2, <3>1, <3>2, Zenon DEF TmpOps
    <3>3. CASE n = N + 1
      BY <1>1, <1>2, <3>1, <3>3, Zenon
    <3> QED
      BY <1>3, <3>2, <3>3, Zenon
  <2>2. ASSUME x \in TmpOps PROVE x \in TmpOps'
    <3>1. PICK n \in 1..N : x = tmp[n].op
      BY <1>2, <2>2, Zenon DEF TmpOps
    <3>2. n \in DOMAIN tmp' /\ x = tmp'[n].op
      BY <1>2, <1>3, <3>1, Zenon
    <3> QED
      BY <3>2, Zenon DEF TmpOps
  <2>3. ASSUME x = op PROVE x \in TmpOps'
    <3>1. N + 1 \in DOMAIN tmp' /\ x = tmp'[N + 1].op
      BY <1>1, <1>2, <1>3, <2>3, Zenon
    <3> QED
      BY <3>1, Zenon DEF TmpOps
  <2> QED
    BY <2>1, <2>2, <2>3, Zenon
<1> QED
  BY <1>4, <1>5, Zenon

\* A new temporary file holds no start.
LEMMA EmptyTmp ==
    ASSUME tmp' = <<>>
    PROVE  TmpOps' = {} /\ \A n \in DOMAIN tmp' : tmp'[n].kind = "start"
  BY DEF TmpOps

\* Stages is kept by every step.
LEMMA StagesStep ==
    ASSUME TypeOK, Stages, Counts, [Next]_vars
    PROVE  Stages'
<1>1. /\ file \in Both /\ index \in {0, 1} /\ handling \in {0, 1}
      /\ tmp \in Seq(Records) /\ <<>> \in Seq(Records)
      /\ \A n \in DOMAIN tmp : tmp[n].kind = "start"
  BY DEF TypeOK, Both, Stages
<1>2. mode = "up" => mode \notin {"read0", "read1", "relog"}
  OBVIOUS
<1>3. ASSUME NEW op \in Ops, LogStart(op)
      PROVE  Stages'
  <2>1. cleaner = "rename" => file'[handling] = file[handling]
    BY <1>1, <1>3, AppendFile, RecordType, Zenon DEF LogStart, AppendToCurrent, Stages
  <2> QED
    BY <1>2, <1>3, <2>1, Zenon DEF LogStart, Stages, TmpOps, work
<1>4. ASSUME NEW op \in Ops, LogComplete(op)
      PROVE  Stages'
  <2>1. cleaner = "rename" => file'[handling] = file[handling]
    BY <1>1, <1>4, AppendFile, RecordType, Zenon DEF LogComplete, AppendToCurrent, Stages
  <2> QED
    BY <1>2, <1>4, <2>1, Zenon DEF LogComplete, Stages, TmpOps, work
<1>5. ASSUME Swap
      PROVE  Stages'
  <2>1. (index + 1) % 2 # index
    BY <1>1
  <2>2. /\ mode' = "up" /\ cleaner' = "extract" /\ handling' # index'
        /\ UNCHANGED <<tmp, leftover>> /\ TmpOps \subseteq leftover
    BY <1>5, <2>1 DEF Swap, CleanerUp, Stages, history
  <2>3. "extract" \notin {"remove", "rename"} /\ "extract" # "rename"
    OBVIOUS
  <2> QED
    BY <1>1, <1>2, <2>2, <2>3, Zenon DEF Stages, TmpOps
<1>6. ASSUME Extract
      PROVE  Stages'
  <2>1. /\ mode' = "up" /\ cleaner' \in {"write", "relog"} /\ handling' # index'
        /\ UNCHANGED <<tmp, leftover>> /\ TmpOps \subseteq leftover
    BY <1>6 DEF Extract, CleanerUp, Stages, history, files
  <2>2. cleaner' \notin {"remove", "rename"} /\ cleaner' # "rename"
    BY <2>1
  <2> QED
    BY <1>1, <1>2, <2>1, <2>2, Zenon DEF Stages, TmpOps
<1>7. ASSUME NEW op \in Ops, WriteStart(op)
      PROVE  Stages'
  <2>1. \A n \in DOMAIN tmp' : tmp'[n].kind = "start"
    BY <1>1, <1>7, AppendTmp, Zenon DEF WriteStart
  <2>2. /\ "write" \in {"write", "remove", "rename"} /\ "write" \notin {"remove", "rename"}
        /\ "write" # "rename" /\ "write" # "sleep"
    OBVIOUS
  <2>3. mode' = "up" /\ cleaner' = "write" /\ cleaner = "write" /\ handling' = handling /\ index' = index
    BY <1>7, Zenon DEF WriteStart, CleanerUp
  <2> QED
    BY <1>2, <2>1, <2>2, <2>3, Zenon DEF Stages
<1>8. ASSUME CloseTmp
      PROVE  Stages'
  BY <1>2, <1>8 DEF CloseTmp, Stages, CleanerUp, files
<1>9. ASSUME RemoveOld
      PROVE  Stages'
  <2>1. file'[handling] = <<>>
    BY <1>1, <1>9, SetFile, Zenon DEF RemoveOld
  <2>2. /\ mode' = "up" /\ cleaner' = "rename" /\ handling' = handling /\ handling # index
        /\ index' = index /\ pend' = {} /\ tmp' = tmp
    BY <1>9 DEF RemoveOld, CleanerUp, Stages
  <2>3. "rename" \in {"write", "remove", "rename"}
    OBVIOUS
  <2> QED
    BY <1>1, <1>2, <2>1, <2>2, <2>3, Zenon DEF Stages
<1>10. ASSUME RenameTmp
       PROVE  Stages'
  <2>1. /\ mode' = "up" /\ cleaner' = "relog" /\ handling' = handling /\ handling # index
        /\ index' = index
    BY <1>10 DEF RenameTmp, CleanerUp, Stages
  <2>2. TmpOps' \subseteq leftover' /\ \A n \in DOMAIN tmp' : tmp'[n].kind = "start"
    BY <1>10, EmptyTmp, Zenon DEF RenameTmp
  <2>3. "relog" \notin {"remove", "rename"} /\ "relog" # "rename"
    OBVIOUS
  <2> QED
    BY <1>1, <1>2, <2>1, <2>2, <2>3, Zenon DEF Stages
<1>11. ASSUME NEW op \in Ops, Relog(op)
       PROVE  Stages'
  <2>1. /\ mode' = "up" /\ cleaner' = "relog" /\ handling' = handling /\ handling # index
        /\ index' = index /\ UNCHANGED <<tmp, leftover>>
    BY <1>11 DEF Relog, CleanerUp, Stages, history
  <2>2. TmpOps \subseteq leftover
    BY <1>11 DEF Relog, CleanerUp, Stages
  <2>3. "relog" \notin {"remove", "rename"} /\ "relog" # "rename"
    OBVIOUS
  <2> QED
    BY <1>1, <1>2, <2>1, <2>2, <2>3, Zenon DEF Stages, TmpOps
<1>12. ASSUME CleanerDone
       PROVE  Stages'
  BY <1>2, <1>12 DEF CleanerDone, Stages, CleanerUp, TmpOps, history, files
<1>13. ASSUME Crash
       PROVE  Stages'
  <2>1. TmpOps' \subseteq leftover'
    BY <1>13, Zenon DEF Crash, TmpOps, files
  <2>2. "sleep" \notin {"remove", "rename"} /\ "sleep" # "rename" /\ "read0" \notin {"up", "read1", "relog"}
    OBVIOUS
  <2> QED
    BY <1>1, <1>13, <2>1, <2>2, Zenon DEF Crash, Stages, files
<1>14. ASSUME ReadFile0
       PROVE  Stages'
  <2>1. file'[0] = <<>>
    BY <1>1, <1>14, SetFile, Zenon DEF ReadFile0, ReadFile
  <2>2. cleaner = "sleep" /\ cleaner' = "sleep" /\ mode' = "read1" /\ UNCHANGED <<tmp, leftover>>
    BY <1>14 DEF ReadFile0, ReadFile, Stages, history
  <2>3. TmpOps \subseteq leftover
    BY <2>2 DEF Stages
  <2>4. "sleep" \notin {"remove", "rename"} /\ "sleep" # "rename" /\ "read1" \notin {"up", "read0", "relog"}
    OBVIOUS
  <2> QED
    BY <1>1, <2>1, <2>2, <2>3, <2>4, Zenon DEF Stages, TmpOps
<1>15. ASSUME ReadFile1
       PROVE  Stages'
  <2>1. file'[1] = <<>>
    BY <1>1, <1>15, SetFile, Zenon DEF ReadFile1, ReadFile
  <2>2. cleaner = "sleep" /\ cleaner' = "sleep" /\ mode' = "relog" /\ UNCHANGED <<tmp, leftover>>
    BY <1>15 DEF ReadFile1, ReadFile, Stages
  <2>3. TmpOps \subseteq leftover
    BY <2>2 DEF Stages
  <2>4. "sleep" \notin {"remove", "rename"} /\ "sleep" # "rename" /\ "relog" \notin {"up", "read0", "read1"}
    OBVIOUS
  <2>5. index' = 0 /\ live' = pend' /\ \A op \in Ops : completed'[op] = 0
    BY <1>15 DEF ReadFile1
  <2> QED
    BY <1>1, <2>1, <2>2, <2>3, <2>4, <2>5, Zenon DEF Stages, TmpOps
<1>16. ASSUME NEW op \in Ops, RelogStart(op)
       PROVE  Stages'
  <2>1. index = 0 /\ file[1] = <<>> /\ 1 # 0 /\ 1 \in {0, 1}
    BY <1>16 DEF RelogStart, Stages
  <2>2. file'[1] = file[1]
    BY <1>1, <1>16, <2>1, AppendFile, RecordType, Zenon DEF RelogStart, AppendToCurrent
  <2>3. cleaner = "sleep" /\ mode = "relog" /\ UNCHANGED <<cleaner, mode, index, live, completed, tmp, leftover>>
    BY <1>16 DEF RelogStart, Stages, history
  <2>4. "sleep" \notin {"remove", "rename", "write"} /\ "sleep" # "rename" /\ "relog" \notin {"up", "read0", "read1"}
    OBVIOUS
  <2>5. pend' \subseteq pend
    BY <1>16, Zenon DEF RelogStart
  <2> QED
    BY <1>1, <2>1, <2>2, <2>3, <2>4, <2>5, Zenon DEF Stages, TmpOps
<1>17. ASSUME RecoveryDone
       PROVE  Stages'
  BY <1>17 DEF RecoveryDone, Stages, TmpOps, history, files
<1>18. ASSUME UNCHANGED vars
       PROVE  Stages'
  BY <1>18, Zenon DEF vars, files, work, history, Stages, TmpOps
<1> QED
  BY <1>3, <1>4, <1>5, <1>6, <1>7, <1>8, <1>9, <1>10, <1>11, <1>12, <1>13, <1>14, <1>15, <1>16,
     <1>17, <1>18, Zenon DEF Next, CleanerStep, Recovery

\* The recovery has read and removed both files.
LEMMA BothRead ==
    ASSUME file \in Both, <<>> \in Seq(Records), Stages, ReadFile1
    PROVE  \A i \in {0, 1} : file'[i] = <<>>
<1>1. file[0] = <<>>
  BY Zenon DEF ReadFile1, ReadFile, Stages
<1>2. 0 # 1 /\ 0 \in {0, 1} /\ 1 \in {0, 1}
  OBVIOUS
<1>3. file'[1] = <<>> /\ file'[0] = file[0]
  BY <1>2, SetFile, Zenon DEF ReadFile1, ReadFile
<1> QED
  BY <1>1, <1>3, Zenon

\* Counts is kept by every step.
LEMMA CountsStep ==
    ASSUME TypeOK, Stages, Counts, [Next]_vars
    PROVE  Counts'
<1>1. /\ file \in Both /\ index \in {0, 1} /\ handling \in {0, 1}
      /\ tmp \in Seq(Records) /\ <<>> \in Seq(Records)
      /\ \A i \in {0, 1} : file[i] \in Seq(Records)
      /\ live \subseteq Ops /\ started \in [Ops -> 0..1] /\ completed \in [Ops -> 0..2]
  BY DEF TypeOK, Both
<1>2. "up" # "relog" /\ "read0" # "relog" /\ "read1" # "relog"
  OBVIOUS
<1>3. ASSUME NEW op \in Ops, LogStart(op)
      PROVE  Counts'
  <2>1. ASSUME NEW i \in {0, 1}, NEW o \in Ops
        PROVE  Closed(file'[i], o) => Closed(file[i], o)
    <3>1. /\ \A x \in Ops : Adds(file[index], Start(op), file'[index], x)
          /\ i # index => file'[i] = file[i]
      BY <1>1, <1>3, AppendBoth, RecordType, Zenon DEF LogStart, AppendToCurrent
    <3>2. Start(op) # Complete(o)
      BY RecordType, Zenon
    <3>3. CASE i = index
      BY <3>1, <3>2, <3>3, Zenon DEF Adds
    <3>4. CASE i # index
      BY <3>1, <3>4, Zenon
    <3> QED
      BY <3>3, <3>4, Zenon
  <2>2. ASSUME NEW o \in Ops
        PROVE  /\ o \in live' <=> started'[o] = 1 /\ completed'[o] = 0
               /\ started'[o] = 0 => completed'[o] = 0
    BY <1>1, <1>3 DEF LogStart, Counts
  <2> QED
    BY <1>2, <1>3, <2>1, <2>2, Zenon DEF LogStart, Counts, work
<1>4. ASSUME NEW op \in Ops, LogComplete(op)
      PROVE  Counts'
  <2>1. ASSUME NEW o \in Ops
        PROVE  /\ o \in live' <=> started'[o] = 1 /\ completed'[o] = 0
               /\ started'[o] = 0 => completed'[o] = 0
               /\ completed'[o] = 0 => o # op /\ completed[o] = 0
    BY <1>1, <1>4 DEF LogComplete, Counts
  <2>2. ASSUME NEW i \in {0, 1}, NEW o \in Ops, o # op
        PROVE  Closed(file'[i], o) => Closed(file[i], o)
    <3>1. /\ \A x \in Ops : Adds(file[index], Complete(op), file'[index], x)
          /\ i # index => file'[i] = file[i]
      BY <1>1, <1>4, AppendBoth, RecordType, Zenon DEF LogComplete, AppendToCurrent
    <3>2. Complete(op) # Complete(o)
      BY <2>2, RecordType, Zenon
    <3>3. CASE i = index
      BY <3>1, <3>2, <3>3, Zenon DEF Adds
    <3>4. CASE i # index
      BY <3>1, <3>4, Zenon
    <3> QED
      BY <3>3, <3>4, Zenon
  <2> QED
    BY <1>2, <1>4, <2>1, <2>2, Zenon DEF LogComplete, Counts, work
<1>5. ASSUME \A i \in {0, 1}, o \in Ops : Closed(file'[i], o) => Closed(file[i], o),
             mode' # "relog" => mode # "relog" /\ lost' \subseteq lost,
             UNCHANGED <<started, completed, live>>
      PROVE  Counts'
  BY <1>5, Zenon DEF Counts
<1>6. ASSUME Extract
      PROVE  Counts'
  <2>1. ASSUME NEW op \in Ops, completed[op] = 0
        PROVE  op \notin lost'
    <3>1. ~Closed(file[handling], op)
      BY <1>1, <2>1, Zenon DEF Counts
    <3>2. op \notin NoSets.lost
      BY NoSetsType
    <3> QED
      BY <1>1, <1>6, <3>1, <3>2, NoSetsType, LostClosed, Zenon DEF Extract
  <2> QED
    BY <1>6, <2>1, Zenon DEF Extract, CleanerUp, Counts, files, history
<1>7. ASSUME RemoveOld
      PROVE  Counts'
  <2>1. \A i \in {0, 1}, o \in Ops : Closed(file'[i], o) => Closed(file[i], o)
    BY <1>1, <1>7, SetOpen, EmptyWords, Zenon DEF RemoveOld
  <2> QED
    BY <1>2, <1>5, <1>7, <2>1, Zenon DEF RemoveOld, CleanerUp, history
<1>8. ASSUME RenameTmp
      PROVE  Counts'
  <2>1. \A i \in {0, 1}, o \in Ops : Closed(file'[i], o) => Closed(file[i], o)
    BY <1>1, <1>8, SetOpen, TmpWords, Zenon DEF RenameTmp
  <2> QED
    BY <1>2, <1>5, <1>8, <2>1, Zenon DEF RenameTmp, CleanerUp, history
<1>9. ASSUME NEW op \in Ops, Relog(op)
      PROVE  Counts'
  <2>1. completed[op] # 0
    BY <1>2, <1>9, Zenon DEF Relog, CleanerUp, Counts
  <2>2. ASSUME NEW i \in {0, 1}, NEW o \in Ops, o # op
        PROVE  Closed(file'[i], o) => Closed(file[i], o)
    <3>1. /\ \A x \in Ops : Adds(file[index], Complete(op), file'[index], x)
          /\ i # index => file'[i] = file[i]
      BY <1>1, <1>9, AppendBoth, RecordType, Zenon DEF Relog, AppendToCurrent
    <3>2. Complete(op) # Complete(o)
      BY <2>2, RecordType, Zenon
    <3>3. CASE i = index
      BY <3>1, <3>2, <3>3, Zenon DEF Adds
    <3>4. CASE i # index
      BY <3>1, <3>4, Zenon
    <3> QED
      BY <3>3, <3>4, Zenon
  <2> QED
    BY <1>9, <2>1, <2>2, Zenon DEF Relog, CleanerUp, Counts, history
<1>10. ASSUME Swap \/ CloseTmp \/ CleanerDone \/ (\E op \in Ops : WriteStart(op))
       PROVE  Counts'
  <2>1. mode' = "up" /\ mode = "up" /\ lost' = lost /\ file' = file /\ UNCHANGED <<started, completed, live>>
    BY <1>10, Zenon DEF Swap, CloseTmp, CleanerDone, WriteStart, CleanerUp, history, files
  <2> QED
    BY <1>2, <1>5, <2>1, Zenon
<1>11. ASSUME Crash
       PROVE  Counts'
  BY <1>11, Zenon DEF Crash, Counts, files
<1>12. ASSUME ReadFile0
       PROVE  Counts'
  <2>1. [pend |-> pend, lost |-> lost] \in Sets /\ [pend |-> pend, lost |-> lost].lost = lost
    BY DEF TypeOK, Sets
  <2>2. ASSUME NEW op \in Ops, completed[op] = 0
        PROVE  op \notin lost'
    <3>1. ~Closed(file[0], op) /\ op \notin lost
      BY <1>2, <1>12, <2>2, Zenon DEF Counts, ReadFile0, ReadFile
    <3> QED
      BY <1>1, <1>12, <2>1, <3>1, LostClosed, Zenon DEF ReadFile0, ReadFile
  <2>3. \A i \in {0, 1}, o \in Ops : Closed(file'[i], o) => Closed(file[i], o)
    BY <1>1, <1>12, SetOpen, EmptyWords, Zenon DEF ReadFile0, ReadFile
  <2> QED
    BY <1>12, <2>2, <2>3, Zenon DEF ReadFile0, ReadFile, Counts, history
<1>13. ASSUME ReadFile1
       PROVE  Counts'
  <2>1. \A i \in {0, 1} : file'[i] = <<>>
    BY <1>1, <1>13, BothRead, Zenon
  <2>2. \A i \in {0, 1}, o \in Ops : ~Closed(file'[i], o)
    BY <2>1, EmptyWords, Zenon
  <2>3. \A op \in Ops : completed'[op] = 0 /\ started'[op] = (IF op \in live' THEN 1 ELSE 0)
    BY <1>13 DEF ReadFile1
  <2>4. \A op \in Ops : op \in live' <=> started'[op] = 1
    BY <2>3
  <2>5. mode' = "relog"
    BY <1>13, Zenon DEF ReadFile1, ReadFile
  <2> QED
    BY <2>2, <2>3, <2>4, <2>5, Zenon DEF Counts
<1>14. ASSUME NEW op \in Ops, RelogStart(op)
       PROVE  Counts'
  <2>1. ASSUME NEW i \in {0, 1}, NEW o \in Ops
        PROVE  Closed(file'[i], o) => Closed(file[i], o)
    <3>1. /\ \A x \in Ops : Adds(file[index], Start(op), file'[index], x)
          /\ i # index => file'[i] = file[i]
      BY <1>1, <1>14, AppendBoth, RecordType, Zenon DEF RelogStart, AppendToCurrent
    <3>2. Start(op) # Complete(o)
      BY RecordType, Zenon
    <3>3. CASE i = index
      BY <3>1, <3>2, <3>3, Zenon DEF Adds
    <3>4. CASE i # index
      BY <3>1, <3>4, Zenon
    <3> QED
      BY <3>3, <3>4, Zenon
  <2>2. mode = "relog" /\ mode' = mode
    BY <1>14, Zenon DEF RelogStart
  <2> QED
    BY <1>5, <1>14, <2>1, <2>2, Zenon DEF RelogStart, history
<1>15. ASSUME RecoveryDone
       PROVE  Counts'
  BY <1>15, Zenon DEF RecoveryDone, Counts, history, files
<1>16. ASSUME UNCHANGED vars
       PROVE  Counts'
  BY <1>16, Zenon DEF vars, files, work, history, Counts
<1> QED
  BY <1>3, <1>4, <1>6, <1>7, <1>8, <1>9, <1>10, <1>11, <1>12, <1>13, <1>14, <1>15, <1>16,
     Zenon DEF Next, CleanerStep, Recovery

\* Kept is kept by every step.
LEMMA KeptStep ==
    ASSUME TypeOK, Stages, Counts, Kept, [Next]_vars
    PROVE  Kept'
<1>1. /\ file \in Both /\ index \in {0, 1} /\ handling \in {0, 1}
      /\ tmp \in Seq(Records) /\ <<>> \in Seq(Records)
      /\ \A i \in {0, 1} : file[i] \in Seq(Records)
      /\ live \subseteq Ops /\ pend \subseteq Ops
      /\ [pend |-> pend, lost |-> lost] \in Sets
      /\ [pend |-> pend, lost |-> lost].pend = pend
      /\ [pend |-> pend, lost |-> lost].lost = lost
  BY DEF TypeOK, Both, Sets
<1>2. /\ "up" \notin {"read0", "read1"} /\ "up" # "relog"
      /\ "sleep" \notin {"write", "remove"} /\ "sleep" # "rename"
  OBVIOUS
<1>3. \A op \in live : op \in Ops /\ (\A i \in {0, 1} : ~Closed(file[i], op)) /\ (mode # "relog" => op \notin lost)
  BY <1>1, Zenon DEF Counts
<1>4. ASSUME NEW op \in Ops, LogStart(op) \/ LogComplete(op)
      PROVE  Kept'
  <2>1. \A i \in {0, 1}, o \in Ops : HasStart(file[i], o) => HasStart(file'[i], o)
    <3>1. PICK r \in Records : AppendToCurrent(r)
      BY <1>4, RecordType, Zenon DEF LogStart, LogComplete
    <3> QED
      BY <1>1, <3>1, AppendBoth, Zenon DEF AppendToCurrent
  <2>2. UNCHANGED <<mode, tmp, index, cleaner, pend, leftover, forgotten>>
    BY <1>4, Zenon DEF LogStart, LogComplete, work
  <2>3. ASSUME NEW o \in live', o \notin live
        PROVE  HasStart(file'[index], o)
    <3>1. o = op /\ AppendToCurrent(Start(op))
      BY <1>4, <2>3, Zenon DEF LogStart, LogComplete
    <3>2. Adds(file[index], Start(op), file'[index], op)
      BY <1>1, <3>1, AppendBoth, RecordType, Zenon DEF AppendToCurrent
    <3> QED
      BY <3>1, <3>2, Zenon DEF Adds
  <2>4. TmpOps' = TmpOps
    BY <2>2, Zenon DEF TmpOps
  <2>5. ASSUME NEW o \in live', o \in live
        PROVE  /\ \/ \E i \in {0, 1} : HasStart(file'[i], o)
                  \/ mode = "up" /\ cleaner = "rename" /\ o \in TmpOps
                  \/ mode = "relog" /\ o \in pend
                  \/ mode \in {"read0", "read1"} /\ o \in pend \union leftover \union forgotten
               /\ cleaner \in {"write", "remove"} =>
                   HasStart(file'[index], o) \/ o \in pend \union TmpOps
    BY <1>1, <2>1, <2>5, Zenon DEF Kept
  <2> QED
    BY <1>1, <2>2, <2>3, <2>4, <2>5, Zenon DEF Kept
<1>5. ASSUME Swap
      PROVE  Kept'
  <2>1. /\ mode = "up" /\ cleaner = "sleep" /\ cleaner' \notin {"write", "remove"}
        /\ UNCHANGED <<file, live>>
    BY <1>5 DEF Swap, CleanerUp, history
  <2> QED
    BY <1>2, <2>1, Zenon DEF Kept
<1>6. ASSUME Extract
      PROVE  Kept'
  <2>1. /\ mode = "up" /\ cleaner = "extract" /\ cleaner # "rename" /\ handling # index
        /\ UNCHANGED <<file, live, index>>
        /\ pend' = ExtractPending(NoSets, file[handling]).pend
    BY <1>6 DEF Extract, CleanerUp, history, files, Stages
  <2>2. ASSUME NEW op \in live
        PROVE  /\ \E i \in {0, 1} : HasStart(file[i], op)
               /\ HasStart(file[index], op) \/ op \in pend'
    <3>1. PICK i \in {0, 1} : HasStart(file[i], op)
      BY <1>2, <2>1, <2>2, Zenon DEF Kept
    <3>2. i = index \/ i = handling
      BY <1>1, <2>1
    <3>3. ASSUME HasStart(file[handling], op)
          PROVE  op \in pend'
      <4>1. ~Closed(file[handling], op) /\ file[handling] \in Seq(Records) /\ op \in Ops
        BY <1>1, <1>3, <2>2, Zenon
      <4>2. op \notin NoSets.lost /\ NoSets \in Sets
        BY NoSetsType
      <4> QED
        BY <2>1, <3>3, <4>1, <4>2, StartsPend, Zenon
    <3> QED
      BY <3>1, <3>2, <3>3, Zenon
  <2> QED
    BY <2>1, <2>2, Zenon DEF Kept
<1>7. ASSUME NEW op \in Ops, WriteStart(op)
      PROVE  Kept'
  <2>1. mode = "up" /\ cleaner = "write" /\ UNCHANGED <<mode, file, live, index>> /\ pend' = pend \ {op}
    BY <1>7, Zenon DEF WriteStart, CleanerUp, history
  <2>2. TmpOps' = TmpOps \union {op}
    BY <1>1, <1>7, AppendTmp, Zenon DEF WriteStart, Stages
  <2>3. cleaner # "rename" /\ cleaner \in {"write", "remove"}
    BY <2>1
  <2>4. ASSUME NEW o \in live
        PROVE  /\ \E i \in {0, 1} : HasStart(file[i], o)
               /\ HasStart(file[index], o) \/ o \in pend \union TmpOps
    BY <1>2, <2>1, <2>3, <2>4, Zenon DEF Kept
  <2>5. ASSUME NEW o \in pend \union TmpOps
        PROVE  o \in pend' \union TmpOps'
    BY <2>1, <2>2, <2>5, Zenon
  <2> QED
    BY <2>1, <2>4, <2>5, Zenon DEF Kept
<1>8. ASSUME CloseTmp
      PROVE  Kept'
  <2>1. /\ mode = "up" /\ cleaner = "write" /\ cleaner # "rename" /\ cleaner \in {"write", "remove"}
        /\ UNCHANGED <<file, live, index, pend, tmp>>
    BY <1>8 DEF CloseTmp, CleanerUp, history, files
  <2>2. TmpOps' = TmpOps
    BY <2>1, Zenon DEF TmpOps
  <2>3. ASSUME NEW o \in live
        PROVE  /\ \E i \in {0, 1} : HasStart(file[i], o)
               /\ HasStart(file[index], o) \/ o \in pend \union TmpOps
    BY <1>2, <2>1, <2>3, Zenon DEF Kept
  <2> QED
    BY <2>1, <2>2, <2>3, Zenon DEF Kept
<1>9. ASSUME RemoveOld
      PROVE  Kept'
  <2>1. /\ mode = "up" /\ mode' = "up" /\ cleaner \in {"write", "remove"}
        /\ cleaner' = "rename" /\ cleaner' \notin {"write", "remove"}
        /\ handling # index /\ pend = {}
        /\ UNCHANGED <<live, index, tmp>>
    BY <1>9 DEF RemoveOld, CleanerUp, history, Stages
  <2>2. file'[index] = file[index]
    BY <1>1, <1>9, <2>1, SetFile, Zenon DEF RemoveOld
  <2>3. ASSUME NEW o \in live
        PROVE  HasStart(file[index], o) \/ o \in TmpOps
    BY <2>1, <2>3, Zenon DEF Kept
  <2>4. TmpOps' = TmpOps
    BY <2>1, Zenon DEF TmpOps
  <2>5. \A o \in live : (\E i \in {0, 1} : HasStart(file'[i], o)) \/ o \in TmpOps'
    BY <1>1, <2>2, <2>3, <2>4, Zenon
  <2> QED
    BY <2>1, <2>5, Zenon DEF Kept
<1>10. ASSUME RenameTmp
       PROVE  Kept'
  <2>1. /\ mode = "up" /\ cleaner = "rename" /\ cleaner' \notin {"write", "remove"}
        /\ handling # index /\ file[handling] = <<>>
        /\ UNCHANGED live
    BY <1>10 DEF RenameTmp, CleanerUp, history, Stages
  <2>2. file'[handling] = tmp /\ file'[index] = file[index]
    <3>1. file' = [file EXCEPT ![handling] = tmp]
      BY <1>10, Zenon DEF RenameTmp
    <3> QED
      BY <1>1, <2>1, <3>1, SetFile, Zenon
  <2>3. ASSUME NEW o \in live
        PROVE  HasStart(file[index], o) \/ HasStart(tmp, o)
    <3>1. (\E i \in {0, 1} : HasStart(file[i], o)) \/ o \in TmpOps
      BY <1>2, <2>1, <2>3, Zenon DEF Kept
    <3>2. ASSUME NEW i \in {0, 1}, HasStart(file[i], o)
          PROVE  i = index
      <4>1. i # handling
        BY <2>1, <3>2, EmptyWords, Zenon
      <4> QED
        BY <1>1, <2>1, <4>1
    <3>3. o \in TmpOps => HasStart(tmp, o)
      BY <1>3, <2>3, TmpWords, Zenon
    <3> QED
      BY <3>1, <3>2, <3>3, Zenon
  <2> QED
    BY <1>1, <2>1, <2>2, <2>3, Zenon DEF Kept
<1>11. ASSUME NEW op \in Ops, Relog(op)
       PROVE  Kept'
  <2>1. \A i \in {0, 1}, o \in Ops : HasStart(file[i], o) => HasStart(file'[i], o)
    BY <1>1, <1>11, AppendBoth, RecordType, Zenon DEF Relog, AppendToCurrent
  <2>2. /\ mode = "up" /\ cleaner = "relog" /\ cleaner' \notin {"write", "remove"} /\ cleaner # "rename"
        /\ UNCHANGED live
    BY <1>11 DEF Relog, CleanerUp, history
  <2>3. ASSUME NEW o \in live
        PROVE  \E i \in {0, 1} : HasStart(file'[i], o)
    BY <1>2, <1>3, <2>1, <2>2, <2>3, Zenon DEF Kept
  <2> QED
    BY <2>2, <2>3, Zenon DEF Kept
<1>12. ASSUME CleanerDone
       PROVE  Kept'
  <2>1. /\ mode = "up" /\ cleaner = "relog" /\ cleaner' = "sleep" /\ cleaner # "rename"
        /\ UNCHANGED <<live, file>>
    BY <1>12 DEF CleanerDone, CleanerUp, history, files
  <2> QED
    BY <1>2, <2>1, Zenon DEF Kept
<1>13. ASSUME Crash
       PROVE  Kept'
  <2>1. /\ mode' \in {"read0", "read1"} /\ cleaner' = "sleep" /\ UNCHANGED <<live, file>>
        /\ leftover' = leftover \union TmpOps
        /\ forgotten' = IF mode = "up" THEN forgotten ELSE forgotten \union pend
    BY <1>13 DEF Crash, files, TmpOps
  <2>2. forgotten \subseteq forgotten' /\ (mode # "up" => pend \subseteq forgotten')
    BY <2>1
  <2>3. mode = "relog" \/ mode \in {"read0", "read1"} => mode # "up"
    OBVIOUS
  <2> QED
    BY <1>2, <2>1, <2>2, <2>3, Zenon DEF Kept
<1>14. ASSUME ReadFile0
       PROVE  Kept'
  <2>1. /\ mode = "read0" /\ mode \notin {"up", "relog"} /\ mode' \in {"read0", "read1"}
        /\ cleaner' = "sleep" /\ UNCHANGED <<live, leftover, forgotten>>
        /\ pend' = ExtractPending([pend |-> pend, lost |-> lost], file[0]).pend
        /\ 0 \in {0, 1} /\ 1 \in {0, 1} /\ 1 # 0
    BY <1>14 DEF ReadFile0, ReadFile, Stages, history
  <2>2. file'[1] = file[1]
    BY <1>1, <1>14, <2>1, SetFile, Zenon DEF ReadFile0, ReadFile
  <2>3. ASSUME NEW op \in live
        PROVE  HasStart(file'[1], op) \/ op \in pend' \union leftover \union forgotten
    <3>1. \/ HasStart(file[1], op)
          \/ HasStart(file[0], op) \/ op \in pend
          \/ op \in leftover \union forgotten
      BY <2>1, <2>3, Zenon DEF Kept
    <3>2. ASSUME HasStart(file[0], op) \/ op \in pend
          PROVE  op \in pend'
      <4>1. ~Closed(file[0], op) /\ op \notin lost /\ op \in Ops
        BY <1>3, <2>1, <2>3, Zenon
      <4> QED
        BY <1>1, <2>1, <3>2, <4>1, StartsPend, Zenon
    <3> QED
      BY <2>2, <3>1, <3>2, Zenon
  <2> QED
    BY <1>2, <2>1, <2>3, Zenon DEF Kept
<1>15. ASSUME ReadFile1
       PROVE  Kept'
  <2>1. mode' = "relog" /\ live' = pend' /\ cleaner' = "sleep"
    BY <1>15 DEF ReadFile1, ReadFile, Stages
  <2> QED
    BY <1>2, <2>1, Zenon DEF Kept
<1>16. ASSUME NEW op \in Ops, RelogStart(op)
       PROVE  Kept'
  <2>1. \A i \in {0, 1}, o \in Ops : HasStart(file[i], o) => HasStart(file'[i], o)
    BY <1>1, <1>16, AppendBoth, RecordType, Zenon DEF RelogStart, AppendToCurrent
  <2>2. HasStart(file'[index], op)
    <3>1. Adds(file[index], Start(op), file'[index], op)
      BY <1>1, <1>16, AppendBoth, RecordType, Zenon DEF RelogStart, AppendToCurrent
    <3> QED
      BY <3>1, Zenon DEF Adds
  <2>3. /\ mode = "relog" /\ mode \notin {"up", "read0", "read1"} /\ mode' = "relog"
        /\ cleaner' = "sleep" /\ pend' = pend \ {op} /\ UNCHANGED live
    BY <1>16 DEF RelogStart, history, Stages
  <2>4. ASSUME NEW o \in live
        PROVE  (\E i \in {0, 1} : HasStart(file'[i], o)) \/ o \in pend'
    <3>1. (\E i \in {0, 1} : HasStart(file[i], o)) \/ o \in pend
      BY <2>3, <2>4, Zenon DEF Kept
    <3>2. CASE o = op
      BY <1>1, <2>2, <3>2, Zenon
    <3>3. CASE o # op
      BY <1>3, <2>1, <2>3, <2>4, <3>1, <3>3, Zenon
    <3> QED
      BY <3>2, <3>3, Zenon
  <2> QED
    BY <1>2, <2>3, <2>4, Zenon DEF Kept
<1>17. ASSUME RecoveryDone
       PROVE  Kept'
  <2>1. /\ mode = "relog" /\ mode \notin {"up", "read0", "read1"} /\ cleaner' = "sleep" /\ pend = {}
        /\ UNCHANGED <<live, file>>
    BY <1>17 DEF RecoveryDone, history, files, Stages
  <2> QED
    BY <1>2, <2>1, Zenon DEF Kept
<1>18. ASSUME UNCHANGED vars
       PROVE  Kept'
  BY <1>18, Zenon DEF vars, files, work, history, Kept, TmpOps
<1> QED
  BY <1>4, <1>5, <1>6, <1>7, <1>8, <1>9, <1>10, <1>11, <1>12, <1>13, <1>14, <1>15, <1>16,
     <1>17, <1>18, Zenon DEF Next, CleanerStep, Recovery

\* The files say of the operation what they said before.
SameWords(op) ==
    \A i \in {0, 1} :
        /\ HasStart(file'[i], op) <=> HasStart(file[i], op)
        /\ Closed(file'[i], op) <=> Closed(file[i], op)
        /\ OneStart(file'[i], op) <=> OneStart(file[i], op)
        /\ Over(file'[i], op) <=> Over(file[i], op)

\* A record about another operation changes nothing.
LEMMA OtherWords ==
    ASSUME file \in Both, NEW k \in {0, 1}, NEW r \in Records,
           file' = [file EXCEPT ![k] = Append(@, r)],
           NEW op \in Ops, r.op # op
    PROVE  SameWords(op)
<1>1. Adds(file[k], r, file'[k], op) /\ \A i \in {0, 1} : i # k => file'[i] = file[i]
  BY AppendBoth, Zenon
<1>2. r # Start(op) /\ r # Complete(op)
  BY DEF Start, Complete
<1>3. ASSUME NEW i \in {0, 1}
      PROVE  /\ HasStart(file'[i], op) <=> HasStart(file[i], op)
             /\ Closed(file'[i], op) <=> Closed(file[i], op)
             /\ OneStart(file'[i], op) <=> OneStart(file[i], op)
             /\ Over(file'[i], op) <=> Over(file[i], op)
  <2>1. CASE i = k
    BY <1>1, <1>2, <2>1, Zenon DEF Adds
  <2>2. CASE i # k
    BY <1>1, <2>2, Zenon
  <2> QED
    BY <2>1, <2>2, Zenon
<1> QED
  BY <1>3, Zenon DEF SameWords

\* A step that writes nothing of an operation keeps what is said of it.
LEMMA OtherFrame ==
    ASSUME NEW op \in Ops, SameWords(op), index \in {0, 1}, handling \in {0, 1},
           UNCHANGED <<mode, cleaner, handling, index, tmp>>,
           op \in pend' <=> op \in pend, op \in lost' <=> op \in lost,
           started'[op] = started[op], completed'[op] = completed[op],
           Once(op), Answered(op), Copied(op)
    PROVE  Once(op)' /\ Answered(op)' /\ Copied(op)'
<1>1. TmpOps' = TmpOps
  BY Zenon DEF TmpOps
<1>2. 0 \in {0, 1}
  OBVIOUS
<1>3. Once(op)'
  BY <1>1, <1>2, Zenon DEF Once, SameWords
<1>4. Answered(op)'
  BY Zenon DEF Answered, SameWords
<1>5. Copied(op)'
  BY <1>1, Zenon DEF Copied, SameWords
<1> QED
  BY <1>3, <1>4, <1>5, Zenon

\* log_enqueue_complete, by a caller or again by the cleaner.
LEMMA CompleteSingle ==
    ASSUME TypeOK, Stages, NEW op \in Ops, AppendToCurrent(Complete(op)),
           started[op] # 0, started'[op] = started[op], mode = "up",
           UNCHANGED <<mode, cleaner, handling, index, tmp, pend>>,
           cleaner \in {"write", "remove"} => lost' = lost,
           Once(op), Answered(op), Copied(op)
    PROVE  Once(op)' /\ Answered(op)' /\ Copied(op)'
<1>1. file \in Both /\ index \in {0, 1} /\ handling \in {0, 1} /\ "up" # "relog"
  BY DEF TypeOK, Both
<1>2. /\ Adds(file[index], Complete(op), file'[index], op)
      /\ \A i \in {0, 1} : i # index => file'[i] = file[i]
  BY <1>1, AppendBoth, RecordType, Zenon DEF AppendToCurrent
<1>3. Complete(op) # Start(op)
  BY DEF Start, Complete
<1>4. /\ HasStart(file'[index], op) <=> HasStart(file[index], op)
      /\ Closed(file'[index], op) /\ ~OneStart(file'[index], op) /\ Over(file'[index], op)
  BY <1>2, <1>3, Zenon DEF Adds
<1>5. TmpOps' = TmpOps
  BY Zenon DEF TmpOps
<1>6. ASSUME NEW i \in {0, 1}
      PROVE  /\ HasStart(file'[i], op) <=> HasStart(file[i], op)
             /\ ~HasStart(file'[i], op) \/ OneStart(file'[i], op) \/ Over(file'[i], op)
             /\ i # index \/ Over(file'[i], op)
             /\ OneStart(file'[i], op) => i # index
  <2>1. CASE i = index
    BY <1>4, <2>1, Zenon
  <2>2. CASE i # index
    BY <1>2, <2>2, Zenon DEF Once
  <2> QED
    BY <2>1, <2>2, Zenon
<1>7. Once(op)'
  BY <1>1, <1>5, <1>6, Zenon DEF Once
<1>8. Answered(op)'
  <2>1. ASSUME NEW i \in {0, 1}, NEW j \in {0, 1}, i # j, OneStart(file'[i], op)
        PROVE  Closed(file'[j], op)
    <3>1. j = index
      BY <1>1, <1>6, <2>1
    <3> QED
      BY <1>4, <3>1, Zenon
  <2> QED
    BY <2>1, Zenon DEF Answered
<1>9. Copied(op)'
  <2>1. cleaner \in {"write", "remove"} => file'[handling] = file[handling]
    <3>1. cleaner \in {"write", "remove"} => handling # index
      BY DEF Stages
    <3> QED
      BY <1>1, <1>2, <3>1, Zenon
  <2> QED
    BY <1>4, <1>5, <2>1, Zenon DEF Copied
<1> QED
  BY <1>7, <1>8, <1>9, Zenon

\* log_enqueue_start, by a caller or by the recovery, of what is not on record.
LEMMA StartSingle ==
    ASSUME TypeOK, Stages, NEW op \in Ops, AppendToCurrent(Start(op)),
           completed'[op] = 0, started'[op] = 1,
           \A i \in {0, 1} : ~HasStart(file[i], op) /\ ~Closed(file[i], op),
           op \notin pend' \union TmpOps, UNCHANGED <<cleaner, handling, index, tmp>>
    PROVE  Once(op)' /\ Answered(op)' /\ Copied(op)'
<1>1. file \in Both /\ index \in {0, 1} /\ handling \in {0, 1} /\ 1 # 0
  BY DEF TypeOK, Both
<1>2. /\ Adds(file[index], Start(op), file'[index], op)
      /\ \A i \in {0, 1} : i # index => file'[i] = file[i]
  BY <1>1, AppendBoth, RecordType, Zenon DEF AppendToCurrent
<1>3. Complete(op) # Start(op)
  BY DEF Start, Complete
<1>4. OneStart(file'[index], op)
  BY <1>1, <1>2, Zenon DEF Adds
<1>5. TmpOps' = TmpOps
  BY Zenon DEF TmpOps
<1>6. \A i \in {0, 1} : i # index => ~HasStart(file'[i], op) /\ ~Closed(file'[i], op)
  BY <1>2, Zenon
<1>7. ASSUME NEW i \in {0, 1}, NEW j \in {0, 1}, i # j
      PROVE  i # index \/ j # index
  BY <1>7, Zenon
<1>8. Once(op)'
  <2>1. \A i \in {0, 1} : ~HasStart(file'[i], op) \/ OneStart(file'[i], op)
    BY <1>4, <1>6, Zenon
  <2>2. \A i, j \in {0, 1} : i # j /\ HasStart(file'[i], op) => ~HasStart(file'[j], op)
    BY <1>6, <1>7, Zenon
  <2> QED
    BY <1>1, <2>1, <2>2, Zenon DEF Once
<1>9. Answered(op)'
  BY Zenon DEF Answered
<1>10. Copied(op)'
  <2>1. cleaner \in {"write", "remove"} => handling # index
    BY DEF Stages
  <2>2. cleaner \in {"write", "remove"} => ~Closed(file'[handling], op)
    BY <1>1, <1>6, <2>1, Zenon
  <2> QED
    BY <1>5, <2>2, Zenon DEF Copied
<1> QED
  BY <1>8, <1>9, <1>10, Zenon

\* Single is kept by every step.
LEMMA SingleStep ==
    ASSUME TypeOK, Stages, Counts, Single, [Next]_vars
    PROVE  Single'
<1>1. /\ file \in Both /\ index \in {0, 1} /\ handling \in {0, 1}
      /\ tmp \in Seq(Records) /\ <<>> \in Seq(Records)
      /\ \A i \in {0, 1} : file[i] \in Seq(Records)
      /\ started \in [Ops -> 0..1] /\ completed \in [Ops -> 0..2]
      /\ 0 \in {0, 1} /\ 1 \in {0, 1}
  BY DEF TypeOK, Both
<1>2. /\ "up" \in {"up", "relog"} /\ "relog" \in {"up", "relog"} /\ "up" # "relog"
      /\ "read0" \notin {"up", "relog"} /\ "read1" \notin {"up", "relog"}
      /\ "sleep" \notin {"write", "remove", "rename", "relog"}
      /\ "sleep" \notin {"write", "remove"} /\ "sleep" # "rename"
  OBVIOUS
<1>3. ASSUME mode \in {"up", "relog"}, NEW op \in Ops, op \notin leftover
      PROVE  Once(op) /\ Answered(op) /\ Copied(op)
  BY <1>3, Zenon DEF Single
<1>4. ASSUME NEW o \in Ops, LogStart(o)
      PROVE  Single'
  <2>1. /\ mode = "up" /\ started[o] = 0 /\ AppendToCurrent(Start(o))
        /\ UNCHANGED <<tmp, index, mode, cleaner, handling, pend, lost, completed, leftover>>
    BY <1>4, Zenon DEF LogStart, work
  <2>2. ASSUME NEW op \in Ops, op \notin leftover
        PROVE  Once(op)' /\ Answered(op)' /\ Copied(op)'
    <3>1. Once(op) /\ Answered(op) /\ Copied(op)
      BY <1>2, <1>3, <2>1, <2>2, Zenon
    <3>2. CASE op = o
      <4>1. started'[op] = 1
        BY <1>1, <1>4, <3>2 DEF LogStart
      <4>2. completed[op] = 0 /\ \A i \in {0, 1} : ~Closed(file[i], op)
        BY <2>1, <3>2, Zenon DEF Counts
      <4>3. op \notin pend \union TmpOps /\ \A i \in {0, 1} : ~HasStart(file[i], op)
        BY <2>1, <3>1, <3>2, Zenon DEF Once
      <4>4. completed'[op] = 0 /\ op \notin pend' \union TmpOps
        BY <2>1, <4>2, <4>3, Zenon
      <4> QED
        BY <2>1, <3>2, <4>1, <4>2, <4>3, <4>4, StartSingle, Zenon
    <3>3. CASE op # o
      <4>1. SameWords(op)
        BY <1>1, <2>1, <3>3, OtherWords, RecordType, Zenon DEF AppendToCurrent
      <4>2. started'[op] = started[op]
        BY <1>1, <1>4, <3>3 DEF LogStart
      <4> QED
        BY <1>1, <2>1, <3>1, <4>1, <4>2, OtherFrame, Zenon
    <3> QED
      BY <3>2, <3>3, Zenon
  <2> QED
    BY <2>1, <2>2, Zenon DEF Single
<1>5. ASSUME NEW o \in Ops, LogComplete(o)
      PROVE  Single'
  <2>1. /\ mode = "up" /\ AppendToCurrent(Complete(o))
        /\ UNCHANGED <<tmp, index, mode, cleaner, handling, pend, lost, started, leftover>>
    BY <1>5, Zenon DEF LogComplete, work
  <2>2. ASSUME NEW op \in Ops, op \notin leftover
        PROVE  Once(op)' /\ Answered(op)' /\ Copied(op)'
    <3>1. Once(op) /\ Answered(op) /\ Copied(op)
      BY <1>2, <1>3, <2>1, <2>2, Zenon
    <3>2. CASE op = o
      <4>1. started[op] # 0
        BY <1>1, <1>5, <3>2 DEF LogComplete, Counts
      <4> QED
        BY <2>1, <3>1, <3>2, <4>1, CompleteSingle, Zenon
    <3>3. CASE op # o
      <4>1. SameWords(op)
        BY <1>1, <2>1, <3>3, OtherWords, RecordType, Zenon DEF AppendToCurrent
      <4>2. completed'[op] = completed[op]
        BY <1>1, <1>5, <3>3 DEF LogComplete
      <4> QED
        BY <1>1, <2>1, <3>1, <4>1, <4>2, OtherFrame, Zenon
    <3> QED
      BY <3>2, <3>3, Zenon
  <2> QED
    BY <2>1, <2>2, Zenon DEF Single
<1>6. ASSUME Swap
      PROVE  Single'
  <2>1. /\ mode = "up" /\ cleaner = "sleep" /\ cleaner' \notin {"write", "remove"} /\ cleaner' # "rename"
        /\ cleaner \notin {"rename", "relog"}
        /\ UNCHANGED <<file, mode, tmp, pend, started, completed, leftover>>
    BY <1>6 DEF Swap, CleanerUp, history
  <2>2. TmpOps' = TmpOps
    BY <2>1, Zenon DEF TmpOps
  <2>3. ASSUME NEW op \in Ops, op \notin leftover
        PROVE  Once(op)' /\ Answered(op)' /\ Copied(op)'
    <3>1. Once(op) /\ Answered(op) /\ Copied(op)
      BY <1>2, <1>3, <2>1, <2>3, Zenon
    <3>2. Once(op)'
      BY <2>1, <2>2, <3>1, Zenon DEF Once
    <3>3. Answered(op)'
      BY <2>1, <3>1, Zenon DEF Answered
    <3>4. Copied(op)'
      BY <2>1, <2>2, <3>1, Zenon DEF Copied
    <3> QED
      BY <3>2, <3>3, <3>4, Zenon
  <2> QED
    BY <2>1, <2>3, Zenon DEF Single
<1>7. ASSUME Extract
      PROVE  Single'
  <2>1. /\ mode = "up" /\ cleaner = "extract" /\ cleaner' # "rename"
        /\ cleaner \notin {"rename", "relog"} /\ cleaner \notin {"write", "remove", "rename"}
        /\ UNCHANGED <<file, mode, tmp, handling, started, completed, leftover>>
        /\ pend' = ExtractPending(NoSets, file[handling]).pend
        /\ lost' = ExtractPending(NoSets, file[handling]).lost
        /\ file[handling] \in Seq(Records)
    BY <1>1, <1>7 DEF Extract, CleanerUp, history, files
  <2>2. TmpOps' = TmpOps /\ TmpOps \subseteq leftover
    BY <2>1, Zenon DEF TmpOps, Stages
  <2>3. NoSets \in Sets /\ \A op : op \notin NoSets.pend
    BY NoSetsType
  <2>4. ASSUME NEW op \in Ops, op \notin leftover
        PROVE  Once(op)' /\ Answered(op)' /\ Copied(op)'
    <3>1. Once(op) /\ Answered(op) /\ Copied(op)
      BY <1>2, <1>3, <2>1, <2>4, Zenon
    <3>2. op \in pend' => HasStart(file[handling], op)
      BY <2>1, <2>3, PendStarts, Zenon
    <3>3. op \in pend' => OneStart(file[handling], op)
      <4>1. op \in pend' => ~Over(file[handling], op)
        BY <2>1, <2>3, OverPend, Zenon
      <4> QED
        BY <1>1, <3>1, <3>2, <4>1, Zenon DEF Once
    <3>4. Closed(file[handling], op) /\ ~HasStart(file[handling], op) => op \in lost'
      BY <2>1, <2>3, ClosedLost, Zenon
    <3>5. Once(op)'
      <4>1. started[op] = 0 => op \notin pend'
        BY <1>1, <3>1, <3>2, Zenon DEF Once
      <4> QED
        BY <1>2, <2>1, <2>2, <3>1, <4>1, Zenon DEF Once
    <3>6. Answered(op)'
      BY <2>1, <3>1, Zenon DEF Answered
    <3>7. Copied(op)'
      BY <2>1, <2>2, <2>4, <3>3, <3>4, Zenon DEF Copied
    <3> QED
      BY <3>5, <3>6, <3>7, Zenon
  <2> QED
    BY <2>1, <2>4, Zenon DEF Single
<1>8. ASSUME NEW o \in Ops, WriteStart(o)
      PROVE  Single'
  <2>1. /\ mode = "up" /\ cleaner = "write" /\ cleaner' = "write" /\ cleaner # "rename"
        /\ cleaner \notin {"rename", "relog"} /\ cleaner \in {"write", "remove"}
        /\ UNCHANGED <<file, mode, lost, handling, started, completed, leftover>>
        /\ o \in pend /\ pend' = pend \ {o} /\ tmp' = Append(tmp, Start(o))
    BY <1>8 DEF WriteStart, CleanerUp, history
  <2>2. TmpOps' = TmpOps \union {o}
    BY <1>1, <2>1, AppendTmp, Zenon DEF Stages
  <2>3. ASSUME NEW op \in Ops, op \notin leftover
        PROVE  Once(op)' /\ Answered(op)' /\ Copied(op)'
    <3>1. Once(op) /\ Answered(op) /\ Copied(op)
      BY <1>2, <1>3, <2>1, <2>3, Zenon
    <3>2. Adds(tmp, Start(o), tmp', op)
      BY <1>1, <2>1, AppendWords, RecordType, Zenon
    <3>3. op \in pend' \union TmpOps' <=> op \in pend \union TmpOps
      BY <2>1, <2>2, Zenon
    <3>4. Once(op)'
      BY <1>2, <2>1, <3>1, <3>3, Zenon DEF Once
    <3>5. Answered(op)'
      BY <2>1, <3>1, Zenon DEF Answered
    <3>6. op \in TmpOps' => OneStart(tmp', op)
      <4>1. CASE op = o
        <5>1. op \notin TmpOps
          BY <2>1, <3>1, <4>1, Zenon DEF Copied
        <5>2. ~HasStart(tmp, op) /\ ~Closed(tmp, op)
          BY <5>1, TmpWords, Zenon
        <5> QED
          BY <3>2, <4>1, <5>2, Zenon DEF Adds
      <4>2. CASE op # o
        <5>1. Start(o).op # op
          BY <4>2, RecordType, Zenon
        <5>2. op \in TmpOps' => op \in TmpOps
          BY <2>2, <4>2, Zenon
        <5> QED
          BY <3>1, <3>2, <5>1, <5>2, Zenon DEF Adds, Copied
      <4> QED
        BY <4>1, <4>2, Zenon
    <3>7. op \notin pend' \intersect TmpOps'
      BY <2>1, <2>2, <3>1, Zenon DEF Copied
    <3>8. Copied(op)'
      BY <2>1, <3>1, <3>3, <3>6, <3>7, Zenon DEF Copied
    <3> QED
      BY <3>4, <3>5, <3>8, Zenon
  <2> QED
    BY <2>1, <2>3, Zenon DEF Single
<1>9. ASSUME CloseTmp
      PROVE  Single'
  <2>1. /\ mode = "up" /\ cleaner = "write" /\ cleaner' \in {"write", "remove"} /\ cleaner' # "rename"
        /\ cleaner \notin {"rename", "relog"} /\ cleaner \in {"write", "remove"}
        /\ UNCHANGED <<file, mode, tmp, pend, lost, handling, started, completed, leftover>>
    BY <1>9 DEF CloseTmp, CleanerUp, history, files
  <2>2. TmpOps' = TmpOps
    BY <2>1, Zenon DEF TmpOps
  <2>3. ASSUME NEW op \in Ops, op \notin leftover
        PROVE  Once(op)' /\ Answered(op)' /\ Copied(op)'
    <3>1. Once(op) /\ Answered(op) /\ Copied(op)
      BY <1>2, <1>3, <2>1, <2>3, Zenon
    <3>2. Once(op)'
      BY <2>1, <2>2, <3>1, Zenon DEF Once
    <3>3. Answered(op)'
      BY <2>1, <3>1, Zenon DEF Answered
    <3>4. Copied(op)'
      BY <2>1, <2>2, <3>1, Zenon DEF Copied
    <3> QED
      BY <3>2, <3>3, <3>4, Zenon
  <2> QED
    BY <2>1, <2>3, Zenon DEF Single
<1>10. ASSUME RemoveOld
       PROVE  Single'
  <2>1. /\ mode = "up" /\ cleaner = "remove" /\ cleaner' = "rename"
        /\ cleaner' \notin {"write", "remove"} /\ cleaner' \in {"rename", "relog"}
        /\ cleaner \notin {"rename", "relog"} /\ cleaner \in {"write", "remove"}
        /\ handling # index
        /\ UNCHANGED <<mode, tmp, pend, lost, index, started, completed, leftover>>
    BY <1>10 DEF RemoveOld, CleanerUp, history, Stages
  <2>2. TmpOps' = TmpOps
    BY <2>1, Zenon DEF TmpOps
  <2>3. file'[handling] = <<>> /\ \A i \in {0, 1} : i # handling => file'[i] = file[i]
    BY <1>1, <1>10, SetFile, Zenon DEF RemoveOld
  <2>4. \A i \in {0, 1} : i # handling => i = index
    BY <1>1, <2>1
  <2>5. ASSUME NEW op \in Ops, op \notin leftover
        PROVE  Once(op)' /\ Answered(op)' /\ Copied(op)'
    <3>1. Once(op) /\ Answered(op) /\ Copied(op)
      BY <1>2, <1>3, <2>1, <2>5, Zenon
    <3>2. ASSUME NEW i \in {0, 1}
          PROVE  \/ ~HasStart(file'[i], op) /\ ~OneStart(file'[i], op)
                 \/ i = index /\ file'[i] = file[i]
      <4>1. CASE i = handling
        BY <2>3, <4>1, EmptyWords, Zenon
      <4>2. CASE i # handling
        BY <2>3, <2>4, <4>2, Zenon
      <4> QED
        BY <4>1, <4>2, Zenon
    <3>3. Once(op)'
      <4>1. \A i \in {0, 1} : ~HasStart(file'[i], op) \/ OneStart(file'[i], op) \/ Over(file'[i], op)
        BY <3>1, <3>2, Zenon DEF Once
      <4>2. \A i, j \in {0, 1} : i # j /\ HasStart(file'[i], op) => ~HasStart(file'[j], op)
        BY <3>2, Zenon
      <4>3. started[op] = 0 => op \notin pend \union TmpOps /\ \A i \in {0, 1} : ~HasStart(file'[i], op)
        BY <3>1, <3>2, Zenon DEF Once
      <4> QED
        BY <1>2, <2>1, <2>2, <4>1, <4>2, <4>3, Zenon DEF Once
    <3>4. Answered(op)'
      <4>1. ASSUME completed[op] # 0, NEW i \in {0, 1}, OneStart(file'[i], op)
            PROVE  op \in lost
        <5>1. OneStart(file[index], op)
          BY <3>2, <4>1, Zenon
        <5>2. HasStart(file[index], op)
          BY <1>1, <5>1, Words, Zenon
        <5>3. ~HasStart(file[handling], op)
          BY <1>1, <2>1, <3>1, <5>2, Zenon DEF Once
        <5>4. Closed(file[handling], op)
          BY <1>1, <2>1, <3>1, <4>1, <5>1, Zenon DEF Answered
        <5> QED
          BY <2>1, <3>1, <5>3, <5>4, Zenon DEF Copied
      <4> QED
        BY <2>1, <4>1, Zenon DEF Answered
    <3>5. Copied(op)'
      <4>1. ASSUME op \in TmpOps
            PROVE  ~HasStart(file'[index], op) /\ (completed[op] # 0 => Closed(file'[index], op))
        <5>1. OneStart(file[handling], op)
          BY <2>1, <3>1, <4>1, Zenon DEF Copied
        <5>2. HasStart(file[handling], op)
          BY <1>1, <5>1, Words, Zenon
        <5>3. ~HasStart(file[index], op)
          BY <1>1, <2>1, <3>1, <5>2, Zenon DEF Once
        <5>4. completed[op] # 0 => Closed(file[index], op)
          BY <1>1, <2>1, <3>1, <5>1, Zenon DEF Answered
        <5>5. file'[index] = file[index]
          BY <1>1, <2>1, <2>3, Zenon
        <5> QED
          BY <5>3, <5>4, <5>5, Zenon
      <4> QED
        BY <2>1, <2>2, <3>1, <4>1, Zenon DEF Copied
    <3> QED
      BY <3>3, <3>4, <3>5, Zenon
  <2> QED
    BY <2>1, <2>5, Zenon DEF Single
<1>11. ASSUME RenameTmp
       PROVE  Single'
  <2>1. /\ mode = "up" /\ cleaner = "rename" /\ cleaner' = "relog" /\ cleaner' # "rename"
        /\ cleaner' \notin {"write", "remove"} /\ cleaner' \in {"rename", "relog"}
        /\ handling # index /\ file[handling] = <<>> /\ pend = {}
        /\ UNCHANGED <<mode, pend, lost, index, started, completed, leftover>>
    BY <1>11 DEF RenameTmp, CleanerUp, history, Stages
  <2>2. \A op : op \notin TmpOps'
    BY <1>11, EmptyTmp, Zenon DEF RenameTmp
  <2>3. file'[handling] = tmp /\ \A i \in {0, 1} : i # handling => file'[i] = file[i]
    BY <1>1, <1>11, SetFile, Zenon DEF RenameTmp
  <2>4. \A i \in {0, 1} : i # handling => i = index
    BY <1>1, <2>1
  <2>5. ASSUME NEW op \in Ops, op \notin leftover
        PROVE  Once(op)' /\ Answered(op)' /\ Copied(op)'
    <3>1. Once(op) /\ Answered(op) /\ Copied(op)
      BY <1>2, <1>3, <2>1, <2>5, Zenon
    <3>2. (HasStart(tmp, op) => op \in TmpOps) /\ (OneStart(tmp, op) => HasStart(tmp, op))
      BY <1>1, TmpWords, Words, Zenon
    <3>3. HasStart(tmp, op) => /\ OneStart(tmp, op)
                               /\ ~HasStart(file[index], op)
                               /\ completed[op] # 0 => Closed(file[index], op)
      BY <2>1, <3>1, <3>2, Zenon DEF Copied
    <3>4. ASSUME NEW i \in {0, 1}
          PROVE  (i = handling /\ file'[i] = tmp) \/ (i = index /\ file'[i] = file[i])
      <4>1. CASE i = handling
        BY <2>3, <4>1, Zenon
      <4>2. CASE i # handling
        BY <2>3, <2>4, <4>2, Zenon
      <4> QED
        BY <4>1, <4>2, Zenon
    <3>5. Once(op)'
      <4>1. ASSUME NEW i \in {0, 1}
            PROVE  ~HasStart(file'[i], op) \/ OneStart(file'[i], op) \/ Over(file'[i], op)
        <5>1. CASE file'[i] = tmp
          BY <3>3, <5>1, Zenon
        <5>2. CASE file'[i] = file[i]
          BY <3>1, <5>2, Zenon DEF Once
        <5> QED
          BY <3>4, <5>1, <5>2, Zenon
      <4>2. ASSUME NEW i \in {0, 1}, NEW j \in {0, 1}, i # j
            PROVE  ~HasStart(file'[i], op) \/ ~HasStart(file'[j], op)
        <5>1. CASE i = handling
          <6>1. file'[i] = tmp /\ file'[j] = file[index]
            BY <2>3, <2>4, <4>2, <5>1, Zenon
          <6> QED
            BY <3>3, <6>1, Zenon
        <5>2. CASE j = handling
          <6>1. file'[j] = tmp /\ file'[i] = file[index]
            BY <2>3, <2>4, <4>2, <5>2, Zenon
          <6> QED
            BY <3>3, <6>1, Zenon
        <5> QED
          BY <2>4, <4>2, <5>1, <5>2, Zenon
      <4>3. ASSUME started[op] = 0, NEW i \in {0, 1}
            PROVE  ~HasStart(file'[i], op)
        <5>1. op \notin TmpOps /\ ~HasStart(file[i], op)
          BY <3>1, <4>3, Zenon DEF Once
        <5>2. CASE file'[i] = tmp
          BY <3>2, <5>1, <5>2, Zenon
        <5>3. CASE file'[i] = file[i]
          BY <5>1, <5>3, Zenon
        <5> QED
          BY <3>4, <5>2, <5>3, Zenon
      <4>4. op \notin pend' \union TmpOps'
        BY <2>1, <2>2, Zenon
      <4> QED
        BY <1>2, <2>1, <4>1, <4>2, <4>3, <4>4, Zenon DEF Once
    <3>6. Answered(op)'
      <4>1. ASSUME completed[op] # 0, NEW i \in {0, 1}, NEW j \in {0, 1}, i # j, OneStart(file'[i], op)
            PROVE  Closed(file'[j], op) \/ op \in lost
        <5>1. CASE i = handling
          <6>1. file'[i] = tmp /\ file'[j] = file[index]
            BY <2>1, <3>4, <4>1, <5>1, Zenon
          <6> QED
            BY <3>2, <3>3, <4>1, <6>1, Zenon
        <5>2. CASE i # handling
          <6>1. i = index /\ OneStart(file[index], op)
            BY <3>4, <4>1, <5>2, Zenon
          <6>2. Closed(file[handling], op) \/ op \in lost
            BY <1>1, <2>1, <3>1, <4>1, <6>1, Zenon DEF Answered
          <6> QED
            BY <2>1, <6>2, EmptyWords, Zenon
        <5> QED
          BY <5>1, <5>2, Zenon
      <4> QED
        BY <2>1, <4>1, Zenon DEF Answered
    <3>7. Copied(op)'
      BY <2>1, <2>2, Zenon DEF Copied
    <3> QED
      BY <3>5, <3>6, <3>7, Zenon
  <2> QED
    BY <2>1, <2>5, Zenon DEF Single
<1>12. ASSUME NEW o \in Ops, Relog(o)
       PROVE  Single'
  <2>1. /\ mode = "up" /\ cleaner = "relog" /\ AppendToCurrent(Complete(o))
        /\ cleaner \notin {"write", "remove"} /\ lost' = lost \ {o} /\ o \in lost
        /\ UNCHANGED <<tmp, index, mode, cleaner, handling, pend, started, completed, leftover>>
    BY <1>12 DEF Relog, CleanerUp, history
  <2>2. ASSUME NEW op \in Ops, op \notin leftover
        PROVE  Once(op)' /\ Answered(op)' /\ Copied(op)'
    <3>1. Once(op) /\ Answered(op) /\ Copied(op)
      BY <1>2, <1>3, <2>1, <2>2, Zenon
    <3>2. CASE op = o
      <4>1. started[op] # 0
        BY <1>2, <2>1, <3>2, Zenon DEF Counts
      <4> QED
        BY <2>1, <3>1, <3>2, <4>1, CompleteSingle, Zenon
    <3>3. CASE op # o
      <4>1. SameWords(op)
        BY <1>1, <2>1, <3>3, OtherWords, RecordType, Zenon DEF AppendToCurrent
      <4>2. op \in lost' <=> op \in lost
        BY <2>1, <3>3, Zenon
      <4> QED
        BY <1>1, <2>1, <3>1, <4>1, <4>2, OtherFrame, Zenon
    <3> QED
      BY <3>2, <3>3, Zenon
  <2> QED
    BY <2>1, <2>2, Zenon DEF Single
<1>13. ASSUME CleanerDone
       PROVE  Single'
  <2>1. /\ mode = "up" /\ cleaner' \notin {"write", "remove"} /\ cleaner' # "rename"
        /\ lost = {} /\ pend' = {}
        /\ UNCHANGED <<file, mode, tmp, started, completed, leftover>>
    BY <1>13 DEF CleanerDone, CleanerUp, history, files
  <2>2. TmpOps' = TmpOps
    BY <2>1, Zenon DEF TmpOps
  <2>3. ASSUME NEW op \in Ops, op \notin leftover
        PROVE  Once(op)' /\ Answered(op)' /\ Copied(op)'
    <3>1. Once(op) /\ Answered(op) /\ Copied(op)
      BY <1>2, <1>3, <2>1, <2>3, Zenon
    <3>2. Once(op)'
      BY <1>2, <2>1, <2>2, <3>1, Zenon DEF Once
    <3>3. Answered(op)'
      BY <2>1, <3>1, Zenon DEF Answered
    <3>4. Copied(op)'
      BY <2>1, <2>2, <3>1, Zenon DEF Copied
    <3> QED
      BY <3>2, <3>3, <3>4, Zenon
  <2> QED
    BY <2>1, <2>3, Zenon DEF Single
<1>14. ASSUME Crash \/ ReadFile0
       PROVE  Single'
  <2>1. mode' = "read0" \/ mode' = "read1"
    BY <1>14, Zenon DEF Crash, ReadFile0, ReadFile
  <2> QED
    BY <1>2, <2>1, Zenon DEF Single
<1>15. ASSUME ReadFile1
       PROVE  Single'
  <2>1. /\ cleaner' = "sleep" /\ cleaner \notin {"write", "remove", "rename"} /\ live' = pend'
        /\ UNCHANGED <<tmp, leftover>>
    BY <1>15 DEF ReadFile1, ReadFile, Stages
  <2>2. \A i \in {0, 1} : file'[i] = <<>>
    BY <1>1, <1>15, BothRead, Zenon
  <2>3. TmpOps' \subseteq leftover
    BY <2>1, Zenon DEF TmpOps, Stages
  <2>4. ASSUME NEW op \in Ops, op \notin leftover
        PROVE  Once(op)' /\ Answered(op)' /\ Copied(op)'
    <3>1. \A i \in {0, 1} : ~HasStart(file'[i], op) /\ ~OneStart(file'[i], op)
      BY <2>2, EmptyWords, Zenon
    <3>2. started'[op] = 0 => op \notin pend'
      BY <1>15 DEF ReadFile1
    <3>3. Once(op)'
      BY <1>1, <2>3, <2>4, <3>1, <3>2, Zenon DEF Once
    <3>4. Answered(op)'
      BY <3>1, Zenon DEF Answered
    <3>5. Copied(op)'
      BY <1>2, <2>1, <2>3, <2>4, Zenon DEF Copied
    <3> QED
      BY <3>3, <3>4, <3>5, Zenon
  <2> QED
    BY <2>1, <2>4, Zenon DEF Single
<1>16. ASSUME NEW o \in Ops, RelogStart(o)
       PROVE  Single'
  <2>1. /\ mode = "relog" /\ AppendToCurrent(Start(o)) /\ o \in pend /\ pend' = pend \ {o}
        /\ UNCHANGED <<tmp, index, mode, cleaner, handling, lost, started, completed, leftover>>
        /\ file[1] = <<>> /\ o \in live /\ cleaner \notin {"write", "remove", "rename"}
    BY <1>16 DEF RelogStart, history, Stages
  <2>2. TmpOps \subseteq leftover
    BY <2>1, Zenon DEF Stages
  <2>3. ASSUME NEW op \in Ops, op \notin leftover
        PROVE  Once(op)' /\ Answered(op)' /\ Copied(op)'
    <3>1. Once(op) /\ Answered(op) /\ Copied(op)
      BY <1>2, <1>3, <2>1, <2>3, Zenon
    <3>2. CASE op = o
      <4>1. started'[op] = 1 /\ completed'[op] = 0 /\ \A i \in {0, 1} : ~Closed(file[i], op)
        BY <2>1, <3>2, Zenon DEF Counts
      <4>2. ~HasStart(file[0], op) /\ ~HasStart(file[1], op)
        BY <2>1, <3>1, <3>2, EmptyWords, Zenon DEF Once
      <4>3. \A i \in {0, 1} : ~HasStart(file[i], op)
        BY <4>2, Zenon
      <4>4. op \notin pend' \union TmpOps
        BY <2>1, <2>2, <2>3, <3>2, Zenon
      <4> QED
        BY <2>1, <3>2, <4>1, <4>3, <4>4, StartSingle, Zenon
    <3>3. CASE op # o
      <4>1. SameWords(op)
        BY <1>1, <2>1, <3>3, OtherWords, RecordType, Zenon DEF AppendToCurrent
      <4>2. op \in pend' <=> op \in pend
        BY <2>1, <3>3, Zenon
      <4> QED
        BY <1>1, <2>1, <3>1, <4>1, <4>2, OtherFrame, Zenon
    <3> QED
      BY <3>2, <3>3, Zenon
  <2> QED
    BY <2>1, <2>3, Zenon DEF Single
<1>17. ASSUME RecoveryDone
       PROVE  Single'
  <2>1. /\ mode = "relog" /\ mode' = "up" /\ cleaner' = "sleep"
        /\ \A op \in Ops : completed'[op] = 0
        /\ UNCHANGED <<file, tmp, pend, started, leftover>>
    BY <1>17 DEF RecoveryDone, history, files, Stages
  <2>2. TmpOps' = TmpOps
    BY <2>1, Zenon DEF TmpOps
  <2>3. ASSUME NEW op \in Ops, op \notin leftover
        PROVE  Once(op)' /\ Answered(op)' /\ Copied(op)'
    <3>1. Once(op) /\ Answered(op) /\ Copied(op)
      BY <1>2, <1>3, <2>1, <2>3, Zenon
    <3>2. Once(op)'
      BY <1>2, <2>1, <2>2, <3>1, Zenon DEF Once
    <3>3. Answered(op)'
      BY <2>1, Zenon DEF Answered
    <3>4. Copied(op)'
      BY <1>2, <2>1, <2>2, <3>1, Zenon DEF Copied
    <3> QED
      BY <3>2, <3>3, <3>4, Zenon
  <2> QED
    BY <2>1, <2>3, Zenon DEF Single
<1>18. ASSUME UNCHANGED vars
       PROVE  Single'
  <2>1. /\ file' = file /\ UNCHANGED <<mode, cleaner, handling, index, tmp>>
        /\ pend' = pend /\ lost' = lost /\ started' = started /\ completed' = completed
        /\ leftover' = leftover /\ mode' = mode
    BY <1>18, Zenon DEF vars, files, work, history
  <2>2. ASSUME NEW op \in Ops, mode \in {"up", "relog"}, op \notin leftover
        PROVE  Once(op)' /\ Answered(op)' /\ Copied(op)'
    <3>1. SameWords(op)
      BY <2>1, Zenon DEF SameWords
    <3>2. Once(op) /\ Answered(op) /\ Copied(op)
      BY <1>3, <2>2, Zenon
    <3> QED
      BY <1>1, <2>1, <2>2, <3>1, <3>2, OtherFrame, Zenon
  <2> QED
    BY <2>1, <2>2, Zenon DEF Single
<1> QED
  BY <1>4, <1>5, <1>6, <1>7, <1>8, <1>9, <1>10, <1>11, <1>12, <1>13, <1>14, <1>15, <1>16,
     <1>17, <1>18, Zenon DEF Next, CleanerStep, Recovery

\* The invariant holds of the log that has just been opened.
LEMMA InitInv ==
    ASSUME Init
    PROVE  LogInv
<1>1. \A i \in {0, 1} : file[i] = <<>>
  BY DEF Init
<1>2. TypeOK
  <2>1. <<>> \in Seq(Records)
    OBVIOUS
  <2> QED
    BY <2>1, Assumptions DEF Init, TypeOK, Modes, Cleaner
<1>3. DOMAIN tmp = {} /\ TmpOps = {}
  BY DEF Init, TmpOps
<1>4. Stages
  BY <1>3 DEF Init, Stages
<1>5. \A i \in {0, 1}, op \in Ops : ~HasStart(file[i], op) /\ ~Closed(file[i], op) /\ ~OneStart(file[i], op)
  BY <1>1, EmptyWords, Zenon
<1>6. /\ \A op \in Ops : started[op] = 0 /\ completed[op] = 0
      /\ live = {} /\ lost = {} /\ pend = {} /\ 0 # 1 /\ 0 \in {0, 1}
      /\ cleaner \notin {"write", "remove"} /\ cleaner # "rename"
  BY DEF Init
<1>7. Counts
  BY <1>5, <1>6 DEF Counts
<1>8. Kept
  BY <1>6, Zenon DEF Kept
<1>9. Single
  <2>1. ASSUME NEW op \in Ops
        PROVE  Once(op) /\ Answered(op) /\ Copied(op)
    BY <1>3, <1>5, <1>6, Zenon DEF Once, Answered, Copied
  <2> QED
    BY <2>1, Zenon DEF Single
<1> QED
  BY <1>2, <1>4, <1>7, <1>8, <1>9, Zenon DEF LogInv

\* The invariant is inductive.
LEMMA StepInv ==
    ASSUME LogInv, [Next]_vars
    PROVE  LogInv'
  BY TypeStep, StagesStep, CountsStep, KeptStep, SingleStep, Zenon DEF LogInv

-----------------------------------------------------------------------------
(***************************************************************************)
(* What a recovery finds.                                                  *)
(***************************************************************************)

\* An operation that has a start and no completion in the files is recovered.
LEMMA StartRecovered ==
    ASSUME TypeOK, NEW op \in Ops,
           HasStart(file[0], op) \/ HasStart(file[1], op),
           ~Closed(file[0], op), ~Closed(file[1], op)
    PROVE  op \in Recoverable
<1> DEFINE first == ExtractPending(NoSets, file[0])
<1>1. file[0] \in Seq(Records) /\ file[1] \in Seq(Records)
  BY DEF TypeOK
<1>2. NoSets \in Sets /\ op \notin NoSets.lost
  BY NoSetsType
<1>3. first \in Sets
  BY <1>1, <1>2, ExtractType, Zenon
<1>4. op \notin first.lost
  BY <1>1, <1>2, LostClosed, Zenon
<1>5. HasStart(file[0], op) => op \in first.pend
  BY <1>1, <1>2, StartsPend, Zenon
<1> HIDE DEF first
<1>6. op \in ExtractPending(first, file[1]).pend
  BY <1>1, <1>3, <1>4, <1>5, StartsPend, Zenon
<1> QED
  BY <1>6, Zenon DEF Recoverable, first

\* An operation is recovered only from a start that no completion answers.
LEMMA RecoveredStart ==
    ASSUME TypeOK, NEW op \in Ops, op \in Recoverable,
           \A i \in {0, 1} : ~HasStart(file[i], op) \/ OneStart(file[i], op) \/ Over(file[i], op),
           \A i, j \in {0, 1} : i # j /\ HasStart(file[i], op) => ~HasStart(file[j], op)
    PROVE  \E i, j \in {0, 1} : i # j /\ OneStart(file[i], op) /\ ~Closed(file[j], op)
<1> DEFINE first == ExtractPending(NoSets, file[0])
<1>1. file[0] \in Seq(Records) /\ file[1] \in Seq(Records) /\ 0 \in {0, 1} /\ 1 \in {0, 1} /\ 0 # 1
  BY DEF TypeOK
<1>2. NoSets \in Sets /\ op \notin NoSets.lost /\ op \notin NoSets.pend
  BY NoSetsType
<1>3. first \in Sets
  BY <1>1, <1>2, ExtractType, Zenon
<1>4. op \in first.pend => HasStart(file[0], op) /\ ~Over(file[0], op)
  BY <1>1, <1>2, PendStarts, OverPend, Zenon
<1>5. Closed(file[0], op) /\ ~HasStart(file[0], op) => op \in first.lost
  BY <1>1, <1>2, ClosedLost, Zenon
<1>6. op \in ExtractPending(first, file[1]).pend
  BY Zenon DEF Recoverable
<1> HIDE DEF first
<1>7. ~Over(file[1], op) /\ (op \in first.pend \/ HasStart(file[1], op))
  BY <1>1, <1>3, <1>6, OverPend, PendStarts, Zenon
<1>8. Closed(file[1], op) => HasStart(file[1], op)
  BY <1>7, Zenon DEF Closed, HasStart, Over
<1>9. CASE HasStart(file[1], op)
  <2>1. OneStart(file[1], op) /\ ~HasStart(file[0], op)
    BY <1>1, <1>7, <1>9, Zenon
  <2>2. op \notin first.pend
    BY <1>4, <2>1, Zenon
  <2>3. op \notin first.lost
    BY <1>1, <1>3, <1>6, <2>1, <2>2, OneStartLost, Zenon
  <2>4. ~Closed(file[0], op)
    BY <1>5, <2>1, <2>3, Zenon
  <2> QED
    BY <1>1, <2>1, <2>4, Zenon
<1>10. CASE ~HasStart(file[1], op)
  <2>1. OneStart(file[0], op)
    BY <1>1, <1>4, <1>7, <1>10, Zenon
  <2>2. ~Closed(file[1], op)
    BY <1>8, <1>10, Zenon
  <2> QED
    BY <1>1, <2>1, <2>2, Zenon
<1> QED
  BY <1>9, <1>10, Zenon

\* NothingLost follows from the invariant.
LEMMA LostNow ==
    ASSUME LogInv
    PROVE  NothingLost
<1>1. TypeOK /\ Stages /\ Counts /\ Kept
  BY Zenon DEF LogInv
<1>2. ASSUME NEW op \in live, op \notin Recoverable
      PROVE  IF mode = "up"
             THEN cleaner = "rename" /\ op \in TmpOps
             ELSE op \in pend \union leftover \union forgotten
  <2>1. op \in Ops
    BY <1>1, <1>2 DEF TypeOK
  <2>2. \A i \in {0, 1} : ~Closed(file[i], op)
    BY <1>1, <1>2, <2>1, Zenon DEF Counts
  <2>3. ~HasStart(file[0], op) /\ ~HasStart(file[1], op)
    <3>1. 0 \in {0, 1} /\ 1 \in {0, 1}
      OBVIOUS
    <3> QED
      BY <1>1, <1>2, <2>1, <2>2, <3>1, StartRecovered, Zenon
  <2>4. \/ mode = "up" /\ cleaner = "rename" /\ op \in TmpOps
        \/ mode = "relog" /\ op \in pend
        \/ mode \in {"read0", "read1"} /\ op \in pend \union leftover \union forgotten
    BY <1>1, <1>2, <2>3, Zenon DEF Kept
  <2> QED
    BY <2>4
<1> QED
  BY <1>2, Zenon DEF NothingLost

\* NothingRevived follows from the invariant.
LEMMA RevivedNow ==
    ASSUME LogInv
    PROVE  NothingRevived
<1>1. TypeOK /\ Stages /\ Counts /\ Single
  BY Zenon DEF LogInv
<1>2. ASSUME mode = "up", NEW op \in Recoverable, op \notin live, op \notin leftover
      PROVE  cleaner \in {"rename", "relog"} /\ op \in lost
  <2>1. op \in Ops
    <3>1. file[0] \in Seq(Records) /\ file[1] \in Seq(Records)
      BY <1>1 DEF TypeOK
    <3>2. ExtractPending(NoSets, file[0]) \in Sets
      BY <3>1, NoSetsType, ExtractType, Zenon
    <3>3. Recoverable \subseteq Ops
      BY <3>1, <3>2, ExtractType, Zenon DEF Recoverable
    <3> QED
      BY <1>2, <3>3, Zenon
  <2>2. mode \in {"up", "relog"}
    BY <1>2
  <2>3. Once(op) /\ Answered(op)
    BY <1>1, <1>2, <2>1, <2>2, Zenon DEF Single
  <2>4. PICK i, j \in {0, 1} : i # j /\ OneStart(file[i], op) /\ ~Closed(file[j], op)
    BY <1>1, <1>2, <2>1, <2>3, RecoveredStart, Zenon DEF Once
  <2>5. started[op] # 0
    <3>1. file[i] \in Seq(Records)
      BY <1>1 DEF TypeOK
    <3>2. HasStart(file[i], op)
      BY <2>1, <2>4, <3>1, Words, Zenon
    <3> QED
      BY <2>3, <3>2, Zenon DEF Once
  <2>6. completed[op] # 0
    <3>1. started[op] = 1
      BY <1>1, <2>1, <2>5 DEF TypeOK
    <3> QED
      BY <1>1, <1>2, <2>1, <3>1, Zenon DEF Counts
  <2> QED
    BY <2>3, <2>4, <2>6, Zenon DEF Answered
<1> QED
  BY <1>2, Zenon DEF NothingRevived

-----------------------------------------------------------------------------
(***************************************************************************)
(* The inductive invariant: the two files, the temporary file and the      *)
(* sets of the cleaner and of the recovery agree with what the process     *)
(* knows of every operation.                                               *)
(***************************************************************************)
THEOREM LogInvariance == Spec => []LogInv
<1>1. Init => LogInv
  BY InitInv, Zenon
<1>2. LogInv /\ [Next]_vars => LogInv'
  BY StepInv, Zenon
<1> QED
  BY <1>1, <1>2, PTL DEF Spec

(***************************************************************************)
(* The records, sets and counters of AsyncOperationLogger keep their       *)
(* types; there are never more than two files to index.                    *)
(***************************************************************************)
THEOREM LogTypes == Spec => []TypeOK
<1>1. LogInv => TypeOK
  BY Zenon DEF LogInv
<1> QED
  BY <1>1, LogInvariance, PTL

(***************************************************************************)
(* A crash at any step of the callers, of cleanEnqueueLog or of            *)
(* recoverAsyncEnqueue loses no pending operation but those of the window  *)
(* between remove() and rename(), and those a recovery had in memory.      *)
(***************************************************************************)
THEOREM PendingNotLost == Spec => []NothingLost
<1>1. LogInv => NothingLost
  BY LostNow, Zenon
<1> QED
  BY <1>1, LogInvariance, PTL

(***************************************************************************)
(* A crash at any step brings back no completed operation but those whose  *)
(* completion cleanEnqueueLog has yet to log again, and those an earlier   *)
(* crash left in the temporary file.                                       *)
(***************************************************************************)
THEOREM CompletedNotRevived == Spec => []NothingRevived
<1>1. LogInv => NothingRevived
  BY RevivedNow, Zenon
<1> QED
  BY <1>1, LogInvariance, PTL
===============================================================================
