---------------------------- MODULE MessageTable ----------------------------
(***************************************************************************)
(* What the journal of a queue promises: a table of messages, in which     *)
(* each insertion and each deletion takes effect at once or not at all.    *)
(* An insertion does not replace a message; a crash keeps what took        *)
(* effect; only transient messages disappear by themselves, and only while *)
(* the journal is not open.                                                *)
(***************************************************************************)
EXTENDS Integers

CONSTANTS
    Ids,            \* message ids
    Sizes,          \* sizes of a message's content
    Transient,      \* ids of transient messages
    Workers         \* threads that call the journal

VARIABLES
    table,          \* the messages: an id and the size of the content
    request,        \* what each worker asked for, or None
    open            \* the journal can be used

None == [kind |-> "none", id |-> 0, size |-> 0]
Requests ==
    [kind : {"put"}, id : Ids, size : Sizes] \union [kind : {"remove"}, id : Ids, size : {0}]
Records == [id : Ids, size : Sizes]

Has(t, i) == \E r \in t : r.id = i
Insert(t, i, s) == IF Has(t, i) THEN t ELSE t \union {[id |-> i, size |-> s]}
Delete(t, i) == {r \in t : r.id # i}

Init ==
    /\ table = {}
    /\ request = [w \in Workers |-> None]
    /\ open = FALSE

Open == open = FALSE /\ open' = TRUE /\ UNCHANGED <<table, request>>

Ask(w, op) ==
    /\ open = TRUE /\ request[w] = None
    /\ request' = [request EXCEPT ![w] = op]
    /\ UNCHANGED <<table, open>>

Done(w) == request' = [request EXCEPT ![w] = None] /\ UNCHANGED open

Put(w) ==
    /\ request[w].kind = "put"
    /\ table' = Insert(table, request[w].id, request[w].size)
    /\ Done(w)

Remove(w) ==
    /\ request[w].kind = "remove"
    /\ table' = Delete(table, request[w].id)
    /\ Done(w)

Fail(w) == request[w] # None /\ Done(w) /\ UNCHANGED table

Drop(i) ==
    /\ open = FALSE /\ i \in Transient
    /\ table' = Delete(table, i)
    /\ UNCHANGED <<request, open>>

Crash ==
    /\ request' = [w \in Workers |-> None] /\ open' = FALSE
    /\ UNCHANGED table

Next ==
    \/ Open \/ Crash
    \/ \E w \in Workers :
        (\E op \in Requests : Ask(w, op)) \/ Put(w) \/ Remove(w) \/ Fail(w)
    \/ \E i \in Ids : Drop(i)

Spec == Init /\ [][Next]_<<table, request, open>>
===============================================================================
