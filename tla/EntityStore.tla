---------------------------- MODULE EntityStore ----------------------------
(***************************************************************************)
(* What the entity operations promise to their callers: the committed rows *)
(* of one table, and for every operation asked for exactly one indivisible *)
(* step that answers it.  Either the operation is performed - with all     *)
(* columns and lobs of the entity that was passed, on the one row its      *)
(* primary key names - or it is rejected and the table is as before.       *)
(***************************************************************************)
EXTENDS Entities

CONSTANTS Thread, None      \* None: the thread has no operation to be answered

VARIABLES rows, request

Init ==
    /\ rows = [k \in Key |-> NoRow]
    /\ request = [t \in Thread |-> None]

Request(t, op, e) ==
    /\ request[t] = None
    /\ request' = [request EXCEPT ![t] = Asked(op, e)]
    /\ UNCHANGED rows

\* A generated id is one no row has; a null in a key is never accepted.
Insert(t) ==
    \E k \in Key :
        /\ request[t].op = "insert"
        /\ ~Sequenced => k = request[t].e.id
        /\ rows[k] = NoRow
        /\ rows' = [rows EXCEPT ![k] = InsertedRow(request[t].e)]

\* Nothing happens, and nothing is reported, if the row does not exist.
Update(t) ==
    LET k == request[t].e.id IN
    /\ request[t].op = "update" /\ k \in Key
    /\ rows' = IF rows[k] = NoRow THEN rows
               ELSE [rows EXCEPT ![k] = UpdatedRow(request[t].e, @)]

\* delete compares a null key column too, which no row satisfies.
Delete(t) ==
    LET k == request[t].e.id IN
    /\ request[t].op \in {"delete", "deleteById"}
    /\ \/ k \in Key /\ rows' = [rows EXCEPT ![k] = NoRow]
       \/ k \notin Key /\ request[t].op = "delete" /\ UNCHANGED rows

Perform(t) ==
    /\ request[t] # None
    /\ Insert(t) \/ Update(t) \/ Delete(t)
    /\ request' = [request EXCEPT ![t] = None]

Reject(t) ==
    /\ request[t] # None
    /\ request' = [request EXCEPT ![t] = None]
    /\ UNCHANGED rows

Next ==
    \E t \in Thread :
        \/ \E op \in Operation, e \in Entity : Request(t, op, e)
        \/ Perform(t)
        \/ Reject(t)

Spec == Init /\ [][Next]_<<rows, request>>

=============================================================================
