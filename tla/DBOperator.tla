----------------------------- MODULE DBOperator -----------------------------
(***************************************************************************)
(* insert, update, delete and deleteById of                                *)
(* basemvc/persistence/db/DBOperator.java on one mapped table, statement   *)
(* by statement: an entity with lob columns takes several SQL statements   *)
(* (the row with placeholders, then one statement per lob), and an insert  *)
(* with a sequence reads the sequence first.                               *)
(*                                                                         *)
(* Every thread has a connection of its own.  The threads in Transactional *)
(* run inside the REQUIRED advice of applicationContext-transaction.xml    *)
(* (service methods named add, delete or update), where Spring commits     *)
(* after the method returned and rolls back on any exception; others run   *)
(* under SUPPORTS with an auto-committing connection.  The database is     *)
(* external: row locks held to the end of the transaction, statements that *)
(* see committed rows and the transaction's own writes, and any statement  *)
(* may raise SQLException.  A transaction is one operation here: service    *)
(* methods that call several DAO methods are not modelled.                 *)
(***************************************************************************)
EXTENDS Entities

CONSTANTS
    Thread, Transactional,
    DbType,         \* DBOption: "ORACLE", "SQLSERVER" or "MYSQL"
    Placeholder,    \* empty_blob(), empty_clob(), 0 or ' ' put before the lob
    NoWrite,        \* this row is not written by the transaction
    None,           \* no operation
    Ids,            \* ids callers pass
    ReadIds,        \* TRUE: callers update and delete only rows they have read
    MaxCalls        \* bound: operations started in one behaviour

Row == [col : Value \cup {Null},
        lob : [Lobs -> Value \cup {Null, Empty, Placeholder}]]

ASSUME ConstantsAssumption ==
    /\ Transactional \subseteq Thread
    /\ DbType \in {"ORACLE", "SQLSERVER", "MYSQL"}
    /\ Ids \subseteq IdArgument
    /\ ReadIds \in BOOLEAN
    /\ MaxCalls \in Nat

ASSUME TokensAssumption ==
    /\ Placeholder \notin Value \cup {Null, Empty}
    /\ NoRow # NoWrite /\ NoRow \notin Row /\ NoWrite \notin Row
    /\ None \notin [op : Operation, e : Entity]

VARIABLES
    rows,           \* the committed table
    writes,         \* writes[t][k]: uncommitted write of t on row k, and its lock
    call,           \* call[t]: the operation t is executing
    nextval,        \* next value of the table's sequence
    calls           \* operations started so far

vars == <<rows, writes, call, nextval, calls>>

\* A thread between two operations, and one that is executing op on entity e:
\* before its first statement, reading the sequence done, with the lobs in todo
\* still to be written, or with all its statements executed.
Idle == [pc |-> "idle"]

Busy == [pc : {"start", "insert", "lob", "return"},
         op : Operation, e : Entity, todo : SUBSET Lobs]

NoWrites == [k \in Key |-> NoWrite]

Init ==
    /\ rows = [k \in Key |-> NoRow]
    /\ writes = [t \in Thread |-> NoWrites]
    /\ call = [t \in Thread |-> Idle]
    /\ nextval = 1
    /\ calls = 0

-----------------------------------------------------------------------------
(* The database, as the operations use it. *)

\* w laid over the table r.
Overlay(w, r) == [k \in Key |-> IF w[k] = NoWrite THEN r[k] ELSE w[k]]

\* What a statement of t sees: committed rows and its own transaction's writes.
View(t) == Overlay(writes[t], rows)

\* No other transaction holds the lock of a row in S.
Unlocked(t, S) == \A u \in Thread \ {t} : \A k \in S : writes[u][k] = NoWrite

\* A write statement of t: part of the transaction, or committed by itself.
Write(t, w) ==
    IF t \in Transactional
    THEN /\ writes' = [writes EXCEPT ![t] = Overlay(w, @)]
         /\ UNCHANGED rows
    ELSE /\ rows' = Overlay(w, rows)
         /\ UNCHANGED writes

-----------------------------------------------------------------------------
(* The statements DBOperator builds. *)

\* Mutant: the key columns joined with or.
WhereAny(id) == {k \in Key : \E c \in IdColumns : id[c] # Null /\ k[c] = id[c]}

\* The where clause of update, deleteById and updateLob: the loader that
\* collects the key columns drops the null ones, so the rest still selects.
Where(id) == {k \in Key : \A c \in IdColumns : id[c] # Null => k[c] = id[c]}

\* The where clause of delete compares every key column, and nothing is = NULL.
WhereAll(id) == {k \in Key : k = id}

Target(t) ==
    IF call[t].op = "delete" THEN WhereAll(call[t].e.id) ELSE Where(call[t].e.id)

\* The rows a statement of t finds.
Matched(t) == {k \in Target(t) : View(t)[k] # NoRow}

AllNull(id) == \A c \in IdColumns : id[c] = Null

\* Arguments the operation throws on before it has sent any statement: no key
\* column left, nothing to set, a null lob for MySQL, a sequence outside Oracle.
Refused(op, e) ==
    \/ op \in {"update", "deleteById"} /\ AllNull(e.id)
    \/ op = "update" /\ e.col = Null /\ \A l \in Lobs : e.lob[l] = Null
    \/ op = "insert" /\ DbType = "MYSQL" /\ \E l \in Lobs : e.lob[l] = Null
    \/ op = "insert" /\ Sequenced /\ DbType # "ORACLE"

\* Lobs written by statements of their own; MySQL takes them in the first one.
Deferred(op, e) ==
    IF DbType = "MYSQL" THEN {}
    ELSE {l \in Lobs : \/ op = "insert"
                       \/ op = "update" /\ e.lob[l] # Null}

\* The row after the first statement of an insert, and of an update.
FirstInsert(e) ==
    [col |-> e.col,
     lob |-> [l \in Lobs |-> IF l \in Deferred("insert", e)
                             THEN Placeholder ELSE Stored(e.lob[l])]]

FirstUpdate(e, r) ==
    [col |-> IF e.col = Null THEN r.col ELSE e.col,
     lob |-> [l \in Lobs |-> IF l \in Deferred("update", e) THEN Placeholder
                             ELSE IF e.lob[l] = Null THEN r.lob[l] ELSE e.lob[l]]]

\* The row after the statement that writes lob l.
PutLob(r, l, v) == [col |-> r.col, lob |-> [r.lob EXCEPT ![l] = v]]

-----------------------------------------------------------------------------
(* The operations. *)

Call(t) ==
    /\ call[t] = Idle /\ calls < MaxCalls
    /\ \E op \in Operation, id \in Ids,
          col \in Value \cup {Null}, lob \in [Lobs -> Value \cup {Null}] :
          /\ op \in {"delete", "deleteById"} => col = Null /\ \A l \in Lobs : lob[l] = Null
          /\ ReadIds /\ op # "insert" => \E k \in Where(id) : rows[k] # NoRow
          /\ call' = [call EXCEPT ![t] =
                [pc |-> "start", op |-> op, e |-> [id |-> id, col |-> col, lob |-> lob],
                 todo |-> {}]]
    /\ calls' = calls + 1
    /\ UNCHANGED <<rows, writes, nextval>>

\* Mutants: an exception that commits, and one that leaves the connection open.
AbortCommits(t) ==
    /\ call' = [call EXCEPT ![t] = Idle]
    /\ writes' = [writes EXCEPT ![t] = NoWrites]
    /\ rows' = View(t)
    /\ UNCHANGED <<nextval, calls>>

AbortKeepsLocks(t) ==
    /\ call' = [call EXCEPT ![t] = Idle]
    /\ UNCHANGED <<rows, writes, nextval, calls>>

\* The exception reaches the caller; Spring rolls a transaction back.  What an
\* auto-committing thread has already written stays.
Abort(t) ==
    /\ call' = [call EXCEPT ![t] = Idle]
    /\ writes' = [writes EXCEPT ![t] = NoWrites]
    /\ UNCHANGED <<rows, nextval, calls>>

Refuse(t) ==
    /\ call[t].pc = "start" /\ Refused(call[t].op, call[t].e)
    /\ Abort(t)

\* A statement, or the commit, raises SQLException.
Fail(t) ==
    /\ call[t] # Idle /\ (call[t].pc = "start" => ~Refused(call[t].op, call[t].e))
    /\ Abort(t)

\* Mutant: CURRVAL for NEXTVAL.
CurrVal(t) ==
    /\ Sequenced /\ call[t].pc = "start" /\ call[t].op = "insert"
    /\ ~Refused("insert", call[t].e)
    /\ nextval \in IdValue
    /\ call' = [call EXCEPT ![t].pc = "insert",
                            ![t].e.id = [c \in IdColumns |-> nextval]]
    /\ UNCHANGED <<rows, writes, nextval, calls>>

\* getSeqNextValue: the sequence is outside transactions, and the entity has
\* its id from here on.
NextVal(t) ==
    /\ Sequenced /\ call[t].pc = "start" /\ call[t].op = "insert"
    /\ ~Refused("insert", call[t].e)
    /\ nextval \in IdValue
    /\ nextval' = nextval + 1
    /\ call' = [call EXCEPT ![t].pc = "insert",
                            ![t].e.id = [c \in IdColumns |-> nextval]]
    /\ UNCHANGED <<rows, writes, calls>>

\* Mutant: the loop over the clobs left out.
AfterFirstBlobs(t) ==
    LET rest == Deferred(call[t].op, call[t].e) \ Clobs
    IN call' = [call EXCEPT ![t].pc = IF rest = {} THEN "return" ELSE "lob",
                            ![t].todo = rest]

\* The first statement of an operation is done.
AfterFirst(t) ==
    LET rest == Deferred(call[t].op, call[t].e)
    IN call' = [call EXCEPT ![t].pc = IF rest = {} THEN "return" ELSE "lob",
                            ![t].todo = rest]

InsertRow(t) ==
    LET k == call[t].e.id IN
    /\ call[t].pc = IF Sequenced THEN "insert" ELSE "start"
    /\ call[t].op = "insert"
    /\ ~Refused("insert", call[t].e)
    /\ k \in Key /\ Unlocked(t, {k}) /\ View(t)[k] = NoRow
    /\ Write(t, [NoWrites EXCEPT ![k] = FirstInsert(call[t].e)])
    /\ AfterFirst(t)
    /\ UNCHANGED <<nextval, calls>>

\* The database refuses the row: a null key column or a key that exists.
ConstraintViolation(t) ==
    LET k == call[t].e.id IN
    /\ call[t].pc = IF Sequenced THEN "insert" ELSE "start"
    /\ call[t].op = "insert"
    /\ ~Refused("insert", call[t].e)
    /\ k \in Key => Unlocked(t, {k}) /\ View(t)[k] # NoRow
    /\ Abort(t)

UpdateRows(t) ==
    /\ call[t].pc = "start" /\ call[t].op = "update"
    /\ ~Refused("update", call[t].e)
    /\ Unlocked(t, Matched(t))
    /\ Write(t, [k \in Key |-> IF k \in Matched(t)
                               THEN FirstUpdate(call[t].e, View(t)[k]) ELSE NoWrite])
    /\ AfterFirst(t)
    /\ UNCHANGED <<nextval, calls>>

DeleteRows(t) ==
    /\ call[t].pc = "start" /\ call[t].op \in {"delete", "deleteById"}
    /\ ~Refused(call[t].op, call[t].e)
    /\ Unlocked(t, Matched(t))
    /\ Write(t, [k \in Key |-> IF k \in Matched(t) THEN NoRow ELSE NoWrite])
    /\ AfterFirst(t)
    /\ UNCHANGED <<nextval, calls>>

\* updateLob, one lob at a time, blobs first: it selects the rows of the key,
\* and writes the lob of the first one only (if there is any left).
WriteLob(t) ==
    /\ call[t].pc = "lob"
    /\ \E l \in call[t].todo :
        /\ (l \in Clobs => call[t].todo \cap Blobs = {})
        /\ Unlocked(t, Matched(t))
        /\ \/ Matched(t) = {} /\ UNCHANGED <<rows, writes>>
           \/ \E k \in Matched(t) :
                 Write(t, [NoWrites EXCEPT ![k] =
                              PutLob(View(t)[k], l, Stored(call[t].e.lob[l]))])
        /\ call' = [call EXCEPT ![t].todo = @ \ {l},
                                ![t].pc = IF call[t].todo = {l} THEN "return" ELSE "lob"]
        /\ UNCHANGED <<nextval, calls>>

\* Mutant: the transaction's writes taken for the table.
ReturnWrites(t) ==
    /\ call[t].pc = "return"
    /\ rows' = writes[t]
    /\ writes' = [writes EXCEPT ![t] = NoWrites]
    /\ call' = [call EXCEPT ![t] = Idle]
    /\ UNCHANGED <<nextval, calls>>

\* The operation returns to the service method, which returns, and Spring
\* commits; without a transaction nothing is left to commit.
Return(t) ==
    /\ call[t].pc = "return"
    /\ rows' = View(t)
    /\ writes' = [writes EXCEPT ![t] = NoWrites]
    /\ call' = [call EXCEPT ![t] = Idle]
    /\ UNCHANGED <<nextval, calls>>

Statement(t) ==
    \/ NextVal(t) \/ InsertRow(t) \/ ConstraintViolation(t)
    \/ UpdateRows(t) \/ DeleteRows(t) \/ WriteLob(t)

Step(t) == Refuse(t) \/ Statement(t) \/ Return(t)

Next == \E t \in Thread : Call(t) \/ Step(t) \/ Fail(t)

Spec == Init /\ [][Next]_vars

\* A thread that can execute its next statement does.
FairSpec == Spec /\ \A t \in Thread : WF_vars(Step(t))

-----------------------------------------------------------------------------
(* What must hold. *)

\* The table holds rows, a transaction its own writes, a thread one operation.
TypeOK ==
    /\ rows \in [Key -> Row \cup {NoRow}]
    /\ writes \in [Thread -> [Key -> Row \cup {NoRow, NoWrite}]]
    /\ call \in [Thread -> Busy \cup {Idle}]
    /\ nextval \in Nat
    /\ calls \in 0..MaxCalls

\* What the threads have asked of the store, seen from EntityStore.
Requests ==
    [t \in Thread |-> IF call[t] = Idle THEN None ELSE Asked(call[t].op, call[t].e)]

Store == INSTANCE EntityStore WITH request <- Requests

\* With every caller inside a transaction and every key complete, the table
\* everybody reads changes by whole operations of DBOperator: several
\* statements, their failures and their interleavings with other threads never
\* show.
ImplementsStore == Store!Spec

Inserting(t) == call[t] # Idle /\ call[t].op = "insert" /\ call[t].pc # "start"

\* An insert with a sequence (DBHelper.getSeqNextValue) never meets a row or
\* another insert with its id, however many threads insert, fail and roll back.
FreshIds ==
    Sequenced =>
        \A t, u \in Thread : Inserting(t) =>
            /\ u # t /\ Inserting(u) => call[u].e.id # call[t].e.id
            /\ call[t].pc = "insert" => /\ rows[call[t].e.id] = NoRow
                                        /\ writes[u][call[t].e.id] = NoWrite

\* A lob left as its placeholder in the table with nobody about to write it.
Unfinished(k, l) ==
    \E t \in Thread \ Transactional :
        call[t] # Idle /\ l \in call[t].todo /\ k \in Target(t)

Abandoned(k, l) ==
    rows[k] # NoRow /\ rows[k].lob[l] = Placeholder /\ ~Unfinished(k, l)

\* Outside a transaction a row can be left with the placeholder of a lob, but
\* only by a thread that got an exception between the statements of one
\* operation: never by the way operations of several threads interleave.
TornOnlyByFailure ==
    [][\A k \in Key, l \in Lobs :
          ~Abandoned(k, l) /\ Abandoned(k, l)' =>
              \E t \in Thread \ Transactional : call[t].pc = "lob" /\ Fail(t)]_vars

\* Row locks are always released: an operation that was called ends.
EveryCallEnds == \A t \in Thread : (call[t] # Idle) ~> (call[t] = Idle)

\* A statement of one operation changes the row of one key.
OneRowPerOperation ==
    [][\A j, k \in Key : rows'[j] # rows[j] /\ rows'[k] # rows[k] => j = k]_rows

\* DBOperator.java:1122 refuses a key with a null component ("primary key
\* column's value cannot be null"): no update or deleteById gets through with one.
NullKeyColumnRefused ==
    \A t \in Thread :
        call[t] # Idle /\ call[t].pc \in {"lob", "return"}
        /\ call[t].op \in {"update", "deleteById"}
            => \A c \in IdColumns : call[t].e.id[c] # Null

=============================================================================
