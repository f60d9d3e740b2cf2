------------------------- MODULE DBOperator_proofs -------------------------
(***************************************************************************)
(* Proofs about DBOperator, for every set of threads, key columns, values  *)
(* and lobs: its types, the freshness of its ids, that it implements       *)
(* EntityStore, that an operation changes one row, and who leaves the      *)
(* placeholders of lobs.                                                   *)
(***************************************************************************)
EXTENDS DBOperator, TLAPS

Table == [Key -> Row \cup {NoRow}]

Changes == [Key -> Row \cup {NoRow, NoWrite}]

\* Laying writes over a table gives a table, over writes it gives writes.
LEMMA OverlayType ==
    ASSUME NEW w \in Changes
    PROVE  /\ \A r \in Table : Overlay(w, r) \in Table
           /\ \A r \in Changes : Overlay(w, r) \in Changes
BY DEF Overlay, Table, Changes

\* One write statement keeps the types of the table and of the writes.
LEMMA WriteType ==
    ASSUME TypeOK, NEW t \in Thread, NEW w \in Changes, Write(t, w)
    PROVE  rows' \in Table /\ writes' \in [Thread -> Changes]
<1>1. rows \in Table /\ writes \in [Thread -> Changes]
  BY DEF TypeOK, Table, Changes
<1>2. CASE t \in Transactional
  BY <1>1, <1>2, OverlayType DEF Write
<1>3. CASE t \notin Transactional
  BY <1>1, <1>3, OverlayType DEF Write
<1>4. QED
  BY <1>2, <1>3

\* The rows the first statements build are rows, the lobs left are lobs.
LEMMA FirstRowType ==
    ASSUME NEW e \in Entity
    PROVE  /\ FirstInsert(e) \in Row
           /\ \A r \in Row : FirstUpdate(e, r) \in Row
           /\ \A op \in Operation : Deferred(op, e) \in SUBSET Lobs
           /\ \A l \in Lobs : Stored(e.lob[l]) \in Value \cup {Null, Empty}
BY DEF Entity, FirstInsert, FirstUpdate, Row, Deferred, Stored

\* What a thread sees is a table, and what it matches are rows of it.
LEMMA ViewType ==
    ASSUME TypeOK, NEW t \in Thread, call[t] \in Busy
    PROVE  /\ View(t) \in Table
           /\ Matched(t) \subseteq Key
           /\ \A k \in Matched(t) : View(t)[k] \in Row
<1>1. View(t) \in Table
  BY OverlayType DEF TypeOK, View, Table, Changes
<1>2. Target(t) \subseteq Key
  BY DEF Target, Where, WhereAll
<1>3. QED
  BY <1>1, <1>2 DEF Matched, Table

\* The row updateLob leaves is a row.
LEMMA LobRowType ==
    ASSUME TypeOK, NEW t \in Thread, call[t] \in Busy, NEW l \in Lobs, NEW k \in Matched(t)
    PROVE  /\ k \in Key
           /\ PutLob(View(t)[k], l, Stored(call[t].e.lob[l])) \in Row
<1>1. call[t].e \in Entity
  BY DEF Busy
<1>2. Stored(call[t].e.lob[l]) \in Value \cup {Null, Empty}
  BY <1>1, FirstRowType
<1>3. View(t)[k] \in Row /\ k \in Key
  BY ViewType
<1>4. QED
  BY <1>1, <1>2, <1>3 DEF Row, PutLob

\* After its first statement a call is still a call.
LEMMA AfterFirstType ==
    ASSUME TypeOK, NEW t \in Thread, call[t] \in Busy, AfterFirst(t)
    PROVE  call' \in [Thread -> Busy \cup {Idle}]
<1> DEFINE rest == Deferred(call[t].op, call[t].e)
           pc == IF rest = {} THEN "return" ELSE "lob"
<1>1. call' = [call EXCEPT ![t] = [call[t] EXCEPT !.pc = pc, !.todo = rest]]
  BY DEF AfterFirst, TypeOK, Busy
<1>2. [call[t] EXCEPT !.pc = pc, !.todo = rest] \in Busy
  BY FirstRowType DEF Busy
<1>3. QED
  BY <1>1, <1>2 DEF TypeOK

\* Reading the sequence gives the entity its id, and changes nothing else of it.
LEMMA NextValCall ==
    ASSUME TypeOK, NEW t \in Thread, NextVal(t)
    PROVE  LET id == [c \in IdColumns |-> nextval]
               e  == [call[t].e EXCEPT !.id = id]
           IN /\ call[t] \in Busy /\ e \in Entity
              /\ [call[t] EXCEPT !.pc = "insert", !.e = e] \in Busy
              /\ call' = [call EXCEPT ![t] = [call[t] EXCEPT !.pc = "insert", !.e = e]]
              /\ call'[t] \in Busy /\ call[t].op = "insert"
              /\ call'[t].pc = "insert" /\ call'[t].op = "insert"
              /\ call'[t].e = e /\ call'[t].e.id = id
<1> DEFINE id == [c \in IdColumns |-> nextval]
           e  == [call[t].e EXCEPT !.id = id]
<1>1. call[t] \in Busy
  BY DEF NextVal, TypeOK, Idle
<1>2. id \in IdArgument
  BY DEF NextVal, IdArgument
<1>3. e \in Entity
  BY <1>1, <1>2 DEF Busy, Entity
<1>4. [call[t] EXCEPT !.pc = "insert", !.e = e] \in Busy
  BY <1>1, <1>3 DEF Busy
<1>5. call' = [call EXCEPT ![t] = [call[t] EXCEPT !.pc = "insert", !.e = e]]
  BY <1>1 DEF NextVal, TypeOK, Busy
<1>6. call'[t] = [call[t] EXCEPT !.pc = "insert", !.e = e]
  BY <1>5 DEF TypeOK
<1>7. call'[t].pc = "insert" /\ call'[t].op = call[t].op /\ call'[t].e = e
  BY <1>1, <1>6 DEF Busy
<1>8. e.id = id
  BY <1>1 DEF Busy, Entity
<1>9. call[t].op = "insert"
  BY DEF NextVal
<1>10. QED
  BY <1>1, <1>3, <1>4, <1>5, <1>6, <1>7, <1>8, <1>9

\* Every variable of DBOperator stays in its type: rows are whole or absent,
\* uncommitted writes and calls are well formed, whatever interleaves or fails.
THEOREM Typing == Spec => []TypeOK
<1>1. Init => TypeOK
  BY ConstantsAssumption DEF Init, TypeOK, NoWrites
<1>2. TypeOK /\ [Next]_vars => TypeOK'
  <2> SUFFICES ASSUME TypeOK, [Next]_vars
               PROVE  TypeOK'
    OBVIOUS
  <2>1. ASSUME NEW t \in Thread, Call(t)
        PROVE  TypeOK'
    BY <2>1, ConstantsAssumption DEF Call, TypeOK, Busy, Entity, Idle
  <2>2. ASSUME NEW t \in Thread, Abort(t)
        PROVE  TypeOK'
    BY <2>2 DEF Abort, TypeOK, NoWrites
  <2>3. ASSUME NEW t \in Thread, NextVal(t)
        PROVE  TypeOK'
    <3>1. call' \in [Thread -> Busy \cup {Idle}]
      BY <2>3, NextValCall DEF TypeOK
    <3>2. nextval' \in Nat /\ UNCHANGED <<rows, writes, calls>>
      BY <2>3 DEF NextVal, TypeOK
    <3>3. QED
      BY <3>1, <3>2 DEF TypeOK
  <2>4. ASSUME NEW t \in Thread, InsertRow(t)
        PROVE  TypeOK'
    <3>1. call[t] \in Busy
      BY <2>4 DEF InsertRow, TypeOK, Idle
    <3>2. [NoWrites EXCEPT ![call[t].e.id] = FirstInsert(call[t].e)] \in Changes
      BY <2>4, <3>1, FirstRowType DEF InsertRow, NoWrites, Changes, Busy
    <3>3. rows' \in Table /\ writes' \in [Thread -> Changes]
      BY <2>4, <3>2, WriteType DEF InsertRow
    <3>4. call' \in [Thread -> Busy \cup {Idle}]
      BY <2>4, <3>1, AfterFirstType DEF InsertRow
    <3>5. QED
      BY <2>4, <3>3, <3>4 DEF InsertRow, TypeOK, Table, Changes
  <2>5. ASSUME NEW t \in Thread, UpdateRows(t)
        PROVE  TypeOK'
    <3>1. call[t] \in Busy
      BY <2>5 DEF UpdateRows, TypeOK, Idle
    <3>2. [k \in Key |-> IF k \in Matched(t)
                         THEN FirstUpdate(call[t].e, View(t)[k]) ELSE NoWrite] \in Changes
      BY <3>1, FirstRowType, ViewType DEF Changes, Busy
    <3>3. rows' \in Table /\ writes' \in [Thread -> Changes]
      BY <2>5, <3>2, WriteType DEF UpdateRows
    <3>4. call' \in [Thread -> Busy \cup {Idle}]
      BY <2>5, <3>1, AfterFirstType DEF UpdateRows
    <3>5. QED
      BY <2>5, <3>3, <3>4 DEF UpdateRows, TypeOK, Table, Changes
  <2>6. ASSUME NEW t \in Thread, DeleteRows(t)
        PROVE  TypeOK'
    <3>1. call[t] \in Busy
      BY <2>6 DEF DeleteRows, TypeOK, Idle
    <3>2. [k \in Key |-> IF k \in Matched(t) THEN NoRow ELSE NoWrite] \in Changes
      BY DEF Changes
    <3>3. rows' \in Table /\ writes' \in [Thread -> Changes]
      BY <2>6, <3>2, WriteType DEF DeleteRows
    <3>4. call' \in [Thread -> Busy \cup {Idle}]
      BY <2>6, <3>1, AfterFirstType DEF DeleteRows
    <3>5. QED
      BY <2>6, <3>3, <3>4 DEF DeleteRows, TypeOK, Table, Changes
  <2>7. ASSUME NEW t \in Thread, WriteLob(t)
        PROVE  TypeOK'
    <3>1. call[t] \in Busy
      BY <2>7 DEF WriteLob, TypeOK, Idle
    <3>2. PICK l \in call[t].todo :
            /\ \/ UNCHANGED <<rows, writes>>
               \/ \E k \in Matched(t) :
                     Write(t, [NoWrites EXCEPT ![k] =
                        PutLob(View(t)[k], l, Stored(call[t].e.lob[l]))])
            /\ call' = [call EXCEPT ![t].todo = @ \ {l},
                         ![t].pc = IF call[t].todo = {l} THEN "return" ELSE "lob"]
            /\ UNCHANGED <<nextval, calls>>
      BY <2>7 DEF WriteLob
    <3>3. ASSUME NEW k \in Matched(t)
          PROVE  [NoWrites EXCEPT ![k] =
                    PutLob(View(t)[k], l, Stored(call[t].e.lob[l]))] \in Changes
      BY <3>1, <3>2, LobRowType DEF NoWrites, Changes, Busy
    <3>4. rows' \in Table /\ writes' \in [Thread -> Changes]
      BY <3>2, <3>3, WriteType DEF TypeOK, Table, Changes
    <3>5. call' \in [Thread -> Busy \cup {Idle}]
      <4>1. call' = [call EXCEPT ![t] = [call[t] EXCEPT !.todo = call[t].todo \ {l},
                       !.pc = IF call[t].todo = {l} THEN "return" ELSE "lob"]]
        BY <3>1, <3>2 DEF TypeOK, Busy
      <4>2. [call[t] EXCEPT !.todo = call[t].todo \ {l},
                !.pc = IF call[t].todo = {l} THEN "return" ELSE "lob"] \in Busy
        BY <3>1 DEF Busy
      <4>3. QED
        BY <4>1, <4>2 DEF TypeOK
    <3>6. QED
      BY <3>2, <3>4, <3>5 DEF TypeOK, Table, Changes
  <2>8. ASSUME NEW t \in Thread, Return(t)
        PROVE  TypeOK'
    <3>1. rows' \in Table
      BY <2>8, OverlayType DEF Return, View, TypeOK, Table, Changes
    <3>2. QED
      BY <2>8, <3>1 DEF Return, TypeOK, Table, NoWrites
  <2>9. ASSUME NEW t \in Thread, Refuse(t) \/ Fail(t) \/ ConstraintViolation(t)
        PROVE  Abort(t)
    BY <2>9 DEF Refuse, Fail, ConstraintViolation
  <2>10. CASE UNCHANGED vars
    BY <2>10 DEF vars, TypeOK
  <2>11. QED
    BY <2>1, <2>2, <2>3, <2>4, <2>5, <2>6, <2>7, <2>8, <2>9, <2>10
    DEF Next, Step, Statement
<1>3. QED
  BY <1>1, <1>2, PTL DEF Spec

-----------------------------------------------------------------------------
(* Sequence ids.  FreshIds is not inductive: that no row, write or other     *)
(* insert has the id needs every id in sight to be below the sequence.       *)

Below(k) == \A c \in IdColumns : k[c] < nextval

IdInv ==
    Sequenced =>
        /\ \A k \in Key : rows[k] # NoRow => Below(k)
        /\ \A t \in Thread, k \in Key : writes[t][k] # NoWrite => Below(k)
        /\ \A t \in Thread : Inserting(t) => call[t].e.id \in Key /\ Below(call[t].e.id)

\* A write statement leaves everything about the rows it does not write.
LEMMA WriteFrame ==
    ASSUME TypeOK, NEW t \in Thread, NEW w \in Changes, Write(t, w),
           NEW k \in Key, w[k] = NoWrite
    PROVE  rows'[k] = rows[k] /\ \A u \in Thread : writes'[u][k] = writes[u][k]
BY DEF Write, Overlay, TypeOK

\* The statements touch the rows they match, and an insert the row of its id.
LEMMA StatementElsewhere ==
    ASSUME TypeOK, NEW t \in Thread, NEW k \in Key,
           InsertRow(t) \/ UpdateRows(t) \/ DeleteRows(t) \/ WriteLob(t),
           k \notin Matched(t), ~(InsertRow(t) /\ k = call[t].e.id)
    PROVE  rows'[k] = rows[k] /\ \A u \in Thread : writes'[u][k] = writes[u][k]
<1>1. call[t] \in Busy
  BY DEF TypeOK, Idle, InsertRow, UpdateRows, DeleteRows, WriteLob
<1>2. CASE InsertRow(t)
  <2>1. [NoWrites EXCEPT ![call[t].e.id] = FirstInsert(call[t].e)] \in Changes
    BY <1>1, <1>2, FirstRowType DEF InsertRow, NoWrites, Changes, Busy
  <2>2. QED
    BY <1>2, <2>1, WriteFrame DEF InsertRow, NoWrites
<1>3. CASE UpdateRows(t)
  <2>1. [j \in Key |-> IF j \in Matched(t)
            THEN FirstUpdate(call[t].e, View(t)[j]) ELSE NoWrite] \in Changes
    BY <1>1, FirstRowType, ViewType DEF Changes, Busy
  <2>2. QED
    BY <1>3, <2>1, WriteFrame DEF UpdateRows
<1>4. CASE DeleteRows(t)
  <2>1. [j \in Key |-> IF j \in Matched(t) THEN NoRow ELSE NoWrite] \in Changes
    BY DEF Changes
  <2>2. QED
    BY <1>4, <2>1, WriteFrame DEF DeleteRows
<1>5. CASE WriteLob(t)
  <2>1. CASE UNCHANGED <<rows, writes>>
    BY <2>1
  <2>2. ASSUME NEW l \in Lobs, NEW j \in Matched(t),
               Write(t, [NoWrites EXCEPT ![j] =
                        PutLob(View(t)[j], l, Stored(call[t].e.lob[l]))])
        PROVE  rows'[k] = rows[k] /\ \A u \in Thread : writes'[u][k] = writes[u][k]
    <3>1. [NoWrites EXCEPT ![j] =
             PutLob(View(t)[j], l, Stored(call[t].e.lob[l]))] \in Changes
      BY <1>1, LobRowType DEF NoWrites, Changes
    <3>2. k # j
      OBVIOUS
    <3>3. QED
      BY <2>2, <3>1, <3>2, WriteFrame DEF NoWrites
  <2>3. call[t].todo \subseteq Lobs
    BY <1>1 DEF Busy
  <2>4. QED
    BY <1>5, <2>1, <2>2, <2>3 DEF WriteLob
<1>6. QED
  BY <1>2, <1>3, <1>4, <1>5

\* Rows a thread does not see are none that it matches.
LEMMA StatementFrame ==
    ASSUME TypeOK, NEW t \in Thread, NEW k \in Key,
           InsertRow(t) \/ UpdateRows(t) \/ DeleteRows(t) \/ WriteLob(t),
           View(t)[k] = NoRow, ~(InsertRow(t) /\ k = call[t].e.id)
    PROVE  rows'[k] = rows[k] /\ \A u \in Thread : writes'[u][k] = writes[u][k]
BY StatementElsewhere DEF Matched

\* A statement of t keeps every call, and t's operation and entity.
LEMMA StatementCalls ==
    ASSUME TypeOK, NEW t \in Thread,
           InsertRow(t) \/ UpdateRows(t) \/ DeleteRows(t) \/ WriteLob(t)
    PROVE  /\ nextval' = nextval
           /\ \A u \in Thread \ {t} : call'[u] = call[u]
           /\ call[t] \in Busy /\ call'[t] \in Busy
           /\ call'[t].op = call[t].op /\ call'[t].e = call[t].e
           /\ call'[t].pc \in {"lob", "return"}
<1>1. call[t] \in Busy
  BY DEF TypeOK, Idle, InsertRow, UpdateRows, DeleteRows, WriteLob
<1>2. CASE AfterFirst(t)
  <2>1. Deferred(call[t].op, call[t].e) \in SUBSET Lobs
    BY <1>1, FirstRowType DEF Busy
  <2>2. QED
    BY <1>1, <1>2, <2>1 DEF AfterFirst, TypeOK, Busy, InsertRow, UpdateRows, DeleteRows, WriteLob
<1>3. CASE WriteLob(t)
  <2>1. PICK l \in call[t].todo :
          call' = [call EXCEPT ![t].todo = @ \ {l},
                     ![t].pc = IF call[t].todo = {l} THEN "return" ELSE "lob"]
    BY <1>3 DEF WriteLob
  <2>2. call' = [call EXCEPT ![t] = [call[t] EXCEPT !.todo = call[t].todo \ {l},
                     !.pc = IF call[t].todo = {l} THEN "return" ELSE "lob"]]
    BY <1>1, <2>1 DEF TypeOK, Busy
  <2>3. [call[t] EXCEPT !.todo = call[t].todo \ {l},
             !.pc = IF call[t].todo = {l} THEN "return" ELSE "lob"] \in Busy
    BY <1>1 DEF Busy
  <2>4. nextval' = nextval
    BY <1>3 DEF WriteLob
  <2>5. QED
    BY <1>1, <2>2, <2>3, <2>4 DEF TypeOK, Busy
<1>4. QED
  BY <1>2, <1>3 DEF InsertRow, UpdateRows, DeleteRows

\* Ids handed out by the sequence are below its next value, and stay apart.
LEMMA IdsBelowSequence == Spec => [](IdInv /\ FreshIds)
<1>1. Init => IdInv /\ FreshIds
  BY DEF Init, IdInv, FreshIds, Inserting, NoWrites, Idle
<1>2. TypeOK /\ IdInv /\ FreshIds /\ [Next]_vars => IdInv' /\ FreshIds'
  <2> SUFFICES ASSUME TypeOK, IdInv, FreshIds, [Next]_vars, Sequenced
               PROVE  IdInv' /\ FreshIds'
    BY DEF IdInv, FreshIds
  <2>1. ASSUME NEW t \in Thread, Call(t)
        PROVE  IdInv' /\ FreshIds'
    <3>1. UNCHANGED <<rows, writes, nextval>> /\ ~Inserting(t)'
      BY <2>1 DEF Call, Inserting, TypeOK
    <3>2. \A u \in Thread \ {t} : call'[u] = call[u]
      BY <2>1 DEF Call, TypeOK
    <3>3. QED
      BY <3>1, <3>2 DEF IdInv, FreshIds, Inserting, Below
  <2>2. ASSUME NEW t \in Thread, Abort(t)
        PROVE  IdInv' /\ FreshIds'
    <3>1. UNCHANGED <<rows, nextval>> /\ ~Inserting(t)'
      BY <2>2 DEF Abort, Inserting, TypeOK
    <3>2. \A u \in Thread \ {t} : call'[u] = call[u] /\ writes'[u] = writes[u]
      BY <2>2 DEF Abort, TypeOK
    <3>3. \A k \in Key : writes'[t][k] = NoWrite
      BY <2>2 DEF Abort, TypeOK, NoWrites
    <3>4. QED
      BY <3>1, <3>2, <3>3 DEF IdInv, FreshIds, Inserting, Below
  <2>3. ASSUME NEW t \in Thread, NextVal(t)
        PROVE  IdInv' /\ FreshIds'
    <3>0. PICK n \in IdValue : n = nextval
      BY <2>3 DEF NextVal
    <3> DEFINE id == [c \in IdColumns |-> n]
    <3>1. UNCHANGED <<rows, writes>> /\ nextval' = nextval + 1 /\ nextval \in Nat
      BY <2>3 DEF NextVal, TypeOK
    <3>2. \A u \in Thread \ {t} : call'[u] = call[u]
      BY <2>3 DEF NextVal, TypeOK
    <3>3. Inserting(t)' /\ call'[t].e.id = id
      <4>1. call'[t] \in Busy /\ call'[t].pc = "insert" /\ call'[t].op = "insert"
        BY <2>3, NextValCall
      <4>2. call'[t].e.id = id
        BY <2>3, <3>0, NextValCall
      <4>3. QED
        BY <4>1, <4>2 DEF Inserting, Busy, Idle
    <3>4. id \in Key
      BY DEF Key
    <3>5. PICK c \in IdColumns : IdColumns = {c}
      BY SequenceAssumption
    <3>6. ~Below(id)
      BY <3>0, <3>1, <3>5 DEF Below
    <3>7. \A k \in Key : Below(k) => Below(k)'
      BY <3>1, SequenceAssumption DEF Below, Key
    <3>8. Below(id)'
      BY <3>0, <3>1 DEF Below
    <3>9. IdInv'
      BY <3>1, <3>2, <3>3, <3>4, <3>7, <3>8 DEF IdInv, Inserting
    <3>10. rows[id] = NoRow /\ \A u \in Thread : writes[u][id] = NoWrite
      BY <3>4, <3>6 DEF IdInv
    <3>11. \A u \in Thread \ {t} : Inserting(u) => call[u].e.id # id
      BY <3>6 DEF IdInv
    <3>12. QED
      BY <3>1, <3>2, <3>3, <3>9, <3>10, <3>11 DEF FreshIds, Inserting
  <2>4. ASSUME NEW t \in Thread,
               InsertRow(t) \/ UpdateRows(t) \/ DeleteRows(t) \/ WriteLob(t)
        PROVE  IdInv' /\ FreshIds'
    <3>1. nextval' = nextval /\ \A u \in Thread \ {t} : call'[u] = call[u]
      BY <2>4, StatementCalls
    <3>2. call[t] \in Busy /\ call'[t] \in Busy
      BY <2>4, StatementCalls
    <3>3. /\ call'[t].op = call[t].op /\ call'[t].e = call[t].e
          /\ call'[t].pc \in {"lob", "return"}
      BY <2>4, StatementCalls
    <3>4. call[t].op = "insert" => Inserting(t)
      BY <2>4, <3>2 DEF Inserting, Idle, Busy, InsertRow, UpdateRows, DeleteRows, WriteLob
    <3>5. Inserting(t)' => Inserting(t)
      BY <3>3, <3>4 DEF Inserting
    <3>6. InsertRow(t) => call[t].e.id \in Key /\ Inserting(t)
      BY <3>4 DEF InsertRow
    <3>7. \A k \in Key : View(t)[k] # NoRow => Below(k)
      BY DEF View, Overlay, IdInv
    <3>8. ASSUME NEW k \in Key, ~Below(k)
          PROVE  rows'[k] = rows[k] /\ \A u \in Thread : writes'[u][k] = writes[u][k]
      BY <2>4, <3>6, <3>7, <3>8, StatementFrame DEF IdInv
    <3>9. IdInv'
      BY <3>1, <3>3, <3>5, <3>8 DEF IdInv, Inserting, Below
    <3>10. ASSUME NEW u \in Thread \ {t}, Inserting(u), call[u].pc = "insert"
           PROVE  /\ rows'[call[u].e.id] = NoRow
                  /\ \A v \in Thread : writes'[v][call[u].e.id] = NoWrite
      <4>1. call[u].e.id \in Key
        BY <3>10 DEF IdInv
      <4>2. rows[call[u].e.id] = NoRow /\ \A v \in Thread : writes[v][call[u].e.id] = NoWrite
        BY <3>10 DEF FreshIds
      <4>3. View(t)[call[u].e.id] = NoRow
        BY <4>1, <4>2 DEF View, Overlay
      <4>4. InsertRow(t) => call[u].e.id # call[t].e.id
        BY <3>6, <3>10 DEF FreshIds
      <4>5. QED
        BY <2>4, <4>1, <4>2, <4>3, <4>4, StatementFrame
    <3>11. QED
      BY <3>1, <3>3, <3>5, <3>9, <3>10 DEF FreshIds, Inserting
  <2>5. ASSUME NEW t \in Thread, Return(t)
        PROVE  IdInv' /\ FreshIds'
    <3>1. nextval' = nextval /\ ~Inserting(t)'
      BY <2>5 DEF Return, Inserting, TypeOK
    <3>2. \A u \in Thread \ {t} : call'[u] = call[u] /\ writes'[u] = writes[u]
      BY <2>5 DEF Return, TypeOK
    <3>3. \A k \in Key : writes'[t][k] = NoWrite
      BY <2>5 DEF Return, TypeOK, NoWrites
    <3>4. \A k \in Key : rows'[k] = IF writes[t][k] = NoWrite THEN rows[k] ELSE writes[t][k]
      BY <2>5 DEF Return, View, Overlay
    <3>5. IdInv'
      BY <3>1, <3>2, <3>3, <3>4 DEF IdInv, Inserting, Below
    <3>6. QED
      BY <3>1, <3>2, <3>3, <3>4, <3>5 DEF FreshIds, Inserting, IdInv
  <2>6. ASSUME NEW t \in Thread, Refuse(t) \/ Fail(t) \/ ConstraintViolation(t)
        PROVE  Abort(t)
    BY <2>6 DEF Refuse, Fail, ConstraintViolation
  <2>7. CASE UNCHANGED vars
    BY <2>7 DEF vars, IdInv, FreshIds, Inserting, Below
  <2>8. QED
    BY <2>1, <2>2, <2>3, <2>4, <2>5, <2>6, <2>7 DEF Next, Step, Statement
<1>3. QED
  BY <1>1, <1>2, Typing, PTL DEF Spec

\* An insert that has read the sequence has an id nobody else has, and which
\* no row has until it writes its own: for every number of inserting threads.
THEOREM SequenceIdsFresh == Spec => []FreshIds
BY IdsBelowSequence, PTL

(***************************************************************************)
(* DBOperator implements EntityStore when every caller is inside a         *)
(* transaction, ids come from a sequence, and callers update and delete by *)
(* complete ids they have read.                                            *)
(***************************************************************************)

Disciplined == Transactional = Thread /\ Sequenced /\ ReadIds /\ Ids \subseteq Key

\* The row an operation has built so far, with the lobs in todo to come.
PartInsert(e, todo) ==
    [col |-> e.col,
     lob |-> [l \in Lobs |-> IF l \in todo THEN Placeholder ELSE Stored(e.lob[l])]]

PartUpdate(e, r, todo) ==
    [col |-> IF e.col = Null THEN r.col ELSE e.col,
     lob |-> [l \in Lobs |-> IF e.lob[l] = Null THEN r.lob[l]
                             ELSE IF l \in todo THEN Placeholder ELSE e.lob[l]]]

\* No two transactions write the same row.
Exclusive ==
    \A t, u \in Thread : t # u =>
        \A k \in Key : writes[t][k] = NoWrite \/ writes[u][k] = NoWrite

\* Before its first statement a call has written nothing.
Early(t) ==
    call[t].pc \in {"idle", "start", "insert"} => \A k \in Key : writes[t][k] = NoWrite

Late(t, ops) == call[t].pc \in {"lob", "return"} /\ call[t].op \in ops

\* After it, the transaction holds at most the row of its id.
Single(t) ==
    Late(t, Operation) => \A k \in Key : k # call[t].e.id => writes[t][k] = NoWrite

InsertPart(t) ==
    Late(t, {"insert"}) =>
        /\ rows[call[t].e.id] = NoRow
        /\ writes[t][call[t].e.id] = PartInsert(call[t].e, call[t].todo)

UpdatePart(t) ==
    Late(t, {"update"}) =>
        writes[t][call[t].e.id] =
            IF rows[call[t].e.id] = NoRow THEN NoWrite
            ELSE PartUpdate(call[t].e, rows[call[t].e.id], call[t].todo)

DeletePart(t) ==
    Late(t, {"delete", "deleteById"}) =>
        writes[t][call[t].e.id] =
            IF rows[call[t].e.id] = NoRow THEN NoWrite ELSE NoRow

\* The id of an update or delete is one that existed: nobody will insert it.
KnownId(t) ==
    call[t] # Idle /\ call[t].op # "insert" =>
        /\ call[t].e.id \in Key /\ Below(call[t].e.id)
        /\ \A u \in Thread : Inserting(u) => call[u].e.id # call[t].e.id

Todo(t) ==
    /\ call[t].pc = "return" => call[t].todo = {}
    /\ call[t].pc = "lob" => /\ call[t].op \in {"insert", "update"}
                             /\ call[t].op = "update" =>
                                   \A l \in call[t].todo : call[t].e.lob[l] # Null

AtomicInv ==
    /\ Exclusive
    /\ \A t \in Thread : /\ Early(t) /\ Single(t) /\ KnownId(t) /\ Todo(t)
                         /\ InsertPart(t) /\ UpdatePart(t) /\ DeletePart(t)

-----------------------------------------------------------------------------

\* A complete id selects the row it names and no other.
LEMMA CompleteId ==
    ASSUME NEW id \in Key
    PROVE  Where(id) = {id} /\ WhereAll(id) = {id}
<1>1. \A c \in IdColumns : id[c] # Null
  BY DataAssumption DEF Key
<1>2. ASSUME NEW k \in Key, \A c \in IdColumns : k[c] = id[c]
      PROVE  k = id
  BY <1>2 DEF Key
<1>3. QED
  BY <1>1, <1>2 DEF Where, WhereAll

LEMMA PartType ==
    ASSUME NEW e \in Entity, NEW todo \in SUBSET Lobs
    PROVE  /\ PartInsert(e, todo) \in Row
           /\ \A r \in Row : PartUpdate(e, r, todo) \in Row
BY DEF PartInsert, PartUpdate, Row, Entity, Stored

\* The first statements build the rows with all deferred lobs to come.
LEMMA FirstIsPart ==
    ASSUME NEW e \in Entity
    PROVE  /\ FirstInsert(e) = PartInsert(e, Deferred("insert", e))
           /\ \A r \in Row : FirstUpdate(e, r) = PartUpdate(e, r, Deferred("update", e))
BY DEF FirstInsert, FirstUpdate, PartInsert, PartUpdate, Deferred, Entity

\* Writing a lob is one lob less to come.
LEMMA LobStep ==
    ASSUME NEW e \in Entity, NEW todo \in SUBSET Lobs, NEW l \in todo
    PROVE  /\ PutLob(PartInsert(e, todo), l, Stored(e.lob[l]))
                  = PartInsert(e, todo \ {l})
           /\ e.lob[l] # Null => \A r \in Row :
                 PutLob(PartUpdate(e, r, todo), l, Stored(e.lob[l]))
                    = PartUpdate(e, r, todo \ {l})
<1> USE DEF Entity, Stored
<1>1. PutLob(PartInsert(e, todo), l, Stored(e.lob[l])) = PartInsert(e, todo \ {l})
  <2>1. [j \in Lobs |-> IF j \in todo \ {l} THEN Placeholder ELSE Stored(e.lob[j])]
           = [[j \in Lobs |-> IF j \in todo THEN Placeholder ELSE Stored(e.lob[j])]
                 EXCEPT ![l] = Stored(e.lob[l])]
    OBVIOUS
  <2>2. QED
    BY <2>1 DEF PartInsert, PutLob
<1>2. ASSUME e.lob[l] # Null, NEW r \in Row
      PROVE  PutLob(PartUpdate(e, r, todo), l, Stored(e.lob[l]))
                = PartUpdate(e, r, todo \ {l})
  <2>1. [j \in Lobs |-> IF e.lob[j] = Null THEN r.lob[j]
                        ELSE IF j \in todo \ {l} THEN Placeholder ELSE e.lob[j]]
           = [[j \in Lobs |-> IF e.lob[j] = Null THEN r.lob[j]
                              ELSE IF j \in todo THEN Placeholder ELSE e.lob[j]]
                 EXCEPT ![l] = Stored(e.lob[l])]
    BY <1>2
  <2>2. QED
    BY <2>1 DEF PartUpdate, PutLob
<1>3. QED
  BY <1>1, <1>2

\* With nothing to come the row is the one EntityStore promises.
LEMMA PartDone ==
    ASSUME NEW e
    PROVE  /\ PartInsert(e, {}) = InsertedRow(e)
           /\ \A r : PartUpdate(e, r, {}) = UpdatedRow(e, r)
BY DEF PartInsert, PartUpdate, InsertedRow, UpdatedRow

\* Inside a transaction a statement writes what the transaction will commit.
LEMMA WriteInTransaction ==
    ASSUME TypeOK, Disciplined, NEW t \in Thread, NEW w \in Changes, Write(t, w)
    PROVE  /\ rows' = rows
           /\ \A u \in Thread \ {t} : writes'[u] = writes[u]
           /\ \A k \in Key : writes'[t][k] = IF w[k] = NoWrite THEN writes[t][k] ELSE w[k]
BY DEF Write, Disciplined, TypeOK, Overlay

\* What is left of AtomicInv for the threads that did not take the step.
LEMMA OthersKeep ==
    ASSUME AtomicInv, rows' = rows, NEW t \in Thread,
           \A u \in Thread \ {t} : call'[u] = call[u] /\ writes'[u] = writes[u],
           NEW u \in Thread \ {t}
    PROVE  (Early(u) /\ Single(u) /\ Todo(u) /\ InsertPart(u) /\ UpdatePart(u) /\ DeletePart(u))'
BY DEF AtomicInv, Early, Single, Todo, InsertPart, UpdatePart, DeletePart, Late

\* What an update, delete or lob statement matches is at most the row of its id.
LEMMA MatchedId ==
    ASSUME NEW t \in Thread, call[t].e.id \in Key
    PROVE  Matched(t) = IF View(t)[call[t].e.id] = NoRow THEN {} ELSE {call[t].e.id}
BY CompleteId DEF Matched, Target

Asm == TypeOK /\ Disciplined /\ IdInv /\ FreshIds /\ AtomicInv

\* A statement that writes w, at most on the row of t's id, which nobody else
\* holds, keeps writes exclusive and single.
LEMMA StatementKeeps ==
    ASSUME Asm, NEW t \in Thread, NEW w \in Changes, Write(t, w),
           InsertRow(t) \/ UpdateRows(t) \/ DeleteRows(t) \/ WriteLob(t),
           call[t].e.id \in Key,
           \A k \in Key : w[k] # NoWrite =>
               k = call[t].e.id /\ \A u \in Thread \ {t} : writes[u][k] = NoWrite
    PROVE  /\ Exclusive' /\ Early(t)' /\ Single(t)'
           /\ rows' = rows
           /\ \A k \in Key : writes'[t][k] = IF w[k] = NoWrite THEN writes[t][k] ELSE w[k]
           /\ \A u \in Thread : KnownId(u)'
           /\ \A u \in Thread \ {t} :
                 (Early(u) /\ Single(u) /\ Todo(u)
                    /\ InsertPart(u) /\ UpdatePart(u) /\ DeletePart(u))'
<1>1. /\ rows' = rows
      /\ \A u \in Thread \ {t} : writes'[u] = writes[u]
      /\ \A k \in Key : writes'[t][k] = IF w[k] = NoWrite THEN writes[t][k] ELSE w[k]
  BY WriteInTransaction DEF Asm
<1>2. /\ nextval' = nextval
      /\ \A u \in Thread \ {t} : call'[u] = call[u]
      /\ call[t] \in Busy /\ call'[t] \in Busy
      /\ call'[t].op = call[t].op /\ call'[t].e = call[t].e
      /\ call'[t].pc \in {"lob", "return"}
  BY StatementCalls DEF Asm
<1>3. Exclusive'
  BY <1>1 DEF Asm, AtomicInv, Exclusive
<1>4. Early(t)'
  BY <1>2 DEF Early
<1>5. \A k \in Key : k # call[t].e.id => writes[t][k] = NoWrite
  BY <1>2 DEF Asm, AtomicInv, Early, Single, Late, Busy
<1>6. Single(t)'
  BY <1>1, <1>2, <1>5 DEF Single
<1>7. Inserting(t)' => Inserting(t)
  BY <1>2 DEF Inserting, Idle, Busy, InsertRow, UpdateRows, DeleteRows, WriteLob, Asm, Disciplined
<1>8. call[t] # Idle
  BY <1>2 DEF Busy, Idle, InsertRow, UpdateRows, DeleteRows, WriteLob
<1>9. \A u \in Thread : KnownId(u)'
  BY <1>2, <1>7, <1>8 DEF Asm, AtomicInv, KnownId, Inserting, Below
<1>10. \A u \in Thread \ {t} :
          (Early(u) /\ Single(u) /\ Todo(u)
             /\ InsertPart(u) /\ UpdatePart(u) /\ DeletePart(u))'
  BY <1>1, <1>2, OthersKeep DEF Asm
<1>11. QED
  BY <1>1, <1>3, <1>4, <1>6, <1>9, <1>10

LEMMA InsertKeeps ==
    ASSUME Asm, NEW t \in Thread, InsertRow(t)
    PROVE  AtomicInv'
<1> DEFINE id == call[t].e.id
           w  == [NoWrites EXCEPT ![id] = FirstInsert(call[t].e)]
<1>1. call[t] \in Busy /\ call[t].op = "insert" /\ call[t].pc = "insert"
  BY DEF InsertRow, Asm, Disciplined, TypeOK, Idle
<1>2. id \in Key /\ View(t)[id] = NoRow /\ Write(t, w) /\ AfterFirst(t)
  BY DEF InsertRow
<1>3. \A u \in Thread \ {t} : writes[u][id] = NoWrite
  BY DEF InsertRow, Unlocked
<1>4. call[t].e \in Entity /\ FirstInsert(call[t].e) \in Row
  BY <1>1, FirstRowType DEF Busy
<1>5. w \in Changes
  BY <1>2, <1>4 DEF NoWrites, Changes
<1>6. \A k \in Key : w[k] = IF k = id THEN FirstInsert(call[t].e) ELSE NoWrite
  BY <1>2 DEF NoWrites
<1>6a. \A k \in Key : w[k] # NoWrite =>
         k = call[t].e.id /\ \A u \in Thread \ {t} : writes[u][k] = NoWrite
  BY <1>3, <1>6
<1>7. /\ Exclusive' /\ Early(t)' /\ Single(t)' /\ rows' = rows
      /\ \A k \in Key : writes'[t][k] = IF w[k] = NoWrite THEN writes[t][k] ELSE w[k]
      /\ \A u \in Thread : KnownId(u)'
      /\ \A u \in Thread \ {t} :
            (Early(u) /\ Single(u) /\ Todo(u)
               /\ InsertPart(u) /\ UpdatePart(u) /\ DeletePart(u))'
  <2> HIDE DEF w, id
  <2>1. id = call[t].e.id
    BY DEF id
  <2>2. QED
    BY <1>2, <1>5, <1>6a, <2>1, StatementKeeps
<1>8. /\ call'[t].op = "insert" /\ call'[t].e = call[t].e
      /\ call'[t].todo = Deferred("insert", call[t].e)
      /\ call'[t].pc = IF Deferred("insert", call[t].e) = {} THEN "return" ELSE "lob"
  BY <1>1, <1>2 DEF AfterFirst, Asm, TypeOK, Busy
<1>9. rows[id] = NoRow
  BY <1>1, <1>2 DEF View, Overlay, Asm, AtomicInv, Early
<1>10. writes'[t][id] = PartInsert(call[t].e, Deferred("insert", call[t].e))
  BY <1>2, <1>4, <1>6, <1>7, FirstIsPart, TokensAssumption
<1>11. InsertPart(t)' /\ UpdatePart(t)' /\ DeletePart(t)' /\ Todo(t)'
  BY <1>7, <1>8, <1>9, <1>10 DEF InsertPart, UpdatePart, DeletePart, Todo, Late
<1>12. QED
  BY <1>7, <1>11 DEF AtomicInv

LEMMA UpdateKeeps ==
    ASSUME Asm, NEW t \in Thread, UpdateRows(t)
    PROVE  AtomicInv'
<1> DEFINE id == call[t].e.id
           w  == [k \in Key |-> IF k \in Matched(t)
                                THEN FirstUpdate(call[t].e, View(t)[k]) ELSE NoWrite]
<1>1. call[t] \in Busy /\ call[t].op = "update" /\ call[t].pc = "start" /\ call[t] # Idle
  BY DEF UpdateRows, Asm, TypeOK, Idle
<1>2. id \in Key /\ Write(t, w) /\ AfterFirst(t)
  BY <1>1 DEF UpdateRows, Asm, AtomicInv, KnownId
<1>3. Matched(t) = IF View(t)[id] = NoRow THEN {} ELSE {id}
  BY <1>2, MatchedId
<1>4. View(t)[id] = rows[id] /\ writes[t][id] = NoWrite
  BY <1>1, <1>2 DEF View, Overlay, Asm, AtomicInv, Early
<1>5. \A k \in Matched(t) : \A u \in Thread \ {t} : writes[u][k] = NoWrite
  BY DEF UpdateRows, Unlocked
<1>6. call[t].e \in Entity
  BY <1>1 DEF Busy
<1>7. rows[id] # NoRow => rows[id] \in Row
  BY <1>2 DEF Asm, TypeOK
<1>8. \A k \in Key : w[k] = IF k = id /\ rows[id] # NoRow
                            THEN FirstUpdate(call[t].e, rows[id]) ELSE NoWrite
  BY <1>2, <1>3, <1>4
<1>9. w \in Changes
  BY <1>2, <1>6, <1>7, <1>8, FirstRowType DEF Changes
<1>10. /\ Exclusive' /\ Early(t)' /\ Single(t)' /\ rows' = rows
       /\ \A k \in Key : writes'[t][k] = IF w[k] = NoWrite THEN writes[t][k] ELSE w[k]
       /\ \A u \in Thread : KnownId(u)'
       /\ \A u \in Thread \ {t} :
             (Early(u) /\ Single(u) /\ Todo(u)
                /\ InsertPart(u) /\ UpdatePart(u) /\ DeletePart(u))'
  BY <1>2, <1>3, <1>4, <1>5, <1>8, <1>9, StatementKeeps
<1>11. /\ call'[t].op = "update" /\ call'[t].e = call[t].e
       /\ call'[t].todo = Deferred("update", call[t].e)
       /\ call'[t].pc = IF Deferred("update", call[t].e) = {} THEN "return" ELSE "lob"
  BY <1>1, <1>2 DEF AfterFirst, Asm, TypeOK, Busy
<1>12. rows[id] # NoRow =>
         writes'[t][id] = PartUpdate(call[t].e, rows[id], Deferred("update", call[t].e))
  BY <1>2, <1>6, <1>7, <1>8, <1>10, FirstIsPart, FirstRowType, TokensAssumption
<1>13. rows[id] = NoRow => writes'[t][id] = NoWrite
  BY <1>2, <1>4, <1>8, <1>10
<1>14. \A l \in Deferred("update", call[t].e) : call[t].e.lob[l] # Null
  BY DEF Deferred
<1>15. InsertPart(t)' /\ UpdatePart(t)' /\ DeletePart(t)' /\ Todo(t)'
  BY <1>10, <1>11, <1>12, <1>13, <1>14 DEF InsertPart, UpdatePart, DeletePart, Todo, Late
<1>16. QED
  BY <1>10, <1>15 DEF AtomicInv

LEMMA DeleteKeeps ==
    ASSUME Asm, NEW t \in Thread, DeleteRows(t)
    PROVE  AtomicInv'
<1> DEFINE id == call[t].e.id
           w  == [k \in Key |-> IF k \in Matched(t) THEN NoRow ELSE NoWrite]
<1>1. /\ call[t] \in Busy /\ call[t].op \in {"delete", "deleteById"}
      /\ call[t].pc = "start" /\ call[t] # Idle
  BY DEF DeleteRows, Asm, TypeOK, Idle
<1>2. id \in Key /\ Write(t, w) /\ AfterFirst(t)
  BY <1>1 DEF DeleteRows, Asm, AtomicInv, KnownId
<1>3. Matched(t) = IF View(t)[id] = NoRow THEN {} ELSE {id}
  BY <1>2, MatchedId
<1>4. View(t)[id] = rows[id] /\ writes[t][id] = NoWrite
  BY <1>1, <1>2 DEF View, Overlay, Asm, AtomicInv, Early
<1>5. \A k \in Matched(t) : \A u \in Thread \ {t} : writes[u][k] = NoWrite
  BY DEF DeleteRows, Unlocked
<1>6. w \in Changes
  BY DEF Changes
<1>7. \A k \in Key : w[k] = IF k = id /\ rows[id] # NoRow THEN NoRow ELSE NoWrite
  BY <1>2, <1>3, <1>4
<1>8. /\ Exclusive' /\ Early(t)' /\ Single(t)' /\ rows' = rows
      /\ \A k \in Key : writes'[t][k] = IF w[k] = NoWrite THEN writes[t][k] ELSE w[k]
      /\ \A u \in Thread : KnownId(u)'
      /\ \A u \in Thread \ {t} :
            (Early(u) /\ Single(u) /\ Todo(u)
               /\ InsertPart(u) /\ UpdatePart(u) /\ DeletePart(u))'
  BY <1>2, <1>3, <1>4, <1>5, <1>6, <1>7, StatementKeeps
<1>9. Deferred(call[t].op, call[t].e) = {}
  BY <1>1 DEF Deferred
<1>10. /\ call'[t].op = call[t].op /\ call'[t].e = call[t].e
       /\ call'[t].todo = {} /\ call'[t].pc = "return"
  BY <1>1, <1>2, <1>9 DEF AfterFirst, Asm, TypeOK, Busy
<1>11. writes'[t][id] = IF rows[id] = NoRow THEN NoWrite ELSE NoRow
  BY <1>2, <1>4, <1>7, <1>8, TokensAssumption
<1>12. InsertPart(t)' /\ UpdatePart(t)' /\ DeletePart(t)' /\ Todo(t)'
  BY <1>1, <1>8, <1>10, <1>11 DEF InsertPart, UpdatePart, DeletePart, Todo, Late
<1>13. QED
  BY <1>8, <1>12 DEF AtomicInv

LEMMA LobKeeps ==
    ASSUME Asm, NEW t \in Thread, WriteLob(t)
    PROVE  AtomicInv'
<1> DEFINE id == call[t].e.id
           e  == call[t].e
<1>1. call[t] \in Busy /\ call[t].pc = "lob" /\ call[t] # Idle
  BY DEF WriteLob, Asm, TypeOK, Idle
<1>2. e \in Entity /\ call[t].todo \in SUBSET Lobs /\ call[t].op \in {"insert", "update"}
  BY <1>1 DEF Busy, Asm, AtomicInv, Todo
<1>3. id \in Key
  BY <1>1, <1>2 DEF Asm, AtomicInv, KnownId, IdInv, Inserting, Disciplined
<1>4. Matched(t) = IF View(t)[id] = NoRow THEN {} ELSE {id}
  BY <1>3, MatchedId
<1>5. PICK l \in call[t].todo :
        /\ Unlocked(t, Matched(t))
        /\ \/ Matched(t) = {} /\ UNCHANGED <<rows, writes>>
           \/ \E k \in Matched(t) :
                 Write(t, [NoWrites EXCEPT ![k] =
                              PutLob(View(t)[k], l, Stored(call[t].e.lob[l]))])
        /\ call' = [call EXCEPT ![t].todo = @ \ {l},
                     ![t].pc = IF call[t].todo = {l} THEN "return" ELSE "lob"]
        /\ UNCHANGED <<nextval, calls>>
  BY DEF WriteLob
<1>6. /\ call'[t].op = call[t].op /\ call'[t].e = e
      /\ call'[t].todo = call[t].todo \ {l}
      /\ call'[t].pc = IF call[t].todo = {l} THEN "return" ELSE "lob"
  BY <1>1, <1>5 DEF Asm, TypeOK, Busy
<1>7. Todo(t)'
  BY <1>2, <1>6, <1>1 DEF Todo, Asm, AtomicInv
<1>8. Late(t, {call[t].op}) /\ Late(t, Operation)
  BY <1>1, <1>2 DEF Late, Operation
<1>9. CASE View(t)[id] = NoRow
  <2>1. UNCHANGED <<rows, writes>>
    BY <1>4, <1>5, <1>9
  <2>2. \A u \in Thread \ {t} : call'[u] = call[u]
    BY <1>5 DEF Asm, TypeOK
  <2>3. call[t].op = "update" /\ rows[id] = NoRow /\ writes[t][id] = NoWrite
    <3>1. CASE call[t].op = "insert"
      <4>1. writes[t][id] = PartInsert(e, call[t].todo)
        BY <1>1, <3>1 DEF Asm, AtomicInv, InsertPart, Late
      <4>2. View(t)[id] \in Row
        BY <1>2, <1>3, <4>1, PartType, TokensAssumption DEF View, Overlay
      <4>3. QED
        BY <1>9, <4>2, TokensAssumption
    <3>2. CASE call[t].op = "update"
      <4>1. writes[t][id] = IF rows[id] = NoRow THEN NoWrite
                            ELSE PartUpdate(e, rows[id], call[t].todo)
        BY <1>1, <3>2 DEF Asm, AtomicInv, UpdatePart, Late
      <4>2. rows[id] # NoRow => writes[t][id] \in Row
        BY <1>2, <1>3, <4>1, PartType DEF Asm, TypeOK
      <4>3. rows[id] # NoRow => View(t)[id] \in Row
        BY <1>3, <4>2, TokensAssumption DEF View, Overlay
      <4>4. QED
        BY <1>9, <3>2, <4>1, <4>3, TokensAssumption
    <3>3. QED
      BY <1>2, <3>1, <3>2
  <2>4. Exclusive' /\ Early(t)' /\ Single(t)' /\ UpdatePart(t)' /\ InsertPart(t)' /\ DeletePart(t)'
    BY <1>1, <1>6, <2>1, <2>3
    DEF Asm, AtomicInv, Exclusive, Early, Single, UpdatePart, InsertPart, DeletePart, Late, Operation
  <2>5. \A u \in Thread : KnownId(u)'
    <3>1. ~Inserting(t)' /\ nextval' = nextval
      BY <1>5, <1>6, <2>3 DEF Inserting
    <3>2. \A u \in Thread : Inserting(u)' => Inserting(u) /\ call'[u].e = call[u].e
      BY <2>2, <3>1 DEF Inserting
    <3>3. KnownId(t)'
      BY <1>1, <1>6, <2>3, <3>1, <3>2 DEF Asm, AtomicInv, KnownId, Below
    <3>4. QED
      BY <2>2, <3>1, <3>2, <3>3 DEF Asm, AtomicInv, KnownId, Below
  <2>6. \A u \in Thread \ {t} :
           (Early(u) /\ Single(u) /\ Todo(u)
              /\ InsertPart(u) /\ UpdatePart(u) /\ DeletePart(u))'
    BY <2>1, <2>2, OthersKeep DEF Asm
  <2>7. QED
    BY <1>7, <2>4, <2>5, <2>6 DEF AtomicInv
<1>10. CASE View(t)[id] # NoRow
  <2> DEFINE w == [NoWrites EXCEPT ![id] = PutLob(View(t)[id], l, Stored(e.lob[l]))]
  <2>1. Write(t, w)
    BY <1>4, <1>5, <1>10
  <2>2. id \in Matched(t) /\ l \in Lobs
    BY <1>2, <1>4, <1>5, <1>10
  <2>3. PutLob(View(t)[id], l, Stored(e.lob[l])) \in Row
    BY <1>1, <2>2, LobRowType DEF Asm
  <2>4. \A k \in Key : w[k] = IF k = id THEN PutLob(View(t)[id], l, Stored(e.lob[l])) ELSE NoWrite
    BY <1>3 DEF NoWrites
  <2>5. w \in Changes
    BY <1>3, <2>3 DEF NoWrites, Changes
  <2>6. \A u \in Thread \ {t} : writes[u][id] = NoWrite
    BY <1>5, <2>2 DEF Unlocked
  <2>7. \A k \in Key : w[k] # NoWrite =>
           k = call[t].e.id /\ \A u \in Thread \ {t} : writes[u][k] = NoWrite
    BY <2>4, <2>6
  <2>8. /\ Exclusive' /\ Early(t)' /\ Single(t)' /\ rows' = rows
        /\ \A k \in Key : writes'[t][k] = IF w[k] = NoWrite THEN writes[t][k] ELSE w[k]
        /\ \A u \in Thread : KnownId(u)'
        /\ \A u \in Thread \ {t} :
              (Early(u) /\ Single(u) /\ Todo(u)
                 /\ InsertPart(u) /\ UpdatePart(u) /\ DeletePart(u))'
    <3> HIDE DEF w
    <3>1. QED
      BY <1>3, <2>1, <2>5, <2>7, StatementKeeps
  <2>9. writes'[t][id] = PutLob(View(t)[id], l, Stored(e.lob[l]))
    BY <1>3, <2>3, <2>4, <2>8, TokensAssumption
  <2>10. CASE call[t].op = "insert"
    <3>1. rows[id] = NoRow /\ writes[t][id] = PartInsert(e, call[t].todo)
      BY <1>1, <2>10 DEF Asm, AtomicInv, InsertPart, Late
    <3>2. View(t)[id] = PartInsert(e, call[t].todo)
      BY <1>2, <1>3, <3>1, PartType, TokensAssumption DEF View, Overlay
    <3>3. writes'[t][id] = PartInsert(e, call[t].todo \ {l})
      <4>1. PutLob(PartInsert(e, call[t].todo), l, Stored(e.lob[l]))
               = PartInsert(e, call[t].todo \ {l})
        BY <1>2, LobStep
      <4>2. QED
        BY <2>9, <3>2, <4>1
    <3>4. QED
      BY <1>6, <1>7, <2>8, <2>10, <3>1, <3>3
      DEF AtomicInv, InsertPart, UpdatePart, DeletePart, Late
  <2>11. CASE call[t].op = "update"
    <3>1. writes[t][id] = IF rows[id] = NoRow THEN NoWrite
                          ELSE PartUpdate(e, rows[id], call[t].todo)
      BY <1>1, <2>11 DEF Asm, AtomicInv, UpdatePart, Late
    <3>2. rows[id] # NoRow
      BY <1>3, <1>10, <3>1 DEF View, Overlay
    <3>3. rows[id] \in Row
      BY <1>3, <3>2 DEF Asm, TypeOK
    <3>4. View(t)[id] = PartUpdate(e, rows[id], call[t].todo)
      <4>1. PartUpdate(e, rows[id], call[t].todo) \in Row
        BY <1>2, <3>3, PartType
      <4>2. writes[t][id] # NoWrite
        BY <3>1, <3>2, <4>1, TokensAssumption
      <4>3. QED
        BY <1>3, <3>1, <3>2, <4>2 DEF View, Overlay
    <3>5. e.lob[l] # Null
      BY <1>1, <1>5, <2>11 DEF Asm, AtomicInv, Todo
    <3>6. writes'[t][id] = PartUpdate(e, rows[id], call[t].todo \ {l})
      <4>1. \A r \in Row : PutLob(PartUpdate(e, r, call[t].todo), l, Stored(e.lob[l]))
                             = PartUpdate(e, r, call[t].todo \ {l})
        <5> HIDE DEF e
        <5>1. QED
          BY <1>2, <3>5, LobStep
      <4>2. PutLob(PartUpdate(e, rows[id], call[t].todo), l, Stored(e.lob[l]))
               = PartUpdate(e, rows[id], call[t].todo \ {l})
        BY <3>3, <4>1
      <4>3. QED
        BY <2>9, <3>4, <4>2
    <3>7. UpdatePart(t)'
      BY <1>6, <2>8, <3>2, <3>6 DEF UpdatePart, Late
    <3>8. InsertPart(t)' /\ DeletePart(t)'
      BY <1>6, <2>11 DEF InsertPart, DeletePart, Late
    <3>9. QED
      BY <1>7, <2>8, <3>7, <3>8 DEF AtomicInv
  <2>12. QED
    BY <1>2, <2>10, <2>11
<1>11. QED
  BY <1>9, <1>10

\* Committing the row of t's id leaves the rows the others work on.
LEMMA CommitFrame ==
    ASSUME Asm, NEW t \in Thread, Return(t), NEW u \in Thread \ {t}, Late(u, Operation)
    PROVE  call[u].e.id \in Key /\ rows'[call[u].e.id] = rows[call[u].e.id]
<1> DEFINE k == call[u].e.id
<1>1. call[u] \in Busy /\ call[u] # Idle /\ call[u].op \in Operation
  BY DEF Asm, TypeOK, Late, Idle, Busy
<1>2. k \in Key
  BY <1>1 DEF Asm, AtomicInv, KnownId, IdInv, Inserting, Late, Disciplined, Operation
<1>3. CASE writes[t][k] = NoWrite
  BY <1>2, <1>3 DEF Return, View, Overlay
<1>4. CASE writes[t][k] # NoWrite
  <2>1. call[t] \in Busy /\ call[t].pc = "return" /\ Late(t, Operation) /\ call[t].op \in Operation
    BY DEF Return, Late, Asm, TypeOK, Idle, Busy
  <2>2. k = call[t].e.id
    BY <1>2, <1>4, <2>1 DEF Asm, AtomicInv, Single
  <2>3. writes[u][k] = NoWrite
    BY <1>2, <1>4 DEF Asm, AtomicInv, Exclusive
  <2>4. call[u].op # "insert"
    BY <1>1, <1>2, <2>3, PartType, TokensAssumption
    DEF Asm, AtomicInv, InsertPart, Late, Busy
  <2>5. call[t].op # "insert"
    BY <1>1, <2>1, <2>2, <2>4 DEF Asm, AtomicInv, KnownId, Inserting, Idle
  <2>6. rows[k] # NoRow
    BY <1>4, <2>1, <2>2, <2>5
    DEF Asm, AtomicInv, UpdatePart, DeletePart, Late, Operation
  <2>7. call[u].op = "update" => writes[u][k] = PartUpdate(call[u].e, rows[k], call[u].todo)
    BY <2>6 DEF Asm, AtomicInv, UpdatePart, Late
  <2>8. call[u].op \in {"delete", "deleteById"} => writes[u][k] = NoRow
    BY <2>6 DEF Asm, AtomicInv, DeletePart, Late
  <2>9. rows[k] \in Row
    BY <1>2, <2>6 DEF Asm, TypeOK
  <2>10. QED
    BY <1>1, <2>3, <2>4, <2>7, <2>8, <2>9, PartType, TokensAssumption DEF Operation, Busy
<1>5. QED
  BY <1>3, <1>4

LEMMA ReturnKeeps ==
    ASSUME Asm, NEW t \in Thread, Return(t)
    PROVE  AtomicInv'
<1>1. nextval' = nextval /\ call'[t] = Idle /\ \A k \in Key : writes'[t][k] = NoWrite
  BY DEF Return, Asm, TypeOK, NoWrites
<1>2. \A u \in Thread \ {t} : call'[u] = call[u] /\ writes'[u] = writes[u]
  BY DEF Return, Asm, TypeOK
<1>3. Exclusive'
  BY <1>1, <1>2 DEF Asm, AtomicInv, Exclusive
<1>4. /\ Early(t)' /\ Single(t)' /\ KnownId(t)' /\ Todo(t)'
      /\ InsertPart(t)' /\ UpdatePart(t)' /\ DeletePart(t)'
  BY <1>1 DEF Early, Single, KnownId, Todo, InsertPart, UpdatePart, DeletePart, Late, Idle
<1>5. ASSUME NEW u \in Thread \ {t}
      PROVE  Early(u)' /\ Single(u)' /\ KnownId(u)' /\ Todo(u)'
  <2>1. \A v \in Thread : Inserting(v)' => Inserting(v) /\ call'[v] = call[v]
    BY <1>1, <1>2 DEF Inserting
  <2>2. KnownId(u)'
    BY <1>1, <1>2, <2>1 DEF Asm, AtomicInv, KnownId, Below
  <2>3. QED
    BY <1>2, <2>2 DEF Asm, AtomicInv, Early, Single, Todo, Late
<1>6. ASSUME NEW u \in Thread \ {t}
      PROVE  InsertPart(u)' /\ UpdatePart(u)' /\ DeletePart(u)'
  <2>1. Late(u, Operation) => rows'[call[u].e.id] = rows[call[u].e.id]
    BY CommitFrame
  <2>2. QED
    BY <1>2, <2>1 DEF Asm, AtomicInv, InsertPart, UpdatePart, DeletePart, Late, Operation
<1>7. QED
  BY <1>3, <1>4, <1>5, <1>6 DEF AtomicInv

LEMMA AbortKeeps ==
    ASSUME Asm, NEW t \in Thread, Abort(t)
    PROVE  AtomicInv'
<1>1. /\ UNCHANGED <<rows, nextval>> /\ call'[t] = Idle
      /\ \A k \in Key : writes'[t][k] = NoWrite
  BY DEF Abort, Asm, TypeOK, NoWrites
<1>2. \A u \in Thread \ {t} : call'[u] = call[u] /\ writes'[u] = writes[u]
  BY DEF Abort, Asm, TypeOK
<1>3. Exclusive'
  BY <1>1, <1>2 DEF Asm, AtomicInv, Exclusive
<1>4. /\ Early(t)' /\ Single(t)' /\ KnownId(t)' /\ Todo(t)'
      /\ InsertPart(t)' /\ UpdatePart(t)' /\ DeletePart(t)'
  BY <1>1 DEF Early, Single, KnownId, Todo, InsertPart, UpdatePart, DeletePart, Late, Idle
<1>5. \A v \in Thread : Inserting(v)' => Inserting(v) /\ call'[v] = call[v]
  BY <1>1, <1>2 DEF Inserting
<1>6. \A u \in Thread \ {t} : KnownId(u)'
  BY <1>1, <1>2, <1>5 DEF Asm, AtomicInv, KnownId, Below
<1>7. \A u \in Thread \ {t} :
         (Early(u) /\ Single(u) /\ Todo(u)
            /\ InsertPart(u) /\ UpdatePart(u) /\ DeletePart(u))'
  BY <1>1, <1>2, OthersKeep DEF Asm
<1>8. QED
  BY <1>3, <1>4, <1>6, <1>7 DEF AtomicInv

\* A caller that updates or deletes names a row it has read: its id is known,
\* and whoever is inserting inserts under another one.
LEMMA CallKeeps ==
    ASSUME Asm, NEW t \in Thread, Call(t)
    PROVE  AtomicInv'
<1>1. /\ UNCHANGED <<rows, writes, nextval>> /\ call[t] = Idle
      /\ call'[t].pc = "start" /\ call'[t].e.id \in Key
      /\ call'[t].op # "insert" => rows[call'[t].e.id] # NoRow
  <2>1. \A id \in Ids : Where(id) = {id} /\ id \in Key
    BY CompleteId DEF Asm, Disciplined
  <2>2. ReadIds
    BY DEF Asm, Disciplined
  <2>3. QED
    BY <2>1, <2>2 DEF Call, Asm, TypeOK
<1>2. \A u \in Thread \ {t} : call'[u] = call[u]
  BY DEF Call, Asm, TypeOK
<1>3. \A k \in Key : writes[t][k] = NoWrite
  BY <1>1 DEF Asm, AtomicInv, Early, Idle
<1>4. \A u \in Thread : Inserting(u)' => u # t /\ Inserting(u)
  BY <1>1, <1>2 DEF Inserting
<1>5. \A u \in Thread : Inserting(u) => rows[call[u].e.id] = NoRow
  BY DEF Asm, AtomicInv, Inserting, InsertPart, Late, FreshIds, Disciplined, TypeOK, Busy
<1>6. KnownId(t)'
  BY <1>1, <1>2, <1>4, <1>5 DEF KnownId, Asm, IdInv, Disciplined, Below
<1>7. \A u \in Thread \ {t} : KnownId(u)'
  BY <1>1, <1>2, <1>4 DEF Asm, AtomicInv, KnownId, Below
<1>8. /\ Early(t)' /\ Single(t)' /\ Todo(t)'
      /\ InsertPart(t)' /\ UpdatePart(t)' /\ DeletePart(t)'
  BY <1>1, <1>3 DEF Early, Single, Todo, InsertPart, UpdatePart, DeletePart, Late
<1>9. \A u \in Thread \ {t} :
         (Early(u) /\ Single(u) /\ Todo(u)
            /\ InsertPart(u) /\ UpdatePart(u) /\ DeletePart(u))'
  BY <1>1, <1>2, OthersKeep DEF Asm
<1>10. Exclusive'
  BY <1>1 DEF Asm, AtomicInv, Exclusive
<1>11. QED
  BY <1>6, <1>7, <1>8, <1>9, <1>10 DEF AtomicInv

\* The id an insert takes from the sequence is none of the known ones.
LEMMA NextValKeeps ==
    ASSUME Asm, NEW t \in Thread, NextVal(t)
    PROVE  AtomicInv'
<1>0. PICK n \in IdValue : n = nextval
  BY DEF NextVal
<1> DEFINE id == [c \in IdColumns |-> n]
<1>1. UNCHANGED <<rows, writes>> /\ nextval' = nextval + 1 /\ nextval \in Nat
  BY DEF NextVal, Asm, TypeOK
<1>2. \A u \in Thread \ {t} : call'[u] = call[u]
  BY DEF NextVal, Asm, TypeOK
<1>3. /\ call[t].pc = "start" /\ call'[t].pc = "insert" /\ call'[t].op = "insert"
      /\ call'[t].e.id = id
  <2>1. TypeOK
    BY DEF Asm
  <2>2. call[t].pc = "start"
    BY DEF NextVal
  <2>3. QED
    BY <1>0, <2>1, <2>2, NextValCall
<1>4. PICK c \in IdColumns : IdColumns = {c}
  BY SequenceAssumption DEF Asm, Disciplined
<1>5. ~Below(id)
  BY <1>0, <1>1, <1>4 DEF Below
<1>6. \A k \in Key : Below(k) => Below(k)'
  BY <1>1, SequenceAssumption DEF Below, Key, Asm, Disciplined
<1>7. \A u \in Thread \ {t} : Inserting(u)' => Inserting(u)
  BY <1>2 DEF Inserting
<1>8. \A u \in Thread \ {t} : KnownId(u)'
  <2> HIDE DEF id
  <2>1. QED
    BY <1>2, <1>3, <1>5, <1>6, <1>7 DEF Asm, AtomicInv, KnownId
<1>9. /\ KnownId(t)' /\ Early(t)' /\ Single(t)' /\ Todo(t)'
      /\ InsertPart(t)' /\ UpdatePart(t)' /\ DeletePart(t)'
  BY <1>1, <1>3 DEF KnownId, Early, Single, Todo, InsertPart, UpdatePart, DeletePart,
                    Late, Asm, AtomicInv
<1>10. \A u \in Thread \ {t} :
          (Early(u) /\ Single(u) /\ Todo(u)
             /\ InsertPart(u) /\ UpdatePart(u) /\ DeletePart(u))'
  BY <1>1, <1>2, OthersKeep DEF Asm
<1>11. Exclusive'
  BY <1>1 DEF Asm, AtomicInv, Exclusive
<1>12. QED
  BY <1>8, <1>9, <1>10, <1>11 DEF AtomicInv

LEMMA AtomicInvariant == Disciplined => (Spec => []Asm)
<1>1. Disciplined /\ Init => AtomicInv
  BY DEF Init, AtomicInv, Exclusive, Early, Single, KnownId, Todo, InsertPart, UpdatePart,
         DeletePart, Late, Idle, NoWrites
<1>2. Asm /\ [Next]_vars => AtomicInv'
  <2> SUFFICES ASSUME Asm, [Next]_vars
               PROVE  AtomicInv'
    OBVIOUS
  <2>1. ASSUME NEW t \in Thread, Refuse(t) \/ Fail(t) \/ ConstraintViolation(t)
        PROVE  Abort(t)
    BY <2>1 DEF Refuse, Fail, ConstraintViolation
  <2>2. CASE UNCHANGED vars
    BY <2>2 DEF vars, Asm, AtomicInv, Exclusive, Early, Single, KnownId, Todo, InsertPart,
                UpdatePart, DeletePart, Late, Inserting, Below
  <2>3. QED
    BY <2>1, <2>2, CallKeeps, AbortKeeps, NextValKeeps, InsertKeeps, UpdateKeeps,
       DeleteKeeps, LobKeeps, ReturnKeeps DEF Next, Step, Statement
<1>3. SUFFICES ASSUME Disciplined
               PROVE  Spec => []Asm
  OBVIOUS
<1>4. Init /\ [][Next]_vars /\ []TypeOK /\ [](IdInv /\ FreshIds) => []Asm
  <2>1. TypeOK /\ IdInv /\ FreshIds /\ AtomicInv => Asm
    BY <1>3 DEF Asm
  <2>2. QED
    BY <1>1, <1>2, <1>3, <2>1, PTL
<1>5. QED
  BY <1>4, Typing, IdsBelowSequence, PTL DEF Spec

-----------------------------------------------------------------------------

\* What each step of DBOperator is in the table everybody sees.
LEMMA CallRequests ==
    ASSUME Asm, NEW t \in Thread, Call(t)
    PROVE  \E op \in Operation, e \in Entity : Store!Request(t, op, e)
<1>1. PICK op \in Operation, e \in Entity :
         call' = [call EXCEPT ![t] = [pc |-> "start", op |-> op, e |-> e, todo |-> {}]]
  <2>1. \A op \in Operation, id \in Ids, col \in Value \cup {Null},
            lob \in [Lobs -> Value \cup {Null}] :
            [id |-> id, col |-> col, lob |-> lob] \in Entity
    BY ConstantsAssumption DEF Entity
  <2>2. QED
    BY <2>1 DEF Call
<1>2. call[t] = Idle /\ rows' = rows /\ call'[t] # Idle
  BY <1>1 DEF Call, Idle, Asm, TypeOK
<1>3. Requests' = [Requests EXCEPT ![t] = Asked(op, e)]
  BY <1>1, <1>2 DEF Requests, Asm, TypeOK
<1>4. Requests[t] = None
  BY <1>2 DEF Requests
<1>5. QED
  BY <1>2, <1>3, <1>4 DEF Store!Request, Store!Asked, Asked, Store!NoId, NoId

\* What a busy thread asked for is an operation of EntityStore.
LEMMA BusyRequest ==
    ASSUME Asm, NEW t \in Thread, call[t] # Idle
    PROVE  Requests[t] = Asked(call[t].op, call[t].e) /\ Requests[t] # None
<1>1. call[t].op \in Operation /\ call[t].e \in Entity
  BY DEF Asm, TypeOK, Busy
<1>2. Asked(call[t].op, call[t].e) \in [op : Operation, e : Entity]
  BY <1>1 DEF Asked, Entity, NoId, IdArgument
<1>3. QED
  BY <1>2, TokensAssumption DEF Requests

LEMMA AbortRejects ==
    ASSUME Asm, NEW t \in Thread, call[t] # Idle, Abort(t)
    PROVE  Store!Reject(t)
<1>1. call' = [call EXCEPT ![t] = Idle] /\ rows' = rows
  BY DEF Abort
<1>2. Requests' = [Requests EXCEPT ![t] = None]
  BY <1>1 DEF Requests, Asm, TypeOK
<1>3. QED
  BY <1>1, <1>2, BusyRequest DEF Store!Reject

\* Statements inside a transaction, and reading the sequence, show nothing.
LEMMA StatementStutters ==
    ASSUME Asm, NEW t \in Thread,
           InsertRow(t) \/ UpdateRows(t) \/ DeleteRows(t) \/ WriteLob(t)
    PROVE  UNCHANGED <<rows, Requests>>
<1>1. /\ call[t] \in Busy /\ call'[t] \in Busy /\ call'[t].op = call[t].op
      /\ call'[t].e = call[t].e /\ \A u \in Thread \ {t} : call'[u] = call[u]
  BY StatementCalls DEF Asm
<1>2. call[t] # Idle /\ call'[t] # Idle
  BY <1>1, StatementCalls DEF Busy, Idle, InsertRow, UpdateRows, DeleteRows, WriteLob, Asm
<1>3. \A u \in Thread : (call'[u] = Idle <=> call[u] = Idle)
                         /\ (call[u] # Idle => call'[u].op = call[u].op /\ call'[u].e = call[u].e)
  BY <1>1, <1>2
<1>4. Requests' = Requests
  BY <1>3 DEF Requests
<1>5. rows' = rows
  BY DEF Asm, Disciplined, InsertRow, UpdateRows, DeleteRows, WriteLob, Write
<1>6. QED
  BY <1>4, <1>5

LEMMA NextValStutters ==
    ASSUME Asm, NEW t \in Thread, NextVal(t)
    PROVE  UNCHANGED <<rows, Requests>>
<1>1. PICK n \in IdValue : n = nextval
  BY DEF NextVal
<1> DEFINE id == [c \in IdColumns |-> n]
<1>2. /\ call[t] \in Busy /\ call[t] # Idle /\ call[t].op = "insert"
      /\ call'[t] # Idle /\ call'[t].op = "insert" /\ call'[t].e = [call[t].e EXCEPT !.id = id]
  <2>1. TypeOK
    BY DEF Asm
  <2>2. call[t] \in Busy /\ call'[t] \in Busy
    BY <2>1, NextValCall
  <2>3. /\ call[t].op = "insert" /\ call'[t].op = "insert"
        /\ call'[t].e = [call[t].e EXCEPT !.id = id]
    BY <1>1, <2>1, NextValCall
  <2>4. QED
    BY <2>2, <2>3 DEF Busy, Idle
<1>3. \A u \in Thread \ {t} : call'[u] = call[u]
  BY DEF NextVal, Asm, TypeOK
<1>4. Asked("insert", call'[t].e) = Asked("insert", call[t].e)
  <2>1. call[t].e \in Entity
    BY <1>2 DEF Busy
  <2>2. [[call[t].e EXCEPT !.id = id] EXCEPT !.id = NoId] = [call[t].e EXCEPT !.id = NoId]
    BY <2>1 DEF Entity
  <2>3. QED
    BY <1>2, <2>2 DEF Asked, Asm, Disciplined
<1>5. Requests' = Requests
  BY <1>2, <1>3, <1>4 DEF Requests
<1>6. QED
  BY <1>5 DEF NextVal

\* The commit performs what was asked for, all of it and nothing else.
LEMMA ReturnPerforms ==
    ASSUME Asm, NEW t \in Thread, Return(t)
    PROVE  Store!Perform(t)
<1> DEFINE e == call[t].e
           k == call[t].e.id
           r == Requests[t]
<1>1. /\ call[t] \in Busy /\ call[t] # Idle /\ call[t].op \in Operation
      /\ e \in Entity /\ call[t].todo = {}
  BY DEF Return, Idle, Asm, TypeOK, Busy, AtomicInv, Todo
<1>2. r = Asked(call[t].op, e) /\ r # None
  BY <1>1, BusyRequest
<1>3. r.op = call[t].op /\ r.e.col = e.col /\ r.e.lob = e.lob
      /\ (r.op # "insert" => r.e = e)
  BY <1>1, <1>2 DEF Asked, Entity
<1>4. k \in Key
  BY <1>1 DEF Asm, AtomicInv, KnownId, IdInv, Inserting, Disciplined, Return
<1>5. rows' = [j \in Key |-> IF j = k /\ writes[t][k] # NoWrite THEN writes[t][k] ELSE rows[j]]
  BY <1>1, <1>4 DEF Return, View, Overlay, Asm, AtomicInv, Single, Late
<1>6. rows \in Table
  BY DEF Asm, TypeOK, Table
<1>7. Requests' = [Requests EXCEPT ![t] = None]
  BY DEF Return, Requests, Asm, TypeOK
<1>8. CASE call[t].op = "insert"
  <2>1. rows[k] = NoRow /\ writes[t][k] = InsertedRow(e)
    BY <1>1, <1>8, PartDone DEF Asm, AtomicInv, InsertPart, Late, Return
  <2>2. InsertedRow(e) # NoWrite
    BY <1>1, PartType, PartDone, TokensAssumption
  <2>3. rows' = [rows EXCEPT ![k] = InsertedRow(e)]
    BY <1>4, <1>5, <1>6, <2>1, <2>2 DEF Table
  <2>4. Store!InsertedRow(r.e) = InsertedRow(e)
    BY <1>3 DEF Store!InsertedRow, InsertedRow, Store!Stored, Stored, Store!Lobs, Lobs
  <2>5. Store!Insert(t)
    BY <1>3, <1>4, <1>8, <2>1, <2>3, <2>4
    DEF Store!Insert, Store!Key, Key, Asm, Disciplined
  <2>6. QED
    BY <1>2, <1>7, <2>5 DEF Store!Perform
<1>9. CASE call[t].op = "update"
  <2>1. writes[t][k] = IF rows[k] = NoRow THEN NoWrite ELSE UpdatedRow(e, rows[k])
    BY <1>1, <1>9, PartDone DEF Asm, AtomicInv, UpdatePart, Late, Return
  <2>2. rows[k] # NoRow => UpdatedRow(e, rows[k]) # NoWrite
    BY <1>1, <1>4, <1>6, PartType, PartDone, TokensAssumption DEF Table
  <2>3. rows' = IF rows[k] = NoRow THEN rows ELSE [rows EXCEPT ![k] = UpdatedRow(e, rows[k])]
    BY <1>4, <1>5, <1>6, <2>1, <2>2 DEF Table
  <2>4. Store!UpdatedRow(r.e, rows[k]) = UpdatedRow(e, rows[k])
    BY <1>3 DEF Store!UpdatedRow, UpdatedRow, Store!Lobs, Lobs
  <2>5. r.op = "update" /\ r.e.id = k
    BY <1>3, <1>9
  <2>6. Store!Update(t)
    BY <1>4, <2>3, <2>4, <2>5 DEF Store!Update, Store!Key, Key
  <2>7. QED
    BY <1>2, <1>7, <2>6 DEF Store!Perform
<1>10. CASE call[t].op \in {"delete", "deleteById"}
  <2>1. writes[t][k] = IF rows[k] = NoRow THEN NoWrite ELSE NoRow
    BY <1>10 DEF Asm, AtomicInv, DeletePart, Late, Return
  <2>2. rows' = [rows EXCEPT ![k] = NoRow]
    BY <1>4, <1>5, <1>6, <2>1, TokensAssumption DEF Table
  <2>3. r.op \in {"delete", "deleteById"} /\ r.e.id = k
    BY <1>3, <1>10
  <2>4. Store!Delete(t)
    BY <1>4, <2>2, <2>3 DEF Store!Delete, Store!Key, Key
  <2>5. QED
    BY <1>2, <1>7, <2>4 DEF Store!Perform
<1>11. QED
  BY <1>1, <1>8, <1>9, <1>10 DEF Operation

\* Inside transactions, with generated ids and ids that were read, the several
\* statements of an operation are one step of the table everybody sees: it is
\* performed whole, on one row, or rejected without a trace.
THEOREM Atomicity == Disciplined => (Spec => ImplementsStore)
<1>1. Init => Store!Init
  BY DEF Init, Store!Init, Requests, Idle, Store!Key, Key
<1>2. Asm /\ [Next]_vars => [Store!Next]_<<rows, Requests>>
  <2> SUFFICES ASSUME Asm, [Next]_vars
               PROVE  [Store!Next]_<<rows, Requests>>
    OBVIOUS
  <2>1. ASSUME NEW t \in Thread, Call(t)
        PROVE  Store!Next
    BY <2>1, CallRequests
    DEF Store!Next, Store!Operation, Operation, Store!Entity, Entity, Store!IdArgument,
        IdArgument, Store!Lobs, Lobs
  <2>2. ASSUME NEW t \in Thread, Refuse(t) \/ Fail(t) \/ ConstraintViolation(t)
        PROVE  Store!Next
    <3>1. Abort(t) /\ call[t] # Idle
      BY <2>2 DEF Refuse, Fail, ConstraintViolation, Idle
    <3>2. QED
      BY <3>1, AbortRejects DEF Store!Next
  <2>3. ASSUME NEW t \in Thread, Return(t)
        PROVE  Store!Next
    BY <2>3, ReturnPerforms DEF Store!Next
  <2>4. CASE UNCHANGED vars
    BY <2>4 DEF vars, Requests
  <2>5. QED
    BY <2>1, <2>2, <2>3, <2>4, StatementStutters, NextValStutters
    DEF Next, Step, Statement
<1>3. QED
  BY <1>1, <1>2, AtomicInvariant, PTL DEF Spec, ImplementsStore, Store!Spec

-----------------------------------------------------------------------------
(* One row per operation, with transactions or without, with a sequence or   *)
(* without.  The commit writes what its transaction has written, so the      *)
(* invariant says where: on the row of its operation's id.                   *)

OneInv ==
    \A t \in Thread :
        /\ call[t] # Idle => call[t].e.id \in Key
        /\ \A k \in Key : writes[t][k] # NoWrite =>
               call[t] # Idle /\ call[t].pc \in {"lob", "return"} /\ k = call[t].e.id

\* With a complete id, a statement writes the row of its id or none.
LEMMA StatementOnId ==
    ASSUME TypeOK, OneInv, NEW t \in Thread, NEW k \in Key,
           InsertRow(t) \/ UpdateRows(t) \/ DeleteRows(t) \/ WriteLob(t),
           k # call[t].e.id
    PROVE  rows'[k] = rows[k] /\ \A u \in Thread : writes'[u][k] = writes[u][k]
<1>1. call[t].e.id \in Key
  BY DEF OneInv, Idle, InsertRow, UpdateRows, DeleteRows, WriteLob
<1>2. k \notin Matched(t)
  BY <1>1, MatchedId
<1>3. QED
  BY <1>2, StatementElsewhere

\* No statement leaves a write of another thread changed.
LEMMA StatementOthers ==
    ASSUME TypeOK, NEW t \in Thread,
           InsertRow(t) \/ UpdateRows(t) \/ DeleteRows(t) \/ WriteLob(t),
           NEW u \in Thread \ {t}
    PROVE  writes'[u] = writes[u]
BY DEF TypeOK, InsertRow, UpdateRows, DeleteRows, WriteLob, Write

LEMMA OneStep ==
    ASSUME Ids \subseteq Key, TypeOK, OneInv, [Next]_vars
    PROVE  OneInv'
<1>1. ASSUME NEW t \in Thread, Call(t)
      PROVE  OneInv'
  <2>1. /\ call[t] = Idle /\ call'[t].e.id \in Key
        /\ \A u \in Thread \ {t} : call'[u] = call[u]
        /\ writes' = writes
    BY <1>1 DEF Call, TypeOK
  <2>2. QED
    BY <2>1 DEF OneInv
<1>2. ASSUME NEW t \in Thread, Abort(t) \/ Return(t)
      PROVE  OneInv'
  <2>1. /\ call'[t] = Idle /\ \A k \in Key : writes'[t][k] = NoWrite
        /\ \A u \in Thread \ {t} : call'[u] = call[u] /\ writes'[u] = writes[u]
    BY <1>2 DEF Abort, Return, TypeOK, NoWrites
  <2>2. QED
    BY <2>1 DEF OneInv
<1>3. ASSUME NEW t \in Thread, NextVal(t)
      PROVE  OneInv'
  <2>1. call'[t].e.id = [c \in IdColumns |-> nextval] /\ nextval \in IdValue
    BY <1>3, NextValCall DEF NextVal
  <2>2. call'[t].e.id \in Key
    BY <2>1 DEF Key
  <2>3. /\ call[t].pc = "start" /\ writes' = writes
        /\ \A u \in Thread \ {t} : call'[u] = call[u]
    BY <1>3 DEF NextVal, TypeOK
  <2>4. QED
    BY <2>2, <2>3 DEF OneInv
<1>4. ASSUME NEW t \in Thread,
             InsertRow(t) \/ UpdateRows(t) \/ DeleteRows(t) \/ WriteLob(t)
      PROVE  OneInv'
  <2>1. /\ \A u \in Thread \ {t} : call'[u] = call[u]
        /\ call[t] \in Busy /\ call'[t] \in Busy /\ call'[t].e = call[t].e
        /\ call'[t].pc \in {"lob", "return"}
    BY <1>4, StatementCalls
  <2>2. call[t] # Idle /\ call'[t] # Idle /\ call[t].e.id \in Key
    BY <1>4, <2>1 DEF Busy, Idle, OneInv, InsertRow, UpdateRows, DeleteRows, WriteLob
  <2>3. \A k \in Key : k # call[t].e.id => writes'[t][k] = writes[t][k]
    BY <1>4, StatementOnId
  <2>4. \A u \in Thread \ {t} : writes'[u] = writes[u]
    BY <1>4, StatementOthers
  <2>5. \A k \in Key : writes'[t][k] # NoWrite => k = call'[t].e.id
    BY <2>1, <2>3 DEF OneInv
  <2>6. QED
    BY <2>1, <2>2, <2>4, <2>5 DEF OneInv
<1>5. CASE UNCHANGED vars
  BY <1>5 DEF vars, OneInv
<1>6. QED
  BY <1>1, <1>2, <1>3, <1>4, <1>5
  DEF Next, Step, Statement, Refuse, Fail, ConstraintViolation

\* While callers pass complete ids, what others see of a table changes in one
\* row at a time: neither a statement nor the commit of an operation of
\* DBOperator touches a second one, whatever interleaves or fails.
THEOREM OneRowAtATime ==
    ASSUME Ids \subseteq Key
    PROVE  Spec => OneRowPerOperation
<1>1. Init => OneInv
  BY DEF Init, OneInv, NoWrites
<1>2. TypeOK /\ OneInv /\ [Next]_vars => OneInv'
  BY OneStep
<1>3. TypeOK /\ OneInv /\ [Next]_vars =>
        [\A j, k \in Key : rows'[j] # rows[j] /\ rows'[k] # rows[k] => j = k]_rows
  <2> SUFFICES ASSUME TypeOK, OneInv, [Next]_vars,
                      NEW j \in Key, NEW k \in Key,
                      rows'[j] # rows[j], rows'[k] # rows[k]
               PROVE  j = k
    OBVIOUS
  <2>1. ASSUME NEW t \in Thread, Return(t)
        PROVE  j = k
    BY <2>1 DEF Return, View, Overlay, OneInv, TypeOK
  <2>2. ASSUME NEW t \in Thread,
               InsertRow(t) \/ UpdateRows(t) \/ DeleteRows(t) \/ WriteLob(t)
        PROVE  j = k
    BY <2>2, StatementOnId
  <2>3. PICK t \in Thread : Call(t) \/ Step(t) \/ Fail(t)
    BY DEF Next, vars
  <2>4. QED
    BY <2>1, <2>2, <2>3
    DEF Step, Statement, Refuse, Fail, ConstraintViolation, Abort, Call, NextVal
<1>4. QED
  BY <1>1, <1>2, <1>3, Typing, PTL DEF Spec, OneRowPerOperation

-----------------------------------------------------------------------------
(* Placeholders.  Outside a transaction one is in the table as long as its   *)
(* operation has the lob to write; inside, the transaction's copy of the row *)
(* has it for the same reason or because the table had it before.            *)

Torn(r, l) == r \notin {NoRow, NoWrite} /\ r.lob[l] = Placeholder

\* What t has still to write or found torn.
Accounted(t, k, l) == l \in call[t].todo \/ Torn(rows[k], l)

TornInv ==
    /\ Exclusive
    /\ \A t \in Thread : call[t] # Idle /\ call[t].pc # "lob" => call[t].todo = {}
    /\ \A t \in Thread \ Transactional, k \in Key : writes[t][k] = NoWrite
    /\ \A t \in Thread, k \in Key, l \in Lobs :
          Torn(writes[t][k], l) => Accounted(t, k, l)

\* A write w of t on its row: placeholders in it are accounted for, and a lob
\* that is no longer to be written is no placeholder if there is a row.
Writes(t, w) ==
    /\ Write(t, w)
    /\ \A k \in Key : w[k] # NoWrite =>
          k = call[t].e.id /\ \A u \in Thread \ {t} : writes[u][k] = NoWrite
    /\ \A l \in Lobs : Torn(w[call[t].e.id], l) =>
          l \in call'[t].todo \/ Torn(View(t)[call[t].e.id], l)
    /\ \A l \in call[t].todo \ call'[t].todo : View(t)[call[t].e.id] # NoRow =>
          w[call[t].e.id] # NoWrite /\ ~Torn(w[call[t].e.id], l)

\* What has to be written after the first statement.
LEMMA AfterFirstTodo ==
    ASSUME TypeOK, NEW t \in Thread, call[t] \in Busy, AfterFirst(t)
    PROVE  /\ call'[t].todo = Deferred(call[t].op, call[t].e)
           /\ call'[t].pc # "lob" => call'[t].todo = {}
BY DEF AfterFirst, TypeOK, Busy

LEMMA InsertWrites ==
    ASSUME TypeOK, OneInv, TornInv, NEW t \in Thread, InsertRow(t)
    PROVE  \E w \in Changes : Writes(t, w)
<1> DEFINE id == call[t].e.id
           w  == [NoWrites EXCEPT ![id] = FirstInsert(call[t].e)]
<1>1. call[t] \in Busy /\ call[t].op = "insert" /\ call[t].pc # "lob" /\ call[t] # Idle
  BY DEF InsertRow, TypeOK, Idle
<1>2. id \in Key /\ Write(t, w) /\ AfterFirst(t) /\ View(t)[id] = NoRow
  BY DEF InsertRow
<1>3. call[t].e \in Entity /\ FirstInsert(call[t].e) \in Row
  BY <1>1, FirstRowType DEF Busy
<1>4. w \in Changes /\ w[id] = FirstInsert(call[t].e)
      /\ \A k \in Key : w[k] # NoWrite => k = id
  BY <1>2, <1>3 DEF Changes, NoWrites
<1>5. \A u \in Thread \ {t} : writes[u][id] = NoWrite
  BY DEF InsertRow, Unlocked
<1>6. \A l \in Lobs : Torn(w[id], l) => l \in call'[t].todo
  <2>1. ASSUME NEW l \in Lobs, l \notin Deferred("insert", call[t].e)
        PROVE  FirstInsert(call[t].e).lob[l] # Placeholder
    BY <1>3, <2>1, FirstRowType, TokensAssumption DEF FirstInsert
  <2>2. QED
    BY <1>1, <1>2, <1>4, <2>1, AfterFirstTodo DEF Torn
<1>7. call[t].todo = {}
  BY <1>1 DEF TornInv
<1> HIDE DEF w
<1>8. Writes(t, w)
  BY <1>2, <1>4, <1>5, <1>6, <1>7 DEF Writes
<1>9. QED
  BY <1>4, <1>8

LEMMA UpdateWrites ==
    ASSUME TypeOK, OneInv, TornInv, NEW t \in Thread, UpdateRows(t)
    PROVE  \E w \in Changes : Writes(t, w)
<1> DEFINE id == call[t].e.id
           w  == [k \in Key |-> IF k \in Matched(t)
                                THEN FirstUpdate(call[t].e, View(t)[k]) ELSE NoWrite]
<1>1. call[t] \in Busy /\ call[t].op = "update" /\ call[t].pc = "start" /\ call[t] # Idle
  BY DEF UpdateRows, TypeOK, Idle
<1>2. id \in Key /\ Write(t, w) /\ AfterFirst(t)
  BY <1>1 DEF UpdateRows, OneInv
<1>3. Matched(t) = IF View(t)[id] = NoRow THEN {} ELSE {id}
  BY <1>2, MatchedId
<1>4. call[t].e \in Entity /\ \A r \in Row : FirstUpdate(call[t].e, r) \in Row
  BY <1>1, FirstRowType DEF Busy
<1>5. \A k \in Matched(t) : View(t)[k] \in Row
  BY <1>1, ViewType
<1>6. w \in Changes
  BY <1>4, <1>5 DEF Changes
<1>7. /\ \A k \in Key : w[k] # NoWrite => k = id /\ k \in Matched(t)
      /\ w[id] = IF View(t)[id] = NoRow THEN NoWrite
                 ELSE FirstUpdate(call[t].e, View(t)[id])
  BY <1>2, <1>3
<1>8. \A k \in Matched(t), u \in Thread \ {t} : writes[u][k] = NoWrite
  BY DEF UpdateRows, Unlocked
<1>9. \A l \in Lobs : Torn(w[id], l) => l \in call'[t].todo \/ Torn(View(t)[id], l)
  <2>1. ASSUME NEW l \in Lobs, View(t)[id] # NoRow,
               l \notin Deferred("update", call[t].e),
               FirstUpdate(call[t].e, View(t)[id]).lob[l] = Placeholder
        PROVE  Torn(View(t)[id], l)
    <3>1. View(t)[id] \in Row
      BY <1>3, <1>5, <2>1
    <3>2. call[t].e.lob[l] \in Value \cup {Null}
      BY <1>4 DEF Entity
    <3>3. View(t)[id].lob[l] = Placeholder
      BY <2>1, <3>2, TokensAssumption DEF FirstUpdate
    <3>4. QED
      BY <3>1, <3>3, TokensAssumption DEF Torn
  <2>2. QED
    BY <1>1, <1>2, <1>7, <2>1, AfterFirstTodo DEF Torn
<1>10. call[t].todo = {}
  BY <1>1 DEF TornInv
<1> HIDE DEF w
<1>11. Writes(t, w)
  BY <1>2, <1>7, <1>8, <1>9, <1>10 DEF Writes
<1>12. QED
  BY <1>6, <1>11

LEMMA DeleteWrites ==
    ASSUME TypeOK, OneInv, TornInv, NEW t \in Thread, DeleteRows(t)
    PROVE  \E w \in Changes : Writes(t, w)
<1> DEFINE id == call[t].e.id
           w  == [k \in Key |-> IF k \in Matched(t) THEN NoRow ELSE NoWrite]
<1>1. call[t] \in Busy /\ call[t].pc = "start" /\ call[t] # Idle
  BY DEF DeleteRows, TypeOK, Idle
<1>2. id \in Key /\ Write(t, w)
  BY <1>1 DEF DeleteRows, OneInv
<1>3. Matched(t) = IF View(t)[id] = NoRow THEN {} ELSE {id}
  BY <1>2, MatchedId
<1>4. w \in Changes /\ w[id] \in {NoRow, NoWrite}
      /\ \A k \in Key : w[k] # NoWrite => k = id /\ k \in Matched(t)
  BY <1>2, <1>3 DEF Changes
<1>5. \A k \in Matched(t), u \in Thread \ {t} : writes[u][k] = NoWrite
  BY DEF DeleteRows, Unlocked
<1>6. call[t].todo = {}
  BY <1>1 DEF TornInv
<1> HIDE DEF w
<1>7. Writes(t, w)
  BY <1>2, <1>4, <1>5, <1>6 DEF Writes, Torn
<1>8. QED
  BY <1>4, <1>7

LEMMA LobWrites ==
    ASSUME TypeOK, OneInv, TornInv, NEW t \in Thread, WriteLob(t)
    PROVE  /\ \E w \in Changes : Writes(t, w)
           /\ call'[t].pc # "lob" => call'[t].todo = {}
<1> DEFINE id == call[t].e.id
<1>1. call[t] \in Busy /\ call[t] # Idle /\ id \in Key /\ call[t].e \in Entity
  BY DEF WriteLob, TypeOK, Idle, OneInv, Busy
<1>2. Matched(t) = IF View(t)[id] = NoRow THEN {} ELSE {id}
  BY <1>1, MatchedId
<1>3. PICK l \in call[t].todo :
        /\ Unlocked(t, Matched(t))
        /\ \/ Matched(t) = {} /\ UNCHANGED <<rows, writes>>
           \/ \E k \in Matched(t) :
                 Write(t, [NoWrites EXCEPT ![k] =
                              PutLob(View(t)[k], l, Stored(call[t].e.lob[l]))])
        /\ call' = [call EXCEPT ![t].todo = @ \ {l},
                                ![t].pc = IF call[t].todo = {l} THEN "return" ELSE "lob"]
  BY DEF WriteLob
<1>4. l \in Lobs /\ call[t].todo \subseteq Lobs
  BY <1>1 DEF Busy
<1>5. /\ call'[t].todo = call[t].todo \ {l}
      /\ call'[t].pc = IF call[t].todo = {l} THEN "return" ELSE "lob"
  BY <1>1, <1>3 DEF TypeOK, Busy
<1>6. CASE Matched(t) = {}
  <2>1. View(t)[id] = NoRow
    BY <1>2, <1>6
  <2>2. UNCHANGED <<rows, writes>>
    BY <1>3, <1>6
  <2>3. Write(t, NoWrites)
    <3>1. \A r \in Table : Overlay(NoWrites, r) = r
      BY DEF Overlay, NoWrites, Table
    <3>2. \A r \in Changes : Overlay(NoWrites, r) = r
      BY DEF Overlay, NoWrites, Changes
    <3>3. rows \in Table /\ writes \in [Thread -> Changes]
      BY DEF TypeOK, Table, Changes
    <3>4. writes = [writes EXCEPT ![t] = writes[t]]
      BY <3>3
    <3>5. QED
      BY <2>2, <3>1, <3>2, <3>3, <3>4 DEF Write
  <2>4. NoWrites \in Changes /\ \A k \in Key : NoWrites[k] = NoWrite
    BY DEF NoWrites, Changes
  <2>5. Writes(t, NoWrites)
    BY <1>1, <2>1, <2>3, <2>4 DEF Writes, Torn
  <2>6. QED
    BY <1>5, <2>4, <2>5
<1>7. CASE Matched(t) # {}
  <2> DEFINE r == PutLob(View(t)[id], l, Stored(call[t].e.lob[l]))
             w == [NoWrites EXCEPT ![id] = r]
  <2>1. Matched(t) = {id} /\ View(t)[id] \in Row
    BY <1>1, <1>2, <1>7, ViewType
  <2>2. Write(t, w) /\ r \in Row
    BY <1>1, <1>3, <1>4, <2>1, LobRowType
  <2>3. w \in Changes /\ w[id] = r /\ \A k \in Key : w[k] # NoWrite => k = id
    BY <1>1, <2>2 DEF Changes, NoWrites
  <2>4. r.lob[l] # Placeholder
    <3>1. Stored(call[t].e.lob[l]) # Placeholder
      BY <1>1, <1>4, FirstRowType, TokensAssumption
    <3>2. QED
      BY <1>4, <2>1, <3>1 DEF PutLob, Row
  <2>5. \A j \in Lobs \ {l} : r.lob[j] = View(t)[id].lob[j]
    BY <2>1 DEF PutLob, Row
  <2>6. \A j \in Lobs : Torn(r, j) => Torn(View(t)[id], j)
    BY <2>1, <2>4, <2>5, TokensAssumption DEF Torn
  <2>7. r # NoWrite
    BY <2>2, TokensAssumption
  <2>8. \A u \in Thread \ {t} : writes[u][id] = NoWrite
    BY <1>3, <2>1 DEF Unlocked
  <2> HIDE DEF w, r
  <2>9. \A j \in call[t].todo \ call'[t].todo : j = l
    BY <1>5
  <2>10. ~Torn(r, l)
    BY <2>4 DEF Torn
  <2>11. Writes(t, w)
    BY <2>2, <2>3, <2>6, <2>7, <2>8, <2>9, <2>10 DEF Writes
  <2>12. QED
    BY <1>5, <2>3, <2>11
<1>8. QED
  BY <1>6, <1>7

LEMMA StatementWrites ==
    ASSUME TypeOK, OneInv, TornInv, NEW t \in Thread,
           InsertRow(t) \/ UpdateRows(t) \/ DeleteRows(t) \/ WriteLob(t)
    PROVE  /\ \E w \in Changes : Writes(t, w)
           /\ call'[t].pc # "lob" => call'[t].todo = {}
<1>1. call[t] \in Busy
  BY StatementCalls
<1>2. QED
  BY <1>1, InsertWrites, UpdateWrites, DeleteWrites, LobWrites, AfterFirstTodo
  DEF InsertRow, UpdateRows, DeleteRows

\* What a write of t leaves in its transaction, or in the table.
LEMMA WriteEffect ==
    ASSUME TypeOK, TornInv, NEW t \in Thread, NEW w \in Changes, Writes(t, w)
    PROVE  /\ \A u \in Thread \ {t} : writes'[u] = writes[u]
           /\ t \in Transactional =>
                 rows' = rows /\ \A k \in Key :
                    writes'[t][k] = IF w[k] = NoWrite THEN writes[t][k] ELSE w[k]
           /\ t \notin Transactional =>
                 writes' = writes /\ \A k \in Key :
                    View(t)[k] = rows[k] /\ rows'[k] = IF w[k] = NoWrite THEN rows[k] ELSE w[k]
BY DEF Writes, Write, Overlay, View, TypeOK, TornInv

\* A statement leaves no placeholder that is not accounted for.
LEMMA StatementTorn ==
    ASSUME TypeOK, OneInv, TornInv, NEW t \in Thread,
           InsertRow(t) \/ UpdateRows(t) \/ DeleteRows(t) \/ WriteLob(t)
    PROVE  TornInv'
<1> DEFINE id == call[t].e.id
<1>1. PICK w \in Changes : Writes(t, w)
  BY StatementWrites
<1>2. /\ \A u \in Thread \ {t} : call'[u] = call[u] /\ writes'[u] = writes[u]
      /\ call'[t].pc # "lob" => call'[t].todo = {}
  BY <1>1, StatementCalls, StatementWrites, WriteEffect
<1>3. id \in Key
  BY DEF OneInv, Idle, InsertRow, UpdateRows, DeleteRows, WriteLob
<1>4. \A k \in Key : w[k] # NoWrite => k = id /\ \A u \in Thread \ {t} : writes[u][k] = NoWrite
  BY <1>1 DEF Writes
<1>5. Exclusive'
  <2>1. CASE t \in Transactional
    BY <1>1, <1>2, <1>4, <2>1, WriteEffect DEF Exclusive, TornInv
  <2>2. CASE t \notin Transactional
    BY <1>1, <2>2, WriteEffect DEF Exclusive, TornInv
  <2>3. QED
    BY <2>1, <2>2
<1>6. \A u \in Thread \ Transactional, k \in Key : writes'[u][k] = NoWrite
  BY <1>1, <1>2, WriteEffect DEF TornInv
<1>7. ASSUME NEW u \in Thread, NEW k \in Key, NEW l \in Lobs, Torn(writes'[u][k], l)
      PROVE  l \in call'[u].todo \/ Torn(rows'[k], l)
  <2>1. CASE u # t
    <3>1. writes[u][k] # NoWrite /\ writes'[u] = writes[u] /\ call'[u] = call[u]
      BY <1>2, <1>7, <2>1 DEF Torn
    <3>2. rows'[k] = rows[k]
      BY <1>1, <1>4, <2>1, <3>1, WriteEffect
    <3>3. QED
      BY <1>7, <3>1, <3>2 DEF TornInv, Accounted
  <2>2. CASE u = t
    <3>1. t \in Transactional
      BY <1>6, <1>7, <2>2 DEF Torn
    <3>2. rows' = rows /\ writes'[t][k] = IF w[k] = NoWrite THEN writes[t][k] ELSE w[k]
      BY <1>1, <3>1, WriteEffect
    <3>3. k = id
      BY <1>4, <1>7, <2>2, <3>2 DEF OneInv, Torn
    <3>4. View(t)[id] = IF writes[t][id] = NoWrite THEN rows[id] ELSE writes[t][id]
      BY <1>3 DEF View, Overlay
    <3>5. Torn(writes[t][id], l) => l \in call[t].todo \/ Torn(rows[id], l)
      BY <1>3 DEF TornInv, Accounted
    <3>6. CASE w[id] = NoWrite
      <4>1. Torn(writes[t][id], l)
        BY <1>7, <2>2, <3>2, <3>3, <3>6
      <4>2. View(t)[id] # NoRow
        BY <3>4, <4>1 DEF Torn
      <4>3. l \in call[t].todo => l \in call'[t].todo
        BY <1>1, <3>6, <4>2 DEF Writes
      <4>4. QED
        BY <2>2, <3>2, <3>3, <3>5, <4>1, <4>3
    <3>7. CASE w[id] # NoWrite
      <4>1. Torn(w[id], l)
        BY <1>7, <2>2, <3>2, <3>3, <3>7
      <4>2. l \in call'[t].todo \/ Torn(View(t)[id], l)
        BY <1>1, <4>1 DEF Writes
      <4>3. Torn(View(t)[id], l) /\ l \in call[t].todo => l \in call'[t].todo
        BY <1>1, <4>1 DEF Writes, Torn
      <4>4. QED
        BY <2>2, <3>2, <3>3, <3>4, <3>5, <4>2, <4>3
    <3>8. QED
      BY <3>6, <3>7
  <2>3. QED
    BY <2>1, <2>2
<1>8. QED
  BY <1>2, <1>5, <1>6, <1>7 DEF TornInv, Accounted

LEMMA TornStep ==
    ASSUME TypeOK, OneInv, TornInv, [Next]_vars
    PROVE  TornInv'
<1>1. ASSUME NEW t \in Thread, Call(t)
      PROVE  TornInv'
  <2>1. /\ call[t] = Idle /\ call'[t].todo = {} /\ UNCHANGED <<rows, writes>>
        /\ \A u \in Thread \ {t} : call'[u] = call[u]
    BY <1>1 DEF Call, TypeOK
  <2>2. \A k \in Key : writes[t][k] = NoWrite
    BY <2>1 DEF OneInv
  <2>3. QED
    BY <2>1, <2>2 DEF TornInv, Exclusive, Accounted, Torn
<1>2. ASSUME NEW t \in Thread, Abort(t) \/ Return(t)
      PROVE  TornInv'
  <2>1. /\ call'[t] = Idle /\ \A k \in Key : writes'[t][k] = NoWrite
        /\ \A u \in Thread \ {t} : call'[u] = call[u] /\ writes'[u] = writes[u]
    BY <1>2 DEF Abort, Return, TypeOK, NoWrites
  <2>2. \A k \in Key : writes[t][k] = NoWrite => rows'[k] = rows[k]
    BY <1>2 DEF Abort, Return, View, Overlay
  <2>3. Exclusive'
    BY <2>1 DEF TornInv, Exclusive
  <2>4. ASSUME NEW u \in Thread, NEW k \in Key, NEW l \in Lobs, Torn(writes'[u][k], l)
        PROVE  l \in call'[u].todo \/ Torn(rows'[k], l)
    <3>1. u # t /\ Torn(writes[u][k], l)
      BY <2>1, <2>4 DEF Torn
    <3>2. writes[t][k] = NoWrite
      BY <3>1 DEF TornInv, Exclusive, Torn
    <3>3. QED
      BY <2>1, <2>2, <3>1, <3>2 DEF TornInv, Accounted
  <2>5. QED
    BY <2>1, <2>3, <2>4 DEF TornInv, Accounted
<1>3. ASSUME NEW t \in Thread, NextVal(t)
      PROVE  TornInv'
  <2>1. /\ call[t].pc = "start" /\ call[t] \in Busy /\ UNCHANGED <<rows, writes>>
        /\ \A u \in Thread \ {t} : call'[u] = call[u]
    BY <1>3 DEF NextVal, TypeOK, Idle
  <2>2. call'[t].todo = call[t].todo
    BY <1>3, <2>1 DEF NextVal, TypeOK, Busy
  <2>3. call[t] # Idle
    BY <2>1 DEF Idle
  <2>4. \A k \in Key : writes[t][k] = NoWrite
    BY <2>1 DEF OneInv
  <2>5. QED
    BY <2>1, <2>2, <2>3, <2>4 DEF TornInv, Exclusive, Accounted, Torn
<1>4. CASE UNCHANGED vars
  BY <1>4 DEF vars, TornInv, Exclusive, Accounted, Torn
<1>5. QED
  BY <1>1, <1>2, <1>3, <1>4, StatementTorn
  DEF Next, Step, Statement, Refuse, Fail, ConstraintViolation

\* Threads that a step does not touch go on as they were.
LEMMA OthersFinish ==
    ASSUME NEW t \in Thread, \A u \in Thread \ {t} : call'[u] = call[u],
           NEW k \in Key, NEW l \in Lobs, Unfinished(k, l), ~Unfinished(k, l)'
    PROVE  t \notin Transactional /\ call[t] # Idle /\ l \in call[t].todo /\ k \in Target(t)
BY DEF Unfinished, Target, Where, WhereAll

\* A write that abandons no placeholder: the thread has it to write still.
LEMMA WritesAbandonNothing ==
    ASSUME TypeOK, OneInv, TornInv, NEW t \in Thread,
           InsertRow(t) \/ UpdateRows(t) \/ DeleteRows(t) \/ WriteLob(t),
           NEW k \in Key, NEW l \in Lobs, ~Abandoned(k, l), Abandoned(k, l)'
    PROVE  FALSE
<1> DEFINE id == call[t].e.id
<1>1. PICK w \in Changes : Writes(t, w)
  BY StatementWrites
<1>2. /\ \A u \in Thread \ {t} : call'[u] = call[u]
      /\ call'[t].op = call[t].op /\ call'[t].e = call[t].e /\ call'[t] \in Busy
  BY StatementCalls
<1>3. id \in Key /\ call'[t] # Idle
  BY <1>2 DEF OneInv, Busy, Idle, InsertRow, UpdateRows, DeleteRows, WriteLob
<1>4. Target(t) = {id} /\ Target(t)' = {id}
  BY <1>2, <1>3, CompleteId DEF Target
<1>5. rows'[k] # NoRow /\ rows'[k].lob[l] = Placeholder /\ ~Unfinished(k, l)'
  BY DEF Abandoned
<1>6. t \notin Transactional /\ k = id => l \notin call'[t].todo
  BY <1>3, <1>4, <1>5 DEF Unfinished
<1>7. ASSUME rows[k] # NoRow, rows[k].lob[l] = Placeholder
      PROVE  t \notin Transactional /\ k = id /\ l \in call[t].todo
  <2>1. Unfinished(k, l)
    BY <1>7 DEF Abandoned
  <2>2. QED
    BY <1>2, <1>4, <1>5, <2>1, OthersFinish
<1>8. t \notin Transactional
  BY <1>1, <1>5, <1>7, WriteEffect
<1>9. View(t)[k] = rows[k] /\ rows'[k] = IF w[k] = NoWrite THEN rows[k] ELSE w[k]
  BY <1>1, <1>8, WriteEffect
<1>10. CASE w[k] = NoWrite
  <2>1. k = id /\ l \in call[t].todo \ call'[t].todo /\ View(t)[id] # NoRow
    BY <1>5, <1>6, <1>7, <1>8, <1>9, <1>10
  <2>2. QED
    BY <1>1, <1>10, <2>1 DEF Writes
<1>11. CASE w[k] # NoWrite
  <2>1. k = id /\ Torn(w[id], l)
    BY <1>1, <1>5, <1>9, <1>11 DEF Writes, Torn
  <2>2. l \notin call'[t].todo
    BY <1>6, <1>8, <2>1
  <2>3. Torn(rows[id], l)
    BY <1>1, <1>9, <2>1, <2>2 DEF Writes
  <2>4. l \in call[t].todo \ call'[t].todo
    BY <1>7, <2>1, <2>2, <2>3 DEF Torn
  <2>5. QED
    BY <1>1, <1>9, <2>1, <2>3, <2>4 DEF Writes, Torn
<1>12. QED
  BY <1>10, <1>11

\* For callers with complete ids, whatever the threads, the database and the
\* lobs: a row is left with a placeholder only by an operation outside a
\* transaction that failed between two of its statements.
THEOREM OnlyFailureTears ==
    ASSUME Ids \subseteq Key
    PROVE  Spec => TornOnlyByFailure
<1> DEFINE Tears(k, l) == ~Abandoned(k, l) /\ Abandoned(k, l)'
           Failed == \E t \in Thread \ Transactional : call[t].pc = "lob" /\ Fail(t)
<1>1. Init => OneInv /\ TornInv
  BY DEF Init, OneInv, TornInv, Exclusive, Torn, NoWrites
<1>2. TypeOK /\ OneInv /\ TornInv /\ [Next]_vars => OneInv' /\ TornInv'
  BY OneStep, TornStep
<1>3. TypeOK /\ OneInv /\ TornInv /\ [Next]_vars =>
        [\A k \in Key, l \in Lobs : Tears(k, l) => Failed]_vars
  <2> SUFFICES ASSUME TypeOK, OneInv, TornInv, Next,
                      NEW k \in Key, NEW l \in Lobs, Tears(k, l)
               PROVE  Failed
    OBVIOUS
  <2>1. PICK t \in Thread : Call(t) \/ Step(t) \/ Fail(t)
    BY DEF Next
  <2>2. \A u \in Thread \ {t} : call'[u] = call[u]
    BY <2>1, StatementCalls
    DEF Call, Step, Statement, Refuse, Fail, ConstraintViolation, Abort, NextVal, Return, TypeOK
  <2>3. ASSUME rows'[k] = rows[k] \/ Torn(rows[k], l)
        PROVE  t \notin Transactional /\ call[t] # Idle /\ call[t].pc = "lob"
    <3>1. Unfinished(k, l) /\ ~Unfinished(k, l)'
      BY <2>3 DEF Abandoned, Torn
    <3>2. t \notin Transactional /\ call[t] # Idle /\ l \in call[t].todo
      BY <2>2, <3>1, OthersFinish
    <3>3. QED
      BY <3>2 DEF TornInv
  <2>4. CASE Call(t) \/ NextVal(t)
    BY <2>3, <2>4 DEF Call, NextVal
  <2>5. CASE Refuse(t) \/ ConstraintViolation(t)
    BY <2>3, <2>5 DEF Refuse, ConstraintViolation, Abort
  <2>6. CASE Fail(t)
    BY <2>3, <2>6 DEF Fail, Abort
  <2>7. CASE Return(t)
    <3>1. call[t] # Idle /\ call[t].todo = {}
      BY <2>7 DEF Return, Idle, TornInv
    <3>2. rows'[k] = IF writes[t][k] = NoWrite THEN rows[k] ELSE writes[t][k]
      BY <2>7 DEF Return, View, Overlay
    <3>3. writes[t][k] # NoWrite => Torn(rows[k], l)
      BY <3>1, <3>2 DEF Abandoned, TornInv, Accounted, Torn
    <3>4. QED
      BY <2>3, <2>7, <3>2, <3>3 DEF Return
  <2>8. CASE InsertRow(t) \/ UpdateRows(t) \/ DeleteRows(t) \/ WriteLob(t)
    BY <2>8, WritesAbandonNothing
  <2>9. QED
    BY <2>1, <2>4, <2>5, <2>6, <2>7, <2>8 DEF Step, Statement
<1>4. QED
  BY <1>1, <1>2, <1>3, Typing, PTL DEF Spec, TornOnlyByFailure

=============================================================================
