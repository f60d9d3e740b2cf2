---------------------------- MODULE EntityProxy ----------------------------
(***************************************************************************)
(* What happens to one row of a mapped table while several programs hold   *)
(* entities read from it.  select makes a CGLIB proxy whose large objects  *)
(* and relation are read by their getters, when they are first called; an  *)
(* update calls every getter and writes each property that is not null.    *)
(*                                                                         *)
(* Each statement is one step: the statements of one update are one step   *)
(* of EntityStore, which DBOperator implements.  A program uses its own    *)
(* entity only.  The relation is the one-to-one of OneToOneInterceptor.    *)
(***************************************************************************)
EXTENDS FiniteSets, Naturals

CONSTANTS
    Session,     \* programs, each with an entity of the row at hand
    Plain,       \* columns of strings, dates and eager clobs
    Defaulted,   \* columns of numbers and eager blobs
    Lazy,        \* columns of lobs mapped with lazy = true
    Unmapped,    \* columns of the table that no property of the class maps
    ForeignKey,  \* the column of the relation
    Value,       \* values of a column
    Default,     \* 0, or an empty lob: what NULL is read as but in Plain
    Null,        \* Java null, or SQL NULL
    Nothing,     \* no row; no entity; not read yet
    MaxCalls     \* bound on the calls of the programs

Mapped == Plain \cup Defaulted \cup Lazy
Column == Mapped \cup Unmapped

ASSUME EntityProxyAssumption ==
    /\ Plain \cap Defaulted = {} /\ (Plain \cup Defaulted) \cap Lazy = {}
    /\ Mapped \cap Unmapped = {} /\ ForeignKey \in Column \ Lazy
    /\ Default \in Value /\ Null \notin Value
    /\ Nothing \notin [Column -> Value \cup {Null}] \cup [Mapped -> Value \cup {Null}]
    /\ Nothing \notin Value \cup {Null}
    /\ MaxCalls \in Nat

VARIABLES
    row,      \* the row of the table
    partners, \* keys under which the related table has a row
    entity,   \* the properties of each program's proxy
    related,  \* its relation property: the key of the related entity
    pc,       \* the call a program is in
    joinKey,  \* the foreign key a relation getter has found
    todo,     \* lob getters its call has still to run
    calls,    \* calls begun
    seen,     \* what the row held in each column when the proxy took it
    touched,  \* properties the program has set since the select
    keyed     \* has it set the foreign key since it read the relation?

proxyVars == <<row, partners, entity, related, pc, joinKey, todo, calls,
          seen, touched, keyed>>

Content == Value \cup {Null}
Property == [Mapped -> Content]

\* A row this program or another has stored.  Inserts and updates of the
\* framework leave no NULL in a lob column, other writers of the table may.
Row == [Column -> Content]

ProxyInit ==
    /\ row \in Row /\ partners = Value
    /\ entity = [s \in Session |-> Nothing] /\ related = [s \in Session |-> Null]
    /\ pc = [s \in Session |-> "idle"] /\ joinKey = [s \in Session |-> Null]
    /\ todo = [s \in Session |-> {}] /\ calls = 0
    /\ seen = [s \in Session |-> [c \in Mapped |-> Nothing]]
    /\ touched = [s \in Session |-> {}] /\ keyed = [s \in Session |-> FALSE]

Called == calls < MaxCalls /\ calls' = calls + 1
Goto(s, there) == pc' = [pc EXCEPT ![s] = there]

(***************************************************************************)
(* Reading a row into an entity.                                           *)
(***************************************************************************)
\* getBlobValue gives an empty array for a NULL; getInt and its like give 0,
\* and getLobValue an empty string: only Plain columns stay null.
ReadLob(v) == IF v = Null THEN Default ELSE v
ReadColumn(c, v) == IF c \in Plain THEN v ELSE ReadLob(v)

\* As if a lazy lob came as an empty one.
EmptyLobs(r) ==
    [c \in Mapped |-> IF c \in Lazy THEN Default ELSE ReadColumn(c, r[c])]

\* createEntity: a proxy of which nothing is read.
NewProxy == [c \in Mapped |-> Null]

\* createEntityFromRS: a lazy lob is left null.
CreateEntity(r) ==
    [c \in Mapped |-> IF c \in Lazy THEN NewProxy[c] ELSE ReadColumn(c, r[c])]

\* selectById: a new proxy, or null when the row is not there.
SelectById(s) ==
    /\ pc[s] = "idle" /\ Called
    /\ entity' = [entity EXCEPT ![s] = IF row = Nothing THEN Nothing ELSE CreateEntity(row)]
    /\ related' = [related EXCEPT ![s] = Null]
    /\ seen' = [seen EXCEPT ![s] =
           [c \in Mapped |-> IF row = Nothing \/ c \in Lazy THEN Nothing ELSE row[c]]]
    /\ touched' = [touched EXCEPT ![s] = {}]
    /\ keyed' = [keyed EXCEPT ![s] = FALSE]
    /\ UNCHANGED <<row, partners, pc, joinKey, todo>>

\* A setter of a column's property.
SetProperty(s, c, v) ==
    /\ pc[s] = "idle" /\ entity[s] # Nothing /\ Called
    /\ entity' = [entity EXCEPT ![s][c] = v]
    /\ touched' = [touched EXCEPT ![s] = @ \cup {c}]
    /\ keyed' = [keyed EXCEPT ![s] = @ \/ (c = ForeignKey /\ related[s] # Null)]
    /\ UNCHANGED <<row, partners, related, pc, joinKey, todo, seen>>

\* LobInterceptor: a property that is null is read from the row, and kept.
\* Nothing is kept when the row is gone, and the getter returns null.
LoadLob(s, c) ==
    IF row = Nothing
      THEN UNCHANGED <<entity, seen>>
      ELSE /\ entity' = [entity EXCEPT ![s][c] = ReadLob(row[c])]
           /\ seen' = [seen EXCEPT ![s][c] = row[c]]

\* A program calls the getter of a lob.  (One that is not null is returned, and
\* nothing changes.)
GetLob(s, c) ==
    /\ pc[s] = "idle" /\ entity[s] # Nothing /\ Called
    /\ entity[s][c] = Null /\ LoadLob(s, c)
    /\ UNCHANGED <<row, partners, related, pc, joinKey, todo, touched, keyed>>

(***************************************************************************)
(* update and a relation getter read every property first.                 *)
(***************************************************************************)
\* As if every getter of a lob asked the database.
AllLobs(s) == Lazy

\* The lobs whose getters will run a statement.
Unloaded(s) == {c \in Lazy : entity[s][c] = Null}

\* ColumnValueLoader calls the getters in the order of a hash map.
CollectNext(s, c) ==
    /\ c \in todo[s] /\ todo' = [todo EXCEPT ![s] = @ \ {c}]
    /\ LoadLob(s, c)
    /\ UNCHANGED <<row, partners, related, pc, joinKey, calls, touched, keyed>>

\* The connection or a statement fails: the call throws and has done no more.
ProxyFails(s) ==
    /\ pc[s] # "idle" /\ Goto(s, "idle")
    /\ todo' = [todo EXCEPT ![s] = {}] /\ joinKey' = [joinKey EXCEPT ![s] = Null]
    /\ UNCHANGED <<row, partners, entity, related, calls, seen, touched, keyed>>

BeginUpdate(s) ==
    /\ pc[s] = "idle" /\ entity[s] # Nothing /\ Called
    /\ Goto(s, "update") /\ todo' = [todo EXCEPT ![s] = Unloaded(s)]
    /\ UNCHANGED <<row, partners, entity, related, joinKey, seen, touched, keyed>>

\* A property that is null is not among the columns of the update.
Updated(s) == {c \in Mapped : entity[s][c] # Null}

\* "update ... set c = ?": no row under the key, no effect, and no complaint.
\* With no column to set the statement is not made, and the call throws.
FinishUpdate(s) ==
    /\ pc[s] = "update" /\ todo[s] = {}
    /\ row' = IF row = Nothing THEN Nothing
              ELSE [c \in Column |-> IF c \in Updated(s) THEN entity[s][c] ELSE row[c]]
    /\ Goto(s, "idle")
    /\ UNCHANGED <<partners, entity, related, joinKey, todo, calls, seen, touched, keyed>>

(***************************************************************************)
(* The relation.                                                           *)
(***************************************************************************)
\* RelationInterceptor: one that is set is returned, and nothing changes.
BeginRelation(s) ==
    /\ pc[s] = "idle" /\ entity[s] # Nothing /\ related[s] = Null /\ Called
    /\ Goto(s, "relation") /\ todo' = [todo EXCEPT ![s] = Unloaded(s)]
    /\ UNCHANGED <<row, partners, entity, related, joinKey, seen, touched, keyed>>

\* As if the row were asked first.
KeyOfRow(s) ==
    IF row # Nothing THEN row[ForeignKey]
    ELSE IF ForeignKey \in Mapped THEN entity[s][ForeignKey] ELSE Null

\* The foreign key as the entity has it, or else as the row has it now.
JoinColumnValue(s) ==
    IF ForeignKey \in Mapped /\ entity[s][ForeignKey] # Null THEN entity[s][ForeignKey]
    ELSE IF row # Nothing THEN row[ForeignKey] ELSE Null

\* As if it did not look for null.
FindAnyKey(s) ==
    /\ pc[s] = "relation" /\ todo[s] = {}
    /\ Goto(s, "load")
    /\ joinKey' = [joinKey EXCEPT ![s] = JoinColumnValue(s)]
    /\ UNCHANGED <<row, partners, entity, related, todo, calls, seen, touched, keyed>>

\* getJoinColumnValue throws when it finds null.
FindKey(s) ==
    /\ pc[s] = "relation" /\ todo[s] = {}
    /\ Goto(s, IF JoinColumnValue(s) = Null THEN "idle" ELSE "load")
    /\ joinKey' = [joinKey EXCEPT ![s] = JoinColumnValue(s)]
    /\ UNCHANGED <<row, partners, entity, related, todo, calls, seen, touched, keyed>>

\* The property is set to the entity found, or to null.
LoadRelated(s) ==
    /\ pc[s] = "load" /\ Goto(s, "idle")
    /\ related' = [related EXCEPT ![s] = IF joinKey[s] \in partners THEN joinKey[s] ELSE Null]
    /\ joinKey' = [joinKey EXCEPT ![s] = Null]
    /\ keyed' = [keyed EXCEPT ![s] = FALSE]
    /\ UNCHANGED <<row, partners, entity, todo, calls, seen, touched>>

(***************************************************************************)
(* Other programs.                                                         *)
(***************************************************************************)
\* insert and deleteById; an inserted lob is empty rather than null.
Insert(r) == row = Nothing /\ (\A c \in Lazy : r[c] # Null) /\ row' = r
Delete == row # Nothing /\ row' = Nothing

OtherRow ==
    /\ Called /\ (Delete \/ \E r \in Row : Insert(r))
    /\ UNCHANGED <<partners, entity, related, pc, joinKey, todo, seen, touched, keyed>>

OtherPartner ==
    /\ Called /\ \E k \in Value : partners' \in {partners \ {k}, partners \cup {k}}
    /\ UNCHANGED <<row, entity, related, pc, joinKey, todo, seen, touched, keyed>>

ProxyStep(s) ==
    \/ SelectById(s) \/ \E c \in Mapped, v \in Content : SetProperty(s, c, v)
    \/ \E c \in Lazy : GetLob(s, c) \/ CollectNext(s, c)
    \/ BeginUpdate(s) \/ FinishUpdate(s)
    \/ BeginRelation(s) \/ FindKey(s) \/ LoadRelated(s) \/ ProxyFails(s)

ProxyNext == (\E s \in Session : ProxyStep(s)) \/ OtherRow \/ OtherPartner
ProxySpec == ProxyInit /\ [][ProxyNext]_proxyVars

(***************************************************************************)
(* Properties.                                                             *)
(***************************************************************************)
\* Entities hold values or null, and a call that is under way knows its entity.
ProxyTypeOK ==
    /\ row \in Row \cup {Nothing} /\ partners \subseteq Value
    /\ entity \in [Session -> Property \cup {Nothing}]
    /\ related \in [Session -> Content] /\ joinKey \in [Session -> Content]
    /\ pc \in [Session -> {"idle", "update", "relation", "load"}]
    /\ todo \in [Session -> SUBSET Lazy] /\ calls \in 0 .. MaxCalls
    /\ seen \in [Session -> [Mapped -> Content \cup {Nothing}]]
    /\ touched \in [Session -> SUBSET Mapped] /\ keyed \in [Session -> BOOLEAN]
    /\ \A s \in Session :
         /\ pc[s] # "idle" => entity[s] # Nothing
         /\ todo[s] # {} => pc[s] \in {"update", "relation"}
         /\ (pc[s] = "load") = (joinKey[s] # Null)

\* update writes every property, also those its program only read, or never
\* asked for: it changes a column the program did not set only if another
\* program has written it since the entity took it, or from NULL to the default
\* NULL was read as.  And it never leaves a NULL where there was a value.
UpdateKeepsTheRest ==
    [][\A s \in Session : FinishUpdate(s) /\ row # Nothing =>
         \A c \in Column : row'[c] # row[c] =>
           /\ c \in Mapped /\ row'[c] # Null
           /\ \/ c \in touched[s] \/ seen[s][c] \notin {Nothing, row[c]}
              \/ c \notin Plain /\ row[c] = Null /\ row'[c] = Default]_proxyVars

\* What a getter has returned it returns again until the program sets the
\* property or selects anew, however often calls read the entity or the row in
\* between, and whatever others write.
GettersRepeat ==
    [][\A s \in Session : entity[s] # Nothing /\ ~SelectById(s) =>
         /\ \A c \in Mapped :
              entity[s][c] # Null /\ c \notin touched'[s] => entity'[s][c] = entity[s][c]
         /\ related[s] # Null => related'[s] = related[s]]_proxyVars

\* The related entity a program is given belongs to the foreign key its own
\* entity shows, though the row may have another by now; unless the program has
\* set the key after it read the relation, which leaves the one read before.
RelationFitsEntity ==
    \A s \in Session : ForeignKey \in Mapped /\ related[s] # Null /\ ~keyed[s] =>
        entity[s][ForeignKey] \in {related[s], Null}
=============================================================================
