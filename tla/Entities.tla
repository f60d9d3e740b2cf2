------------------------------ MODULE Entities ------------------------------
(***************************************************************************)
(* The data that EntityStore and DBOperator share: entities of one mapped  *)
(* class as callers pass them, and rows of its table.                      *)
(***************************************************************************)
EXTENDS Naturals

CONSTANTS
    IdColumns,      \* columns of the primary key (several: a composite id)
    IdValue,        \* values a primary-key column can hold
    Value,          \* values of the other columns
    Blobs, Clobs,   \* columns of the properties annotated @Blob and @Clob
    Sequenced,      \* TRUE: a simple @Id with the default strategy SEQUENCE
    Null,           \* Java null, or SQL NULL
    Empty,          \* an empty lob: what a null lob property is stored as
    NoRow           \* the table has no row under this key

Lobs == Blobs \cup Clobs

Key == [IdColumns -> IdValue]

\* An id as a caller can pass it: components of a composite id may be null.
IdArgument == [IdColumns -> IdValue \cup {Null}]

NoId == [c \in IdColumns |-> Null]

Entity == [id : IdArgument, col : Value \cup {Null}, lob : [Lobs -> Value \cup {Null}]]

Operation == {"insert", "update", "delete", "deleteById"}

ASSUME DataAssumption ==
    /\ Blobs \cap Clobs = {}
    /\ Null \notin IdValue \cup Value
    /\ Empty \notin Value \cup {Null}

\* A simple id that comes from a sequence is a single numeric column.
ASSUME SequenceAssumption ==
    /\ Sequenced \in BOOLEAN
    /\ Sequenced => IdValue \subseteq Nat /\ \E c \in IdColumns : IdColumns = {c}

\* A null lob property of an inserted entity is stored as an empty lob.  (On SQL
\* Server that is the ' ' or 0 of the first statement, over which setString or
\* setBytes writes nothing.)
Stored(v) == IF v = Null THEN Empty ELSE v

\* The row an insert of e leaves when it is complete.
InsertedRow(e) == [col |-> e.col, lob |-> [l \in Lobs |-> Stored(e.lob[l])]]

\* The row an update with e leaves in place of r: a null property of the entity
\* keeps what its column holds.
UpdatedRow(e, r) ==
    [col |-> IF e.col = Null THEN r.col ELSE e.col,
     lob |-> [l \in Lobs |-> IF e.lob[l] = Null THEN r.lob[l] ELSE e.lob[l]]]

\* What a caller asks for: an insert with a sequence ignores the id passed.
Asked(op, e) ==
    [op |-> op,
     e  |-> IF op = "insert" /\ Sequenced THEN [e EXCEPT !.id = NoId] ELSE e]

=============================================================================
