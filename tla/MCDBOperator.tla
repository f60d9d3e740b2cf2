---------------------------- MODULE MCDBOperator ----------------------------
(***************************************************************************)
(* Instances of DBOperator for TLC: an entity with a simple id, and one    *)
(* with a composite id of two columns.                                     *)
(***************************************************************************)
EXTENDS DBOperator, TLC

CONSTANTS t1, t2, v1, v2

\* Simple id ID.
SimpleColumns == {"ID"}
SimpleValues == 1..3
SimpleIds == [SimpleColumns -> {1, 2}]

\* Composite id (A, B): two keys that share component A, and with
\* PartialIds also the argument that leaves B null.
PairColumns == {"A", "B"}
PairValues == {1, 2}
PairIds == {[A |-> 1, B |-> 1], [A |-> 1, B |-> 2]}
AsPairs(S) == {[c \in PairColumns |-> IF c = "A" THEN i.A ELSE i.B] : i \in S}
FullIds == AsPairs(PairIds)
PartialIds == FullIds \cup AsPairs({[A |-> 1, B |-> Null]})

Threads == {t1, t2}
JustT1 == {t1}
ThreadSymmetry == Permutations({t1, t2})

=============================================================================
