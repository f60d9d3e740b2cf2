----------------------------- MODULE PagedQuery -----------------------------
(***************************************************************************)
(* A user walks through the pages of a query from the first one by its     *)
(* links to the next page.  Each request makes a ListPager, counts the     *)
(* rows and then selects the page, in two statements between which the     *)
(* table may change (DBOperator.selectPage and executeQueryPage).          *)
(*                                                                         *)
(* The database is external: the query orders its rows, others append      *)
(* rows, insert them further up, and delete them.                          *)
(***************************************************************************)
EXTENDS Pages, SequencesExt

CONSTANTS
    Row,            \* the rows there can be
    Start,          \* those in the table when the walk begins, in order
    RowsPerPage,
    Dialect,        \* "oracle", "sqlserver" or "mysql"
    Swallows,       \* TRUE: executeQueryPage, FALSE: selectPage
    MaxFailures     \* bound: statements that fail

ASSUME PagedQueryAssumption ==
    /\ Start \in Seq(Row) /\ IsInjective(Start)
    /\ RowsPerPage \in 1..MaxInt /\ Dialect \in {"oracle", "sqlserver", "mysql"}
    /\ Swallows \in BOOLEAN /\ MaxFailures \in Nat

VARIABLES
    rows,               \* the table, in the order of the query
    used,               \* rows that are or have been in the table
    inserted, deleted,  \* a row was inserted before others, or deleted
    pageNo, totalRows,  \* of the request's ListPager
    pc,                 \* "count", "fetch", "shown", "end" or "error"
    shown,              \* rows of the page on the screen
    seen,               \* rows of the pages before it
    failures

table == <<rows, used, inserted, deleted>>
vars == <<rows, used, inserted, deleted, pageNo, totalRows, pc, shown, seen, failures>>

Init ==
    /\ rows = Start /\ used = Range(Start)
    /\ inserted = FALSE /\ deleted = FALSE
    /\ pageNo = 0 /\ totalRows = 0 /\ pc = "count"
    /\ shown = {} /\ seen = {} /\ failures = 0

-----------------------------------------------------------------------------
(* The request. *)

\* selectTotalRowcount.
Count ==
    /\ pc = "count"
    /\ totalRows' = Len(rows)
    /\ pc' = "fetch"
    /\ UNCHANGED <<table, pageNo, shown, seen, failures>>

\* The rows with the numbers lo + 1 to hi.
RowsBetween(lo, hi) == {rows[i] : i \in {j \in DOMAIN rows : lo < j /\ j <= hi}}

PageRows ==
    LET r == PageRange(Dialect, pageNo, RowsPerPage) IN RowsBetween(r.from, r.to)

Fetch ==
    /\ pc = "fetch"
    /\ shown' = PageRows
    /\ pc' = "shown"
    /\ UNCHANGED <<table, pageNo, totalRows, seen, failures>>

\* A statement fails.  selectPage raises the exception; executeQueryPage logs
\* it and returns the rows it has read.
Fail ==
    /\ pc \in {"count", "fetch"} /\ failures < MaxFailures
    /\ failures' = failures + 1
    /\ IF Swallows
       THEN /\ pc' = "shown"
            /\ \E n \in 0..Len(rows) :
                  shown' = IF pc = "count" THEN {} ELSE PageRows \cap RowsBetween(0, n)
            /\ totalRows' = IF pc = "count" THEN 0 ELSE totalRows
       ELSE pc' = "error" /\ UNCHANGED <<shown, totalRows>>
    /\ UNCHANGED <<table, pageNo, seen>>

\* The user asks for the page once more.
Retry ==
    /\ pc = "error"
    /\ pc' = "count"
    /\ UNCHANGED <<table, pageNo, totalRows, shown, seen, failures>>

NextLink == PagerBean(pageNo, TotalPage(totalRows, RowsPerPage), 1).next

\* Mutant: the links to the next and the previous page are exchanged.
FollowBack ==
    /\ pc = "shown" /\ NextLink # {}
    /\ pageNo' = pageNo - 1
    /\ seen' = seen \cup shown
    /\ shown' = {} /\ pc' = "count"
    /\ UNCHANGED <<table, totalRows, failures>>

\* Mutant: the link to the next page leads to the page itself.
FollowToSame ==
    /\ pc = "shown" /\ NextLink # {}
    /\ seen' = seen \cup shown
    /\ shown' = {} /\ pc' = "count"
    /\ UNCHANGED <<table, pageNo, totalRows, failures>>

Follow ==
    /\ pc = "shown"
    /\ \E p \in NextLink : pageNo' = p
    /\ seen' = seen \cup shown
    /\ shown' = {} /\ pc' = "count"
    /\ UNCHANGED <<table, totalRows, failures>>

End ==
    /\ pc = "shown" /\ NextLink = {}
    /\ pc' = "end"
    /\ UNCHANGED <<table, pageNo, totalRows, shown, seen, failures>>

-----------------------------------------------------------------------------
(* The others. *)

Add(r, i) ==
    /\ r \notin used
    /\ rows' = InsertAt(rows, i, r)
    /\ used' = used \cup {r}
    /\ inserted' = (inserted \/ i <= Len(rows))
    /\ UNCHANGED <<deleted, pageNo, totalRows, pc, shown, seen, failures>>

Delete(i) ==
    /\ rows' = RemoveAt(rows, i)
    /\ deleted' = TRUE
    /\ UNCHANGED <<used, inserted, pageNo, totalRows, pc, shown, seen, failures>>

Others ==
    /\ pc # "end"
    /\ \/ \E r \in Row, i \in 1..(Len(rows) + 1) : Add(r, i)
       \/ \E i \in DOMAIN rows : Delete(i)

User == Count \/ Fetch \/ Retry \/ Follow \/ End

Next == User \/ Fail \/ Others

Spec == Init /\ [][Next]_vars

\* The server answers and the user goes on.
FairSpec == Spec /\ WF_vars(User)

-----------------------------------------------------------------------------
(* What must hold. *)

\* The walk stays on pages that int arithmetic yields, over rows of the table.
TypeOK ==
    /\ rows \in Seq(Row) /\ used \subseteq Row
    /\ inserted \in BOOLEAN /\ deleted \in BOOLEAN
    /\ pageNo \in Nat /\ totalRows \in Nat
    /\ pc \in {"count", "fetch", "shown", "end", "error"}
    /\ shown \subseteq Row /\ seen \subseteq Row
    /\ failures \in 0..MaxFailures

\* Unless a row was inserted before those shown, no row is shown on two pages,
\* whatever is appended or deleted.
NothingTwice == ~inserted => shown \cap seen = {}

\* Unless rows were deleted, the walk misses a row that was there from the
\* start only if, between the count and the page, insertions pushed it behind
\* the last row counted.
SkippedOnlyPastCount ==
    pc = "end" /\ ~deleted =>
        \A i \in DOMAIN rows :
            rows[i] \in Range(Start) \ (seen \cup shown) => i > totalRows /\ inserted

\* The walk ends.
WalkEnds == <>(pc = "end")

\* getFirstRow is "the first row" of the page: the statement selects
\* RowsPerPage rows from there on.
PageStartsAtFirstRow ==
    [][pc = "fetch" /\ Fetch =>
          shown' = RowsBetween(FirstRow(pageNo, RowsPerPage),
                               FirstRow(pageNo, RowsPerPage) + RowsPerPage)]_vars

=============================================================================
