----------------------------- MODULE ListPager -----------------------------
(***************************************************************************)
(* One ListPager, whose page, page size and row count are set in any       *)
(* order, with Java's int arithmetic.                                      *)
(***************************************************************************)
EXTENDS Pages

CONSTANTS
    PageNos, RowsPerPages, TotalRows,   \* values set by the callers
    MaxShow                             \* bound: numbered links asked for

ASSUME ListPagerAssumption ==
    /\ PageNos \subseteq Word /\ RowsPerPages \subseteq Word
    /\ TotalRows \subseteq Nat /\ MaxShow \in Nat /\ 10 \in Word

VARIABLES    \* the fields of the pager, as last set
    pageNoSet, rowsPerPageSet, totalRowsSet

pagerVars == <<pageNoSet, rowsPerPageSet, totalRowsSet>>

\* The constructor; a row count that is not set is read as 0.
PagerInit == pageNoSet = 0 /\ rowsPerPageSet = 10 /\ totalRowsSet = 0

SetPageNo ==
    /\ \E n \in PageNos : pageNoSet' = n
    /\ UNCHANGED <<rowsPerPageSet, totalRowsSet>>

SetRowsPerPage ==
    /\ \E n \in RowsPerPages : rowsPerPageSet' = n
    /\ UNCHANGED <<pageNoSet, totalRowsSet>>

SetTotalRows ==
    /\ \E n \in TotalRows : totalRowsSet' = n
    /\ UNCHANGED <<pageNoSet, rowsPerPageSet>>

PagerNext == SetPageNo \/ SetRowsPerPage \/ SetTotalRows

PagerSpec == PagerInit /\ [][PagerNext]_pagerVars

-----------------------------------------------------------------------------
(* What must hold. *)

\* The fields of the pager stay within the integers.
PagerTypeOK == pageNoSet \in Word /\ rowsPerPageSet \in Word /\ totalRowsSet \in Nat

Pages0 == TotalPage(totalRowsSet, rowsPerPageSet)

\* Rows a statement of page p returns.
RowsOf(p) ==
    LET r == RowNumRange(p, rowsPerPageSet) IN {n \in 1..totalRowsSet : r.from < n /\ n <= r.to}

\* With room for the row after the last page the pages split the rows: every row
\* is on one page and one only, and no page is empty.
PagesPartition ==
    rowsPerPageSet > 0 /\ totalRowsSet + rowsPerPageSet <= MaxInt =>
        /\ \A n \in 1..totalRowsSet : \E p \in 0..(Pages0 - 1) :
               \A q \in 0..(Pages0 - 1) : n \in RowsOf(q) <=> q = p
        /\ \A p \in 0..(Pages0 - 1) : RowsOf(p) # {}

\* Every link of the page bar leads to a page that exists.  As long as the page
\* and the numbers asked for fit an int together, the bar shows the page, among
\* as many numbers as asked for or as there are pages; beyond, the last number
\* may wrap around and the bar have none (buildPagerBean).
WindowShowsPage ==
    \A show \in 1..MaxShow :
        LET bean == PagerBean(pageNoSet, Pages0, show) IN
        rowsPerPageSet > 0 /\ totalRowsSet <= MaxInt /\ pageNoSet \in 0..(Pages0 - 1) =>
            /\ Links(bean) \subseteq 0..(Pages0 - 1)
            /\ pageNoSet + show <= MaxInt =>
                   /\ pageNoSet \in bean.pages
                   /\ \E first \in 0..Pages0 :
                          bean.pages = first..(first + (IF show < Pages0 THEN show ELSE Pages0) - 1)

=============================================================================
