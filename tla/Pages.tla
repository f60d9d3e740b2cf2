------------------------------- MODULE Pages -------------------------------
(***************************************************************************)
(* The arithmetic of ListPager: which rows the statement of a page selects *)
(* in each dialect, how many pages there are, and the links of the page    *)
(* bar.  Java's int arithmetic wraps around at MaxInt; the number of rows  *)
(* is a long and does not.                                                 *)
(***************************************************************************)
EXTENDS Integers

CONSTANT MaxInt         \* the largest int

ASSUME MaxIntAssumption == MaxInt \in Nat \ {0}

Word == -(MaxInt + 1)..MaxInt

\* The int that an arithmetic result is stored as.
Wrap(n) == ((n + MaxInt + 1) % (2 * MaxInt + 2)) - MaxInt - 1

\* Mutant: the last row of the page counts to the next one as well.
OverlappingRange(pageNo, rowsPerPage) ==
    [from |-> Wrap(pageNo * rowsPerPage - 1), to |-> Wrap((pageNo + 1) * rowsPerPage)]

\* rownum <= to and rownum_ > from, the first row has number 1.  SQL Server's
\* between from + 1 and to selects the same rows.
RowNumRange(pageNo, rowsPerPage) ==
    [from |-> Wrap(pageNo * rowsPerPage), to |-> Wrap(Wrap(pageNo + 1) * rowsPerPage)]

\* limit startRow, endRow: MySQL skips startRow rows and returns up to endRow.
LimitRange(pageNo, rowsPerPage) ==
    LET start == Wrap(pageNo + rowsPerPage)
        count == Wrap(Wrap(pageNo + 1) * rowsPerPage)
    IN  [from |-> start, to |-> start + count]

PageRange(dialect, pageNo, rowsPerPage) ==
    IF dialect = "mysql" THEN LimitRange(pageNo, rowsPerPage)
                         ELSE RowNumRange(pageNo, rowsPerPage)

\* getFirstRow.
FirstRow(pageNo, rowsPerPage) == Wrap(pageNo * rowsPerPage)

\* Mutant: division without rounding up.
FullPages(totalRows, rowsPerPage) == totalRows \div rowsPerPage

\* (int) Math.ceil of a quotient of doubles: infinity when rowsPerPage is 0, and
\* casts stop at MaxInt.
TotalPage(totalRows, rowsPerPage) ==
    IF rowsPerPage = 0
    THEN IF totalRows = 0 THEN 0 ELSE MaxInt
    ELSE LET pages == (totalRows + rowsPerPage - 1) \div rowsPerPage
         IN  IF pages > MaxInt THEN MaxInt ELSE pages

\* The numbered links that begin half of them before the page.
FirstShown(pageNo, showPageNum) ==
    LET first == Wrap(pageNo - showPageNum \div 2) IN IF first < 0 THEN 0 ELSE first

LastShown(pageNo, totalPage, showPageNum) ==
    LET last == Wrap(FirstShown(pageNo, showPageNum) + showPageNum - 1)
    IN  IF last >= totalPage THEN totalPage - 1 ELSE last

\* Mutant: the window is not moved back at the last pages.
FixedWindow(pageNo, totalPage, showPageNum) ==
    FirstShown(pageNo, showPageNum)..LastShown(pageNo, totalPage, showPageNum)

\* The numbered links of buildPagerBean, moved back at the last pages.  Their
\* loop stops below totalPage, so its counter does not wrap around.
Window(pageNo, totalPage, showPageNum) ==
    LET last == LastShown(pageNo, totalPage, showPageNum)
        k    == Wrap(last - showPageNum + 1)
    IN  (IF k < 0 THEN 0 ELSE k)..last

NoPage == [first |-> {}, prev |-> {}, next |-> {}, last |-> {}, pages |-> {}]

\* buildPagerBean; a link that is null has no page.
PagerBean(pageNo, totalPage, showPageNum) ==
    IF totalPage = 0 THEN NoPage
    ELSE [first |-> IF pageNo > 0 THEN {0} ELSE {},
          prev  |-> IF pageNo > 0 THEN {pageNo - 1} ELSE {},
          next  |-> IF pageNo < totalPage - 1 THEN {pageNo + 1} ELSE {},
          last  |-> IF pageNo < totalPage - 1 THEN {totalPage - 1} ELSE {},
          pages |-> Window(pageNo, totalPage, showPageNum)]

Links(bean) == bean.first \cup bean.prev \cup bean.next \cup bean.last \cup bean.pages

=============================================================================
