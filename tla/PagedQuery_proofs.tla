------------------------- MODULE PagedQuery_proofs -------------------------
(***************************************************************************)
(* Proofs about pages, in three parts: lemmas on the arithmetic of Pages,  *)
(* for any size of an int; ListPager: with room in an int the pages split  *)
(* the rows, and the page bar of a page shows it; PagedQuery in the        *)
(* dialects that select rows by number: no row is shown on two pages       *)
(* unless rows were inserted, and none is missed unless rows were deleted  *)
(* or the count was stale.                                                 *)
(***************************************************************************)
EXTENDS PagedQuery, ListPager, SequenceTheorems, TLAPS

(* Pages.                                                                   *)

\* Quotient and remainder.
LEMMA DivMod ==
  ASSUME NEW a \in Nat, NEW r \in Nat \ {0}
  PROVE  /\ a \div r \in Nat /\ a % r \in 0..(r - 1)
         /\ a = r * (a \div r) + (a % r)
OBVIOUS

\* A result that fits into an int is stored as it is.
LEMMA WrapIdentity ==
  ASSUME NEW n \in Word
  PROVE  Wrap(n) = n
<1> USE MaxIntAssumption
<1> DEFINE x == n + MaxInt + 1
           m == 2 * MaxInt + 2
<1>1. x \in Nat /\ x < m /\ m \in Nat \ {0}
  BY DEF Word
<1>2. x % m = x
  <2> HIDE DEF x, m
  <2>1. QED
    BY <1>1
<1>3. QED
  BY <1>1, <1>2 DEF Wrap, Word

\* What is stored is an int.
LEMMA WrapFits ==
  ASSUME NEW n \in Int
  PROVE  Wrap(n) \in Word
<1> DEFINE x == n + MaxInt + 1
           m == 2 * MaxInt + 2
<1>1. x \in Int /\ m \in Nat \ {0} /\ MaxInt \in Nat
  BY MaxIntAssumption
<1>2. x % m \in 0..(m - 1)
  <2> HIDE DEF x, m
  <2>1. QED
    BY <1>1
<1>3. QED
  BY <1>1, <1>2 DEF Wrap, Word

\* The product with the next number.
LEMMA Distribute ==
  ASSUME NEW p \in Int, NEW r \in Int
  PROVE  (p + 1) * r = p * r + r
OBVIOUS

\* A product grows with its factor.
LEMMA MulMono ==
  ASSUME NEW p \in Int, NEW q \in Int, NEW r \in Nat, p <= q
  PROVE  p * r <= q * r
OBVIOUS

\* The number of pages is the quotient rounded up.
LEMMA PageCount ==
  ASSUME NEW r \in Nat \ {0}, NEW total \in Nat, total + r <= MaxInt
  PROVE  \E N \in 0..MaxInt : /\ TotalPage(total, r) = N
                              /\ N * r \in Nat
                              /\ total <= N * r /\ N * r <= total + r - 1
<1> DEFINE N == (total + r - 1) \div r
<1> USE MaxIntAssumption
<1>1. N \in Nat /\ r * N <= total + r - 1 /\ total + r - 1 < r * N + r
  <2>1. total + r - 1 \in Nat
    OBVIOUS
  <2>2. N \in Nat /\ (total + r - 1) % r \in 0..(r - 1)
        /\ total + r - 1 = r * N + ((total + r - 1) % r)
    BY <2>1, DivMod
  <2> DEFINE rest == (total + r - 1) % r
             prod == r * N
  <2>3. prod \in Int /\ rest \in 0..(r - 1) /\ total + r - 1 = prod + rest
    BY <2>2
  <2>4. prod <= total + r - 1 /\ total + r - 1 < prod + r
    <3> HIDE DEF rest, prod
    <3>1. QED
      BY <2>3
  <2>5. QED
    BY <2>2, <2>4
<1>2. r * N = N * r /\ N * r \in Nat /\ N <= N * r
  <2> HIDE DEF N
  <2>1. N * r = r * N /\ N * r \in Nat
    BY <1>1
  <2>2. N * 1 <= N * r
    BY <1>1
  <2>3. QED
    BY <1>1, <2>1, <2>2
<1>3. N <= MaxInt
  <2> HIDE DEF N
  <2>1. QED
    BY <1>1, <1>2
<1>4. TotalPage(total, r) = N
  <2> HIDE DEF N
  <2>1. TotalPage(total, r) = LET pages == N IN IF pages > MaxInt THEN MaxInt ELSE pages
    BY DEF TotalPage, N
  <2>2. QED
    BY <1>1, <1>3, <2>1
<1>5. QED
  <2> HIDE DEF N
  <2>1. N \in 0..MaxInt /\ N * r \in Nat /\ total <= N * r /\ N * r <= total + r - 1
    BY <1>1, <1>2, <1>3
  <2>2. QED
    BY <1>4, <2>1

\* Without overflow a page is the rows between two multiples of its size.
LEMMA RangeNumbers ==
  ASSUME NEW r \in Nat \ {0}, NEW q \in Nat, q * r + r <= MaxInt
  PROVE  RowNumRange(q, r) = [from |-> q * r, to |-> q * r + r]
<1> USE MaxIntAssumption
<1>1. q * r \in Nat /\ (q + 1) * r = q * r + r
  BY Distribute
<1>2. q <= q * r
  <2>1. q * 1 <= q * r
    OBVIOUS
  <2>2. QED
    BY <1>1, <2>1
<1>3. q * r \in Word /\ q * r + r \in Word /\ q + 1 \in Word
  BY <1>1, <1>2 DEF Word
<1>4. Wrap(q * r) = q * r /\ Wrap(q + 1) = q + 1 /\ Wrap(q * r + r) = q * r + r
  BY <1>3, WrapIdentity
<1>5. QED
  BY <1>1, <1>4 DEF RowNumRange

LEMMA PageBounds ==
  ASSUME NEW r \in Nat \ {0}, NEW total \in Nat, total + r <= MaxInt,
         NEW q \in 0..(TotalPage(total, r) - 1)
  PROVE  /\ RowNumRange(q, r) = [from |-> q * r, to |-> q * r + r]
         /\ q * r \in Nat /\ q * r < total
<1> USE MaxIntAssumption
<1>1. PICK N \in 0..MaxInt : /\ TotalPage(total, r) = N
                             /\ N * r \in Nat
                             /\ total <= N * r /\ N * r <= total + r - 1
  BY PageCount
<1>2. q \in Nat /\ q + 1 <= N /\ N \in Nat
  BY <1>1
<1>3. q * r \in Nat /\ q * r + r <= N * r
  <2>1. (q + 1) * r = q * r + r /\ q * r \in Nat
    BY <1>2, Distribute
  <2>2. (q + 1) * r <= N * r
    BY <1>2, MulMono
  <2>3. QED
    BY <2>1, <2>2
<1>4. q * r < total
  BY <1>1, <1>3
<1>5. RowNumRange(q, r) = [from |-> q * r, to |-> q * r + r]
  BY <1>2, <1>3, <1>4, RangeNumbers
<1>6. QED
  BY <1>3, <1>4, <1>5

\* The last number stays below the number of pages, whatever wraps around.
LEMMA WindowWithin ==
  ASSUME NEW total \in Nat, NEW page \in Int, NEW show \in Nat
  PROVE  Window(page, total, show) \subseteq 0..(total - 1)
<1> DEFINE last == LastShown(page, total, show)
           k    == Wrap(last - show + 1)
<1>1. page - (show \div 2) \in Int
  BY DivMod, 2 \in Nat \ {0}
<1>2. FirstShown(page, show) \in Int
  <2>1. Wrap(page - (show \div 2)) \in Int
    BY <1>1, WrapFits, MaxIntAssumption DEF Word
  <2>2. QED
    BY <2>1 DEF FirstShown
<1>3. last \in Int /\ last <= total - 1
  <2>1. Wrap(FirstShown(page, show) + show - 1) \in Int
    BY <1>2, WrapFits, MaxIntAssumption DEF Word
  <2>2. QED
    BY <2>1 DEF LastShown
<1> HIDE DEF last
<1>4. k \in Int
  BY <1>3, WrapFits, MaxIntAssumption DEF Word
<1> HIDE DEF k
<1>5. Window(page, total, show) = (IF k < 0 THEN 0 ELSE k)..last
  BY DEF Window, k, last
<1>6. QED
  BY <1>3, <1>4, <1>5

\* Where they fit an int, the numbered links are an interval of the pages that
\* contains the page, as long as asked for or as there are pages.
LEMMA WindowInterval ==
  ASSUME NEW total \in Nat, NEW page \in 0..(total - 1), NEW show \in Nat \ {0},
         total <= MaxInt, page + show <= MaxInt
  PROVE  \E lo \in 0..total :
            /\ Window(page, total, show) = lo..(lo + (IF show < total THEN show ELSE total) - 1)
            /\ page \in Window(page, total, show)
<1> DEFINE half  == show \div 2
           first == FirstShown(page, show)
           last  == LastShown(page, total, show)
           lo    == IF last - show + 1 < 0 THEN 0 ELSE last - show + 1
<1> USE MaxIntAssumption
<1>1. half \in Nat /\ 2 * half <= show /\ show <= 2 * half + 1
  BY DivMod
<1>2. first = IF page < half THEN 0 ELSE page - half
  <2>1. page - half \in Word /\ Wrap(page - half) = page - half
    <3>1. page - half \in Word
      <4> HIDE DEF half
      <4>1. QED
        BY <1>1 DEF Word
    <3>2. QED
      BY <3>1, WrapIdentity
  <2>2. first = IF page - half < 0 THEN 0 ELSE page - half
    BY <2>1 DEF FirstShown
  <2> HIDE DEF half, first
  <2>3. QED
    BY <1>1, <2>2
<1> HIDE DEF half
<1>3. first \in Nat /\ first <= page /\ page <= first + half
  BY <1>1, <1>2
<1>4. last = IF first + show - 1 >= total THEN total - 1 ELSE first + show - 1
  <2>1. first + show - 1 \in Word
    <3> HIDE DEF first
    <3>1. QED
      BY <1>3 DEF Word
  <2>2. Wrap(first + show - 1) = first + show - 1
    BY <2>1, WrapIdentity
  <2>3. QED
    BY <2>2 DEF LastShown
<1> HIDE DEF first
<1>5. last \in Int /\ page <= last /\ last <= total - 1 /\ last <= first + show - 1
      /\ (last = total - 1 \/ last = first + show - 1)
  BY <1>1, <1>3, <1>4
<1>6. Window(page, total, show) = lo..last
  <2>1. last - show + 1 \in Word
    <3> HIDE DEF last
    <3>1. QED
      BY <1>5 DEF Word
  <2>2. Wrap(last - show + 1) = last - show + 1
    BY <2>1, WrapIdentity
  <2>3. QED
    BY <2>2 DEF Window
<1> HIDE DEF last
<1>7. lo \in 0..total /\ lo <= page
  BY <1>1, <1>3, <1>5
<1>8. last = lo + (IF show < total THEN show ELSE total) - 1
  BY <1>1, <1>3, <1>5
<1> HIDE DEF lo
<1>9. QED
  BY <1>5, <1>6, <1>7, <1>8

-----------------------------------------------------------------------------
(* ListPager.                                                               *)

\* The setters keep the types.
THEOREM ListPagerTyping == PagerSpec => []PagerTypeOK
<1>1. PagerInit => PagerTypeOK
  BY MaxIntAssumption, ListPagerAssumption DEF PagerInit, PagerTypeOK, Word
<1>2. PagerTypeOK /\ [PagerNext]_pagerVars => PagerTypeOK'
  BY ListPagerAssumption
  DEF PagerTypeOK, PagerNext, SetPageNo, SetRowsPerPage, SetTotalRows, pagerVars
<1>3. QED
  BY <1>1, <1>2, PTL DEF PagerSpec

-----------------------------------------------------------------------------

\* Every row is on exactly one page and no page is empty, for every page size
\* and row count that leave an int room for one more page.
LEMMA PagesSplitRows == PagerTypeOK => PagesPartition
<1> SUFFICES ASSUME PagerTypeOK, rowsPerPageSet > 0, totalRowsSet + rowsPerPageSet <= MaxInt
             PROVE  /\ \A n \in 1..totalRowsSet : \E p \in 0..(Pages0 - 1) :
                           \A q \in 0..(Pages0 - 1) : n \in RowsOf(q) <=> q = p
                    /\ \A p \in 0..(Pages0 - 1) : RowsOf(p) # {}
  BY DEF PagesPartition
<1> DEFINE r == rowsPerPageSet
           N == TotalPage(totalRowsSet, r)
<1>1. r \in Nat \ {0} /\ totalRowsSet \in Nat /\ MaxInt \in Nat
  BY MaxIntAssumption DEF PagerTypeOK, Word
<1>2. \A q \in 0..(N - 1) : /\ RowsOf(q) = {n \in 1..totalRowsSet : q * r < n /\ n <= q * r + r}
                            /\ q * r \in Nat /\ q * r < totalRowsSet
  <2> TAKE q \in 0..(N - 1)
  <2>1. /\ RowNumRange(q, r) = [from |-> q * r, to |-> q * r + r]
        /\ q * r \in Nat /\ q * r < totalRowsSet
    BY <1>1, PageBounds
  <2>2. QED
    BY <2>1 DEF RowsOf
<1>3. ASSUME NEW p \in 0..(N - 1)
      PROVE  RowsOf(p) # {}
  <2>1. p * r \in Nat /\ p * r < totalRowsSet
    BY <1>1, <1>2
  <2>2. p * r + 1 \in 1..totalRowsSet /\ p * r < p * r + 1 /\ p * r + 1 <= p * r + r
    BY <1>1, <2>1
  <2>3. QED
    BY <1>2, <2>2
<1>4. N \in Nat /\ N * r \in Nat /\ totalRowsSet <= N * r
  BY <1>1, PageCount
<1>5. ASSUME NEW n \in 1..totalRowsSet
      PROVE  \E p \in 0..(N - 1) : \A q \in 0..(N - 1) : n \in RowsOf(q) <=> q = p
  <2> DEFINE p == (n - 1) \div r
  <2>1. p \in Nat /\ p * r \in Nat /\ p * r < n /\ n <= p * r + r
    <3>1. p \in Nat /\ (n - 1) % r \in 0..(r - 1) /\ n - 1 = r * p + ((n - 1) % r)
      BY <1>1, DivMod
    <3> DEFINE rest == (n - 1) % r
    <3> HIDE DEF p, rest
    <3>2. r * p = p * r /\ p * r \in Nat
      BY <1>1, <3>1
    <3> DEFINE prod == p * r
    <3>3. prod \in Nat /\ rest \in 0..(r - 1) /\ n - 1 = prod + rest
      BY <3>1, <3>2 DEF rest
    <3> HIDE DEF prod, r
    <3>4. prod < n /\ n <= prod + r
      BY <1>1, <3>3
    <3>5. QED
      BY <3>1, <3>2, <3>4 DEF prod
  <2> HIDE DEF p, N, r
  <2>2. p < N
    <3> SUFFICES ASSUME N <= p
                 PROVE  FALSE
      BY <1>4, <2>1
    <3>1. N * r <= p * r
      BY <1>1, <1>4, <2>1, MulMono
    <3>2. QED
      BY <1>1, <1>4, <2>1, <3>1
  <2>3. ASSUME NEW q \in 0..(N - 1), q # p
        PROVE  ~(q * r < n /\ n <= q * r + r)
    <3>1. CASE q < p
      <4>1. (q + 1) * r <= p * r /\ (q + 1) * r = q * r + r
        BY <1>1, <1>4, <2>1, <3>1, MulMono, Distribute
      <4>2. QED
        BY <1>1, <1>2, <2>1, <4>1
    <3>2. CASE p < q
      <4>1. (p + 1) * r <= q * r /\ (p + 1) * r = p * r + r
        BY <1>1, <1>4, <2>1, <3>2, MulMono, Distribute
      <4>2. QED
        BY <1>1, <1>2, <2>1, <4>1
    <3>3. QED
      BY <1>4, <2>1, <2>3, <3>1, <3>2
  <2>4. p \in 0..(N - 1)
    BY <1>4, <2>1, <2>2
  <2>5. \A q \in 0..(N - 1) : n \in RowsOf(q) <=> q = p
    BY <1>2, <2>1, <2>3, <2>4
  <2>6. QED
    BY <2>4, <2>5
<1>6. QED
  BY <1>3, <1>5 DEF Pages0

\* Whatever is set and in whatever order, the pages split the rows.
THEOREM PagesAlwaysSplitRows == PagerSpec => []PagesPartition
BY ListPagerTyping, PagesSplitRows, PTL

\* The links of a page bar lead to pages, and its numbers show the page it is
\* for where they fit an int.
LEMMA BarShowsPage == PagerTypeOK => WindowShowsPage
<1> DEFINE N == Pages0
<1> SUFFICES ASSUME PagerTypeOK, NEW show \in 1..MaxShow,
                    rowsPerPageSet > 0, totalRowsSet <= MaxInt, pageNoSet \in 0..(N - 1)
             PROVE  LET bean == PagerBean(pageNoSet, N, show) IN
                    /\ Links(bean) \subseteq 0..(N - 1)
                    /\ pageNoSet + show <= MaxInt =>
                          /\ pageNoSet \in bean.pages
                          /\ \E first \in 0..N :
                                bean.pages = first..(first + (IF show < N THEN show ELSE N) - 1)
  BY DEF WindowShowsPage
<1>1. N \in Nat /\ N <= MaxInt
  <2>1. totalRowsSet + rowsPerPageSet - 1 \in Nat /\ rowsPerPageSet \in Nat \ {0} /\ MaxInt \in Nat
    BY MaxIntAssumption DEF PagerTypeOK, Word
  <2>2. (totalRowsSet + rowsPerPageSet - 1) \div rowsPerPageSet \in Nat
    BY <2>1, DivMod
  <2>3. QED
    BY <2>1, <2>2 DEF Pages0, TotalPage
<1>2. show \in Nat \ {0} /\ pageNoSet \in Int
  BY ListPagerAssumption DEF PagerTypeOK, Word
<1> HIDE DEF N
<1>3. N # 0
  BY <1>1
<1>4. PagerBean(pageNoSet, N, show).pages = Window(pageNoSet, N, show)
  BY <1>3 DEF PagerBean
<1>5. Window(pageNoSet, N, show) \subseteq 0..(N - 1)
  BY <1>1, <1>2, WindowWithin
<1>6. Links(PagerBean(pageNoSet, N, show)) \subseteq 0..(N - 1)
  BY <1>1, <1>3, <1>5 DEF PagerBean, Links
<1>7. ASSUME pageNoSet + show <= MaxInt
      PROVE  \E lo \in 0..N :
                /\ Window(pageNoSet, N, show) = lo..(lo + (IF show < N THEN show ELSE N) - 1)
                /\ pageNoSet \in Window(pageNoSet, N, show)
  BY <1>1, <1>2, <1>7, WindowInterval
<1>8. QED
  BY <1>4, <1>6, <1>7

\* Whatever is set and in whatever order, the links of the page bar lead to
\* pages, and its numbers show the page where they fit an int.
THEOREM BarAlwaysShowsPage == PagerSpec => []WindowShowsPage
BY ListPagerTyping, BarShowsPage, PTL

-----------------------------------------------------------------------------
(* PagedQuery.                                                              *)

\* The rows in the table, and those of one page more, can be numbered.
Fits == Len(rows) + RowsPerPage <= MaxInt

\* Where the walk is, and which rows there are.
WalkInv ==
    /\ TypeOK
    /\ pageNo * RowsPerPage + RowsPerPage <= MaxInt
    /\ totalRows + RowsPerPage <= MaxInt
    /\ \A i, j \in DOMAIN rows : rows[i] = rows[j] => i = j
    /\ \A i \in DOMAIN rows : rows[i] \in used
    /\ seen \subseteq used /\ shown \subseteq used /\ Range(Start) \subseteq used
    /\ pc \in {"count", "fetch", "error"} => shown = {}

\* Rows of set that are still in the table have numbers up to n.
UpTo(set, n) == \A i \in DOMAIN rows : rows[i] \in set => i <= n

OnceInv ==
    ~inserted =>
        /\ UpTo(seen, pageNo * RowsPerPage)
        /\ UpTo(shown, pageNo * RowsPerPage + RowsPerPage)
        /\ shown \cap seen = {}

\* The rows there from the start, up to number n, are in set.
StartUpTo(n, set) ==
    \A i \in DOMAIN rows : rows[i] \in Range(Start) /\ i <= n => rows[i] \in set

SkipInv ==
    ~deleted =>
        /\ Len(Start) <= Len(rows)
        /\ pc \in {"fetch", "shown", "end"} => Len(Start) <= totalRows
        /\ pc = "end" => totalRows <= pageNo * RowsPerPage + RowsPerPage
        /\ StartUpTo(pageNo * RowsPerPage, seen)
        /\ pc \in {"shown", "end"} =>
              StartUpTo(pageNo * RowsPerPage + RowsPerPage, seen \cup shown)
        /\ ~inserted => \A i \in DOMAIN rows : rows[i] \in Range(Start) => i <= Len(Start)

-----------------------------------------------------------------------------

\* A sequence with an element more, or less.
LEMMA InsertAtLemma ==
  ASSUME NEW s \in Seq(Row), NEW i \in 1..(Len(s) + 1), NEW e \in Row
  PROVE  /\ InsertAt(s, i, e) \in Seq(Row)
         /\ Len(InsertAt(s, i, e)) = Len(s) + 1
         /\ \A j \in 1..(Len(s) + 1) :
               InsertAt(s, i, e)[j] = IF j < i THEN s[j] ELSE IF j = i THEN e ELSE s[j - 1]
<1> DEFINE a == SubSeq(s, 1, i - 1)
           b == SubSeq(s, i, Len(s))
<1>1. a \in Seq(Row) /\ Len(a) = i - 1 /\ \A j \in 1..(i - 1) : a[j] = s[j]
  OBVIOUS
<1>2. b \in Seq(Row) /\ Len(b) = Len(s) - i + 1 /\ \A j \in 1..(Len(s) - i + 1) : b[j] = s[i + j - 1]
  OBVIOUS
<1>3. <<e>> \in Seq(Row) /\ Len(<<e>>) = 1 /\ <<e>>[1] = e
  OBVIOUS
<1> HIDE DEF a, b
<1> DEFINE c == a \o <<e>>
<1>4. c \in Seq(Row) /\ Len(c) = i /\ \A j \in 1..i : c[j] = IF j < i THEN s[j] ELSE e
  BY <1>1, <1>3
<1> HIDE DEF c
<1>5. /\ c \o b \in Seq(Row) /\ Len(c \o b) = Len(s) + 1
      /\ \A j \in 1..(Len(s) + 1) :
            (c \o b)[j] = IF j < i THEN s[j] ELSE IF j = i THEN e ELSE s[j - 1]
  <2>1. /\ c \o b \in Seq(Row) /\ Len(c \o b) = Len(c) + Len(b)
        /\ \A j \in 1..(Len(c) + Len(b)) :
              (c \o b)[j] = IF j <= Len(c) THEN c[j] ELSE b[j - Len(c)]
    BY <1>2, <1>4, ConcatProperties
  <2>2. Len(c) + Len(b) = Len(s) + 1
    BY <1>2, <1>4
  <2>3. ASSUME NEW j \in 1..(Len(s) + 1)
        PROVE  (c \o b)[j] = IF j < i THEN s[j] ELSE IF j = i THEN e ELSE s[j - 1]
    <3>1. CASE j <= i
      BY <1>2, <1>4, <2>1, <2>2, <3>1
    <3>2. CASE i < j
      <4>1. j - i \in 1..(Len(s) - i + 1) /\ i + (j - i) - 1 = j - 1
        BY <3>2
      <4>2. b[j - i] = s[i + (j - i) - 1]
        BY <1>2, <4>1
      <4>3. (c \o b)[j] = b[j - i]
        BY <1>4, <2>1, <2>2, <3>2
      <4>4. ~(j < i) /\ j # i /\ (c \o b)[j] = s[j - 1]
        BY <3>2, <4>1, <4>2, <4>3
      <4>5. QED
        BY <4>4
    <3>3. j <= i \/ i < j
      OBVIOUS
    <3>4. QED
      BY <3>1, <3>2, <3>3
  <2>4. QED
    BY <2>1, <2>2, <2>3
<1>6. QED
  BY <1>5 DEF InsertAt, c, a, b

LEMMA RemoveAtLemma ==
  ASSUME NEW S, NEW s \in Seq(S), NEW i \in 1..Len(s)
  PROVE  /\ RemoveAt(s, i) \in Seq(S)
         /\ Len(RemoveAt(s, i)) = Len(s) - 1
         /\ \A j \in 1..(Len(s) - 1) :
               RemoveAt(s, i)[j] = IF j < i THEN s[j] ELSE s[j + 1]
<1> DEFINE a == SubSeq(s, 1, i - 1)
           b == SubSeq(s, i + 1, Len(s))
<1>1. a \in Seq(S) /\ Len(a) = i - 1 /\ \A j \in 1..(i - 1) : a[j] = s[j]
  OBVIOUS
<1>2. b \in Seq(S) /\ Len(b) = Len(s) - i /\ \A j \in 1..(Len(s) - i) : b[j] = s[i + j]
  OBVIOUS
<1> HIDE DEF a, b
<1>3. /\ a \o b \in Seq(S) /\ Len(a \o b) = Len(s) - 1
      /\ \A j \in 1..(Len(s) - 1) : (a \o b)[j] = IF j < i THEN s[j] ELSE s[j + 1]
  <2>1. /\ a \o b \in Seq(S) /\ Len(a \o b) = Len(a) + Len(b)
        /\ \A j \in 1..(Len(a) + Len(b)) :
              (a \o b)[j] = IF j <= Len(a) THEN a[j] ELSE b[j - Len(a)]
    BY <1>1, <1>2, ConcatProperties
  <2>2. Len(a) + Len(b) = Len(s) - 1
    BY <1>1, <1>2
  <2>3. ASSUME NEW j \in 1..(Len(s) - 1)
        PROVE  (a \o b)[j] = IF j < i THEN s[j] ELSE s[j + 1]
    <3>1. CASE j < i
      BY <1>1, <2>1, <2>2, <3>1
    <3>2. CASE i <= j
      <4>1. j - i + 1 \in 1..(Len(s) - i) /\ i + (j - i + 1) = j + 1
        BY <3>2
      <4>2. b[j - i + 1] = s[i + (j - i + 1)]
        BY <1>2, <4>1
      <4>3. j - (i - 1) = j - i + 1
        BY <3>2
      <4>4. (a \o b)[j] = b[j - (i - 1)]
        BY <1>1, <2>1, <2>2, <3>2
      <4>5. ~(j < i)
        BY <3>2
      <4>6. (a \o b)[j] = s[j + 1]
        BY <4>1, <4>2, <4>3, <4>4
      <4>7. QED
        BY <4>5, <4>6
    <3>3. j < i \/ i <= j
      OBVIOUS
    <3>4. QED
      BY <3>1, <3>2, <3>3
  <2>4. QED
    BY <2>1, <2>2, <2>3
<1>4. QED
  BY <1>3 DEF RemoveAt, a, b

-----------------------------------------------------------------------------
(* The links. *)

\* The next page begins behind this one and before the last row counted.
LEMMA NextPage ==
  ASSUME WalkInv, NEW p \in NextLink
  PROVE  p = pageNo + 1 /\ p * RowsPerPage = pageNo * RowsPerPage + RowsPerPage
         /\ p * RowsPerPage < totalRows
<1>1. RowsPerPage \in Nat \ {0} /\ totalRows \in Nat /\ pageNo \in Nat
      /\ totalRows + RowsPerPage <= MaxInt
  BY PagedQueryAssumption, MaxIntAssumption DEF WalkInv, TypeOK
<1>2. PICK N \in 0..MaxInt : TotalPage(totalRows, RowsPerPage) = N
  BY <1>1, PageCount
<1>3. p = pageNo + 1 /\ pageNo < N - 1
  BY <1>2 DEF NextLink, PagerBean, NoPage
<1>4. p \in 0..(TotalPage(totalRows, RowsPerPage) - 1)
  BY <1>1, <1>2, <1>3
<1>5. p * RowsPerPage < totalRows
  BY <1>1, <1>4, PageBounds
<1>6. QED
  BY <1>1, <1>3, <1>5, Distribute

\* A page without a link to the next one goes to the last row counted.
LEMMA LastPage ==
  ASSUME WalkInv, NextLink = {}
  PROVE  totalRows <= pageNo * RowsPerPage + RowsPerPage
<1>1. RowsPerPage \in Nat \ {0} /\ totalRows \in Nat /\ pageNo \in Nat
      /\ totalRows + RowsPerPage <= MaxInt /\ MaxInt \in Nat
  BY PagedQueryAssumption, MaxIntAssumption DEF WalkInv, TypeOK
<1>2. PICK N \in 0..MaxInt : /\ TotalPage(totalRows, RowsPerPage) = N
                             /\ N * RowsPerPage \in Nat /\ totalRows <= N * RowsPerPage
  BY <1>1, PageCount
<1>3. N <= pageNo + 1
  BY <1>1, <1>2 DEF NextLink, PagerBean, NoPage
<1>4. N * RowsPerPage <= (pageNo + 1) * RowsPerPage
  BY <1>1, <1>2, <1>3, MulMono
<1>5. pageNo * RowsPerPage \in Nat
  BY <1>1
<1>6. QED
  BY <1>1, <1>2, <1>4, <1>5, Distribute

\* The statement selects the rows with the numbers of the page.
LEMMA NumberedPage ==
  ASSUME WalkInv, Dialect # "mysql"
  PROVE  PageRows = RowsBetween(pageNo * RowsPerPage, pageNo * RowsPerPage + RowsPerPage)
<1>1. RowsPerPage \in Nat \ {0} /\ pageNo \in Nat
      /\ pageNo * RowsPerPage + RowsPerPage <= MaxInt
  BY PagedQueryAssumption, MaxIntAssumption DEF WalkInv, TypeOK
<1>2. RowNumRange(pageNo, RowsPerPage)
        = [from |-> pageNo * RowsPerPage, to |-> pageNo * RowsPerPage + RowsPerPage]
  BY <1>1, RangeNumbers
<1>3. QED
  BY <1>2 DEF PageRows, PageRange

-----------------------------------------------------------------------------
(* What the others do to the table. *)

LEMMA AddStep ==
  ASSUME WalkInv, NEW r \in Row, NEW i \in 1..(Len(rows) + 1), Add(r, i)
  PROVE  /\ rows' \in Seq(Row) /\ Len(rows') = Len(rows) + 1
         /\ DOMAIN rows = 1..Len(rows) /\ DOMAIN rows' = 1..(Len(rows) + 1)
         /\ \A j \in 1..(Len(rows) + 1) :
               rows'[j] = IF j < i THEN rows[j] ELSE IF j = i THEN r ELSE rows[j - 1]
<1>1. rows \in Seq(Row) /\ rows' = InsertAt(rows, i, r)
  BY DEF WalkInv, TypeOK, Add
<1>2. /\ InsertAt(rows, i, r) \in Seq(Row) /\ Len(InsertAt(rows, i, r)) = Len(rows) + 1
      /\ \A j \in 1..(Len(rows) + 1) :
            InsertAt(rows, i, r)[j]
              = IF j < i THEN rows[j] ELSE IF j = i THEN r ELSE rows[j - 1]
  BY ONLY <1>1, r \in Row, i \in 1..(Len(rows) + 1), InsertAtLemma
<1>3. DOMAIN rows = 1..Len(rows) /\ DOMAIN rows' = 1..Len(rows')
  BY <1>1, <1>2, LenProperties
<1>4. Len(rows') = Len(rows) + 1
  BY <1>1, <1>2
<1>5. QED
  BY ONLY <1>1, <1>2, <1>3, <1>4

LEMMA DeleteStep ==
  ASSUME WalkInv, NEW i \in DOMAIN rows, Delete(i)
  PROVE  /\ rows' \in Seq(Row) /\ Len(rows') = Len(rows) - 1 /\ i \in 1..Len(rows)
         /\ DOMAIN rows = 1..Len(rows) /\ DOMAIN rows' = 1..(Len(rows) - 1)
         /\ \A j \in 1..(Len(rows) - 1) :
               rows'[j] = IF j < i THEN rows[j] ELSE rows[j + 1]
<1>1. rows \in Seq(Row) /\ rows' = RemoveAt(rows, i)
  BY DEF WalkInv, TypeOK, Delete
<1>2. i \in 1..Len(rows) /\ DOMAIN rows = 1..Len(rows)
  BY <1>1, LenProperties
<1>3. /\ rows' \in Seq(Row) /\ Len(rows') = Len(rows) - 1
      /\ \A j \in 1..(Len(rows) - 1) :
            rows'[j] = IF j < i THEN rows[j] ELSE rows[j + 1]
  BY <1>1, <1>2, RemoveAtLemma
<1>4. DOMAIN rows' = 1..Len(rows')
  BY <1>3, LenProperties
<1>5. QED
  BY <1>2, <1>3, <1>4

-----------------------------------------------------------------------------

\* The walk stays on numbered pages.
LEMMA WalkStep ==
  ASSUME WalkInv, Fits, [Next]_vars, Fits'
  PROVE  WalkInv'
<1> USE DEF WalkInv
<1>1. rows \in Seq(Row) /\ DOMAIN rows = 1..Len(rows) /\ Len(rows) \in Nat
  BY LenProperties DEF TypeOK
<1>2. MaxInt \in Nat /\ RowsPerPage \in Nat \ {0}
  BY PagedQueryAssumption, MaxIntAssumption
<1>3. \A lo, hi : RowsBetween(lo, hi) \subseteq Row \cap used
  BY <1>1 DEF RowsBetween, TypeOK
<1>4. PageRows \subseteq Row \cap used
  BY <1>3 DEF PageRows
<1>5. CASE Count
  BY <1>1, <1>2, <1>5 DEF Count, Fits, TypeOK, table
<1>6. CASE Fetch
  BY <1>4, <1>6 DEF Fetch, TypeOK, table
<1>7. CASE Fail
  <2>1. totalRows' \in {0, totalRows} /\ shown' \subseteq Row \cap used
        /\ pc' \in {"shown", "error"} /\ (pc' = "error" => shown' = {})
    BY <1>3, <1>4, <1>7 DEF Fail, TypeOK
  <2>2. failures' \in 0..MaxFailures
    BY <1>7, PagedQueryAssumption DEF Fail, TypeOK
  <2>3. totalRows' \in Nat /\ totalRows' + RowsPerPage <= MaxInt
    <3>1. totalRows \in Nat /\ RowsPerPage <= MaxInt
      BY PagedQueryAssumption, MaxIntAssumption DEF TypeOK
    <3>2. CASE totalRows' = 0
      BY <1>2, <3>1, <3>2
    <3>3. CASE totalRows' = totalRows
      BY <3>1, <3>3
    <3>4. QED
      BY <2>1, <3>2, <3>3
  <2>4. QED
    BY <1>7, <2>1, <2>2, <2>3 DEF Fail, TypeOK, table
<1>8. CASE Retry
  BY <1>8 DEF Retry, TypeOK, table
<1>9. CASE Follow
  <2>1. PICK p \in NextLink : pageNo' = p
    BY <1>9 DEF Follow
  <2>2. p = pageNo + 1 /\ p * RowsPerPage < totalRows
    BY NextPage
  <2>3. pageNo' \in Nat /\ pageNo' * RowsPerPage + RowsPerPage <= MaxInt
    <3>1. p \in Nat /\ p * RowsPerPage \in Nat
      BY <1>2, <2>2 DEF TypeOK
    <3>2. QED
      BY <1>2, <2>1, <2>2, <3>1 DEF TypeOK
  <2>4. QED
    BY <1>9, <2>3 DEF Follow, TypeOK, table
<1>10. CASE End
  BY <1>10 DEF End, TypeOK, table
<1>11. ASSUME NEW r \in Row, NEW i \in 1..(Len(rows) + 1), Add(r, i)
       PROVE  WalkInv'
  <2>1. /\ rows' \in Seq(Row) /\ DOMAIN rows' = 1..(Len(rows) + 1)
        /\ \A j \in 1..(Len(rows) + 1) :
              rows'[j] = IF j < i THEN rows[j] ELSE IF j = i THEN r ELSE rows[j - 1]
    BY <1>11, AddStep
  <2>2. \A j \in DOMAIN rows : rows[j] # r
    BY <1>11 DEF Add
  <2>3. \A j, k \in DOMAIN rows' : rows'[j] = rows'[k] => j = k
    <3> SUFFICES ASSUME NEW j \in DOMAIN rows', NEW k \in DOMAIN rows',
                        rows'[j] = rows'[k], j < k
                 PROVE  FALSE
      <4>1. \A j, k \in DOMAIN rows' : j < k \/ k < j \/ j = k
        BY <1>1, <2>1
      <4>2. QED
        BY <4>1
    <3>1. CASE k < i
      BY <1>1, <2>1, <3>1
    <3>2. CASE k = i
      BY <1>1, <2>1, <2>2, <3>2
    <3>3. CASE i < k /\ j < i
      BY <1>1, <2>1, <3>3
    <3>4. CASE i < k /\ j = i
      BY <1>1, <2>1, <2>2, <3>4
    <3>5. CASE i < k /\ i < j
      BY <1>1, <2>1, <3>5
    <3>6. k < i \/ k = i \/ (i < k /\ (j < i \/ j = i \/ i < j))
      BY <1>1, <2>1
    <3>7. QED
      BY <3>1, <3>2, <3>3, <3>4, <3>5, <3>6
  <2>4. \A j \in DOMAIN rows' : rows'[j] \in used'
    BY <1>1, <1>11, <2>1 DEF Add
  <2>5. inserted' \in BOOLEAN
    BY <1>11 DEF Add
  <2>6. QED
    BY <1>11, <2>1, <2>3, <2>4, <2>5 DEF Add, TypeOK
<1>12. ASSUME NEW i \in DOMAIN rows, Delete(i)
       PROVE  WalkInv'
  <2>1. /\ rows' \in Seq(Row) /\ DOMAIN rows' = 1..(Len(rows) - 1) /\ i \in 1..Len(rows)
        /\ \A j \in 1..(Len(rows) - 1) :
              rows'[j] = IF j < i THEN rows[j] ELSE rows[j + 1]
    BY <1>12, DeleteStep
  <2>2. \A j, k \in DOMAIN rows' : rows'[j] = rows'[k] => j = k
    <3> SUFFICES ASSUME NEW j \in DOMAIN rows', NEW k \in DOMAIN rows',
                        rows'[j] = rows'[k], j < k
                 PROVE  FALSE
      <4>1. \A j, k \in DOMAIN rows' : j < k \/ k < j \/ j = k
        BY <1>1, <2>1
      <4>2. QED
        BY <4>1
    <3>1. CASE k < i
      BY <1>1, <2>1, <3>1
    <3>0. /\ k + 1 \in DOMAIN rows /\ j + 1 \in DOMAIN rows /\ j \in DOMAIN rows
          /\ j # k + 1 /\ j + 1 # k + 1
      BY <1>1, <2>1
    <3>2. CASE i <= k /\ j < i
      <4>1. rows'[j] = rows[j] /\ rows'[k] = rows[k + 1]
        BY <1>1, <2>1, <3>2
      <4>2. QED
        BY <3>0, <4>1
    <3>3. CASE i <= k /\ i <= j
      <4>1. rows'[j] = rows[j + 1] /\ rows'[k] = rows[k + 1]
        BY <1>1, <2>1, <3>3
      <4>2. QED
        BY <3>0, <4>1
    <3>4. k < i \/ (i <= k /\ (j < i \/ i <= j))
      BY <1>1, <2>1
    <3>5. QED
      BY <3>1, <3>2, <3>3, <3>4
  <2>3. \A j \in DOMAIN rows' : rows'[j] \in used'
    BY <1>1, <1>12, <2>1 DEF Delete
  <2>4. QED
    BY <1>12, <2>1, <2>2, <2>3 DEF Delete, TypeOK
<1>13. CASE UNCHANGED vars
  BY <1>13 DEF vars, TypeOK
<1>14. QED
  BY <1>5, <1>6, <1>7, <1>8, <1>9, <1>10, <1>11, <1>12, <1>13 DEF Next, User, Others


-----------------------------------------------------------------------------

LEMMA OnceStep ==
  ASSUME WalkInv, OnceInv, Dialect # "mysql", [Next]_vars
  PROVE  OnceInv'
<1> DEFINE f == pageNo * RowsPerPage
           g == pageNo * RowsPerPage + RowsPerPage
<1>1. SUFFICES ASSUME ~inserted'
               PROVE  /\ UpTo(seen, f)' /\ UpTo(shown, g)' /\ (shown \cap seen = {})'
  BY DEF OnceInv
<1>2. /\ rows \in Seq(Row) /\ DOMAIN rows = 1..Len(rows) /\ Len(rows) \in Nat
      /\ \A i, j \in DOMAIN rows : rows[i] = rows[j] => i = j
  BY LenProperties DEF TypeOK, WalkInv
<1>3. f \in Nat /\ g \in Nat /\ f <= g
  BY PagedQueryAssumption, MaxIntAssumption DEF TypeOK, WalkInv
<1>4. ~inserted
  BY <1>1 DEF Next, User, Others, Count, Fetch, Fail, Retry, Follow, End, Add, Delete,
              table, vars, WalkInv, TypeOK
<1>5. UpTo(seen, f) /\ UpTo(shown, g) /\ shown \cap seen = {}
  BY <1>4 DEF OnceInv
<1>6. UpTo(PageRows, g) /\ PageRows \cap seen = {}
  BY <1>2, <1>3, <1>5, NumberedPage DEF RowsBetween, UpTo
<1>7. CASE Count \/ Retry \/ End \/ UNCHANGED vars
  BY <1>5, <1>7 DEF Count, Retry, End, vars, table, UpTo
<1>8. CASE Fetch
  BY <1>5, <1>6, <1>8 DEF Fetch, table, UpTo
<1>9. CASE Fail
  <2>1. shown' \subseteq PageRows \/ shown' = shown
    BY <1>9 DEF Fail
  <2>2. UNCHANGED <<rows, seen, pageNo>>
    BY <1>9 DEF Fail, table
  <2>3. QED
    BY <1>5, <1>6, <2>1, <2>2 DEF UpTo
<1>10. CASE Follow
  <2>1. PICK p \in NextLink : pageNo' = p
    BY <1>10 DEF Follow
  <2>2. f' = g
    BY <2>1, NextPage
  <2>3. seen' = seen \cup shown /\ shown' = {} /\ rows' = rows
    BY <1>10 DEF Follow, table
  <2>4. \A i \in DOMAIN rows : rows[i] \in seen \cup shown => i <= g
    BY <1>2, <1>3, <1>5 DEF UpTo
  <2> HIDE DEF f, g
  <2>5. QED
    BY <2>2, <2>3, <2>4 DEF UpTo
<1>11. ASSUME NEW r \in Row, NEW i \in 1..(Len(rows) + 1), Add(r, i)
       PROVE  UpTo(seen, f)' /\ UpTo(shown, g)' /\ (shown \cap seen = {})'
  <2>1. /\ DOMAIN rows' = 1..(Len(rows) + 1)
        /\ \A j \in 1..(Len(rows) + 1) :
              rows'[j] = IF j < i THEN rows[j] ELSE IF j = i THEN r ELSE rows[j - 1]
    BY <1>11, AddStep
  <2>2. i = Len(rows) + 1 /\ UNCHANGED <<seen, shown, pageNo>>
    <3>1. ~(i <= Len(rows)) /\ UNCHANGED <<seen, shown, pageNo>>
      BY <1>1, <1>11, Zenon DEF Add
    <3>2. QED
      BY <1>2, <3>1
  <2>3. r \notin seen /\ r \notin shown
    BY <1>11 DEF Add, WalkInv
  <2>4. \A j \in DOMAIN rows' : (j \in DOMAIN rows /\ rows'[j] = rows[j]) \/ rows'[j] = r
    BY <1>2, <2>1, <2>2
  <2> HIDE DEF f, g
  <2>5. f' = f /\ g' = g
    BY <2>2 DEF f, g
  <2>6. QED
    BY <1>5, <2>2, <2>3, <2>4, <2>5 DEF UpTo
<1>12. ASSUME NEW i \in DOMAIN rows, Delete(i)
       PROVE  UpTo(seen, f)' /\ UpTo(shown, g)' /\ (shown \cap seen = {})'
  <2>1. /\ DOMAIN rows' = 1..(Len(rows) - 1) /\ i \in 1..Len(rows)
        /\ \A j \in 1..(Len(rows) - 1) :
              rows'[j] = IF j < i THEN rows[j] ELSE rows[j + 1]
    BY <1>12, DeleteStep
  <2>2. UNCHANGED <<seen, shown, pageNo>>
    BY <1>12 DEF Delete
  <2>3. \A j \in DOMAIN rows' :
           \E k \in DOMAIN rows : j <= k /\ rows'[j] = rows[k]
    <3> TAKE j \in DOMAIN rows'
    <3>1. CASE j < i
      BY <1>2, <2>1, <3>1
    <3>2. CASE i <= j
      BY <1>2, <2>1, <3>2
    <3>3. j < i \/ i <= j
      BY <2>1
    <3>4. QED
      BY <3>1, <3>2, <3>3
  <2> HIDE DEF f, g
  <2>4. f' = f /\ g' = g
    BY <2>2 DEF f, g
  <2>5. ASSUME NEW n \in Nat, NEW S, UpTo(S, n)
        PROVE  \A j \in DOMAIN rows' : rows'[j] \in S => j <= n
    BY <1>2, <2>1, <2>3, <2>5 DEF UpTo
  <2>6. QED
    BY <1>3, <1>5, <2>2, <2>4, <2>5 DEF UpTo
<1>13. QED
  BY <1>7, <1>8, <1>9, <1>10, <1>11, <1>12 DEF Next, User, Others


\* What was there from the start is found where it is, or further down.
LEMMA SkipStep ==
  ASSUME WalkInv, SkipInv, Dialect # "mysql", ~Swallows, [Next]_vars
  PROVE  SkipInv'
<1> DEFINE f == pageNo * RowsPerPage
           g == pageNo * RowsPerPage + RowsPerPage
           Early == \A i \in DOMAIN rows : rows[i] \in Range(Start) => i <= Len(Start)
<1>1. SUFFICES ASSUME ~deleted'
               PROVE  /\ Len(Start) <= Len(rows')
                      /\ pc' \in {"fetch", "shown", "end"} => Len(Start) <= totalRows'
                      /\ pc' = "end" => totalRows' <= g'
                      /\ StartUpTo(f, seen)'
                      /\ pc' \in {"shown", "end"} => StartUpTo(g, seen \cup shown)'
                      /\ ~inserted' => Early'
  BY DEF SkipInv
<1>2. /\ rows \in Seq(Row) /\ DOMAIN rows = 1..Len(rows) /\ Len(rows) \in Nat
      /\ totalRows \in Nat /\ Len(Start) \in Nat
  BY LenProperties, PagedQueryAssumption DEF TypeOK, WalkInv
<1>3. f \in Nat /\ g \in Nat /\ f <= g
  BY PagedQueryAssumption, MaxIntAssumption DEF TypeOK, WalkInv
<1>4. ~deleted
  BY <1>1 DEF Next, User, Others, Count, Fetch, Fail, Retry, Follow, End, Add, Delete,
              table, vars, WalkInv, TypeOK
<1>5. /\ Len(Start) <= Len(rows)
      /\ pc \in {"fetch", "shown", "end"} => Len(Start) <= totalRows
      /\ pc = "end" => totalRows <= g
      /\ StartUpTo(f, seen)
      /\ pc \in {"shown", "end"} => StartUpTo(g, seen \cup shown)
      /\ ~inserted => Early
  BY <1>4 DEF SkipInv
<1> DEFINE Same == UNCHANGED <<rows, pageNo, inserted>>
<1>6. CASE Count
  BY <1>5, <1>6 DEF Count, table, StartUpTo
<1>7. CASE Fetch
  <2>1. StartUpTo(g, seen \cup PageRows)
    <3>1. SUFFICES ASSUME NEW i \in DOMAIN rows, rows[i] \in Range(Start), i <= g
                   PROVE  rows[i] \in seen \cup PageRows
      BY DEF StartUpTo
    <3>2. CASE i <= f
      BY <1>5, <3>1, <3>2 DEF StartUpTo
    <3>3. CASE f < i
      BY <3>1, <3>3, NumberedPage DEF RowsBetween
    <3>4. i <= f \/ f < i
      BY <1>2, <1>3
    <3>5. QED
      BY <3>2, <3>3, <3>4
  <2>2. QED
    BY <1>5, <1>7, <2>1 DEF Fetch, table, StartUpTo
<1>8. CASE Fail
  BY <1>5, <1>8 DEF Fail, table, StartUpTo
<1>9. CASE Retry
  BY <1>5, <1>9 DEF Retry, table, StartUpTo
<1>10. CASE Follow
  <2>1. PICK p \in NextLink : pageNo' = p
    BY <1>10 DEF Follow
  <2>2. f' = g
    BY <2>1, NextPage
  <2>3. seen' = seen \cup shown /\ shown' = {} /\ pc = "shown" /\ pc' = "count"
        /\ UNCHANGED <<rows, inserted>>
    BY <1>10 DEF Follow, table
  <2> HIDE DEF f, g
  <2>4. QED
    BY <1>5, <2>2, <2>3 DEF StartUpTo
<1>11. CASE End
  <2>1. totalRows <= g
    BY <1>11, LastPage DEF End
  <2>2. QED
    BY <1>5, <1>11, <2>1 DEF End, table, StartUpTo
<1>12. ASSUME NEW r \in Row, NEW i \in 1..(Len(rows) + 1), Add(r, i)
       PROVE  /\ Len(Start) <= Len(rows')
              /\ pc' \in {"fetch", "shown", "end"} => Len(Start) <= totalRows'
              /\ pc' = "end" => totalRows' <= g'
              /\ StartUpTo(f, seen)'
              /\ pc' \in {"shown", "end"} => StartUpTo(g, seen \cup shown)'
              /\ ~inserted' => Early'
  <2>1. /\ DOMAIN rows' = 1..(Len(rows) + 1) /\ Len(rows') = Len(rows) + 1
        /\ \A j \in 1..(Len(rows) + 1) :
              rows'[j] = IF j < i THEN rows[j] ELSE IF j = i THEN r ELSE rows[j - 1]
    BY <1>12, AddStep
  <2>2. UNCHANGED <<pc, seen, shown, pageNo, totalRows>> /\ r \notin Range(Start)
    BY <1>12 DEF Add, WalkInv
  <2>3. \A j \in DOMAIN rows' :
           rows'[j] \in Range(Start) =>
              \E k \in DOMAIN rows : k <= j /\ (j <= i => k = j) /\ rows'[j] = rows[k]
    <3> TAKE j \in DOMAIN rows'
    <3>1. CASE j < i
      BY <1>2, <2>1, <3>1
    <3>2. CASE j = i
      BY <2>1, <2>2, <3>2
    <3>3. CASE i < j
      <4>1. j - 1 \in DOMAIN rows /\ j - 1 <= j /\ ~(j <= i) /\ rows'[j] = rows[j - 1]
        BY <1>2, <2>1, <3>3
      <4>2. QED
        BY <4>1
    <3>4. j < i \/ j = i \/ i < j
      BY <2>1
    <3>5. QED
      BY <3>1, <3>2, <3>3, <3>4
  <2>4. ~inserted' => ~inserted /\ i = Len(rows) + 1
    <3>1. ~inserted' => ~inserted /\ ~(i <= Len(rows))
      BY <1>12, Zenon DEF Add
    <3>2. QED
      BY <1>2, <3>1
  <2> HIDE DEF f, g
  <2>5. f' = f /\ g' = g
    BY <2>2 DEF f, g
  <2>6. ASSUME NEW n \in Nat, NEW S, StartUpTo(n, S)
        PROVE  \A j \in DOMAIN rows' : rows'[j] \in Range(Start) /\ j <= n => rows'[j] \in S
    BY <1>2, <2>1, <2>3, <2>6 DEF StartUpTo
  <2>7. ~inserted' => Early'
    BY <1>2, <1>5, <2>1, <2>3, <2>4
  <2>8. StartUpTo(f, seen)' /\ (pc' \in {"shown", "end"} => StartUpTo(g, seen \cup shown)')
    BY <1>3, <1>5, <2>2, <2>5, <2>6 DEF StartUpTo
  <2>9. QED
    BY <1>2, <1>5, <2>1, <2>2, <2>5, <2>7, <2>8
<1>13. CASE \E i \in DOMAIN rows : Delete(i)
  BY <1>1, <1>13 DEF Delete
<1>14. CASE UNCHANGED vars
  BY <1>5, <1>14 DEF vars, StartUpTo
<1>15. QED
  BY <1>6, <1>7, <1>8, <1>9, <1>10, <1>11, <1>12, <1>13, <1>14 DEF Next, User, Others

-----------------------------------------------------------------------------
(* The theorems. *)

LEMMA WalkInit ==
  ASSUME Init
  PROVE  WalkInv /\ OnceInv /\ SkipInv
<1>1. /\ rows = Start /\ Start \in Seq(Row) /\ used = Range(Start) /\ Range(Start) \subseteq Row
      /\ DOMAIN Start = 1..Len(Start) /\ Len(Start) \in Nat
  BY PagedQueryAssumption, LenProperties DEF Init, Range
<1>2. RowsPerPage \in Nat /\ RowsPerPage <= MaxInt /\ MaxFailures \in Nat
  BY PagedQueryAssumption, MaxIntAssumption
<1>3. WalkInv
  <2>1. TypeOK
    <3>1. rows \in Seq(Row) /\ used \subseteq Row
      BY <1>1
    <3>2. 0 \in 0..MaxFailures
      BY <1>2
    <3>3. QED
      BY <3>1, <3>2 DEF Init, TypeOK
  <2>2. pageNo * RowsPerPage + RowsPerPage <= MaxInt /\ totalRows + RowsPerPage <= MaxInt
    BY <1>2 DEF Init
  <2>3. \A i, j \in DOMAIN Start : Start[i] = Start[j] => i = j
    BY PagedQueryAssumption DEF IsInjective
  <2>4. \A i \in DOMAIN Start : Start[i] \in Range(Start)
    BY <1>1 DEF Range
  <2>5. QED
    BY <1>1, <2>1, <2>2, <2>3, <2>4 DEF Init, WalkInv
<1>4. OnceInv
  BY DEF Init, OnceInv, UpTo
<1>5. SkipInv
  BY <1>1, <1>2 DEF Init, SkipInv, StartUpTo
<1>6. QED
  BY <1>3, <1>4, <1>5

\* As long as the rows fit the numbers of the code, every variable of
\* PagedQuery keeps its type.
THEOREM PagedQueryTyping == Spec /\ []Fits => []TypeOK
<1>1. Init => WalkInv
  BY WalkInit
<1>2. WalkInv /\ Fits /\ [Next]_vars /\ Fits' => WalkInv'
  BY WalkStep
<1>3. WalkInv => TypeOK
  BY DEF WalkInv
<1>4. QED
  BY <1>1, <1>2, <1>3, PTL DEF Spec

\* In the dialects that select by row numbers no row is shown on two pages
\* unless rows were inserted before others, whatever is appended or deleted
\* between the requests and between the count and the page.
THEOREM ShownOnce == Dialect # "mysql" => (Spec /\ []Fits => []NothingTwice)
<1> SUFFICES ASSUME Dialect # "mysql"
             PROVE  Spec /\ []Fits => []NothingTwice
  OBVIOUS
<1>1. Init => WalkInv /\ OnceInv
  BY WalkInit
<1>2. WalkInv /\ OnceInv /\ Fits /\ [Next]_vars /\ Fits' => WalkInv' /\ OnceInv'
  BY WalkStep, OnceStep
<1>3. OnceInv => NothingTwice
  BY DEF OnceInv, NothingTwice
<1>4. QED
  BY <1>1, <1>2, <1>3, PTL DEF Spec

\* In the same dialects a walk whose failures are reported shows every row
\* that stayed from the start to the end, but for those that insertions pushed
\* behind the last row counted.
THEOREM MissedOnlyPastCount ==
  Dialect # "mysql" /\ ~Swallows => (Spec /\ []Fits => []SkippedOnlyPastCount)
<1> SUFFICES ASSUME Dialect # "mysql", ~Swallows
             PROVE  Spec /\ []Fits => []SkippedOnlyPastCount
  OBVIOUS
<1>1. Init => WalkInv /\ SkipInv
  BY WalkInit
<1>2. WalkInv /\ SkipInv /\ Fits /\ [Next]_vars /\ Fits' => WalkInv' /\ SkipInv'
  BY WalkStep, SkipStep
<1>3. WalkInv /\ SkipInv => SkippedOnlyPastCount
  <2> SUFFICES ASSUME WalkInv, SkipInv, pc = "end", ~deleted, NEW i \in DOMAIN rows,
                      rows[i] \in Range(Start), rows[i] \notin seen \cup shown
               PROVE  i > totalRows /\ inserted
    BY DEF SkippedOnlyPastCount
  <2>1. /\ Len(Start) <= totalRows
        /\ totalRows <= pageNo * RowsPerPage + RowsPerPage
        /\ ~(i <= pageNo * RowsPerPage + RowsPerPage)
        /\ ~inserted => i <= Len(Start)
    BY DEF SkipInv, StartUpTo
  <2>2. /\ Len(Start) \in Nat /\ totalRows \in Nat /\ i \in Nat
        /\ pageNo * RowsPerPage + RowsPerPage \in Nat
    BY PagedQueryAssumption, MaxIntAssumption, LenProperties DEF WalkInv, TypeOK
  <2>3. QED
    BY <2>1, <2>2
<1>4. QED
  BY <1>1, <1>2, <1>3, PTL DEF Spec

=============================================================================
