--------------------------- MODULE MCPagedQuery ---------------------------
(***************************************************************************)
(* Instances of PagedQuery for TLC, with a ListPager that other callers    *)
(* set as they like.  The two share nothing, so the pager is set only in   *)
(* one of the states in which a walk has ended: its values then add to     *)
(* those of the walk and do not multiply them.                             *)
(***************************************************************************)
EXTENDS PagedQuery, ListPager

CONSTANTS r1, r2, r3, r4, r5, n1, n2

Start4 == <<r1, r2, r3, r4>>
Start5 == <<r1, r2, r3, r4, r5>>

Rows6 == {r1, r2, r3, r4, n1, n2}
Rows7 == {r1, r2, r3, r4, r5, n1, n2}

\* Ints of five bits (MaxInt 15).
AllPageNos == -3..15
SomeRowsPerPages == 0..10
SomeTotals == 0..20

\* A walk that found its table emptied.
WalkedInVain ==
    /\ pc = "end" /\ failures = 0 /\ ~inserted
    /\ used = Range(Start) /\ seen \cup shown = {}

WalkAndPagerNext ==
    \/ Next /\ UNCHANGED pagerVars
    \/ WalkedInVain /\ PagerNext /\ UNCHANGED vars

WalkAndPagerInit == Init /\ PagerInit

WalkAndPagerSpec ==
    WalkAndPagerInit /\ [][WalkAndPagerNext]_<<vars, pagerVars>> /\ WF_vars(User)

=============================================================================
