---------------------------- MODULE TreeCheck ----------------------------
(***************************************************************************)
(* The functions of the plugins jquery.ztree.excheck (check boxes and      *)
(* radio buttons) and jquery.ztree.exhide (hidden nodes) that work on the  *)
(* check state, over the record T of TreeData.  exhide wraps five of       *)
(* excheck's functions with an early return for hidden nodes; without      *)
(* exhide no node is hidden, so the guards stand here once.                *)
(*                                                                         *)
(* T.set.check is "none", "checkbox" or "radio"; T.set.Y and T.set.N are   *)
(* check.chkboxType as sets of "p" (the parents follow) and "s" (the sons  *)
(* follow).  halfCheck given by the program, check_Focus and               *)
(* autoCheckTrigger are left out.                                          *)
(***************************************************************************)
EXTENDS TreeData

Checking(T) == T.set.check # "none"
IsRadio(T) == T.set.check = "radio"

\* A node whose own box counts: neither without a box nor disabled.
Counts(T, n) == n \notin T.nocheck /\ n \notin T.disabled

\* What a child adds to check_Child_State of its parent: 2 all checked,
\* 1 some, 0 none, -1 nothing to check.
ChildFlag(T, c) ==
    LET state == T.childState[c]
    IN IF ~Counts(T, c) THEN state
       ELSE IF IsRadio(T) THEN IF c \in T.checked \/ state > 0 THEN 2 ELSE 0
       ELSE IF c \in T.checked THEN IF state \in {-1, 2} THEN 2 ELSE 1
       ELSE IF state > 0 THEN 1 ELSE 0

\* The value data.makeChkFlag computes for a node.
ChkFlag(T, n) ==
    LET flags == {ChildFlag(T, c) : c \in ToSet(T.kids[n])} \ {-1}
    IN IF flags = {} THEN -1
       ELSE IF IsRadio(T) THEN IF 2 \in flags THEN 2 ELSE IF 0 \in flags THEN 0 ELSE -1
       ELSE IF flags = {2} THEN 2 ELSE IF flags = {0} THEN 0 ELSE 1

MakeChkFlag(T, n) ==
    IF n \notin Node \/ n \in T.isHidden THEN T
    ELSE [T EXCEPT !.childState[n] = ChkFlag(T, n)]

\* view.makeChkClass, and whether the box is displayed at all.
MakeChkClass(T, n) ==
    LET state == T.childState[n]
        full == IF IsRadio(T) \/ n \notin T.checked THEN state < 1 ELSE state \in {-1, 2}
    IN IF n \in T.nocheck THEN "hidden"
       ELSE (IF n \in T.checked THEN "true_" ELSE "false_")
            \o (IF n \in T.disabled THEN "disable" ELSE IF full THEN "full" ELSE "part")

SetChkClass(T, n) ==
    IF Checking(T) /\ HasLi(T, n) THEN [T EXCEPT !.chkClass[n] = MakeChkClass(T, n)] ELSE T

-----------------------------------------------------------------------------
(* Repairing the parents.                                                   *)

RepairChkClass(T, n) ==
    LET Show(U) == IF n \in U.nocheck THEN U ELSE SetChkClass(U, n)
    IN IF n \notin Node THEN T ELSE Show(MakeChkFlag(T, n))

RECURSIVE RepairParentChkClass(_, _)
RepairParentChkClass(T, n) ==
    IF n \notin Node \/ GetParentNode(T, n) = Nobody THEN T
    ELSE LET p == GetParentNode(T, n)
         IN RepairParentChkClass(RepairChkClass(T, p), p)

RepairParentChkClassWithSelf(T, n) ==
    IF n \notin Node \/ n \in T.isHidden THEN T
    ELSE RepairParentChkClass(T, IF T.kids[n] = <<>> THEN n ELSE T.kids[n][1])

\* Mutant: nothing is repaired after a removal or a move.
RepairNone(T, p) == T

\* The calls excheck's wrappers of createNodes, removeNode and moveNode end with.
RepairSelf(T, n) == IF Checking(T) THEN RepairParentChkClassWithSelf(T, n) ELSE T
RepairParents(T, p) ==
    IF Checking(T) /\ p # Root THEN RepairParentChkClass(RepairChkClass(T, p), p) ELSE T

-----------------------------------------------------------------------------
(* Checking one node and those it carries along.                            *)

RECURSIVE SetSonNodeCheckBox(_, _, _)
SetSonNodeCheckBox(T, n, value) ==
    IF n \in T.isHidden \/ n \in T.disabled THEN T
    ELSE LET sons == T.kids[n]
             U == FoldLeft(LAMBDA V, c : SetSonNodeCheckBox(V, c, value), T, sons)
             hasDisable == \E c \in ToSet(sons) : c \in T.disabled
             W == IF n \in T.nocheck THEN [U EXCEPT !.childState[n] = -1]
                  ELSE LET M == IF hasDisable THEN MakeChkFlag(U, n) ELSE U
                       IN [M EXCEPT
                           !.checked = IF value THEN @ \cup {n} ELSE @ \ {n},
                           !.childState[n] = IF hasDisable THEN @
                                             ELSE IF sons = <<>> THEN -1
                                             ELSE IF value THEN 2 ELSE 0]
         IN SetChkClass(W, n)

\* A sibling group that keeps its parent checked.
KeepsParent(T, n) ==
    \E m \in ToSet(T.kids[ParentOrRoot(T, n)]) :
        IF Counts(T, m) THEN m \in T.checked ELSE T.childState[m] > 0

RECURSIVE SetParentNodeCheckBox(_, _, _)
SetParentNodeCheckBox(T, n, value) ==
    LET U == MakeChkFlag(T, n)
        V == IF Counts(U, n)
             THEN SetChkClass([U EXCEPT !.checked = IF value THEN @ \cup {n} ELSE @ \ {n}], n)
             ELSE U
    IN IF T.par[n] # Root /\ (value \/ ~KeepsParent(V, n))
       THEN SetParentNodeCheckBox(V, GetParentNode(V, n), value)
       ELSE V

\* The buttons a radio button switches off, one after the other.
Uncheck(T, m) == SetChkClass([T EXCEPT !.checked = @ \ {m}], m)

\* Node n of a tree with radioType "all" has been checked: those of
\* radioCheckedList that are still in the tree are switched off.
ReplaceRadio(T, n) ==
    LET Off(U, m) == LET V == Uncheck(U, m)
                     IN IF V.par[m] # V.par[n] THEN RepairParentChkClassWithSelf(V, m) ELSE V
        list == SelectSeq(T.radioList, LAMBDA m : m \in T.cache)
    IN [FoldLeft(Off, T, Reverse(list)) EXCEPT !.radioList = <<n>>]

CheckNodeRelation(T, n) ==
    IF IsRadio(T)
    THEN IF T.set.radioType = "all"
         THEN IF n \in T.checked THEN ReplaceRadio(T, n)
              ELSE [T EXCEPT !.radioList = SelectSeq(@, LAMBDA m : m \in T.cache /\ m # n)]
         ELSE IF n \in T.checked
         THEN FoldLeft(LAMBDA U, m : IF m \in U.checked /\ m # n THEN Uncheck(U, m) ELSE U,
                       T, T.kids[ParentOrRoot(T, n)])
         ELSE T
    ELSE LET value == n \in T.checked
             follow == IF value THEN T.set.Y ELSE T.set.N
             U == IF T.kids[n] = <<>> \/ "s" \in follow
                  THEN SetSonNodeCheckBox(T, n, value) ELSE T
         IN IF "p" \in follow THEN SetParentNodeCheckBox(U, n, value) ELSE U

\* zTreeTools.checkNode(node, checked, checkTypeFlag, callbackFlag).
CheckNode(T, n, value, relation) ==
    IF n \in T.disabled \/ n \in T.isHidden \/ n \in T.nocheck \/ T.curEdit # Nobody
       \/ ((value <=> n \in T.checked) /\ ~relation)
    THEN T
    ELSE LET U == [T EXCEPT !.checked = IF value THEN @ \cup {n} ELSE @ \ {n}]
             V == IF relation \/ IsRadio(T) THEN CheckNodeRelation(U, n) ELSE U
         IN RepairParentChkClassWithSelf(SetChkClass(V, n), n)

\* handler.onCheckNode: the user clicks on the box.
OnCheckNode(T, n) ==
    IF n \in T.disabled THEN T
    ELSE LET U == [T EXCEPT !.checked = IF n \in @ THEN @ \ {n} ELSE @ \cup {n}]
         IN RepairParentChkClassWithSelf(SetChkClass(CheckNodeRelation(U, n), n), n)

\* zTreeTools.checkAllNodes
RepairAllChk(T, value) ==
    IF T.set.check # "checkbox" THEN T
    ELSE FoldLeft(LAMBDA U, n :
                     SetSonNodeCheckBox(
                         [U EXCEPT !.checked = IF ~Counts(U, n) THEN @
                                               ELSE IF value THEN @ \cup {n} ELSE @ \ {n}],
                         n, value),
                  T, T.kids[Root])

-----------------------------------------------------------------------------
(* Disabling.                                                               *)

SetDisabled(T, n, value) == [T EXCEPT !.disabled = IF value THEN @ \cup {n} ELSE @ \ {n}]

RECURSIVE RepairSonChkDisabled(_, _, _, _)
RepairSonChkDisabled(T, n, value, inherit) ==
    LET U == RepairChkClass(SetDisabled(T, n, value), n)
    IN IF ~inherit THEN U
       ELSE FoldLeft(LAMBDA V, c : RepairSonChkDisabled(V, c, value, inherit), U, T.kids[n])

RECURSIVE RepairParentChkDisabled(_, _, _, _)
RepairParentChkDisabled(T, n, value, inherit) ==
    IF n = Nobody THEN T
    ELSE RepairParentChkDisabled(
            RepairChkClass(IF inherit THEN SetDisabled(T, n, value) ELSE T, n),
            GetParentNode(T, n), value, inherit)

SetChkDisabled(T, n, value, inheritParent, inheritChildren) ==
    RepairParentChkDisabled(RepairSonChkDisabled(T, n, value, inheritChildren),
                            GetParentNode(T, n), value, inheritParent)

-----------------------------------------------------------------------------
(* What a program reads: data.getTreeCheckedNodes (in tree order, nothing   *)
(* below a hidden parent; of the radio buttons of a tree the first).        *)

RECURSIVE GetTreeNodesWhere(_, _, _)
GetTreeNodesWhere(T, o, S) ==
    IF o \in T.isHidden THEN <<>>
    ELSE FlattenSeq([i \in DOMAIN T.kids[o] |->
            LET n == T.kids[o][i]
            IN (IF n \in S /\ Counts(T, n) THEN <<n>> ELSE <<>>) \o GetTreeNodesWhere(T, n, S)])

GetTreeCheckedNodes(T, value) ==
    LET all == GetTreeNodesWhere(T, Root, IF value THEN T.checked ELSE Node \ T.checked)
    IN IF value /\ IsRadio(T) /\ T.set.radioType = "all" /\ all # <<>> THEN <<all[1]>> ELSE all

-----------------------------------------------------------------------------
(* exhide's part of hiding and showing a node.                              *)

InitHideForExCheck(T, n) ==
    IF ~Checking(T) THEN T
    ELSE LET U == IF n \in T.kept THEN T
                  ELSE [T EXCEPT !.kept = @ \cup {n}, !.nocheck = @ \cup {n},
                                 !.keptNocheck = IF n \in T.nocheck THEN @ \cup {n} ELSE @]
         IN RepairParentChkClassWithSelf([U EXCEPT !.childState[n] = -1], n)

InitShowForExCheck(T, n) ==
    IF ~Checking(T) THEN T
    ELSE LET U == IF n \notin T.kept THEN T
                  ELSE [T EXCEPT !.kept = @ \ {n}, !.keptNocheck = @ \ {n},
                                 !.nocheck = IF n \in T.keptNocheck THEN @ ELSE @ \ {n}]
         IN RepairParentChkClassWithSelf(SetChkClass(U, n), n)

=============================================================================
