----------------------------- MODULE TreeEdit -----------------------------
(***************************************************************************)
(* The functions of jquery.ztree.exedit that change the tree: moving and   *)
(* copying nodes and renaming them in place, over the record T.            *)
(***************************************************************************)
EXTENDS TreeView

-----------------------------------------------------------------------------
(* Renaming: curEdit is root.curEditNode, editFlag the nodes whose          *)
(* editNameFlag is set.                                                     *)

\* view.cancelCurEditNode; the program's beforeRename may refuse.
CancelCurEditNode(T, refused) ==
    LET n == T.curEdit
    IN IF n = Nobody \/ refused THEN T
       ELSE SelectNode([Trigger(T, <<"RENAME", n>>) EXCEPT
                           !.editFlag = @ \ {n}, !.curEdit = Nobody], n, FALSE)

\* view.editNode
EditNode(T, n, refused) ==
    LET U == [T EXCEPT !.blurOff = FALSE]
    IN IF IsSelectedNode(T, n) /\ T.curEdit = n /\ n \in T.editFlag THEN U
       ELSE [SelectNode(CancelCurEditNode(RemoveTreeDom([U EXCEPT !.editFlag = @ \cup {n}], {n}),
                                          refused), n, FALSE)
                EXCEPT !.curEdit = n]

\* zTreeTools.editName
EditName(T, n, refused) ==
    IF n \notin T.cache THEN T
    ELSE EditNode(ExpandCollapseParentNode(T, GetParentNode(T, n), TRUE), n, refused)

\* The <input>: losing the focus, Enter and Escape.
InputBlur(T, refused) == IF T.blurOff THEN T ELSE CancelCurEditNode(T, refused)
InputEnter(T, refused) == CancelCurEditNode([T EXCEPT !.blurOff = TRUE], refused)
InputEscape(T, refused) == CancelCurEditNode(T, refused)

-----------------------------------------------------------------------------
(* Moving.  type is "inner", "prev" or "next"; target is the root object    *)
(* for null.                                                                *)

\* The <li> of the node goes where the target is shown, or away.
MoveLi(T, target, n, type) ==
    LET holder == CHOOSE o \in Obj : HasUl(T, o) /\ target \in ToSet(T.dom[o])
        place == IF type = "inner" THEN target ELSE holder
        Take(dom) == [o \in Obj |-> SelectSeq(dom[o], LAMBDA m : m # n)]
        Put(dom) == [dom EXCEPT ![place] =
                       IF type = "inner" THEN Append(@, n)
                       ELSE InsertAt(@, IndexIn(@, target) + (IF type = "prev" THEN 0 ELSE 1), n)]
    IN [(IF HasLi(T, n) THEN T ELSE Render(T, place, <<n>>)) EXCEPT !.dom = Put(Take(@))]

Made(T, n) == IF HasLi(T, n) THEN T ELSE AppendNodes(T, Root, <<n>>, FALSE)
RoomIn(T, target) ==
    IF target # Root /\ ~HasUl(T, target)
    THEN [T EXCEPT !.ul = @ \cup {target},
                   !.shown = IF target \in T.open THEN @ \cup {target} ELSE @]
    ELSE T
MoveDom(T, target, n, type) ==
    IF target # Root /\ ~HasLi(T, target) THEN RemoveLis(T, {n} \cap Lis(T))
    ELSE MoveLi(RoomIn(T, target), target, n, type)

\* The children arrays and the marks of the neighbours: the node leaves p, ...
PlaceOf(T, p, n) ==
    IF n \in T.first THEN 1 ELSE IF n \in T.last THEN Len(T.kids[p]) ELSE IndexIn(T.kids[p], n)
OldNeighbour(T, p, n) ==
    LET i == IF n \in T.first THEN 2 ELSE PlaceOf(T, p, n) - 1
    IN IF n \in T.first \cup T.last /\ i \in DOMAIN T.kids[p] THEN T.kids[p][i] ELSE Nobody
TakeOut(T, p, n) ==
    LET S == {OldNeighbour(T, p, n)} \ {Nobody}
    IN [T EXCEPT !.kids[p] = RemoveAt(@, PlaceOf(T, p, n)),
                 !.first = IF n \in T.first THEN @ \cup S ELSE @,
                 !.last = IF n \in T.last \ T.first THEN @ \cup S ELSE @]

\* ... and comes to its target.
NewParent(T, target, type) == IF type = "inner" THEN target ELSE ParentOrRoot(T, target)
\* Mutant: a node that is put before the first does not become the first.
BecomesFirstInside(T, target, type) == type = "inner" /\ T.kids[target] = <<>>
BecomesFirst(T, target, type) ==
    IF type = "inner" THEN T.kids[target] = <<>> ELSE type = "prev" /\ target \in T.first
BecomesLast(T, target, type) == type = "inner" \/ (type = "next" /\ target \in T.last)
NewNeighbour(T, target, type) ==
    IF type = "inner" THEN IF T.kids[target] = <<>> THEN Nobody ELSE LastKid(T, target)
    ELSE IF BecomesFirst(T, target, type) \/ BecomesLast(T, target, type) THEN target ELSE Nobody
PutIn(T, target, n, type) ==
    LET newP == NewParent(T, target, type)
        old == {NewNeighbour(T, target, type)}
        at(row) == IF type = "inner" THEN Len(row) + 1
                   ELSE IndexIn(row, target) + (IF type = "prev" THEN 0 ELSE 1)
    IN [T EXCEPT !.kids[newP] = InsertAt(@, at(@), n), !.listed = @ \cup {newP}, !.par[n] = newP,
                 !.first = IF BecomesFirst(T, target, type) THEN (@ \ old) \cup {n} ELSE @ \ {n},
                 !.last = IF BecomesLast(T, target, type) THEN (@ \ old) \cup {n} ELSE @ \ {n}]
MoveData(T, p, target, n, type) ==
    IF /\ T.kids[p][PlaceOf(T, p, n)] = n
       /\ n \in T.last \ T.first => OldNeighbour(T, p, n) # Nobody
    THEN [tree |-> PutIn(TakeOut(T, p, n), target, n, type),
          oldNeighbour |-> OldNeighbour(T, p, n),
          newNeighbour |-> NewNeighbour(TakeOut(T, p, n), target, type)]
    ELSE [tree |-> [T EXCEPT !.astray = TRUE], oldNeighbour |-> Nobody, newNeighbour |-> Nobody]

\* data.setSonNodeLevel
RECURSIVE SetSonNodeLevel(_, _, _)
SetSonNodeLevel(T, n, level) ==
    FoldLeft(LAMBDA U, c : SetSonNodeLevel(U, c, level + 1),
             [T EXCEPT !.level[n] = level], T.kids[n])

\* The lines, levels and boxes after a move.
Settle(moved, p, n) ==
    LET level == LET U == moved.tree IN IF U.par[n] = Root THEN 0 ELSE U.level[U.par[n]] + 1
        Old(U) == IF U.kids[p] = <<>> /\ ~U.set.keepParent THEN NoMoreParent(U, p)
                  ELSE SetNodeLineIcos(U, moved.oldNeighbour)
        Own(U) == SetNodeLineIcos(SetSonNodeLevel(U, n, level), n)
    IN IF moved.tree.astray THEN moved.tree
       ELSE RepairSelf(RepairParents(SetNodeLineIcos(Old(Own(moved.tree)), moved.newNeighbour), p),
                       n)

\* view.moveNode
Adopt(T, target, n, type) ==
    IF type # "inner" THEN T
    ELSE IF target = Root \/ target \in T.isParent THEN [T EXCEPT !.par[n] = target]
    ELSE SetNodeLineIcos([T EXCEPT !.par[n] = target, !.isParent = @ \cup {target}], target)
OpenTarget(T, target, type, isSilent) ==
    ExpandCollapseNode(T, IF target = Root \/ isSilent THEN Nobody
                          ELSE IF type = "inner" THEN target ELSE GetParentNode(T, target), TRUE)
Reveal(T, n, isSilent) ==
    ExpandCollapseParentNode(T, IF isSilent THEN Nobody ELSE GetParentNode(T, n), TRUE)
Move(T, p, target, n, type, isSilent) ==
    Settle(MoveData(MoveDom(Made(OpenTarget(Adopt(T, target, n, type), target, type, isSilent), n),
                            target, n, type), p, target, n, type), p, n)
MoveNode(T, target, n, type, isSilent) ==
    IF target = n \/ (T.set.keepLeaf /\ target \in Node \ T.isParent /\ type = "inner") THEN T
    ELSE IF {n, target} \ {Root} \subseteq InTree(T) /\ target \notin Below(T, n)
    THEN Reveal(Move(T, ParentOrRoot(T, n), target, n, IF target = Root THEN "inner" ELSE type,
                     isSilent), n, isSilent)
    ELSE [T EXCEPT !.astray = TRUE]

\* dropCallback of a drag within the tree.
DropCopies(T, nodes, target, type) ==
    IF type # "inner" /\ target = Root THEN [T EXCEPT !.astray = TRUE]
    ELSE AddNodes(T, IF type = "inner" THEN target ELSE T.par[target], nodes, FALSE)
MoveEach(T, nodes, target, type) ==
    FoldLeft(LAMBDA U, n : IF U.astray THEN U ELSE MoveNode(U, target, n, type, FALSE), T, nodes)
TellDrop(T, nodes, target, type) ==
    IF T.astray THEN T ELSE Trigger(SelectNodes(T, nodes), <<"DROP", type, target, nodes>>)
Drop(T, nodes, target, type, isCopy) ==
    TellDrop(MoveEach(IF isCopy THEN DropCopies(T, nodes, target, type) ELSE T,
                      IF isCopy /\ type = "inner" THEN <<>>
                      ELSE IF type = "next" THEN Reverse(nodes) ELSE nodes, target, type),
             nodes, target, type)

=============================================================================
