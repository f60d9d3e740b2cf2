----------------------------- MODULE TreeDrag -----------------------------
(***************************************************************************)
(* The user's mouse over a zTree (handlers of jquery.ztree.exedit): the    *)
(* buttons beside the node it hovers over, and dragging selected nodes to  *)
(* another place.  From mousedown to mouseup the handlers of a drag are    *)
(* bound to the document, and its variables live on while answers arrive   *)
(* and the program changes the tree.  The drag stays in its tree.          *)
(***************************************************************************)
EXTENDS Tree

VARIABLES
    drag            \* the local variables of onMousedownNode, and root.dragFlag

dragVars == <<T, requests, ops, drag>>

\* phase: "down" from mousedown on, "drag" once dragFlag is 1; target: a
\* node, the root object (the tree itself) or nobody; before: the nodes
\* of dragNodeShowBefore that were open.
NoDrag == [phase |-> "none", nodes |-> <<>>, canDo |-> FALSE, pre |-> Nobody, next |-> Nobody,
           target |-> Nobody, type |-> "inner", before |-> {}]

-----------------------------------------------------------------------------
(* Hovering.                                                                *)

\* handler.onHoverOutNode
HoverOut(U) ==
    IF U.hover = Nobody \/ IsSelectedNode(U, U.hover) THEN U
    ELSE [RemoveTreeDom(U, {U.hover}) EXCEPT !.hover = Nobody]

OnHoverOverNode ==
    \E n \in Live :
        LET U == IF T.hover # n THEN HoverOut(Now) ELSE Now
        IN /\ UserEvent("hover", "mouseover", "a", n, "hoverOverNode")
           /\ Done(AddHoverDom([U EXCEPT !.hover = n], n)) /\ UNCHANGED drag

OnHoverOutNode ==
    \E n \in Live : /\ UserEvent("hover", "mouseout", "a", n, "hoverOutNode")
                    /\ Done(HoverOut(Now)) /\ UNCHANGED drag

\* The buttons of view.addEditBtn and view.addRemoveBtn.
OnButton ==
    /\ Handler("hover") /\ drag.phase = "none" /\ UCanDo(T) /\ UNCHANGED drag
    /\ \E n \in T.hovers \cap Live :
        /\ HasLi(T, n)
        /\ \/ Done(EditNode(Now, n, FALSE))
           \/ Done(RemoveNode(Now, n))

-----------------------------------------------------------------------------
(* Dragging.                                                                *)

\* The nodes the mouse takes along: all selected ones if they are siblings.
Taken(n) ==
    IF IsSelectedNode(T, n) /\ \A m \in ToSet(T.selected) : T.par[m] = T.par[T.selected[1]]
    THEN T.selected ELSE <<n>>

OnMousedownNode ==
    /\ drag.phase = "none"
    /\ \E n \in Live, refused \in T.set.refuses :
        LET U == InputBlur([Now EXCEPT !.blurOff = FALSE], refused)
        IN /\ UserEvent("drag", "mousedown", "a", n, "mousedownNode")
           /\ Done([U EXCEPT !.blurOff = TRUE])
           /\ drag' = [NoDrag EXCEPT !.phase = "down", !.nodes = Taken(n), !.canDo = UCanDo(U)]

\* The first _docMouseMove of a drag: its nodes are closed, put in the order of
\* the tree and selected.
StartDrag ==
    LET nodes == drag.nodes
        row == T.kids[ParentOrRoot(T, nodes[1])]
        at == {i \in DOMAIN row : row[i] \in ToSet(nodes)}
        sorted == SelectSeq(row, LAMBDA m : m \in ToSet(nodes))
        isOrder == Len(nodes) = 1 \/ \A i, j \in at : i..j \subseteq at
        closed == {n \in ToSet(nodes) : n \in T.isParent \cap T.open}
        Close(U) == FoldLeft(LAMBDA V, n : IF n \in closed THEN ExpandCollapseNode(V, n, FALSE)
                                           ELSE V, U, nodes)
    IN IF ParentOrRoot(T, nodes[1]) = Nobody
       THEN T' = [Now EXCEPT !.astray = TRUE] /\ UNCHANGED drag
       ELSE \E dragged \in {IF Len(sorted) = Len(nodes) THEN sorted ELSE nodes} :
            /\ T' = RemoveTreeDom(SelectNodes([Close(Now) EXCEPT !.editFlag = @ \ ToSet(nodes),
                                                               !.showHoverDom = FALSE],
                                              dragged), ToSet(nodes))
            /\ drag' = [drag EXCEPT !.phase = "drag", !.nodes = dragged, !.before = closed,
                          !.pre = IF isOrder THEN GetPreNode(T, dragged[1]) ELSE Nobody,
                          !.next = IF isOrder THEN GetNextNode(T, dragged[Len(dragged)]) ELSE Nobody]

OnDragStart ==
    /\ drag.phase = "down" /\ drag.canDo /\ ~T.astray
    /\ \/ StartDrag
       \/ drag' = NoDrag /\ T' = Now            \* beforeDrag refuses
    /\ UNCHANGED <<requests, ops>>

\* Where the nodes may go: not to themselves nor below, nor where they are.
Ways(isCopy, t) ==
    {type \in {"prev", "next", "inner"} :
        /\ type = "prev" => isCopy \/ t # drag.next
        /\ type = "next" => isCopy \/ t # drag.pre
        /\ type = "inner" => /\ isCopy \/ t # T.par[drag.nodes[1]]
                             /\ ~(T.set.keepLeaf /\ t \notin T.isParent)}

\* A later _docMouseMove; the mouse is over a node, the tree or elsewhere.
OnDragOver ==
    /\ drag.phase = "drag" /\ ~T.astray /\ UNCHANGED <<requests, ops>> /\ T' = Now
    /\ \E isCopy \in BOOLEAN :
        \/ \E t \in Lis(T) \cap T.cache, type \in {"prev", "next", "inner"} :
            /\ t \notin LisBelow(T, ToSet(drag.nodes))
            /\ drag' = IF Ways(isCopy, t) = {} THEN [drag EXCEPT !.target = Nobody, !.type = "inner"]
                       ELSE [drag EXCEPT !.target = t, !.type = type]
            /\ type \in Ways(isCopy, t) \/ Ways(isCopy, t) = {}
        \/ T.par[drag.nodes[1]] # Root /\ drag' = [drag EXCEPT !.target = Root, !.type = "inner"]
        \/ drag' = [drag EXCEPT !.target = Nobody, !.type = "inner"]

\* The timer opens the folder the mouse rests on.
OnDragOpen ==
    /\ drag.phase = "drag" /\ drag.type = "inner" /\ ~T.astray /\ UNCHANGED <<drag, ops>>
    /\ drag.target \in (Live \cap T.isParent) \ T.open /\ Len(requests) < MaxRequests
    /\ T' = SwitchTree(Now, drag.target) /\ requests' = SwitchRequests(T, drag.target)

CloneAll(U, nodes) ==
    FoldLeft(LAMBDA c, n : LET d == Clone(c.tree, n)
                           IN [tree |-> d.tree, nodes |-> Append(c.nodes, d.node)],
             [tree |-> U, nodes |-> <<>>], nodes)
RoomToCopy(nodes) ==
    Cardinality(Node \ T.used) >= Cardinality(UNION {{n} \cup Below(T, n) : n \in ToSet(nodes)})

\* _docMouseUp.  A target that is no longer in the cache is null by now, which
\* is the root.
EndDrag(isCopy, refused) ==
    LET home == /\ ~isCopy /\ drag.type = "inner" /\ drag.target \in Node
                /\ drag.target = T.par[drag.nodes[1]]
        target == IF drag.target \in T.cache THEN drag.target ELSE Root
        Reopen(U) ==
            FoldLeft(LAMBDA V, n : IF n \in drag.before \cap V.isParent /\ n \notin V.open
                                   THEN ExpandCollapseNode(V, n, TRUE) ELSE V,
                     [U EXCEPT !.showHoverDom = TRUE], drag.nodes)
        Copied(U) == IF isCopy THEN CloneAll(U, drag.nodes) ELSE [tree |-> U, nodes |-> drag.nodes]
    IN IF drag.target = Nobody \/ home \/ refused
       THEN T' = SelectNodes(Reopen(Now), drag.nodes) /\ UNCHANGED requests
       ELSE \E c \in {Copied(Reopen(Now))} :
            IF c.tree.astray THEN T' = c.tree /\ UNCHANGED requests
            ELSE IF drag.type = "inner" /\ CanAsync(c.tree, target)
            THEN LET later == DropLater(target, c.nodes, isCopy)
                 IN T' = AsyncTree(c.tree, target)
                    /\ requests' = AsyncRequests(c.tree, target, FALSE, later)
            ELSE T' = Drop(c.tree, c.nodes, target, drag.type, isCopy) /\ UNCHANGED requests

OnMouseup ==
    /\ drag.phase # "none" /\ ~T.astray /\ drag' = NoDrag /\ UNCHANGED ops
    /\ \E isCopy, refused \in BOOLEAN :
        /\ isCopy => RoomToCopy(drag.nodes) /\ T.set.copies
        /\ Len(requests) < MaxRequests
        /\ IF drag.phase = "down" THEN T' = [Now EXCEPT !.showHoverDom = TRUE] /\ UNCHANGED requests
           ELSE EndDrag(isCopy, refused)

-----------------------------------------------------------------------------

DragInit == Init /\ drag = NoDrag

DragNext ==
    \/ drag.phase = "none" /\ UserNext /\ UNCHANGED drag
    \/ ProgramNext /\ UNCHANGED drag
    \/ OnHoverOverNode \/ OnHoverOutNode \/ OnButton
    \/ OnMousedownNode \/ OnDragStart \/ OnDragOver \/ OnDragOpen \/ OnMouseup

Spec == DragInit /\ [][DragNext]_dragVars

=============================================================================
