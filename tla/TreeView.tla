----------------------------- MODULE TreeView -----------------------------
(***************************************************************************)
(* The functions of jquery.ztree.core that change the tree and its page    *)
(* (view, over data), with what the plugins put into them: the node        *)
(* initialisers and wrappers of excheck and exhide, the wrappers of        *)
(* exedit.  Handlers and requests are in Tree.                             *)
(*                                                                         *)
(* A <ul> is rendered when its node is first opened: a node of a closed    *)
(* parent has no <li> yet, and every function has its case for that.       *)
(***************************************************************************)
EXTENDS TreeCheck

-----------------------------------------------------------------------------
(* First and last among the visible siblings (exhide).                      *)

Mark(T, field, n) ==
    SetNodeLineIcos(IF field = "first" THEN [T EXCEPT !.first = @ \cup {n}]
                    ELSE [T EXCEPT !.last = @ \cup {n}], n)
Unmark(T, field, n) ==
    SetNodeLineIcos(IF field = "first" THEN [T EXCEPT !.first = @ \ {n}]
                    ELSE [T EXCEPT !.last = @ \ {n}], n)
Marked(T, field) == IF field = "first" THEN T.first ELSE T.last

\* The siblings from the end that field is about.
Walk(T, p, field) == IF field = "first" THEN T.kids[p] ELSE Reverse(T.kids[p])

\* view.setFirstNodeForHide / setLastNodeForHide: the first sibling that is
\* marked or visible is, or becomes, the marked one.
FirstOf(seq) == IF seq = <<>> THEN Nobody ELSE seq[1]
EndForHide(T, p, field) ==
    FirstOf(SelectSeq(Walk(T, p, field),
                      LAMBDA n : n \in Marked(T, field) \/ n \notin T.isHidden))
MarkEnd(T, n, field) == IF n = Nobody \/ n \in Marked(T, field) THEN T ELSE Mark(T, field, n)
SetEndForHide(T, p, field) == MarkEnd(T, EndForHide(T, p, field), field)

\* view.setFirstNodeForShow / setLastNodeForShow: the first visible sibling
\* becomes the marked one, and the next that is marked loses the mark.
UnmarkEnd(T, n, field) == IF n = Nobody THEN T ELSE Unmark(T, field, n)
SetEndForShow(T, p, field) ==
    LET walk == Walk(T, p, field)
        seen == SelectSeq(walk, LAMBDA n : n \notin T.isHidden)
        old == SelectSeq(SubSeq(walk, IndexIn(walk, seen[1]) + 1, Len(walk)),
                         LAMBDA n : n \in Marked(T, field))
    IN IF seen = <<>> \/ seen[1] \in Marked(T, field) THEN T
       ELSE UnmarkEnd(Mark(T, field, seen[1]), FirstOf(old), field)

\* view.setFirstNode / setLastNode of core (p has children), and exhide's,
\* which look at the first child only.
SetEnd(T, p, field) ==
    IF T.kids[p] = <<>> THEN T
    ELSE IF T.set.hide /\ T.kids[p][1] \in T.isHidden THEN SetEndForHide(T, p, field)
    ELSE IF field = "first" THEN [T EXCEPT !.first = @ \cup {T.kids[p][1]}]
    ELSE [T EXCEPT !.last = @ \cup {LastKid(T, p)}]

\* view.clearOldLastNode of a last node: the mark of an earlier sibling is taken
\* away, unless a first node stands between.
ClearOldLastNode(T, n) ==
    LET p == ParentOrRoot(T, n)
        before == {i \in DOMAIN T.kids[p] : \E j \in DOMAIN T.kids[p] :
                      j > i /\ T.kids[p][j] = n /\ T.kids[p][i] \in T.first \cup T.last}
        i == CHOOSE i \in before : \A j \in before : j <= i
    IN IF n \in T.last /\ before # {} /\ T.kids[p][i] \in T.last THEN Unmark(T, "last", T.kids[p][i]) ELSE T

-----------------------------------------------------------------------------
(* A node object becomes a node of the tree.                                *)

\* _initNode of core, excheck, exedit and exhide.
InitPlugins(T, n, p, isFirst, isLast) ==
    LET parent == T.kids[n] # <<>>
        noBox == n \in T.nocheck \/ (T.set.nocheckInherit /\ p \in T.nocheck)
        noUse == n \in T.disabled \/ (T.set.disabledInherit /\ p \in T.disabled)
        In(S, b) == IF b THEN S \cup {n} ELSE S \ {n}
        U == [T EXCEPT
              !.level[n] = IF p = Root THEN 0 ELSE T.level[p] + 1, !.par[n] = p,
              !.open = In(@, parent /\ n \in @),
              !.isParent = In(@, parent \/ n \in @),
              !.zAsync = In(@, parent \/ n \notin T.isParent),
              !.first = In(@, isFirst), !.last = In(@, isLast),
              !.isAjaxing = @ \ {n}, !.editFlag = @ \ {n},
              !.hovers = @ \ {n},
              !.checkedOld = In(@, n \in T.checked), !.nocheck = In(@, noBox),
              !.disabled = In(@, noUse), !.childState[n] = -1,
              !.radioList = IF IsRadio(T) /\ T.set.radioType = "all" /\ n \in T.checked
                            THEN Append(@, n) ELSE @]
    IN IF n \in T.isHidden THEN InitHideForExCheck(U, n) ELSE U

\* data.initNode, and exhide's, which finds first and last among the visible
\* siblings; it keeps them for as long as the next node initialised has the
\* same parent, which for the root, kept as -1 and given as null, is never.
KeepTmp(T, p, f, l) ==
    [SetNodeLineIcos(SetNodeLineIcos(T, f), l) EXCEPT
        !.tmpHide = [parent |-> IF p = Root THEN Nobody ELSE p, first |-> f, last |-> l]]
TmpHide(T, p) ==
    IF T.tmpHide.parent = p THEN T
    ELSE KeepTmp(SetEndForHide(SetEndForHide(T, p, "first"), p, "last"), p,
                 EndForHide(T, p, "first"), EndForHide(T, p, "last"))
InitHide(T, n, p) ==
    InitPlugins(T, n, p, n = T.tmpHide.first, n = T.tmpHide.last)
InitNode(T, n, p, nodes, i) ==
    IF T.set.hide THEN ClearOldLastNode(InitHide(TmpHide(T, p), n, p), n)
    ELSE InitPlugins(T, n, p, i = 1 /\ Len(T.kids[p]) = Len(nodes), i = Len(nodes))

\* The <li> of nodes put at the end of the <ul> of p, with those inside.
RECURSIVE Render(_, _, _)
Render(T, p, nodes) ==
    LET One(U, n) ==
            LET V == [U EXCEPT !.dom[p] = Append(@, n),
                               !.icon[n] = MakeNodeLineClass(U, n),
                               !.chkClass[n] = IF Checking(U) THEN MakeChkClass(U, n) ELSE @]
            IN IF n \in V.isParent /\ n \in V.open
               THEN Render([V EXCEPT !.ul = @ \cup {n}, !.shown = @ \cup {n}], n, V.kids[n])
               ELSE V
    IN FoldLeft(One, T, nodes)

\* view.appendNodes without the HTML: the nodes are initialised and cached
\* parents first, their check_Child_State is computed children first.  The
\* last step is excheck's wrapper; _beforeA does the same for each node.
RECURSIVE AppendNodes(_, _, _, _)
InitAndCache(T, n, p, nodes, i) == [InitNode(T, n, p, nodes, i) EXCEPT !.cache = @ \cup {n}]
BeforeA(T, n) == IF Checking(T) THEN MakeChkFlag(T, n) ELSE T
AppendNode(T, n, initFlag) ==
    BeforeA(IF T.kids[n] = <<>> THEN T ELSE AppendNodes(T, n, T.kids[n], initFlag), n)
AppendNodes(T, p, nodes, initFlag) ==
    MakeChkFlag(FoldLeft(LAMBDA U, i : AppendNode(IF initFlag
                                                  THEN InitAndCache(U, nodes[i], p, nodes, i) ELSE U,
                                                  nodes[i], initFlag),
                         T, [i \in DOMAIN nodes |-> i]), p)

\* view.appendParentULDom: the <ul> of a node is made anew, after those of
\* its ancestors.  A node whose parent has left the tree too has nowhere to
\* go: the call ends in an exception.
RenderUl(T, n) ==
    IF ~HasLi(T, n) THEN T
    ELSE Render([T EXCEPT !.ul = @ \cup {n},
                          !.shown = IF n \in T.open THEN @ \cup {n} ELSE @ \ {n}],
                n, T.kids[n])
AppendUl(T, n) ==
    IF T.astray THEN T ELSE RenderUl(AppendNodes(RemoveUl(T, n), n, T.kids[n], FALSE), n)

RECURSIVE AppendParentUL(_, _)
AppendParentUL(T, n) ==
    IF n = Nobody THEN [T EXCEPT !.astray = TRUE]
    ELSE AppendUl(IF HasLi(T, n) \/ T.par[n] = Root THEN T
                  ELSE AppendParentUL(T, GetParentNode(T, n)), n)

-----------------------------------------------------------------------------
(* Opening and closing.                                                     *)

\* The user's switch is told to the program by the next node that is opened
\* or closed, or found as it should be.
TellSwitch(T, n, wanted) ==
    IF wanted THEN Trigger(T, <<IF n \in T.open THEN "EXPAND" ELSE "COLLAPSE", n>>) ELSE T

\* The <ul> of a closed parent that is not on the page yet.
RenderFirst(T, n) ==
    IF /\ n \notin T.open /\ n \in T.isParent
       /\ ~HasUl(T, n) \/ (T.kids[n] # <<>> /\ ~HasLi(T, T.kids[n][1]))
    THEN AppendParentUL(T, n) ELSE T
Toggle(T, n) ==
    LET opens == n \notin T.open
        U == [T EXCEPT !.open = IF opens THEN @ \cup {n} ELSE @ \ {n},
                       !.shown = IF opens /\ HasUl(T, n) THEN @ \cup {n} ELSE @ \ {n}]
    IN ReplaceFolder(U, n, IF opens THEN "open" ELSE "close")

ToggleTo(T, n, flag) ==
    IF (n \in T.open <=> flag) \/ n \notin T.isParent \/ T.astray THEN T ELSE Toggle(T, n)

\* view.expandCollapseNode
ExpandCollapseNode(T, n, flag) ==
    IF n = Nobody \/ T.astray THEN T
    ELSE TellSwitch(ToggleTo(RenderFirst([T EXCEPT !.trigger = FALSE], n), n, flag), n, T.trigger)

RECURSIVE ExpandCollapseParentNode(_, _, _)
ExpandCollapseParentNode(T, n, flag) ==
    IF n = Nobody THEN T
    ELSE ExpandCollapseParentNode(ExpandCollapseNode(T, n, flag), GetParentNode(T, n), flag)

\* view.expandCollapseSonNode; o is the root object for the whole tree.
RECURSIVE ExpandCollapseSonNode(_, _, _)
ExpandCollapseSonNode(T, o, flag) ==
    IF o \in T.isHidden THEN T
    ELSE LET U == FoldLeft(LAMBDA V, c : ExpandCollapseSonNode(V, c, flag),
                           [T EXCEPT !.trigger = FALSE], T.kids[o])
         IN ExpandCollapseNode([U EXCEPT !.trigger = T.trigger],
                               IF o = Root THEN Nobody ELSE o, flag)

-----------------------------------------------------------------------------
(* Adding and removing.                                                     *)

\* view.createNodes with the wrappers of excheck and exedit.
OnPage(T, p) ==
    HasUl(T, p) /\ (p = Root \/ p \in T.open \/ (T.kids[p] # <<>> /\ HasLi(T, T.kids[p][1])))
CreateNodes(T, p, nodes) ==
    RepairSelf(IF nodes = <<>> THEN T
               ELSE IF OnPage(T, p) THEN Render(AppendNodes(T, p, nodes, TRUE), p, nodes)
               ELSE AppendNodes(T, p, nodes, TRUE), p)

\* view.addNodes
AddNodes(T, p, nodes, isSilent) ==
    LET U == IF p = Root \/ p \in T.open THEN T
             ELSE [ReplaceFolder(T, p, "close") EXCEPT !.shown = @ \ {p}]
    IN IF T.set.keepLeaf /\ p \in Node \ T.isParent THEN T
       ELSE ExpandCollapseParentNode(CreateNodes(AddNodesData(U, p, nodes), p, nodes),
                                     IF isSilent \/ p = Root THEN Nobody ELSE p, TRUE)

\* The old parent has no children left.
NoMoreParent(T, p) ==
    IF p = Root THEN T
    ELSE LET U == [T EXCEPT !.isParent = @ \ {p}, !.open = @ \ {p}, !.shown = @ \ {p}]
         IN ReplaceFolder(U, p, "docu")

\* Mutant: in the root, too, only the last sibling is drawn anew.
RepairLastLine(T, p) ==
    IF T.kids[p] # <<>> THEN ReplaceLine(T, LastKid(T, p), "bottom")
    ELSE IF T.set.keepParent THEN T ELSE NoMoreParent(T, p)

\* The lines of the siblings a removed node leaves behind.
RepairLines(T, p) ==
    LET end == LastKid(T, p)
    IN IF T.kids[p] = <<>> THEN IF T.set.keepParent THEN T ELSE NoMoreParent(T, p)
       ELSE IF p # Root THEN ReplaceLine(T, end, "bottom")
       ELSE IF Len(T.kids[p]) = 1 THEN ReplaceLine(T, end, "root")
       ELSE ReplaceLine(ReplaceLine(T, T.kids[p][1], "roots"), end, "bottom")

\* view.removeNode of core with the wrappers of exedit and excheck.
RemoveNode(T, n) ==
    LET p == ParentOrRoot(T, n)
        S == [T EXCEPT !.curEdit = IF @ = n THEN Nobody ELSE @,
                       !.first = @ \ {n}, !.last = @ \ {n}]
        U == [RemoveSelectedNode(RemoveNodeCache(RemoveLis(S, {n}), {n}), n) EXCEPT
                !.kids[p] = SelectSeq(@, LAMBDA m : m # n)]
    IN RepairParents(RepairLines(SetEnd(SetEnd(U, p, "first"), p, "last"), p), p)

\* view.removeChildNodes
RemoveChildNodes(T, n) ==
    LET gone == ToSet(T.kids[n])
        U == [RemoveSelectedNode(RemoveNodeCache(T, gone), Nobody) EXCEPT
               !.kids[n] = <<>>, !.listed = @ \ {n}]
    IN IF n \notin T.listed THEN T
       ELSE IF T.set.keepParent THEN EmptyUl(U, n) ELSE RemoveUl(NoMoreParent(U, n), n)

\* view.hideNodes and view.showNodes of exhide, for one node.
HideNode(T, n) ==
    LET p == ParentOrRoot(T, n)
        end == n \in T.first \cup T.last
        U == CancelPreSelectedNode(
                InitHideForExCheck([T EXCEPT !.isHidden = @ \cup {n}, !.first = @ \ {n},
                                             !.last = @ \ {n}], n), n)
    IN IF end THEN SetEndForHide(SetEndForHide(U, p, "first"), p, "last") ELSE U
ShowNode(T, n) ==
    LET p == ParentOrRoot(T, n)
        U == InitShowForExCheck([T EXCEPT !.isHidden = @ \ {n}], n)
    IN SetEndForShow(SetEndForShow(U, p, "first"), p, "last")

=============================================================================
