----------------------------- MODULE TreeData -----------------------------
(***************************************************************************)
(* The data of one zTree (jquery.ztree.core) and what its page shows of   *)
(* it.  Everything the handlers of a tree read and write is a              *)
(* record T; an operator takes the record and returns what the function of *)
(* the same name leaves behind, so that a handler is the composition of    *)
(* the calls it makes, in their order.  The browser runs one handler at a  *)
(* time.                                                                   *)
(*                                                                         *)
(* Node objects are numbers; 0 is the root object of the tree, -1 is null. *)
(* The page is kept as far as the code looks at it or a property is about  *)
(* it: which <ul> there are and in which order they hold the <li> of       *)
(* nodes, the icons, the <a> marked as selected.  Widths, fonts, titles    *)
(* and animations are left out (view.expandSpeed = "").                    *)
(***************************************************************************)
EXTENDS Integers, Sequences, FiniteSets, SequencesExt

CONSTANTS MaxNode       \* bound: node objects ever made

ASSUME MaxNodeAssumption == MaxNode \in Nat \ {0}

Root == 0
Nobody == -1
Node == 1..MaxNode
Obj == Node \cup {Root}

NoIcon == <<"none", "none">>

-----------------------------------------------------------------------------
\* A tree before any node is made; set is its setting object.
EmptyTree(set) ==
    [set |-> set,
     \* the objects: children (listed: it is defined), parentTId, flags, and
     \* caches[treeId].nodes; ver is roots[treeId]._ver, a time of the clock:
     \* hasty says that the root before this one had the same, took that an
     \* answer has been taken that was asked for by a root before this one
     kids |-> [o \in Obj |-> <<>>], listed |-> {}, par |-> [n \in Node |-> Root],
     ver |-> 0, hasty |-> FALSE, took |-> FALSE,
     used |-> {}, cache |-> {}, level |-> [n \in Node |-> 0],
     isParent |-> {}, open |-> {}, zAsync |-> {}, isAjaxing |-> {},
     first |-> {}, last |-> {}, isHidden |-> {},
     \* roots[treeId]; hovers are the nodes with isHover, whose buttons are
     \* shown; bound says whether the handlers of the tree are
     selected |-> <<>>, trigger |-> FALSE, curEdit |-> Nobody, editFlag |-> {}, blurOff |-> FALSE,
     radioList |-> <<>>, hover |-> Nobody, hovers |-> {}, showHoverDom |-> TRUE, bound |-> TRUE,
     \* data.tmpHideParent, tmpHideFirstNode, tmpHideLastNode of exhide
     tmpHide |-> [parent |-> Nobody, first |-> Nobody, last |-> Nobody],
     \* exedit: view.editNodeBlur; excheck: check_Child_State is childState
     checked |-> {}, checkedOld |-> {}, nocheck |-> {}, disabled |-> {},
     \* exhide: nodes that have a _nocheck, and those whose _nocheck is true
     kept |-> {}, keptNocheck |-> {},
     childState |-> [n \in Node |-> -1],
     \* the page
     ul |-> {}, shown |-> {}, dom |-> [o \in Obj |-> <<>>],
     icon |-> [n \in Node |-> NoIcon], marked |-> {}, chkClass |-> [n \in Node |-> "none"],
     \* the events the handler has triggered; and whether the tree has come
     \* apart: the handler was left by an exception, a node was moved that had
     \* left the tree, or below itself, or filled though it is of an earlier
     \* root, whose tIds are given out again (not followed further)
     events |-> <<>>, astray |-> FALSE]

Kids(T, o) == T.kids[o]
IndexIn(seq, n) == CHOOSE i \in DOMAIN seq : seq[i] = n
LastKid(T, o) == T.kids[o][Len(T.kids[o])]

\* node.getParentNode(), which looks parentTId up in the cache.
GetParentNode(T, n) ==
    IF T.par[n] \in T.cache THEN T.par[n] ELSE Nobody

\* node.parentTId ? node.getParentNode() : root
ParentOrRoot(T, n) == IF T.par[n] = Root THEN Root ELSE GetParentNode(T, n)

RECURSIVE Below(_, _)
Below(T, o) == UNION {{k} \cup Below(T, k) : k \in ToSet(T.kids[o])}
InTree(T) == Below(T, Root)

RECURSIVE Above(_, _)
Above(T, n) == IF n = Root THEN {} ELSE {T.par[n]} \cup Above(T, T.par[n])

-----------------------------------------------------------------------------
(* The page: $$(node).get(0) is HasLi, $$(node, UL).get(0) is HasUl.        *)

HasUl(T, o) == o = Root \/ o \in T.ul
Lis(T) == UNION {ToSet(T.dom[o]) : o \in {p \in Obj : HasUl(T, p)}}
HasLi(T, n) == n \in Lis(T)

RECURSIVE LisBelow(_, _)
LisBelow(T, S) ==
    LET inner == UNION {ToSet(T.dom[n]) : n \in S}
    IN IF inner = {} THEN S ELSE S \cup LisBelow(T, inner)

\* jQuery's remove() of the <li> of the nodes S, with all that is in them.
RemoveLis(T, S) ==
    LET gone == LisBelow(T, S)
    IN [T EXCEPT
        !.dom = [o \in Obj |-> IF o \in gone THEN <<>>
                               ELSE SelectSeq(@[o], LAMBDA n : n \notin gone)],
        !.ul = @ \ gone, !.shown = @ \ gone, !.marked = @ \ gone,
        !.icon = [n \in Node |-> IF n \in gone THEN NoIcon ELSE @[n]],
        !.chkClass = [n \in Node |-> IF n \in gone THEN "none" ELSE @[n]]]

EmptyUl(T, o) == RemoveLis(T, ToSet(T.dom[o]))
RemoveUl(T, n) ==
    LET U == EmptyUl(T, n) IN [U EXCEPT !.ul = @ \ {n}, !.shown = @ \ {n}]

\* view.makeNodeLineClass: the line beside a node and the folder sign.
LineClass(T, n) ==
    IF T.level[n] = 0 /\ n \in T.first
    THEN IF n \in T.last THEN "root" ELSE "roots"
    ELSE IF n \in T.last THEN "bottom" ELSE "center"
FolderClass(T, n) ==
    IF n \notin T.isParent THEN "docu" ELSE IF n \in T.open THEN "open" ELSE "close"
MakeNodeLineClass(T, n) == <<LineClass(T, n), FolderClass(T, n)>>

SetNodeLineIcos(T, n) ==
    IF n \in Node /\ HasLi(T, n) THEN [T EXCEPT !.icon[n] = MakeNodeLineClass(T, n)] ELSE T

\* view.replaceSwitchClass with a line name, and with a folder name.
ReplaceLine(T, n, name) == IF HasLi(T, n) THEN [T EXCEPT !.icon[n][1] = name] ELSE T
ReplaceFolder(T, n, name) ==
    IF n \in Node /\ HasLi(T, n) THEN [T EXCEPT !.icon[n][2] = name] ELSE T

Trigger(T, event) == [T EXCEPT !.events = Append(@, event)]

-----------------------------------------------------------------------------
(* data.* and the selection.                                                *)

AddNodesData(T, p, nodes) ==
    LET U == IF T.kids[p] = <<>> THEN T
             ELSE LET prev == LastKid(T, p)
                  IN SetNodeLineIcos([T EXCEPT !.last = @ \ {prev}], prev)
    IN [U EXCEPT !.isParent = IF p = Root THEN @ ELSE @ \cup {p}, !.kids[p] = @ \o nodes,
                  !.listed = @ \cup {p}]

RemoveNodeCache(T, S) == [T EXCEPT !.cache = @ \ UNION {{n} \cup Below(T, n) : n \in S}]

IsSelectedNode(T, n) == n \in ToSet(T.selected)
AddSelectedNode(T, n) ==
    IF IsSelectedNode(T, n) THEN T ELSE [T EXCEPT !.selected = Append(@, n)]

\* Mutant: only the node itself is dropped.
RemoveSelfSelected(T, n) ==
    [T EXCEPT !.selected = SelectSeq(@, LAMBDA m : m # n)]

\* data.removeSelectedNode also drops what is no longer in the cache.
RemoveSelectedNode(T, n) ==
    [T EXCEPT !.selected = SelectSeq(@, LAMBDA m : m # n /\ m \in T.cache)]

\* exedit's view.addHoverDom and removeTreeDom: the buttons beside a node.
AddHoverDom(T, n) == IF T.showHoverDom THEN [T EXCEPT !.hovers = @ \cup {n}] ELSE T
RemoveTreeDom(T, S) == [T EXCEPT !.hovers = @ \ S]

\* view.cancelPreSelectedNode, with exedit's part.
CancelPreSelectedNode(T, n) ==
    IF n = Nobody
    THEN RemoveTreeDom([T EXCEPT !.marked = @ \ ToSet(T.selected), !.selected = <<>>],
                       ToSet(T.selected))
    ELSE IF IsSelectedNode(T, n)
    THEN RemoveSelectedNode(RemoveTreeDom([T EXCEPT !.marked = @ \ {n}], {n}), n)
    ELSE T

\* view.selectNode of core, and exedit's wrapper that leaves the node being
\* renamed alone.
SelectNode(T, n, add) ==
    IF IsSelectedNode(T, n) /\ T.curEdit = n /\ n \in T.editFlag THEN T
    ELSE LET U == IF add THEN T ELSE CancelPreSelectedNode(T, Nobody)
         IN AddHoverDom(AddSelectedNode(IF HasLi(U, n) THEN [U EXCEPT !.marked = @ \cup {n}] ELSE U,
                                        n), n)

\* view.selectNodes
SelectNodes(T, nodes) ==
    FoldLeft(LAMBDA U, i : SelectNode(U, nodes[i], i > 1), T, [i \in DOMAIN nodes |-> i])

\* data.initRoot with the initRoot of the plugins; time is what the clock says,
\* in milliseconds.
InitRoot(T, time) ==
    [T EXCEPT !.ver = time, !.hasty = time = T.ver, !.took = FALSE,
              !.kids[Root] = <<>>, !.trigger = FALSE, !.selected = <<>>, !.radioList = <<>>,
              !.curEdit = Nobody, !.hover = Nobody, !.showHoverDom = TRUE]
InitCache(T) == [T EXCEPT !.cache = {}]

\* data.getNextNode and data.getPreNode.
Neighbour(T, n, step) ==
    LET p == ParentOrRoot(T, n)
        at == {i \in DOMAIN T.kids[p] : T.kids[p][i] = n}
    IN IF \E i \in at : i + step \in DOMAIN T.kids[p]
       THEN T.kids[p][(CHOOSE i \in at : TRUE) + step] ELSE Nobody
GetNextNode(T, n) == Neighbour(T, n, 1)
GetPreNode(T, n) == Neighbour(T, n, -1)

\* The walks: data.transformToArrayFormat, data.getNodesByParam.
RECURSIVE TransformToArray(_, _)
TransformToArray(T, o) ==
    FlattenSeq([i \in DOMAIN T.kids[o] |->
                  <<T.kids[o][i]>> \o TransformToArray(T, T.kids[o][i])])

=============================================================================
