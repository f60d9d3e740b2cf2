------------------------------- MODULE Tree -------------------------------
(***************************************************************************)
(* A zTree on a page: the methods of zTreeTools that a program calls, the  *)
(* handlers of the user's clicks, and the answers of the server that fills *)
(* folders ($.ajax, which is external here).  Each action is one handler,  *)
(* and the handlers come in any order.                                     *)
(*                                                                         *)
(* T.set is the setting object of the tree, of which                       *)
(*   async, keepParent, keepLeaf        async.enable, data.keep            *)
(*   check, radioType, Y, N, nocheckInherit, disabledInherit  (excheck)    *)
(*   hide                               exhide is loaded                   *)
(* and, of the instance, ops, what its program and its user do, silent,    *)
(* whether moves are silent, refuses, whether beforeRename refuses, and    *)
(* maxOps, the bound on the number of handlers.  Requests are kept in the  *)
(* order they have been sent and answered in any.                          *)
(***************************************************************************)
EXTENDS TreeEdit

CONSTANTS
    Settings,       \* the setting objects and their first nodes: [set, start]
    MaxRequests     \* bound: requests under way

VARIABLES
    T,              \* the tree
    requests,       \* requests to the server that are not yet answered
    ops             \* handlers run so far

-----------------------------------------------------------------------------
(* New node objects.  A shape tells what the program or the server says of  *)
(* them; a branch has one child.                                            *)

Fresh(U, k) == CHOOSE n \in Node \ U.used : Cardinality({m \in Node \ U.used : m < n}) = k
Shape == [folder : BOOLEAN, branch : BOOLEAN, checked : BOOLEAN, hidden : BOOLEAN]

MakeNode(U, s) ==
    LET n == Fresh(U, 0)
        c == Fresh(U, 1)
        all == IF s.branch THEN {n, c} ELSE {n}
    IN [U EXCEPT !.used = @ \cup all,
                 !.isParent = IF s.folder THEN @ \cup {n} ELSE @,
                 !.kids[n] = IF s.branch THEN <<c>> ELSE <<>>,
                 !.listed = IF s.branch THEN @ \cup {n} ELSE @,
                 !.open = IF s.branch THEN @ \cup {n} ELSE @,
                 !.checked = IF s.checked THEN @ \cup all ELSE @,
                 !.isHidden = IF s.hidden THEN @ \cup {n} ELSE @]
Room(U, s) == Cardinality(Node \ U.used) >= IF s.branch THEN 2 ELSE 1

\* tools.clone of a node with all that is below it.
Clone(U, n) ==
    LET old == SetToSortSeq({n} \cup Below(U, n), <)
        New(m) == Fresh(U, IndexIn(old, m) - 1)
        With(S) == S \cup {New(m) : m \in S \cap ToSet(old)}
        Copied(f) == [o \in DOMAIN f |->
                         IF \E m \in ToSet(old) : New(m) = o
                         THEN f[CHOOSE m \in ToSet(old) : New(m) = o] ELSE f[o]]
        kids == Copied(U.kids)
    IN [tree |-> [U EXCEPT
          !.used = With(@), !.open = With(@), !.isParent = With(@), !.isHidden = With(@),
          !.checked = With(@), !.nocheck = With(@), !.disabled = With(@), !.listed = With(@),
          !.kept = With(@), !.keptNocheck = With(@),
          !.kids = [o \in Obj |-> IF o \in U.used \cup {Root} THEN @[o]
                                  ELSE [i \in DOMAIN kids[o] |-> New(kids[o][i])]]],
        node |-> New(n)]
RoomToClone(U, n) == Cardinality(Node \ U.used) >= 1 + Cardinality(Below(U, n))

-----------------------------------------------------------------------------
(* Loading: view.asyncNode, with what is to be done afterwards.             *)

NoCallback == [kind |-> "none"]
AddLater(p, n, isSilent) == [kind |-> "add", node |-> n, target |-> p, silent |-> isSilent]
DropLater(p, nodes, isCopy) == [kind |-> "drop", nodes |-> nodes, target |-> p, copy |-> isCopy]
MoveLater(p, n, isSilent) == [kind |-> "move", node |-> n, target |-> p, silent |-> isSilent]

CanAsync(U, p) ==
    U.set.async /\ p \in U.isParent /\ p \notin U.zAsync /\ U.kids[p] = <<>>

RunCallback(U, c) ==
    CASE c.kind = "add" -> AddNodes(U, c.target, <<c.node>>, c.silent)
      [] c.kind = "move" ->
           MoveNode(U, c.target, c.node, "inner", c.silent)
      [] c.kind = "drop" -> Drop(U, c.nodes, c.target, "inner", c.copy)
      [] OTHER -> U

\* A request carries the version of the root; old says that the root has been
\* made anew since.
Request(U, p, isSilent, c) ==
    [node |-> p, silent |-> isSilent, callback |-> c, ver |-> U.ver, old |-> FALSE]
Outdated(R) == [i \in DOMAIN R |-> [R[i] EXCEPT !.old = TRUE]]

\* Whether a request is sent, and what becomes of the tree and the requests.  (A
\* call with a callback is always for a folder, CanAsync having been asked.)
Sends(U, p) == p = Root \/ (p \in U.isParent /\ p \notin U.isAjaxing)
AsyncTree(U, p) == IF p # Root /\ Sends(U, p) THEN [U EXCEPT !.isAjaxing = @ \cup {p}] ELSE U
AsyncRequests(U, p, isSilent, c) ==
    IF Sends(U, p)
    THEN Append(requests, Request(U, p, isSilent, c))
    ELSE requests

\* view.switchNode
SwitchTree(U, n) ==
    IF n \in U.open \/ ~CanAsync(U, n) \/ ~Sends(U, n)
    THEN ExpandCollapseNode(U, n, n \notin U.open)
    ELSE [U EXCEPT !.isAjaxing = @ \cup {n}]
SwitchRequests(U, n) ==
    IF n \in U.open \/ ~CanAsync(U, n) THEN requests ELSE AsyncRequests(U, n, FALSE, NoCallback)

-----------------------------------------------------------------------------
(* Events.  Each plugin has a proxy that says which of its handlers an event *)
(* on part of the <li> of n ("switch", "check", "a") is for; the proxy of    *)
(* excheck is asked first, and a click on a box is for nobody else.          *)

ExCheckProxy(U, type, part) ==
    IF ~Checking(U) \/ part # "check" THEN <<>>
    ELSE CASE type = "click" -> <<"checkNode">>
           [] type = "mouseover" -> <<"mouseoverCheck">>
           [] type = "mouseout" -> <<"mouseoutCheck">>
           [] OTHER -> <<>>

CoreProxy(U, type, part, n) ==
    (CASE type = "click" /\ part = "switch" /\ n \in U.isParent -> <<"switchNode">>
       [] type = "dblclick" /\ part = "a" /\ n \in U.isParent -> <<"switchNode">>
       [] type = "click" /\ part = "a" -> <<"clickNode">>
       [] OTHER -> <<>>)
    \o (IF type \in {"mousedown", "mouseup", "dblclick", "contextmenu"} THEN <<type>> ELSE <<>>)

\* elsewhere: where a mouseout goes to is not the <a> of a node.
ExEditProxy(type, part, elsewhere) ==
    CASE type = "mouseover" /\ part = "a" -> <<"hoverOverNode">>
      [] type = "mouseout" /\ elsewhere -> <<"hoverOutNode">>
      [] type = "mousedown" /\ part = "a" -> <<"mousedownNode">>
      [] OTHER -> <<>>

UCanDo(U) == U.curEdit = Nobody

\* event.proxy
Proxy(U, type, part, n, elsewhere) ==
    LET first == ExCheckProxy(U, type, part)
        mouse == {"mouseover", "mouseout", "mousedown", "mouseup"}
    IN IF ~U.bound \/ (~UCanDo(U) /\ type \notin mouse) THEN <<>>
       ELSE IF first = <<"checkNode">> THEN first
       ELSE first \o CoreProxy(U, type, part, n) \o ExEditProxy(type, part, elsewhere)

-----------------------------------------------------------------------------
(* Actions.                                                                 *)

\* The next handler begins; it leaves U and R.
Handler(op) == op \in T.set.ops /\ ops < T.set.maxOps /\ ~T.astray
\* The user does something to part of a node for which handler is there.
UserEvent(op, type, part, n, handler) ==
    Handler(op) /\ n \in Lis(T) /\ handler \in ToSet(Proxy(T, type, part, n, TRUE))
Now == [T EXCEPT !.events = <<>>]
Leaves(U, R) == T' = U /\ requests' = R /\ ops' = ops + 1
Done(U) == Leaves(U, requests)

Live == T.cache \cap InTree(T)

\* What the action does if its target has still to be loaded, and otherwise.
Into(U, p, isSilent, c, V) ==
    IF CanAsync(U, p) THEN Leaves(AsyncTree(U, p), AsyncRequests(U, p, isSilent, c)) ELSE Done(V)

ToolAddNodes ==
    /\ Handler("add")
    /\ \E p \in Live \cup {Root}, s \in T.set.shapes, isSilent \in BOOLEAN :
        /\ Room(T, s) /\ ~(T.set.keepLeaf /\ p \in Node \ T.isParent)
        /\ Len(requests) < MaxRequests
        /\ \E U \in {MakeNode(Now, s)} :
              Into(U, p, isSilent, AddLater(p, Fresh(T, 0), isSilent),
                   AddNodes(U, p, <<Fresh(T, 0)>>, isSilent))

ToolRemoveNode ==
    Handler("remove") /\ \E n \in Live : Done(RemoveNode(Now, n))

ToolRemoveChildNodes ==
    Handler("removeChildren") /\ \E n \in Live : Done(RemoveChildNodes(Now, n))

ToolExpandAll ==
    Handler("expandAll") /\ \E flag \in BOOLEAN : Done(ExpandCollapseSonNode(Now, Root, flag))

\* zTreeTools.expandNode
ToolExpandNode ==
    /\ Handler("expand") /\ Len(requests) < MaxRequests
    /\ \E n \in Live \cap T.isParent, flag, sonSign, callbackFlag \in BOOLEAN :
        \E U \in {IF flag THEN ExpandCollapseParentNode(Now, GetParentNode(T, n), TRUE) ELSE Now} :
        LET V == [U EXCEPT !.trigger = callbackFlag]
            W == [V EXCEPT !.open = IF flag THEN @ \ {n} ELSE @ \cup {n}]
        IN IF (n \in U.open <=> flag) /\ ~sonSign THEN Done(U)
           ELSE IF sonSign /\ ~CanAsync(V, n) THEN Done(ExpandCollapseSonNode(V, n, flag))
           ELSE Leaves(SwitchTree(W, n), SwitchRequests(W, n))

\* handler.onSwitchNode: the user clicks on the sign beside a folder.
OnSwitchNode ==
    /\ Len(requests) < MaxRequests
    /\ \E n \in Live, gesture \in {<<"click", "switch">>, <<"dblclick", "a">>} :
        LET U == [Now EXCEPT !.trigger = TRUE]
        IN /\ UserEvent("switch", gesture[1], gesture[2], n, "switchNode")
           /\ Leaves(SwitchTree(U, n), SwitchRequests(U, n))

ToolSelectNode ==
    /\ Handler("select") /\ UCanDo(T)
    /\ \E n \in Live, add \in BOOLEAN :
        Done(SelectNode(ExpandCollapseParentNode(Now, GetParentNode(T, n), TRUE), n, add))

\* handler.onClickNode
OnClickNode ==
    /\ \E n \in Live, ctrl \in BOOLEAN :
        /\ UserEvent("click", "click", "a", n, "clickNode")
        /\ IF ctrl /\ IsSelectedNode(T, n) THEN Done(CancelPreSelectedNode(Now, n))
           ELSE Done(SelectNode(Now, n, ctrl))

ToolCancelSelectedNode ==
    Handler("select") /\ \E n \in Live \cup {Nobody} : Done(CancelPreSelectedNode(Now, n))

\* zTreeTools.moveNode, which knows what is below a node from the page alone.
OnPageBelow(n, target) == target \in LisBelow(T, ToSet(T.dom[n]))
ToolMoveNode ==
    /\ Handler("move") /\ Len(requests) < MaxRequests
    /\ \E n \in Live, target \in Live \cup {Root}, type \in {"inner", "prev", "next"},
          isSilent \in T.set.silent :
        /\ target # n
        /\ ~(target \in Node /\ T.par[n] = target /\ type = "inner") /\ ~OnPageBelow(n, target)
        /\ ~(T.set.keepLeaf /\ target \in Node \ T.isParent /\ type = "inner")
        /\ target \in Below(T, n) => T.set.careless
        /\ Into(Now, IF type = "inner" THEN target ELSE Root, isSilent, MoveLater(target, n, isSilent),
                MoveNode(Now, target, n, type, isSilent))

\* zTreeTools.copyNode: beside a target, the copy comes into being as the
\* last root, targetNode.parentNode being undefined.
Beside(U, target, n, type, isSilent) ==
    IF type = "inner" THEN U ELSE MoveNode(U, target, n, type, isSilent)
ToolCopyNode ==
    /\ Handler("copy") /\ Len(requests) < MaxRequests
    /\ \E n \in Live, target \in Live \cup {Root}, type \in {"inner", "prev", "next"},
          isSilent \in T.set.silent :
        /\ RoomToClone(T, n) /\ (target = Root => type = "inner")
        /\ ~(T.set.keepLeaf /\ target \in Node \ T.isParent /\ type = "inner")
        /\ \E c \in {Clone(Now, n)} :
              Into(c.tree, IF type = "inner" THEN target ELSE Root, isSilent,
                   AddLater(target, c.node, isSilent),
                   Beside(AddNodes(c.tree, IF type = "inner" THEN target ELSE Root, <<c.node>>,
                                   isSilent), target, c.node, type, isSilent))

\* zTreeTools.reAsyncChildNodes
ToolReAsyncChildNodes ==
    /\ Handler("reload") /\ T.set.async /\ Len(requests) < MaxRequests
    /\ \E p \in Live \cup {Root}, again, isSilent \in BOOLEAN :
        LET U == RemoveSelectedNode(RemoveNodeCache(Now, ToSet(T.kids[p])), Nobody)
            V == IF again
                 THEN EmptyUl([U EXCEPT !.kids[p] = <<>>, !.listed = @ \cup {p}], p)
                 ELSE Now
        IN Leaves(AsyncTree(V, p), AsyncRequests(V, p, isSilent, NoCallback))

\* The answers: success with new nodes or with none, and error.
WithoutRequest(i) == RemoveAt(requests, i)
Answered(U, p) ==
    IF p = Root THEN U
    ELSE SetNodeLineIcos([U EXCEPT !.isAjaxing = @ \ {p}, !.zAsync = @ \cup {p}], p)
AfterLoad(U, r) ==
    IF U.astray THEN U
    ELSE RunCallback(Trigger(U, <<"ASYNC_SUCCESS", r.node>>), r.callback)

\* Answers that are for another root are not taken, which versions tell: two
\* roots made within one millisecond have the same.
Accepts(r) == r.ver = T.ver
\* Mutant: every answer is taken.
AcceptsAny(r) == r \in ToSet(requests)
Taking(r) ==
    [Now EXCEPT !.took = @ \/ r.old,
                !.astray = r.old /\ r.node \notin InTree(T) \cup {Root}]
AsyncSuccess ==
    \E i \in DOMAIN requests, some \in BOOLEAN, s \in T.set.shapes :
        LET r == requests[i]
            U == Taking(r)
            made == IF some THEN MakeNode(U, s) ELSE U
            new == IF some THEN <<Fresh(T, 0)>> ELSE <<>>
        IN /\ ~T.astray
           /\ requests' = WithoutRequest(i) /\ UNCHANGED ops
           /\ IF ~Accepts(r) THEN T' = Now
              ELSE IF U.astray THEN T' = U
              ELSE /\ some => Room(T, s)
                   /\ T' = AfterLoad(AddNodes(Answered(made, r.node), r.node, new, r.silent), r)

AsyncError ==
    \E i \in DOMAIN requests :
        LET r == requests[i]
            U == Taking(r)
        IN /\ ~T.astray
           /\ requests' = WithoutRequest(i) /\ UNCHANGED ops
           /\ T' = IF ~Accepts(r) THEN Now
                   ELSE IF U.astray THEN U
                   ELSE Trigger(SetNodeLineIcos([U EXCEPT !.isAjaxing = @ \ {r.node}], r.node),
                                <<"ASYNC_ERROR", r.node>>)

\* (new Date()).getTime(): the millisecond of the last root, or a later one.
Clock == {T.ver, T.ver + 1}

\* zTreeTools.refresh: every node is initialised anew.
Refresh(U, time) ==
    LET nodes == U.kids[Root]
        V == InitCache([InitRoot(EmptyUl(U, Root), time) EXCEPT !.kids[Root] = nodes])
    IN CreateNodes(V, Root, nodes)
ToolRefresh ==
    Handler("refresh") /\ \E time \in Clock : Leaves(Refresh(Now, time), Outdated(requests))

ToolDestroy ==
    /\ Handler("destroy")
    /\ \E time \in Clock :
        Leaves(EmptyUl(InitCache([InitRoot(Now, time) EXCEPT !.bound = FALSE]), Root),
               Outdated(requests))

\* Renaming.
ToolEditName ==
    /\ Handler("rename")
    /\ \E n \in Live, refused \in T.set.refuses : Done(EditName(Now, n, refused))
OnInput ==
    /\ Handler("rename") /\ T.curEdit # Nobody
    /\ \E refused \in T.set.refuses :
        \/ HasLi(T, T.curEdit) /\ Done(InputBlur(Now, refused))
        \/ HasLi(T, T.curEdit) /\ Done(InputEnter(Now, refused))
        \/ Done(InputEscape(Now, refused))      \* or zTreeTools.cancelEditName

\* excheck and exhide.
ToolCheckNode ==
    /\ Handler("check")
    /\ \E n \in Live, value, relation \in BOOLEAN : Done(CheckNode(Now, n, value, relation))
OnClickBox ==
    \E n \in Live \ T.nocheck :
        UserEvent("box", "click", "check", n, "checkNode") /\ Done(OnCheckNode(Now, n))
ToolCheckAllNodes ==
    Handler("checkAll") /\ \E value \in BOOLEAN : Done(RepairAllChk(Now, value))
ToolSetChkDisabled ==
    /\ Handler("disable")
    /\ \E n \in Live, value, up, down \in BOOLEAN :
        /\ down => "disableSons" \in T.set.ops
        /\ Done(SetChkDisabled(Now, n, value, up, down))
ToolHideNode == Handler("hide") /\ \E n \in Live \ T.isHidden : Done(HideNode(Now, n))

\* zTreeTools.updateNode of core and excheck.
ToolUpdateNode ==
    /\ Handler("update") /\ UCanDo(T)
    /\ \E n \in Live, relation \in BOOLEAN :
        LET U == SetNodeLineIcos(Now, n)
            V == IF relation \/ IsRadio(T) THEN CheckNodeRelation(U, n) ELSE U
        IN /\ HasLi(T, n)
           /\ Done(IF Checking(T) THEN RepairParentChkClassWithSelf(SetChkClass(V, n), n) ELSE U)
ToolShowNode == Handler("hide") /\ \E n \in Live \cap T.isHidden : Done(ShowNode(Now, n))

-----------------------------------------------------------------------------
\* $.fn.zTree.init: with nodes, or with none, which are then asked for.
InitTree(U0, start) ==
    LET Given(U, s) == LET n == Fresh(U, 0) IN [MakeNode(U, s) EXCEPT !.kids[Root] = Append(@, n)]
        U == FoldLeft(Given, [U0 EXCEPT !.listed = {Root}, !.bound = TRUE], start)
    IN CreateNodes(U, Root, U.kids[Root])
FirstRequests(U, start) ==
    IF U.set.async /\ start = <<>>
    THEN <<Request(U, Root, FALSE, NoCallback)>> ELSE <<>>

\* The program makes the tree anew in the same element.
ToolInit ==
    /\ Handler("init") /\ Len(requests) < MaxRequests
    /\ \E s \in T.set.shapes, some \in BOOLEAN, time \in Clock :
        LET U == EmptyUl(InitCache(InitRoot(Now, time)), Root)
            start == IF some THEN <<s>> ELSE <<>>
        IN /\ Room(T, s)
           /\ Leaves(InitTree(U, start), Outdated(requests) \o FirstRequests(U, start))

Init ==
    /\ \E c \in Settings : /\ T = InitTree(EmptyTree(c.set), c.start)
                          /\ requests = FirstRequests(EmptyTree(c.set), c.start)
    /\ ops = 0

UserNext == OnSwitchNode \/ OnClickNode \/ OnClickBox \/ OnInput

ProgramNext ==
    \/ ToolAddNodes \/ ToolRemoveNode \/ ToolRemoveChildNodes
    \/ ToolExpandAll \/ ToolExpandNode
    \/ ToolSelectNode \/ ToolCancelSelectedNode
    \/ ToolMoveNode \/ ToolCopyNode
    \/ ToolReAsyncChildNodes \/ AsyncSuccess \/ AsyncError
    \/ ToolRefresh \/ ToolDestroy \/ ToolInit
    \/ ToolEditName \/ ToolUpdateNode
    \/ ToolCheckNode \/ ToolCheckAllNodes \/ ToolSetChkDisabled
    \/ ToolHideNode \/ ToolShowNode

=============================================================================
