---------------------------- MODULE TreeCorrect ----------------------------
(***************************************************************************)
(* What a zTree promises between two handlers: of its data, of what the    *)
(* page shows of them, of check boxes, and of selecting, renaming and      *)
(* dragging.  T.astray says that the data have lost their shape, after     *)
(* which only StaysWhole and the types say anything.                       *)
(***************************************************************************)
EXTENDS TreeDrag

Whole == InTree(T)
Drags == "drag" \in T.set.ops
Loses == T.set.ops \cap {"remove", "removeChildren", "reload", "rename"} # {}

-----------------------------------------------------------------------------
(* The data.                                                                *)

\* The variables have their types.
TypeOK ==
    /\ T.used \subseteq Node /\ T.cache \subseteq T.used
    /\ T.kids \in [Obj -> Seq(Node)] /\ T.dom \in [Obj -> Seq(Node)]
    /\ T.par \in [Node -> Obj] /\ T.ul \subseteq Node /\ T.shown \subseteq Node
    /\ T.curEdit \in Node \cup {Nobody} /\ T.marked \subseteq Node
    /\ T.childState \in [Node -> -1..2]
    /\ T.hover \in Node \cup {Nobody} /\ T.hovers \subseteq Node
    /\ requests \in Seq([node : Obj, silent : BOOLEAN, ver : Nat, old : BOOLEAN,
                         callback : [kind : {"none"}]
                                    \cup [kind : {"add", "move"}, node : Node, target : Obj,
                                          silent : BOOLEAN]
                                    \cup [kind : {"drop"}, nodes : Seq(Node), target : Obj,
                                          copy : BOOLEAN]])
    /\ drag \in [phase : {"none", "down", "drag"}, nodes : Seq(Node), canDo : BOOLEAN,
                 pre : Node \cup {Nobody}, next : Node \cup {Nobody},
                 target : Obj \cup {Nobody}, type : {"inner", "prev", "next"},
                 before : SUBSET Node]
    /\ ops \in 0..T.set.maxOps

\* What is below the root is a tree: a node is the child of its parentTId,
\* once and one level further down, its parent says that it is one, and the
\* node cache has all of it and nothing else that is still below its nodes.
CacheIsTree ==
    ~T.astray =>
        /\ Whole \subseteq T.cache
        /\ \A o \in Whole \cup {Root} : \A i, j \in DOMAIN T.kids[o] :
              LET n == T.kids[o][i]
              IN /\ T.kids[o][j] = n => i = j
                 /\ T.par[n] = o /\ T.level[n] = (IF o = Root THEN 0 ELSE T.level[o] + 1)
                 /\ o # Root => o \in T.isParent
        /\ \A n \in T.cache \ Whole : ~(Above(T, n) \subseteq T.cache \cup {Root})

\* isFirstNode and isLastNode tell of the first and the last child that is not
\* hidden, however nodes come and go; after an empty answer no child may be last.
FlagsFollowOrder ==
    ~T.astray => \A o \in Whole \cup {Root} :
        LET row == SelectSeq(T.kids[o], LAMBDA n : n \notin T.isHidden)
        IN /\ ToSet(T.kids[o]) \cap T.first = IF row = <<>> THEN {} ELSE {row[1]}
           /\ ToSet(T.kids[o]) \cap T.last \in {{}, {row[Len(row)] : i \in DOMAIN row}}
           /\ ~T.set.async /\ row # <<>> => row[Len(row)] \in T.last

\* No call loses the shape of the data, but a move below itself that the page
\* alone would have told, loads, hiding, and drags of nodes that are removed.
StaysWhole == T.set.hide \/ T.set.careless \/ T.set.async \/ (Drags /\ Loses) \/ ~T.astray

\* What has been asked for by a tree that was refreshed, destroyed or made anew
\* since does not come into the one that took its place, unless the two were
\* made within one millisecond.
OwnAnswersOnly == T.took => T.hasty

\* A folder says that it is loading exactly while a request for it is under
\* way that was sent since the tree was last made anew: it neither waits for
\* ever nor is asked for twice.  An answer to an earlier tree upsets this.
LoadsOnce ==
    ~T.astray /\ ~T.took => \A p \in Whole :
        p \in T.isAjaxing <=> \E i \in DOMAIN requests : requests[i].node = p /\ ~requests[i].old

DataKept ==
    TypeOK /\ CacheIsTree /\ FlagsFollowOrder /\ StaysWhole /\ OwnAnswersOnly /\ LoadsOnce

-----------------------------------------------------------------------------
(* The page.                                                                *)

\* The list items of a list come in the order of the data, and an open folder
\* that is on the page shows all its children; silent moves are excepted.
PageMatchesData ==
    ~T.astray /\ TRUE \notin T.set.silent => \A o \in Whole \cup {Root} :
        /\ HasUl(T, o) => T.dom[o] = SelectSeq(T.kids[o], LAMBDA n : n \in ToSet(T.dom[o]))
        /\ o \in T.open /\ HasLi(T, o) =>
              HasUl(T, o) /\ o \in T.shown /\ T.dom[o] = T.kids[o]

\* The sign beside a node has the lines that its place, and the sign that its
\* children and its state call for, although only neighbours are redrawn.
IconsTell ==
    ~T.astray /\ ~T.set.hide => \A n \in Whole \ T.isHidden :
        HasLi(T, n) /\ n \notin T.isAjaxing => T.icon[n] = MakeNodeLineClass(T, n)

\* The box of a node on the page is drawn as the node and those below it are
\* checked.
BoxShown ==
    ~T.astray /\ Checking(T) => \A n \in Whole \ T.isHidden :
        HasLi(T, n) => T.chkClass[n] = MakeChkClass(T, n)

PageShowsData == PageMatchesData /\ IconsTell /\ BoxShown

-----------------------------------------------------------------------------
(* Check boxes and radio buttons.                                           *)

\* check_Child_State, kept up to date at each change of a child, is what a
\* walk over the children would find.
ChildStateAgrees ==
    ~T.astray /\ Checking(T) /\ ~T.set.hide =>
        \A n \in Whole : T.childState[n] = ChkFlag(T, n)

\* One radio button is checked, of the tree or of the children of a node; a
\* node that is moved brings its own among its new siblings.
RadioOne ==
    ~T.astray /\ IsRadio(T) =>
        IF T.set.radioType = "all" THEN Cardinality(Whole \cap T.checked) <= 1
        ELSE "move" \notin T.set.ops => \A o \in Whole \cup {Root} :
                 Cardinality(ToSet(T.kids[o]) \cap T.checked) <= 1

\* With chkboxType Y of parents and sons, as long as the user alone checks, a
\* node is checked if one of its children is.
LinkedBoxes ==
    Checking(T) /\ T.set.Y = {"p", "s"} /\ T.set.ops \subseteq {"box", "checkAll"} =>
        \A n \in Whole : T.kids[n] # <<>> =>
            (n \in T.checked <=> ToSet(T.kids[n]) \cap T.checked # {})

\* getCheckedNodes tells a program of every checked node that counts and is
\* not below a hidden one, in the order of the tree, also where it stops at
\* the first radio button it finds.
ReadsTell ==
    ~T.astray /\ Checking(T) =>
        GetTreeCheckedNodes(T, TRUE) =
            SelectSeq(TransformToArray(T, Root),
                      LAMBDA n : /\ n \in T.checked /\ Counts(T, n)
                                 /\ Above(T, n) \cap T.isHidden = {})

ChecksAgree == ChildStateAgrees /\ RadioOne /\ LinkedBoxes /\ ReadsTell

-----------------------------------------------------------------------------
(* Selecting, renaming, dragging.                                           *)

\* What is selected is in the tree, and what is marked on the page is selected.
SelectionLives ==
    ~T.astray /\ ~(Drags /\ Loses) =>
        ToSet(T.selected) \subseteq T.cache /\ T.marked \subseteq ToSet(T.selected)

\* One node is being renamed, the one curEditNode names, and its input can be
\* reached on the page.
RenameOne ==
    ~T.astray /\ T.set.refuses = {FALSE} /\ ~Drags /\ "select" \notin T.set.ops =>
        T.editFlag \cap Whole = {T.curEdit} \cap Whole
RenameReachable ==
    ~T.astray /\ TRUE \notin T.set.silent /\ T.curEdit \in Whole => HasLi(T, T.curEdit)

\* Buttons of hovering are on the node under the pointer and on selected ones.
HoverOnly == ~T.astray => T.hovers \cap Whole \subseteq ToSet(T.selected) \cup {T.hover}

\* Nodes that are dropped lie together in the order they were dragged, where
\* the user let them go, also when a folder had first to be loaded.
DropInOrder ==
    \A i \in DOMAIN T.events : T.events[i][1] = "DROP" =>
        LET type == T.events[i][2]
            target == T.events[i][3]
            nodes == T.events[i][4]
            row == T.kids[IF type = "inner" \/ target = Root THEN target ELSE T.par[target]]
            at == {j \in 0..(Len(row) - Len(nodes)) : SubSeq(row, j + 1, j + Len(nodes)) = nodes}
        IN IF type = "inner" \/ target = Root THEN Len(row) - Len(nodes) \in at
           ELSE \E j \in at : IF type = "prev" THEN row[j + Len(nodes) + 1] = target
                              ELSE j > 0 /\ row[j] = target

EditsEnd == SelectionLives /\ RenameOne /\ RenameReachable /\ HoverOnly /\ DropInOrder

=============================================================================
