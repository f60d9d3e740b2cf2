------------------------------- MODULE MCTree -------------------------------
(***************************************************************************)
(* The trees TLC looks at: each has its setting object, its first nodes    *)
(* and what its program and its user do with it.                           *)
(***************************************************************************)
EXTENDS TreeCorrect

Leaf == [folder |-> FALSE, branch |-> FALSE, checked |-> FALSE, hidden |-> FALSE]
Folder == [Leaf EXCEPT !.folder = TRUE]     \* isParent, no children yet
Branch == [Leaf EXCEPT !.branch = TRUE]     \* open, with one child
Checked == [Leaf EXCEPT !.checked = TRUE]
Hidden == [Leaf EXCEPT !.hidden = TRUE]

Plain == [async |-> FALSE, keepParent |-> FALSE, keepLeaf |-> FALSE, check |-> "none",
          radioType |-> "level", Y |-> {}, N |-> {}, nocheckInherit |-> FALSE,
          disabledInherit |-> FALSE, hide |-> FALSE, careless |-> FALSE,
          ops |-> {}, silent |-> {FALSE}, refuses |-> {FALSE}, copies |-> FALSE,
          maxOps |-> 2, shapes |-> {Leaf}]
Tree(set, does, limit, start) ==
    [set |-> [set EXCEPT !.ops = does, !.maxOps = limit], start |-> start]

\* Folders filled by the server while nodes are added, moved and removed.
Loading == [Plain EXCEPT !.async = TRUE]
Loaded == Tree(Loading, {"add", "remove", "expand", "switch", "move", "reload", "refresh"}, 3,
               <<Folder, Branch>>)
FromServer == Tree([Loading EXCEPT !.shapes = {Leaf, Folder}],
                   {"init", "switch", "refresh", "destroy", "reload"}, 3, <<>>)
Dropped == Tree(Loading, {"drag", "remove", "switch"}, 3, <<Leaf, Folder>>)

\* Without a server: every way to change the tree.
Changed == Tree(Plain, {"add", "remove", "move", "copy", "expandAll", "removeChildren"}, 3,
                <<Leaf, Branch>>)
Kept == Tree([Plain EXCEPT !.keepParent = TRUE, !.keepLeaf = TRUE],
             {"add", "remove", "move", "copy", "removeChildren", "switch"}, 3, <<Leaf, Branch>>)
Careless == Tree([Plain EXCEPT !.careless = TRUE, !.silent = BOOLEAN], {"move", "remove"}, 2,
                 <<Leaf, Branch>>)

\* Selecting, renaming and dragging.
Renamed == Tree(Plain, {"rename", "click", "move", "switch", "hover"}, 3,
                <<Leaf, Branch>>)
Refusing == Tree([Plain EXCEPT !.refuses = BOOLEAN], {"rename", "click"}, 4, <<Leaf, Leaf>>)
Dragged == Tree(Plain, {"drag", "click"}, 3, <<Leaf, Leaf, Branch>>)
Hovered == Tree([Plain EXCEPT !.copies = TRUE], {"drag", "click", "hover"}, 2, <<Leaf, Branch>>)

\* Check boxes and radio buttons.
Boxes == [Plain EXCEPT !.check = "checkbox", !.Y = {"p", "s"}, !.N = {"p", "s"}]
Linked == Tree(Boxes, {"box", "checkAll"}, 5, <<Branch, Branch>>)
Ticked == Tree([Boxes EXCEPT !.Y = {"p"}, !.N = {"s"}, !.nocheckInherit = TRUE,
                  !.disabledInherit = TRUE, !.shapes = {Leaf, Checked}],
               {"box", "check", "disable", "add", "remove", "move", "update"}, 3,
               <<Branch, Checked>>)
Radios == [Boxes EXCEPT !.check = "radio"]
Level == Tree(Radios, {"box", "check", "disable", "update", "add"}, 3, <<Branch, Leaf>>)
All == Tree([Radios EXCEPT !.radioType = "all"], {"box", "check", "remove", "move"}, 4,
            <<Branch, Leaf>>)

\* Hidden nodes.
Hiding == [Plain EXCEPT !.hide = TRUE]
Hid == Tree(Hiding, {"hide", "switch", "select"}, 4, <<Leaf, Branch, Hidden>>)
HidBoxes == Tree([Boxes EXCEPT !.hide = TRUE], {"hide", "box", "checkAll"}, 4, <<Leaf, Branch>>)

AllTrees == {Loaded, FromServer, Dropped, Changed, Kept, Careless, Renamed, Refusing, Dragged,
             Hovered, Linked, Ticked, Level, All, Hid, HidBoxes}

=============================================================================
