----------------------------- MODULE Callbacks -----------------------------
(***************************************************************************)
(* The callback lists of jQuery (jQuery.Callbacks): a list is fired with a *)
(* value and calls its functions one after the other; each of them is code *)
(* of the program, which may change the list that is calling it, fire it   *)
(* again or work on another list before it returns.                        *)
(*                                                                         *)
(* frames is the stack of calls: the loops of fire that have begun and are *)
(* not over, the innermost last.  The program acts when no loop is under   *)
(* way or the innermost one is calling one of its functions.               *)
(***************************************************************************)
EXTENDS Integers, Sequences, FiniteSets, SequencesExt

CONSTANTS
    Lists,          \* the lists
    Flags,          \* Flags[l]: "once", "memory", "unique", "stopOnFalse"
    Fn,             \* functions of the program
    Value,          \* what lists are fired with
    MaxCalls        \* bound: methods called by the program

VARIABLES
    lists,          \* the variables of each list
    frames,         \* the loops under way
    calls           \* methods called so far

cbVars == <<lists, frames, calls>>

\* A list is fired with a value <<v>>; undefined and true are no such value.
Undefined == <<>>
Halted == <<"memory", "true">>
User(f) == <<"user", f>>

\* Not in the code: what the firing under way has still to call, the functions
\* added, those called with their values, and that a list was emptied while it
\* fired.
NewList(entries) ==
    [list |-> entries, gone |-> FALSE, stack |-> <<>>, locked |-> FALSE, memory |-> Undefined,
     firing |-> FALSE, start |-> 0, length |-> 0, index |-> 0,
     broken |-> FALSE, due |-> <<>>, added |-> entries, log |-> <<>>]

-----------------------------------------------------------------------------
(* The methods, as functions of a list.                                     *)

HasValue(m) == m \notin {Undefined, Halted}
Has(L, e) == e \in ToSet(L.list)

\* fire, up to its loop.
StartFire(l, L, v) ==
    [L EXCEPT !.memory = IF "memory" \in Flags[l] THEN v ELSE Halted,
              !.firing = TRUE, !.index = L.start, !.start = 0, !.length = Len(L.list),
              !.due = SubSeq(L.list, L.start + 1, Len(L.list))]

\* add of one function.
Extended(l, L, e) ==
    IF "unique" \in Flags[l] /\ Has(L, e) THEN L
    ELSE [L EXCEPT !.list = Append(@, e), !.added = Append(@, e)]
FiresAtOnce(L) == ~L.gone /\ ~L.firing /\ HasValue(L.memory)
AddTo(l, L, e) ==
    LET U == Extended(l, L, e)
    IN IF L.gone THEN L
       ELSE IF L.firing THEN [U EXCEPT !.length = Len(U.list),
                                       !.due = @ \o SubSeq(U.list, Len(L.list) + 1, Len(U.list))]
       ELSE IF FiresAtOnce(L)
       THEN StartFire(l, [U EXCEPT !.start = Len(L.list)], L.memory)
       ELSE U

\* remove takes out every copy, and with each that the loop has reached or is
\* about to reach counts its variables down.
Kept(s, e) == {i \in DOMAIN s : s[i] # e}
AtRank(s, e, j) == {i \in Kept(s, e) : Cardinality({k \in Kept(s, e) : k <= i}) = j}
Without(s, e) == [j \in 1..Cardinality(Kept(s, e)) |-> s[CHOOSE i \in AtRank(s, e, j) : TRUE]]

\* Mutant: the function that is being called does not count as called.
RemoveAhead(L, e) ==
    LET Copies(n) == {i \in DOMAIN L.list : L.list[i] = e /\ i - 1 <= n /\ i - 1 <= L.length}
        Near(n) == IF L.firing THEN Cardinality(Copies(n)) ELSE 0
    IN IF L.gone THEN L
       ELSE [L EXCEPT !.list = Without(@, e), !.due = Without(@, e),
                      !.length = @ - Near(@), !.index = @ - Near(@ - 1)]
RemoveFrom(L, e) ==
    LET Copies(n) == {i \in DOMAIN L.list : L.list[i] = e /\ i - 1 <= n /\ i - 1 <= L.length}
        Near(n) == IF L.firing THEN Cardinality(Copies(n)) ELSE 0
    IN IF L.gone THEN L
       ELSE [L EXCEPT !.list = Without(@, e), !.due = Without(@, e),
                      !.length = @ - Near(@), !.index = @ - Near(@)]

\* empty, disable, lock
Empty(L) == [L EXCEPT !.list = <<>>, !.gone = FALSE, !.due = <<>>, !.broken = L.firing]
Disable(L) == [L EXCEPT !.list = <<>>, !.gone = TRUE, !.stack = <<>>, !.locked = TRUE,
                        !.memory = Undefined, !.due = <<>>]
Lock(L) ==
    IF HasValue(L.memory) THEN [L EXCEPT !.stack = <<>>, !.locked = TRUE] ELSE Disable(L)

\* fireWith: begins a loop, waits for the one under way, or does nothing.
Begins(l, L) == ~L.locked /\ ~L.firing /\ ~("once" \in Flags[l] /\ L.memory # Undefined)
FireList(l, L, v) ==
    IF Begins(l, L) THEN StartFire(l, L, v)
    ELSE IF ~L.locked /\ L.firing /\ "once" \notin Flags[l] THEN [L EXCEPT !.stack = Append(@, v)]
    ELSE L

-----------------------------------------------------------------------------
(* The loop of fire.                                                        *)

\* entry is what the loop is calling, over says that a function stopped it.
NoEntry == <<"none">>
Frame(l, v) == [list |-> l, value |-> v, entry |-> NoEntry, over |-> FALSE]
Top == frames[Len(frames)]
Rest == Front(frames)
Calling == frames # <<>> /\ Top.entry # NoEntry
Looping == frames # <<>> /\ Top.entry = NoEntry
InProgram == ~(frames # <<>> /\ Top.entry[1] # "user")
InFrames(l) == \E i \in DOMAIN frames : frames[i].list = l
More(L) == ~L.gone /\ L.index < L.length

\* The next function is called; after empty the loop runs into undefined, an
\* exception that ends every call and leaves the list firing.
CallNext ==
    LET l == Top.list
        L == lists[l]
        e == L.list[L.index + 1]
    IN /\ Looping /\ ~Top.over /\ More(L) /\ UNCHANGED calls
       /\ IF L.index >= Len(L.list) THEN frames' = <<>> /\ lists' = [k \in Lists |->
                IF InFrames(k) THEN [lists[k] EXCEPT !.broken = TRUE] ELSE lists[k]]
          ELSE /\ frames' = [frames EXCEPT ![Len(frames)].entry = e]
               /\ lists' = [lists EXCEPT ![l].due = IF @ = <<>> THEN <<>> ELSE Tail(@),
                                         ![l].log = Append(@, <<e, Top.value>>)]

\* The function returns: the loop goes on, unless it returned false and that
\* matters.
Back == [frames EXCEPT ![Len(frames)].entry = NoEntry]
ReturnFalse ==
    /\ Calling /\ Top.entry[1] = "user" /\ "stopOnFalse" \in Flags[Top.list] /\ UNCHANGED calls
    /\ lists' = [lists EXCEPT ![Top.list].memory = Halted, ![Top.list].due = <<>>]
    /\ frames' = [frames EXCEPT ![Len(frames)].entry = NoEntry, ![Len(frames)].over = TRUE]
Return ==
    /\ Calling /\ UNCHANGED calls
    /\ lists' = [lists EXCEPT ![Top.list].index = @ + 1]
    /\ frames' = Back

\* The end of fire.
Finish ==
    LET l == Top.list
        L == [lists[l] EXCEPT !.firing = FALSE, !.broken = FALSE]
        again == ~L.gone /\ "once" \notin Flags[l] /\ L.stack # <<>>
        U == [L EXCEPT !.memory = L.stack[1], !.stack = Tail(@)]
    IN /\ Looping /\ (Top.over \/ ~More(L)) /\ UNCHANGED calls
       /\ frames' = IF again THEN [frames EXCEPT ![Len(frames)] = Frame(l, L.stack[1])] ELSE Rest
       /\ lists' = [lists EXCEPT ![l] =
                      IF again THEN FireList(l, U, L.stack[1])
                      ELSE IF L.gone \/ "once" \notin Flags[l] THEN L
                      ELSE IF L.memory = Halted THEN Disable(L)
                      ELSE [L EXCEPT !.list = <<>>]]

-----------------------------------------------------------------------------
(* The program's calls.                                                     *)

Apply(l, U, v, fires) ==
    /\ lists' = [lists EXCEPT ![l] = U]
    /\ frames' = IF fires THEN Append(frames, Frame(l, v)) ELSE frames
CallAdd(l, e) == Apply(l, AddTo(l, lists[l], e), lists[l].memory, FiresAtOnce(lists[l]))
CallFire(l, v) == Apply(l, FireList(l, lists[l], v), v, Begins(l, lists[l]))

Program == InProgram /\ calls < MaxCalls /\ calls' = calls + 1
Add == Program /\ \E l \in Lists, f \in Fn : CallAdd(l, User(f))
FireWith == Program /\ \E l \in Lists, v \in Value : CallFire(l, <<v>>)
Change ==
    /\ Program /\ UNCHANGED frames
    /\ \E l \in Lists :
        \/ \E f \in Fn : lists' = [lists EXCEPT ![l] = RemoveFrom(@, User(f))]
        \/ lists' = [lists EXCEPT ![l] = Empty(@)]
        \/ lists' = [lists EXCEPT ![l] = Disable(@)]
        \/ lists' = [lists EXCEPT ![l] = Lock(@)]

ListInit == lists = [l \in Lists |-> NewList(<<>>)] /\ frames = <<>> /\ calls = 0
ListNext == Add \/ FireWith \/ Change \/ CallNext \/ ReturnFalse \/ Return \/ Finish

-----------------------------------------------------------------------------
\* The loop variables of a list that fires are those of its functions still
\* to call: add and remove in the middle of a firing neither skip a function
\* nor call one twice.
InLoop(l) == \E i \in DOMAIN frames : frames[i].list = l /\ ~frames[i].over
CallsDue ==
    \A l \in Lists :
        LET L == lists[l]
            called == \E i \in DOMAIN frames : frames[i].list = l /\ frames[i].entry # NoEntry
        IN InLoop(l) /\ ~L.gone /\ ~L.broken =>
              L.due = SubSeq(L.list, L.index + (IF called THEN 2 ELSE 1), L.length)

\* A list says that it fires exactly while a loop fires it, and one loop at a
\* time; after the exception of a list emptied while it fired it does for ever.
FiringEnds ==
    \A l \in Lists :
        /\ ~lists[l].broken => (lists[l].firing <=> InFrames(l))
        /\ Cardinality({i \in DOMAIN frames : frames[i].list = l}) <= 1

\* A list with the flag "once" calls each function added to it at most once
\* for every time it was added, one with "unique" holds no function twice.
FlagsKept ==
    \A l \in Lists :
        LET L == lists[l]
            Times(seq, e) == Cardinality({i \in DOMAIN seq : seq[i] = e})
        IN /\ "once" \in Flags[l] => \A f \in Fn :
                 Times([i \in DOMAIN L.log |-> L.log[i][1]], User(f)) <= Times(L.added, User(f))
           /\ "unique" \in Flags[l] => IsInjective(L.list)

=============================================================================
