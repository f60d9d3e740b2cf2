------------------------------ MODULE Deferred ------------------------------
(***************************************************************************)
(* jQuery.Deferred, pipe and jQuery.when over the callback lists they are  *)
(* made of.  A deferred d has the lists <<d, "done">>, <<d, "fail">> and   *)
(* <<d, "progress">>; its first functions are its own.                     *)
(***************************************************************************)
EXTENDS Callbacks

CONSTANTS
    Part,           \* deferreds of the program, which when waits for
    All,            \* the deferred when returns the promise of
    Piped,          \* the deferred pipe returns the promise of
    Source          \* the part that pipe is called on

VARIABLES
    state,          \* state of each deferred
    count,          \* count of when
    todo            \* calls of add a function of jQuery has still to make: at
                    \* which depth of frames, which list, what

defVars == <<lists, frames, calls, state, count, todo>>

Deferreds == Part \cup {All, Piped}
Kinds == {"done", "fail", "progress"}
DeferredFlags(kind) == IF kind = "progress" THEN {"memory"} ELSE {"once", "memory"}

\* What the constants are: the parts are the program's, All and Piped are two
\* deferreds that jQuery makes, and each has its three lists.
DeferredConstants ==
    /\ IsFiniteSet(Part) /\ Source \in Part
    /\ All \notin Part /\ Piped \notin Part /\ All # Piped
    /\ Lists = {<<d, k>> : d \in Deferreds, k \in Kinds}
    /\ Flags = [l \in Lists |-> DeferredFlags(l[2])]
    /\ MaxCalls \in Nat

\* The functions of jQuery in the lists.
Settle(s) == <<"settle", s>>
DisableList(l) == <<"disable", l>>
LockList(l) == <<"lock", l>>
Forward(l) == <<"forward", l>>
Filter(l) == <<"filter", l>>
PartDone == <<"part">>

\* Mutant: what settles a deferred leaves the list of the other outcome.
OpenDeferred(d) ==
    [done |-> <<Settle("resolved"), LockList(<<d, "progress">>)>>,
     fail |-> <<Settle("rejected"), LockList(<<d, "progress">>)>>,
     progress |-> <<>>]

\* jQuery.Deferred
NewDeferred(d) ==
    [done |-> <<Settle("resolved"), DisableList(<<d, "fail">>), LockList(<<d, "progress">>)>>,
     fail |-> <<Settle("rejected"), DisableList(<<d, "done">>), LockList(<<d, "progress">>)>>,
     progress |-> <<>>]

-----------------------------------------------------------------------------
Adds(depth, pairs) == [i \in DOMAIN pairs |-> [depth |-> depth, list |-> pairs[i][1],
                                              entry |-> pairs[i][2]]]
\* then
Then(depth, d, done, fail, progress) ==
    Adds(depth, <<<<<<d, "done">>, done>>, <<<<d, "fail">>, fail>>,
                 <<<<d, "progress">>, progress>>>>)
ForwardAll(depth, d, to) ==
    Then(depth, d, Forward(<<to, "done">>), Forward(<<to, "fail">>), Forward(<<to, "progress">>))

\* The next add of a function of jQuery, once what the last one set off is over.
Idle == ~(todo # <<>> /\ todo[1].depth = Len(frames))
AddTodo ==
    /\ ~Idle /\ todo' = Tail(todo) /\ CallAdd(todo[1].list, todo[1].entry)
    /\ UNCHANGED <<calls, state, count>>

\* when and pipe, called by the program where nothing fires.
Call == frames = <<>> /\ todo = <<>> /\ calls < MaxCalls /\ calls' = calls + 1
Argument == SetToSeq(Part)
ThenOfWhen(d) == Then(0, d, PartDone, Forward(<<All, "fail">>), Forward(<<All, "progress">>))
AddsOfWhen == [i \in 1..(3 * Cardinality(Part)) |->
                  ThenOfWhen(Argument[(i + 2) \div 3])[((i + 2) % 3) + 1]]
When ==
    /\ Call /\ state[All] = "unmade" /\ UNCHANGED <<lists, frames>>
    /\ state' = [state EXCEPT ![All] = "pending"] /\ count' = Cardinality(Part)
    /\ todo' = AddsOfWhen
Pipe ==
    /\ Call /\ state[Piped] = "unmade" /\ UNCHANGED <<lists, frames, count>>
    /\ state' = [state EXCEPT ![Piped] = "pending"]
    /\ todo' = Then(0, Source, Filter(<<Piped, "done">>), Forward(<<Piped, "fail">>),
                    Forward(<<Piped, "progress">>))

\* A function of jQuery is called by the innermost loop.
RunOwn ==
    LET e == Top.entry
        l == Top.list
        d == l[1]
        Go(L) == lists' = [L EXCEPT ![l].index = @ + 1]
        FireNow(to) ==      \* the loop goes on when the list it fires is over
            /\ lists' = [lists EXCEPT ![to] = FireList(to, @, Top.value), ![l].index = @ + 1]
            /\ frames' = IF Begins(to, lists[to]) THEN Append(Back, Frame(to, Top.value)) ELSE Back
    IN /\ Calling /\ Top.entry[1] # "user" /\ Idle /\ UNCHANGED calls
       /\ CASE e[1] = "settle" ->
                 state' = [state EXCEPT ![d] = e[2]] /\ Go(lists) /\ frames' = Back
                 /\ UNCHANGED <<count, todo>>
            [] e[1] = "disable" ->
                 Go([lists EXCEPT ![e[2]] = Disable(@)]) /\ frames' = Back
                 /\ UNCHANGED <<state, count, todo>>
            [] e[1] = "lock" ->
                 Go([lists EXCEPT ![e[2]] = Lock(@)]) /\ frames' = Back
                 /\ UNCHANGED <<state, count, todo>>
            [] e[1] = "forward" -> FireNow(e[2]) /\ UNCHANGED <<state, count, todo>>
            [] e[1] = "part" ->
                 /\ count' = count - 1 /\ UNCHANGED <<state, todo>>
                 /\ IF count = 1 THEN FireNow(<<All, "done">>) ELSE Go(lists) /\ frames' = Back
            [] e[1] = "filter" ->       \* fnDone returns a value, or a promise
                 \/ FireNow(e[2]) /\ UNCHANGED <<state, count, todo>>
                 \/ /\ UNCHANGED <<state, count>> /\ Go(lists) /\ frames' = Back
                    /\ \E p \in Part \ {d} :
                         todo' = ForwardAll(Len(frames), p, Piped) \o todo

-----------------------------------------------------------------------------
DefInit ==
    /\ lists = [l \in Lists |-> NewList(NewDeferred(l[1])[l[2]])]
    /\ frames = <<>> /\ calls = 0
    /\ state = [d \in Deferreds |-> IF d \in Part THEN "pending" ELSE "unmade"]
    /\ count = 0 /\ todo = <<>>

\* The program may add to all lists it has, and settle its own deferreds.
Made(l) == state[l[1]] # "unmade"
UserAdd == Program /\ \E l \in Lists, f \in Fn : Made(l) /\ CallAdd(l, User(f))
UserFire ==
    Program /\ \E l \in Lists, v \in Value : l[1] \notin {All, Piped} /\ CallFire(l, <<v>>)
UserReturn == Return /\ Top.entry[1] = "user"

DefNext ==
    \/ Idle /\ (UserAdd \/ UserFire \/ UserReturn \/ CallNext \/ Finish)
            /\ UNCHANGED <<state, count, todo>>
    \/ AddTodo \/ When \/ Pipe \/ RunOwn

-----------------------------------------------------------------------------
(* What must hold.                                                          *)

\* The variables of the lists, of the deferreds and of when have their types.
DefTypeOK ==
    /\ \A l \in Lists : /\ lists[l].index \in Int /\ lists[l].firing \in BOOLEAN
                        /\ lists[l].length \in Nat
    /\ calls \in 0..MaxCalls
    /\ state \in [Deferreds -> {"unmade", "pending", "resolved", "rejected"}]
    /\ count \in 0..Cardinality(Part)

Quiet == frames = <<>> /\ todo = <<>>
Called(l) == [i \in DOMAIN lists[l].log |-> lists[l].log[i][1]]
UserCalled(l) == \E i \in DOMAIN lists[l].log : Called(l)[i][1] = "user"

\* A function given to done or fail is called only in that outcome and, when
\* nothing is under way, every function has been called once, in the order of
\* the calls that added it, with the values the deferred was settled with:
\* whether it was added before, after or while the others were called.
HandlersRun ==
    \A d \in Deferreds :
        /\ UserCalled(<<d, "done">>) => state[d] = "resolved"
        /\ UserCalled(<<d, "fail">>) => state[d] = "rejected"
        /\ Quiet /\ state[d] = "resolved" => Called(<<d, "done">>) = lists[<<d, "done">>].added
        /\ Quiet /\ state[d] = "rejected" => Called(<<d, "fail">>) = lists[<<d, "fail">>].added
        /\ \A k \in {"done", "fail"} : \A i \in DOMAIN lists[<<d, k>>].log :
              lists[<<d, k>>].log[i][2] = lists[<<d, k>>].log[1][2]

\* The promise of when is resolved after all its parts and rejected after one
\* of them, and waits no longer than that.
WhenJoins ==
    state[All] # "unmade" =>
        /\ state[All] = "resolved" => \A d \in Part : state[d] = "resolved"
        /\ state[All] = "rejected" => \E d \in Part : state[d] = "rejected"
        /\ Quiet /\ state[All] = "pending" =>
              /\ \E d \in Part : state[d] = "pending"
              /\ \A d \in Part : state[d] # "rejected"

\* The promise of pipe waits for its source, and for the promise its filter
\* may return, and for nothing else; a rejected source rejects it.
PipeFollows ==
    Quiet /\ state[Piped] # "unmade" =>
        /\ state[Source] = "pending" => state[Piped] = "pending"
        /\ state[Source] = "rejected" => state[Piped] = "rejected"
        /\ state[Piped] = "pending" => \E d \in Part : state[d] = "pending"

\* What a step may never do: settle a deferred that is settled, or let one
\* that is settled tell of progress but to the function that is just added.
SettledOnce ==
    \A d \in Deferreds : state'[d] # state[d] => state[d] \in {"unmade", "pending"}
LateProgress ==
    \A d \in Deferreds :
        LET L == lists[<<d, "progress">>]
            M == lists'[<<d, "progress">>]
        IN L.locked /\ ~L.firing /\ M.firing => Len(M.due) = 1 /\ M.memory = L.memory

DefSpec == DefInit /\ [][DefNext]_defVars

=============================================================================
