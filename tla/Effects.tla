------------------------------ MODULE Effects ------------------------------
(***************************************************************************)
(* Queues and animations of jQuery: queue, dequeue, delay, promise, and    *)
(* animate, stop and the tick of the timers on top of them.                *)
(*                                                                         *)
(* A page runs one turn at a time (a call of the program, a tick, a        *)
(* timeout), and a turn runs to its end: an operator takes the page fx and *)
(* returns what the code leaves of it.  The functions of the program that  *)
(* run in the middle of a turn (queued functions, complete) are among its  *)
(* inputs, and may call jQuery before they return.                         *)
(***************************************************************************)
EXTENDS Integers, Sequences, FiniteSets, SequencesExt

CONSTANTS
    Elem,           \* elements
    Settings,       \* options animate is called with, see Options
    QueuedFns,      \* what a function in the queue does: "hold", "next", "nextQueue"
    MaxCalls        \* bound: calls of the program

VARIABLE fx

\* kind: "hide", "show", "toggle" or "to"; props in the order they are
\* animated; length in ticks; queued: FALSE for queue: false; complete: what
\* the function given as complete does.
Options(o) ==
    /\ o.kind \in {"hide", "show", "toggle", "to"} /\ o.props \in Seq({"height", "opacity"})
    /\ o.length \in 0..2 /\ o.queued \in BOOLEAN /\ o.complete \in {"none", "stop", "stopEnd"}

Props == {"height", "opacity"}
InProgress == [what |-> "inprogress"]

(* arrays: the arrays a queue has been in, by identity: code that holds one *)
(* does not see that the element has another; queue[e] = 0 when there is    *)
(* none.  list[e]: the callbacks of promise, 0 if there are none.  Sizes    *)
(* are 2 (as designed), 1 (on the way) and 0; orig and fxshow use None.     *)
(* fate and odd are not in the code: what became of every queued function,  *)
(* and the calls that are known to upset a queue.                           *)
None == 9
Page0 ==
    [arrays |-> <<>>, queue |-> [e \in Elem |-> 0], hooks |-> [e \in Elem |-> 0],
     mark |-> [e \in Elem |-> 0], list |-> [e \in Elem |-> 0], timeouts |-> <<>>,
     lists |-> 0, promises |-> <<>>, delays |-> <<>>, held |-> <<>>,
     anims |-> <<>>, timers |-> <<>>, ticking |-> FALSE,
     shown |-> [e \in Elem |-> TRUE], size |-> [e \in Elem |-> [p \in Props |-> 2]],
     fxshow |-> [e \in Elem |-> [p \in Props |-> None]],
     toggle |-> [e \in Elem |-> [p \in Props |-> "none"]],
     fate |-> <<>>, odd |-> {}, thrown |-> FALSE, calls |-> 0]

Odd(S, what) == [S EXCEPT !.odd = @ \cup {what}]
QueueOf(S, e) == IF S.queue[e] = 0 THEN <<>> ELSE S.arrays[S.queue[e]]

-----------------------------------------------------------------------------
(* Queues.                                                                  *)

HandleDefer(S, e, src) ==
    IF /\ S.list[e] # 0
       /\ src = "queue" \/ S.queue[e] = 0
       /\ src = "mark" \/ S.mark[e] = 0
    THEN [S EXCEPT !.timeouts = Append(@, <<e, S.list[e]>>)] ELSE S

Unmark(S, e, force) ==
    IF ~force /\ S.mark[e] > 1 THEN [S EXCEPT !.mark[e] = @ - 1]
    ELSE HandleDefer([S EXCEPT !.mark[e] = 0], e, "mark")

NewArray(S, e, items) ==
    [S EXCEPT !.arrays = Append(@, items), !.queue[e] = Len(S.arrays) + 1]

\* Mutant: a queue that ends does not look after its promises.
RemoveSilently(S, e) == [S EXCEPT !.queue[e] = 0, !.hooks[e] = 0]

RemoveQueue(S, e) ==
    HandleDefer([S EXCEPT !.queue[e] = 0, !.hooks[e] = 0], e, "queue")

RECURSIVE Dequeue(_, _), Complete(_, _, _), StopLoop(_, _, _, _, _), StartProps(_, _, _)

\* The array is looked at again after the call, not the element.
AfterCall(S, e, array) ==
    IF ~S.thrown /\ S.arrays[array] = <<>> THEN RemoveQueue(S, e) ELSE S

Push(S, e, item) ==
    LET n == Len(S.fate) + 1
        T == [S EXCEPT !.fate = Append(@, [elem |-> e, is |-> "waiting"])]
        i == item @@ [n |-> n]
    IN IF S.queue[e] = 0 THEN NewArray(T, e, <<i>>)
       ELSE [T EXCEPT !.arrays[S.queue[e]] = Append(@, i)]

StartIfIdle(S, e) ==
    IF ~S.thrown /\ (QueueOf(S, e) = <<>> \/ QueueOf(S, e)[1] # InProgress)
    THEN Dequeue(S, e) ELSE S
Queue(S, e, item) == StartIfIdle(Push(S, e, item), e)
ClearQueue(S, e) ==
    LET gone == {QueueOf(S, e)[i].n : i \in {j \in DOMAIN QueueOf(S, e) : "n" \in DOMAIN QueueOf(S, e)[j]}}
    IN StartIfIdle(NewArray([S EXCEPT !.fate = [n \in DOMAIN @ |->
                        IF n \in gone THEN [@[n] EXCEPT !.is = "cleared"] ELSE @[n]]], e, <<>>), e)

-----------------------------------------------------------------------------
(* Animations.                                                              *)

\* The last step of one property, and the end of the animation after the
\* last of them.
Restore(S, e, a) ==
    [S EXCEPT
        !.shown[e] = IF a.hide THEN FALSE ELSE @,
        !.size[e] = IF a.hide \/ a.show
                    THEN [p \in Props |-> IF p \in ToSet(a.o.props) THEN a.orig[p] ELSE @[p]] ELSE @,
        !.fxshow[e] = IF a.hide \/ a.show
                      THEN [p \in Props |-> IF p \in ToSet(a.o.props) THEN None ELSE @[p]] ELSE @,
        !.toggle[e] = IF a.hide \/ a.show
                      THEN [p \in Props |-> IF p \in ToSet(a.o.props) THEN "none" ELSE @[p]] ELSE @]
LastStep(S, id, p) ==
    LET e == S.anims[id].elem
        T == [S EXCEPT !.size[e][p] = S.anims[id].end[p], !.anims[id].finished = @ \cup {p}]
        a == T.anims[id]
    IN IF S.thrown THEN S
       ELSE IF a.finished # ToSet(a.o.props) THEN T
       ELSE IF a.completed THEN Restore(T, e, a)
       ELSE Complete([Restore(T, e, a) EXCEPT !.anims[id].completed = TRUE], e, a.o)

\* custom
Custom(S, id, p, from, to) ==
    LET e == S.anims[id].elem
        T == [S EXCEPT !.anims[id].start[p] = from, !.anims[id].end[p] = to, !.size[e][p] = from]
    IN IF T.anims[id].o.length = 0 THEN LastStep(T, id, p)
       ELSE [T EXCEPT !.timers = Append(@, <<id, p>>), !.ticking = TRUE]

\* show, hide and custom of one property: a hide that was stopped has left
\* the size in fxshow.
Kept(S, id, p) ==
    LET e == S.anims[id].elem
    IN [S EXCEPT !.anims[id].orig[p] = IF S.fxshow[e][p] # None THEN S.fxshow[e][p] ELSE S.size[e][p]]
Shown(S, e, shows) == IF shows /\ ~S.thrown THEN [S EXCEPT !.shown[e] = TRUE] ELSE S
Method(S, id, p, do) ==
    LET e == S.anims[id].elem
        was == S.fxshow[e][p]
        size == S.size[e][p]
        path == CASE do = "show" -> IF was # None THEN <<size, was>> ELSE <<0, size>>
                  [] do = "hide" -> <<size, 0>>
                  [] OTHER -> <<size, 2>>
    IN Shown(Custom(CASE do = "show" -> [Kept(S, id, p) EXCEPT !.anims[id].show = TRUE]
                      [] do = "hide" -> [Kept(S, id, p) EXCEPT !.anims[id].hide = TRUE]
                      [] OTHER -> S, id, p, path[1], path[2]), e, do = "show")
StartProp(S, id, p, hidden) ==
    LET a == S.anims[id]
        kind == a.o.kind
        method == IF kind = "to" THEN "to"
                  ELSE IF S.toggle[a.elem][p] # "none" THEN S.toggle[a.elem][p]
                  ELSE IF kind # "toggle" THEN "none"
                  ELSE IF hidden THEN "show" ELSE "hide"
        T == IF method \in {"to", "none"} THEN S
             ELSE [S EXCEPT !.toggle[a.elem][p] = IF method = "show" THEN "hide" ELSE "show"]
        do == IF method = "none" THEN kind ELSE method
    IN IF S.thrown THEN S
       ELSE Method(T, id, p, do)

StartProps(S, id, i) ==
    IF i > Len(S.anims[id].o.props) THEN S
    ELSE StartProps(StartProp(S, id, S.anims[id].o.props[i], S.anims[id].hidden), id, i + 1)

Together(S, e, o) ==
    \E t \in ToSet(S.timers) : S.anims[t[1]].elem = e /\ t[2] \in ToSet(o.props)

\* doAnimation: what is already as asked is complete at once.
DoAnimation(S, e, o) ==
    LET T == IF o.queued THEN S ELSE [S EXCEPT !.mark[e] = @ + 1]
        hidden == ~S.shown[e]
        a == [elem |-> e, o |-> o, hidden |-> hidden, age |-> 0, hide |-> FALSE, show |-> FALSE,
              orig |-> [p \in Props |-> None], start |-> [p \in Props |-> None],
              end |-> [p \in Props |-> None], finished |-> {}, completed |-> FALSE,
              stopped |-> FALSE]
    IN IF (o.kind = "hide" /\ hidden) \/ (o.kind = "show" /\ ~hidden) THEN Complete(T, e, o)
       ELSE StartProps([(IF Together(T, e, o) THEN Odd(T, "together") ELSE T)
                           EXCEPT !.anims = Append(@, a)], Len(T.anims) + 1, 1)

-----------------------------------------------------------------------------
(* stop                                                                     *)

\* Mutant: a hide that is stopped does not keep the size from before it.
SaveNothing(S, t) ==
    [S EXCEPT !.anims[t[1]].stopped = TRUE,
              !.odd = IF S.anims[t[1]].show THEN @ \cup {"show stopped"} ELSE @]
SaveState(S, t) ==
    LET a == S.anims[t[1]]
    IN [S EXCEPT !.fxshow[a.elem][t[2]] =
                     IF a.hide /\ @ = None THEN a.start[t[2]] ELSE @,
                 !.anims[t[1]].stopped = TRUE,
                 !.odd = IF a.show THEN @ \cup {"show stopped"} ELSE @]
Splice(s, i) == IF i <= Len(s) THEN RemoveAt(s, i) ELSE s

\* The loop over the timers from the last to the first, and the dequeue that
\* follows it; what a complete does to the timers is not noticed.
Spliced(S, i) == IF S.thrown \/ i > Len(S.timers) THEN S ELSE [S EXCEPT !.timers = RemoveAt(@, i)]
StopTimer(S, t, gotoEnd) == IF gotoEnd THEN LastStep(S, t[1], t[2]) ELSE SaveState(S, t)
StopLoop(S, e, gotoEnd, i, had) ==
    IF S.thrown \/ (i = 0 /\ gotoEnd /\ had) THEN S
    ELSE IF i = 0 THEN Dequeue(S, e)
    ELSE IF i > Len(S.timers) THEN Odd([S EXCEPT !.thrown = TRUE], "thrown")
    ELSE IF S.anims[S.timers[i][1]].elem # e THEN StopLoop(S, e, gotoEnd, i - 1, had)
    ELSE StopLoop(Spliced(StopTimer(S, S.timers[i], gotoEnd), i), e, gotoEnd, i - 1, TRUE)

\* A delay under way is cancelled through the hooks of its queue.
StopDelay(S, e, gotoEnd) ==
    IF S.hooks[e] = 0 THEN S
    ELSE [(IF gotoEnd THEN Odd(S, "delay forced") ELSE S)
             EXCEPT !.delays[S.hooks[e]].on = FALSE, !.hooks[e] = 0]
StopAnimations(S, e, gotoEnd) == StopLoop(StopDelay(S, e, gotoEnd), e, gotoEnd, Len(S.timers), FALSE)
MaybeUnmark(S, e, gotoEnd) == IF gotoEnd THEN S ELSE Unmark(S, e, TRUE)
Stop(S, e, clear, gotoEnd) ==
    StopAnimations(MaybeUnmark(IF clear THEN ClearQueue(S, e) ELSE S, e, gotoEnd), e, gotoEnd)

-----------------------------------------------------------------------------
(* Calls out of the queue.                                                  *)

\* opt.complete: first the program's function.
CallComplete(S, e, o) ==
    IF o.complete = "none" THEN S
    ELSE Stop(Odd(S, "stop in complete"), e, FALSE, o.complete = "stopEnd")
GoOn(S, e, o) ==
    IF S.thrown THEN S ELSE IF o.queued THEN Dequeue(S, e) ELSE Unmark(S, e, FALSE)
Complete(S, e, o) == GoOn(CallComplete(S, e, o), e, o)

Delayed(S, e) ==
    [S EXCEPT !.delays = Append(@, [elem |-> e, on |-> TRUE]), !.hooks[e] = Len(S.delays) + 1]

\* A function of the program keeps next for later, calls it, or calls it and
\* goes on to queue more.
Hold == [what |-> "fn", fn |-> "hold"]
QueueTwo(S, e) == StartIfIdle(Push(Push(Odd(S, "queued after next"), e, Hold), e, Hold), e)
AfterNext(S, e, fn) == IF fn = "nextQueue" /\ ~S.thrown THEN QueueTwo(S, e) ELSE S
CallFn(S, e, fn) ==
    IF fn = "hold" THEN [S EXCEPT !.held = Append(@, e)] ELSE AfterNext(Dequeue(S, e), e, fn)
CallItem(S, e, item) ==
    LET T == [S EXCEPT !.fate[item.n].is = "ran"]
    IN CASE item.what = "animation" -> DoAnimation(T, e, item.o)
         [] item.what = "delay" -> Delayed(T, e)
         [] item.what = "fn" -> CallFn(T, e, item.fn)

Dequeue(S, e) ==
    LET q == QueueOf(S, e)
        rest == IF q # <<>> /\ q[1] = InProgress THEN Tail(q) ELSE q
        array == S.queue[e]
        Set(items) == IF array = 0 THEN S ELSE [S EXCEPT !.arrays[array] = items]
    IN IF S.thrown THEN S
       ELSE IF rest = <<>> THEN RemoveQueue(Set(<<>>), e)
       ELSE AfterCall(CallItem([Set(<<InProgress>> \o Tail(rest)) EXCEPT !.hooks[e] = 0], e, rest[1]),
                      e, array)

-----------------------------------------------------------------------------
(* tick: every timer takes its step, and leaves when that was the last one. *)

RECURSIVE TickLoop(_, _)
Over(S, t) == S.anims[t[1]].age >= S.anims[t[1]].o.length
Step(S, t) == IF Over(S, t) THEN LastStep(S, t[1], t[2])
              ELSE [S EXCEPT !.size[S.anims[t[1]].elem][t[2]] = 1]
TickOn(S, t, i) ==
    IF Over(S, t) /\ ~S.thrown /\ i <= Len(S.timers) /\ S.timers[i] = t
    THEN TickLoop([S EXCEPT !.timers = RemoveAt(@, i)], i) ELSE TickLoop(S, i + 1)
TickLoop(S, i) ==
    IF S.thrown THEN S
    ELSE IF i > Len(S.timers) THEN [S EXCEPT !.ticking = S.timers # <<>>]
    ELSE TickOn(Step(S, S.timers[i]), S.timers[i], i)

-----------------------------------------------------------------------------
Turn(S) == fx' = [S EXCEPT !.thrown = FALSE]
Calls(S) == S.calls < MaxCalls
Called(S) == [S EXCEPT !.calls = @ + 1]

Animate ==
    /\ Calls(fx)
    /\ \E e \in Elem, o \in Settings :
          Turn(IF o.queued THEN Queue(Called(fx), e, [what |-> "animation", o |-> o])
               ELSE DoAnimation(Called(fx), e, o))
Delay == Calls(fx) /\ \E e \in Elem : Turn(Queue(Called(fx), e, [what |-> "delay"]))
QueueFn ==
    /\ Calls(fx)
    /\ \E e \in Elem, f \in QueuedFns : Turn(Queue(Called(fx), e, [what |-> "fn", fn |-> f]))

\* clearQueue while an item is in progress forgets that it is.
Busy(S, e) == QueueOf(S, e) # <<>>
Clear ==
    /\ Calls(fx)
    /\ \E e \in Elem :
          Turn(ClearQueue(IF Busy(fx, e) THEN Odd(Called(fx), "cleared") ELSE Called(fx), e))
StopNow ==
    /\ Calls(fx)
    /\ \E e \in Elem, clear, gotoEnd \in BOOLEAN :
          Turn(Stop(IF (clear /\ fx.hooks[e] # 0) \/ e \in ToSet(fx.held)
                    THEN Odd(Called(fx), "cleared") ELSE Called(fx), e, clear, gotoEnd))
\* show() and hide() without a speed.
ShowHide == Calls(fx) /\ \E e \in Elem, b \in BOOLEAN : Turn([Called(fx) EXCEPT !.shown[e] = b])

\* promise: one list of callbacks for each element that has a queue or a mark.
Promise ==
    /\ Calls(fx)
    /\ LET waits == {e \in Elem : fx.list[e] # 0 \/ fx.queue[e] # 0 \/ fx.mark[e] # 0}
           new == SetToSeq({e \in waits : fx.list[e] = 0})
           lists == [e \in Elem |-> IF e \in ToSet(new) THEN fx.lists + CHOOSE i \in DOMAIN new : new[i] = e
                                    ELSE fx.list[e]]
       IN Turn([Called(fx) EXCEPT !.list = lists, !.lists = @ + Len(new),
                                  !.promises = Append(@, {lists[e] : e \in waits})])

\* The list that a timeout fires is called at most once; what it takes from the
\* element is the list there is by then, which may be a later one.
Timeout ==
    /\ fx.timeouts # <<>>
    /\ LET e == fx.timeouts[1][1]
           l == fx.timeouts[1][2]
           T == [fx EXCEPT !.timeouts = Tail(@)]
       IN Turn(IF fx.queue[e] # 0 \/ fx.mark[e] # 0 THEN T
               ELSE [(IF T.list[e] \notin {0, l} THEN Odd(T, "list taken") ELSE T)
                        EXCEPT !.list[e] = 0, !.promises = [i \in DOMAIN @ |-> @[i] \ {l}]])

Tick ==
    /\ fx.ticking
    /\ LET Older(a) == [a EXCEPT !.age = IF a.age < a.o.length THEN @ + 1 ELSE @]
       IN Turn(TickLoop([fx EXCEPT !.anims = [i \in DOMAIN @ |-> Older(@[i])]], 1))
DelayEnds ==
    \E d \in DOMAIN fx.delays :
        fx.delays[d].on /\ Turn(Dequeue([fx EXCEPT !.delays[d].on = FALSE], fx.delays[d].elem))
Next1 ==
    \E i \in DOMAIN fx.held : Turn(Dequeue([fx EXCEPT !.held = RemoveAt(@, i)], fx.held[i]))

FxInit == fx = Page0
FxNext ==
    \/ Animate \/ Delay \/ QueueFn \/ Clear \/ StopNow \/ ShowHide \/ Promise
    \/ Timeout \/ Tick \/ DelayEnds \/ Next1
FxSpec == FxInit /\ [][FxNext]_fx

-----------------------------------------------------------------------------
(* What must hold.                                                          *)

\* The variables have their types.
FxTypeOK ==
    /\ \A e \in Elem : fx.queue[e] \in 0..Len(fx.arrays) /\ fx.mark[e] \in 0..MaxCalls
    /\ fx.calls \in 0..MaxCalls /\ \A a \in ToSet(fx.anims) : Options(a.o)
    /\ fx.timers \in Seq((DOMAIN fx.anims) \X Props)

\* An animation that has neither come to its end nor been stopped.
Running(a) == ~a.completed /\ ~a.stopped
\* What will dequeue the next item of e.
Engines(e) ==
    Cardinality({i \in DOMAIN fx.anims :
        fx.anims[i].elem = e /\ fx.anims[i].o.queued /\ Running(fx.anims[i])})
    + Cardinality({d \in DOMAIN fx.delays : fx.delays[d].elem = e /\ fx.delays[d].on})
    + Cardinality({i \in DOMAIN fx.held : fx.held[i] = e})

\* A queue that is there has something that will dequeue it: an animation, a
\* delay or a function that has not called next; but after stop(false, true)
\* over a delay, or a stop in complete.
QueueMoves ==
    fx.odd \cap {"stop in complete", "delay forced"} = {} =>
        \A e \in Elem : fx.queue[e] # 0 => Engines(e) > 0
\* One item of a queue is in progress at a time, unless the mark of it was
\* cleared under it.
OneAtATime ==
    fx.odd \cap {"stop in complete", "cleared", "queued after next"} = {} => \A e \in Elem : Engines(e) <= 1
\* A function that is queued and has not been called is still in the queue,
\* unless it was cleared; functions that queue more after next are excepted.
NothingForgotten ==
    fx.odd \cap {"queued after next"} = {} =>
        \A n \in DOMAIN fx.fate : fx.fate[n].is = "waiting" =>
            \E i \in DOMAIN QueueOf(fx, fx.fate[n].elem) :
                LET it == QueueOf(fx, fx.fate[n].elem)[i] IN it # InProgress /\ it.n = n
\* Functions of a queue are called in the order in which they were queued.
InOrder ==
    "queued after next" \notin fx.odd =>
    \A n, k \in DOMAIN fx.fate :
        n < k /\ fx.fate[n].elem = fx.fate[k].elem /\ fx.fate[k].is = "ran" => fx.fate[n].is # "waiting"
\* An animation that runs has a timer for each property that is not there yet,
\* so that it ends and its complete is called.
NoneHangs ==
    fx.odd \cap {"stop in complete"} = {} =>
    \A i \in DOMAIN fx.anims :
        LET a == fx.anims[i]
        IN Running(a) => \A p \in ToSet(a.o.props) \ a.finished : <<i, p>> \in ToSet(fx.timers)
\* The interval is on while there are timers.
TimersTick == fx.timers # <<>> => fx.ticking
\* A promise waits for an element that still has a queue or a mark, or for a
\* timeout that will look again; but where a timeout that was set twice took a
\* later list with it.
PromisesKept ==
    "list taken" \notin fx.odd =>
    \A i \in DOMAIN fx.promises : \A l \in fx.promises[i] :
        \/ \E e \in Elem : fx.list[e] = l /\ (fx.queue[e] # 0 \/ fx.mark[e] # 0)
        \/ \E j \in DOMAIN fx.timeouts : fx.timeouts[j][2] = l
\* An element that is marked has an animation outside of its queue.
PromiseWaits ==
    \A e \in Elem : fx.mark[e] > 0 =>
        \E i \in DOMAIN fx.anims : fx.anims[i].elem = e /\ ~fx.anims[i].o.queued /\ Running(fx.anims[i])
\* A property has the size of its design once the last animation of it has come
\* to its end, however many hides, shows and toggles were stopped on the way
\* before it; but for a show that was stopped, which does not save the size,
\* two animations of one property at a time, a stop in complete, and an animation
\* to a size that was stopped: what it leaves is the design from then on.
AnimationsOf(e, p) ==
    {i \in DOMAIN fx.anims : fx.anims[i].elem = e /\ p \in ToSet(fx.anims[i].o.props)}
IsOver(e, p) ==
    \E i \in AnimationsOf(e, p) : fx.anims[i].completed /\ \A j \in AnimationsOf(e, p) : j <= i
Redesigned(e, p) ==
    \E i \in AnimationsOf(e, p) : fx.anims[i].o.kind = "to" /\ ~fx.anims[i].completed
SizeKept ==
    fx.odd \cap {"show stopped", "together", "stop in complete"} = {} =>
    \A e \in Elem, p \in Props :
        IsOver(e, p) /\ ~Redesigned(e, p) => fx.size[e][p] = 2

=============================================================================
