------------------------------- MODULE JQuery -------------------------------
(***************************************************************************)
(* The parts of jQuery that keep state of their own, each driven by the    *)
(* program of a page: callback lists and deferreds (Promises), effects,    *)
(* requests (Ajax) and events (Events).  They share no variable, so a      *)
(* behaviour follows one of them, which part names, and the others stay    *)
(* idle: a page whose events are not followed keeps the handlers it began  *)
(* with.                                                                   *)
(***************************************************************************)
EXTENDS Promises, Events, Ajax

CONSTANTS
    Settings, QueuedFns                         \* see Effects

VARIABLE fx                                     \* effects

vars == <<promiseVars, fx, net, evVars>>

F == INSTANCE Effects WITH Elem <- {"box"}, MaxCalls <- Limit["effects"]

-----------------------------------------------------------------------------
Init ==
    /\ PromisesInit
    /\ IF Runs("effects") THEN F!FxInit ELSE fx = Nothing
    /\ AjaxInit /\ (~Runs("requests") => net.window[PageName] = NoFn)
    /\ EvInit /\ (~Runs("events") => bound = Page(CHOOSE start \in Starts : TRUE))

EffectsStep == Runs("effects") /\ F!FxNext /\ UNCHANGED <<promiseVars, net, evVars>>
RequestsStep == Runs("requests") /\ AjaxNext /\ UNCHANGED <<promiseVars, fx, evVars>>
EventsStep == Runs("events") /\ EvNext /\ UNCHANGED <<promiseVars, fx, net>>
Next ==
    \/ (ListsStep \/ DeferredsStep) /\ UNCHANGED <<fx, net, evVars>>
    \/ EffectsStep \/ RequestsStep \/ EventsStep

Spec == Init /\ [][Next]_vars

-----------------------------------------------------------------------------
(* What must hold: the module of each part states it, and gathers it under  *)
(* one name: CallbacksSound, DeferredSteps, RequestsSound, EventsSound.     *)

\* Queued functions and animations run one at a time, in order, and none is
\* forgotten; what animates has a timer, a promise is kept once all is over,
\* and an element gets its size back.
EffectsSound ==
    Runs("effects") =>
        /\ F!FxTypeOK /\ F!QueueMoves /\ F!OneAtATime /\ F!NothingForgotten /\ F!InOrder
        /\ F!NoneHangs /\ F!TimersTick /\ F!PromisesKept /\ F!PromiseWaits /\ F!SizeKept

=============================================================================
