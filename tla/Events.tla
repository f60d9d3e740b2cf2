------------------------------- MODULE Events -------------------------------
(***************************************************************************)
(* jQuery.event: handlers bound to elements and delegated to what is in    *)
(* them, their removal, the dispatch of the browser's events and of        *)
(* triggered ones along the path of their target, and the default action   *)
(* of a triggered event, which lets the browser tell the event again.      *)
(*                                                                         *)
(* stack holds the events under way, the innermost last.  While one of its *)
(* handlers runs the program may bind, unbind, remove elements and trigger *)
(* further events before it returns.                                       *)
(***************************************************************************)
EXTENDS Integers, Sequences, FiniteSets, SequencesExt

CONSTANTS
    Elem,           \* elements of the page that the program works on
    Ancestors,      \* Ancestors[e], e and what it is in, up to what is in the body
    Match,          \* Match[selector], the elements a selector selects
    Bindings,       \* what on and one are called with: [type, sel, ns, one]
    Starts,         \* pages to begin with: [bindings, focus], see Page
    Handlers,       \* handlers of the program
    MaxEvents       \* bound: calls of the program

VARIABLES
    bound,          \* the events of each element, and what is attached
    stack,          \* the events under way
    triggered,      \* jQuery.event.triggered
    focused,        \* the element that has the focus, or "none"
    evCalls,        \* calls of the program so far
    seen            \* not in the code: see History

evVars == <<bound, stack, triggered, focused, evCalls, seen>>

-----------------------------------------------------------------------------
(* Types.                                                                   *)

Types == {"click", "mouseover", "focus", "blur", "focusin", "focusout"}
Morphs == {<<"focusin", "focus">>, <<"focusout", "blur">>}
BindType(t) == IF t = "mouseenter" THEN "mouseover" ELSE t
DelegateType(t) == IF t = "focus" THEN "focusin" ELSE IF t = "blur" THEN "focusout" ELSE BindType(t)
MappedType(t, sel) == IF sel = "" THEN BindType(t) ELSE DelegateType(t)
HasMethod(t) == t \in {"click", "focus", "blur"}
Bubbling == {"focusin", "focusout"}         \* set up by a handler on the document

\* What is bound with on, and to begin with.
Binding ==
    [type : Types \cup {"mouseenter"}, sel : {""} \cup DOMAIN Match, ns : STRING, one : BOOLEAN]
ASSUME EventsAssumption ==
    /\ IsFiniteSet(Elem) /\ "none" \notin Elem
    /\ \A e \in Elem :
          /\ Ancestors[e] \in Seq(Elem) /\ Ancestors[e] # <<>> /\ Ancestors[e][1] = e
          /\ \A i \in DOMAIN Ancestors[e] :
                Ancestors[Ancestors[e][i]] = SubSeq(Ancestors[e], i, Len(Ancestors[e]))
    /\ "any" \notin DOMAIN Match /\ Bindings \subseteq Binding
    /\ \A start \in Starts :
          /\ start.bindings \in Seq([elem : Elem, fn : Handlers, binding : Binding])
          /\ start.focus \in Elem \cup {"none"}
    /\ MaxEvents \in Nat

\* The elements of a sequence at the places in K, in their order.
Picked(s, K) ==
    [j \in 1..Cardinality(K) |-> s[CHOOSE i \in K : Cardinality({k \in K : k <= i}) = j]]

\* From an element up; what has been removed is in nothing any more.
Parent(e) == IF Len(Ancestors[e]) = 1 THEN "none" ELSE Ancestors[e][2]
Within(e, f) == f \in ToSet(Ancestors[e])
Up(e, gone) ==
    LET s == Ancestors[e]
        Ends(n) == (s[n] \in gone \/ n = Len(s)) /\ \A i \in 1..(n - 1) : s[i] \notin gone
    IN SubSeq(s, 1, CHOOSE n \in DOMAIN s : Ends(n))

-----------------------------------------------------------------------------
(* add and remove.                                                          *)

\* Mutant: every handler sets its type up.
SetUpEach(B, e, t) ==
    IF t \in Bubbling THEN [B EXCEPT !.attaches[t] = @ + 1]
    ELSE [B EXCEPT !.listening = @ \cup {<<e, t>>}]

\* The first handler of a type sets it up.
SetUp(B, e, t) ==
    IF B.events[e][t] # <<>> THEN B
    ELSE IF t \in Bubbling THEN [B EXCEPT !.attaches[t] = @ + 1]
    ELSE [B EXCEPT !.listening = @ \cup {<<e, t>>}]
AddEvent(B, e, h) ==
    LET t == h.type
        C == SetUp(B, e, t)
    IN IF h.sel = "" THEN [C EXCEPT !.events[e][t] = Append(@, h)]
       ELSE [C EXCEPT !.events[e][t] = InsertAt(@, C.delegates[e][t] + 1, h),
                      !.delegates[e][t] = @ + 1]

\* The teardown is that of the type as it was given, not of the mapped one.
TearDown(B, e, t, special) ==
    IF special \in Bubbling THEN [B EXCEPT !.attaches[special] = @ - 1]
    ELSE [B EXCEPT !.listening = @ \ {<<e, t>>}]
Bound(B, e, t) == ToSet(B.events[e][t])
RemoveThose(B, e, t, special, going) ==
    LET hs == B.events[e][t]
        stay == {i \in DOMAIN hs : hs[i] \notin going}
        fewer == {i \in DOMAIN hs : hs[i] \in going /\ hs[i].sel # ""}
        C == [B EXCEPT !.events[e][t] = Picked(hs, stay), !.delegates[e][t] = @ - Cardinality(fewer)]
    IN IF stay = {} /\ hs # <<>> THEN TearDown(C, e, t, special) ELSE C

\* remove of one type; the handler, the namespace and the selector are given
\* or "any".
Given(name) == IF name = "" THEN "any" ELSE name
Fits(h, fn, ns, sel) ==
    /\ fn \in {"any", h.fn} /\ ns \in {"any", h.ns} /\ sel \in {"any", h.sel}
RemoveMapped(B, e, t, type, fn, ns, sel) ==
    RemoveThose(B, e, t, type, {h \in Bound(B, e, t) : h.origType = type /\ Fits(h, fn, ns, sel)})
RemoveType(B, e, type, fn, ns, sel) ==
    RemoveMapped(B, e, IF sel = "any" THEN BindType(type) ELSE DelegateType(type), type, fn, ns, sel)
\* All that an element has; counted[t], whether t loses a handler on the document.
Without(B, e, counted) ==
    [B EXCEPT !.events[e] = [t \in Types |-> <<>>], !.delegates[e] = [t \in Types |-> 0],
              !.attaches = [t \in Bubbling |-> IF counted[t] THEN @[t] - 1 ELSE @[t]]]
\* remove without a type: every type there is, as it is mapped.
RemoveAllTypes(B, e) ==
    LET had == {t \in Types : B.events[e][t] # <<>>}
    IN [Without(B, e, [t \in Bubbling |-> t \in had]) EXCEPT !.listening = @ \ ({e} \X had)]

\* cleanData: types that are special go through remove, which looks for them
\* by the type as it was given.
CleanData(B, e) ==
    LET found == {t \in Bubbling : /\ B.events[e][t] # <<>>
                                   /\ \A h \in Bound(B, e, t) : h.origType = t}
    IN [Without(B, e, [t \in Bubbling |-> t \in found]) EXCEPT
           !.gone = @ \cup {e}, !.listening = {l \in @ : l[1] # e}]

-----------------------------------------------------------------------------
(* Events under way.                                                        *)

\* kind: "trigger", "native" or "method" (a native method that is to tell the
\* events in todo).  queue: the groups of handlers the dispatch at path[pos]
\* has still to call, current the one it is calling; told is not in the code:
\* the handlers this event has been told to, on which element.
NoHandler == [fn |-> "none"]
Event(kind, type, target, path) ==
    [kind |-> kind, type |-> type, target |-> target, path |-> path, pos |-> 0, queue |-> <<>>,
     on |-> target, current |-> NoHandler, ns |-> "", related |-> "none", stopped |-> FALSE,
     prevented |-> FALSE, only |-> FALSE, begun |-> FALSE, todo |-> <<>>, told |-> {}]
Top == stack[Len(stack)]
Rest == Front(stack)
Running == stack # <<>> /\ Top.current # NoHandler
Quiet == stack = <<>>
Put(f) == Append(Rest, f)

\* trigger: the path in advance.
TriggerPath(e, type) ==
    LET up == Up(e, bound.gone)
        bubble == IF <<DelegateType(type), type>> \in Morphs THEN up ELSE Tail(up)
    IN <<<<e, BindType(type)>>>> \o [i \in DOMAIN bubble |-> <<bubble[i], DelegateType(type)>>]
TriggerEvent(e, type, ns, only) ==
    LET path == IF only THEN <<<<e, BindType(type)>>>> ELSE TriggerPath(e, type)
    IN [Event("trigger", type, e, path) EXCEPT !.ns = ns, !.only = only]
\* The browser's own: focus and blur do not bubble.
NativeEvent(e, type) ==
    LET up == IF type \in {"focus", "blur"} THEN <<e>> ELSE Up(e, bound.gone)
    IN Event("native", type, e, [i \in DOMAIN up |-> <<up[i], type>>])

\* dispatch: the handlers to call are chosen before the first is called.
Delegated(e, t, target) ==
    LET hs == bound.events[e][t]
        up == Up(target, bound.gone)
        fitting(c) == {i \in 1..bound.delegates[e][t] : c \in Match[hs[i].sel]}
        inside == Picked(up, {i \in DOMAIN up : /\ up[i] # e /\ Within(up[i], e)
                                                /\ fitting(up[i]) # {}})
    IN [i \in DOMAIN inside |-> [on |-> inside[i], hs |-> Picked(hs, fitting(inside[i]))]]
Groups(e, t, target) ==
    LET hs == bound.events[e][t]
        direct == SubSeq(hs, bound.delegates[e][t] + 1, Len(hs))
    IN Delegated(e, t, target) \o (IF direct = <<>> THEN <<>> ELSE <<[on |-> e, hs |-> direct]>>)

\* A handler is not called for another namespace, nor one of mouseenter for a
\* pointer that comes from inside.
CalledFor(f, on, h) ==
    /\ f.ns \in {"", h.ns}
    /\ h.origType = "mouseenter" => f.related = "none" \/ ~Within(f.related, on)

-----------------------------------------------------------------------------
(* What history records: handlers told twice of one event, one-time         *)
(* handlers that were called and those called again, what upset them.       *)
NoHistory == [next |-> 1, again |-> FALSE, ones |-> {}, onesAgain |-> {}, odd |-> {}]

\* The next element of the path is dispatched to, if it listens.
Advance ==
    LET f == Top
        at == f.path[f.pos + 1]
        silent == triggered = at[2] \/ (f.kind = "native" /\ at \notin bound.listening)
    IN /\ ~Quiet /\ ~Running /\ Top.kind # "method" /\ (f.kind = "native" => f.begun)
       /\ f.queue = <<>> /\ ~f.stopped /\ f.pos < Len(f.path)
       /\ stack' = Put([f EXCEPT !.pos = @ + 1,
                                 !.queue = IF silent THEN <<>> ELSE Groups(at[1], at[2], f.target)])
       /\ UNCHANGED <<bound, triggered, focused, evCalls, seen>>

\* A one-time handler unbinds itself before it runs, by the type it is bound
\* to and not the one it was given for.
CallHandler ==
    LET f == Top
        g == f.queue[1]
        h == g.hs[1]
        rest == IF Len(g.hs) = 1 THEN Tail(f.queue) ELSE <<[g EXCEPT !.hs = Tail(@)]>> \o Tail(f.queue)
        at == f.path[f.pos][1]
    IN /\ ~Quiet /\ ~Running /\ f.kind # "method" /\ f.queue # <<>>
       /\ UNCHANGED <<triggered, focused, evCalls>>
       /\ IF ~CalledFor(f, g.on, h)
          THEN stack' = Put([f EXCEPT !.queue = rest]) /\ UNCHANGED <<bound, seen>>
          ELSE /\ stack' = Put([f EXCEPT !.queue = rest, !.on = g.on, !.current = h,
                                         !.told = @ \cup {<<h.id, g.on>>}])
               /\ bound' = IF h.one THEN RemoveType(bound, at, h.type, h.fn,
                                                    Given(h.ns), Given(h.sel)) ELSE bound
               /\ seen' = [seen EXCEPT
                     !.again = @ \/ <<h.id, g.on>> \in f.told,
                     !.ones = IF h.one THEN @ \cup {h.id} ELSE @,
                     !.onesAgain = IF h.id \in seen.ones THEN @ \cup {h} ELSE @]

\* The handler returns, after stopPropagation and the like, or false.
Return ==
    /\ Running
    /\ \E how \in {"undefined", "false", "stop", "immediate", "prevent"} :
          LET f == Top
              stops == f.stopped \/ how \in {"false", "stop", "immediate"}
              same == IF f.queue # <<>> /\ f.queue[1].on = f.on THEN <<f.queue[1]>> ELSE <<>>
          IN stack' = Put([f EXCEPT !.current = NoHandler, !.stopped = stops,
                                    !.prevented = @ \/ how \in {"false", "prevent"},
                                    !.queue = IF how = "immediate" THEN <<>>
                                              ELSE IF stops THEN same ELSE @])
    /\ UNCHANGED <<bound, triggered, focused, evCalls, seen>>

\* An event of the browser begins with the handler on the document that tells
\* focusin and focusout, unless the trigger of focus has done so.
Fix(type) == IF type = "focus" THEN "focusin" ELSE "focusout"
Capture ==
    LET f == Top
        told == [TriggerEvent(f.target, Fix(f.type), "", FALSE) EXCEPT !.told = f.told]
        begun == Put([f EXCEPT !.begun = TRUE])
    IN /\ ~Quiet /\ ~Running /\ f.kind = "native" /\ ~f.begun
       /\ stack' = IF /\ f.type \in {"focus", "blur"} /\ bound.attaches[Fix(f.type)] > 0
                      /\ <<Fix(f.type), triggered>> \notin Morphs
                   THEN Append(begun, told) ELSE begun
       /\ UNCHANGED <<bound, triggered, focused, evCalls, seen>>

\* The end of an event: of a triggered one, its default action.
Over(f) == f.kind # "method" /\ f.queue = <<>> /\ (f.stopped \/ f.pos = Len(f.path))
NativeOf(f) ==      \* what the browser tells when the method is called
    CASE f.type = "click" -> <<NativeEvent(f.target, "click")>>
      [] f.type = "focus" ->
            IF focused = f.target THEN <<>>
            ELSE (IF focused = "none" THEN <<>> ELSE <<NativeEvent(focused, "blur")>>)
                 \o <<NativeEvent(f.target, "focus")>>
      [] f.type = "blur" -> IF focused = f.target THEN <<NativeEvent(f.target, "blur")>> ELSE <<>>
FocusAfter(f) ==
    IF f.type = "focus" THEN f.target
    ELSE IF f.type = "blur" /\ focused = f.target THEN "none" ELSE focused
Acts(f) == f.kind = "trigger" /\ ~f.only /\ ~f.prevented /\ HasMethod(f.type)
Finish ==
    LET f == Top
        Heir(n) == IF n.type = f.type THEN [n EXCEPT !.told = f.told] ELSE n
        events == NativeOf(f)
        method == [Event("method", f.type, f.target, <<>>) EXCEPT
                     !.todo = [i \in DOMAIN events |-> Heir(events[i])]]
    IN /\ ~Quiet /\ ~Running /\ Over(f) /\ (f.kind = "native" => f.begun)
       /\ UNCHANGED <<bound, evCalls, seen>>
       /\ IF Acts(f)
          THEN /\ triggered' = f.type /\ stack' = Put(method) /\ focused' = FocusAfter(f)
          ELSE stack' = Rest /\ UNCHANGED <<triggered, focused>>
Method ==
    LET f == Top
    IN /\ ~Quiet /\ ~Running /\ f.kind = "method"
       /\ IF f.todo = <<>> THEN stack' = Rest /\ triggered' = "none"
          ELSE /\ stack' = Append(Put([f EXCEPT !.todo = Tail(@)]), f.todo[1])
               /\ UNCHANGED triggered
       /\ UNCHANGED <<bound, focused, evCalls, seen>>

-----------------------------------------------------------------------------
(* The program and the user.                                                *)

Program == (Quiet \/ Running) /\ evCalls < MaxEvents /\ evCalls' = evCalls + 1
Live == Elem \ bound.gone
Odd(what) == seen' = [seen EXCEPT !.odd = @ \cup {what}]

Handler(fn, b, id) ==
    [fn |-> fn, type |-> MappedType(b.type, b.sel), origType |-> b.type, sel |-> b.sel,
     ns |-> b.ns, one |-> b.one, id |-> id]
On ==
    /\ Program /\ UNCHANGED <<stack, triggered, focused>>
    /\ \E e \in Live, b \in Bindings, fn \in Handlers :
          bound' = AddEvent(bound, e, Handler(fn, b, seen.next))
    /\ seen' = [seen EXCEPT !.next = @ + 1]
Off ==
    /\ Program /\ UNCHANGED <<stack, triggered, focused>>
    /\ \E e \in Live :
        \/ \E b \in Bindings, fn \in Handlers \cup {"any"} :
              /\ bound' = RemoveType(bound, e, b.type, fn, Given(b.ns), Given(b.sel))
              /\ IF MappedType(b.type, b.sel) # b.type THEN Odd("mapped off") ELSE UNCHANGED seen
        \/ bound' = RemoveAllTypes(bound, e) /\ UNCHANGED seen
RemoveElem ==
    /\ Program /\ UNCHANGED <<stack, triggered, focused>>
    /\ \E e \in Live :
          /\ \A c \in Live : Parent(c) # e
          /\ bound' = CleanData(bound, e)
    /\ Odd("mapped off")
Trigger ==
    /\ Program /\ UNCHANGED <<bound, focused, triggered>>
    /\ \E e \in Live, b \in Bindings, only \in BOOLEAN :
          /\ <<b.type, triggered>> \notin Morphs
          /\ stack' = Append(stack, TriggerEvent(e, b.type, b.ns, only))
          /\ seen' = [seen EXCEPT !.odd =
                @ \cup (IF \E i \in DOMAIN stack : stack[i].kind # "method" THEN {"nested"} ELSE {})
                  \cup (IF triggered # "none" /\ HasMethod(b.type) /\ ~only THEN {"in a method"} ELSE {})]
\* The user clicks, moves the pointer, or moves the focus.
User ==
    /\ Quiet /\ evCalls < MaxEvents /\ evCalls' = evCalls + 1 /\ UNCHANGED <<bound, triggered, seen>>
    /\ \E e \in Live :
        \/ stack' = <<NativeEvent(e, "click")>> /\ UNCHANGED focused
        \/ \E from \in (Live \ {e}) \cup {"none"} :
              stack' = <<[NativeEvent(e, "mouseover") EXCEPT !.related = from]>> /\ UNCHANGED focused
        \/ /\ focused # e /\ focused' = e
           /\ stack' = <<[Event("method", "focus", e, <<>>) EXCEPT
                            !.todo = NativeOf(Event("method", "focus", e, <<>>))]>>

\* A page whose scripts have bound handlers: bindings lists [elem, fn, binding].
Page(start) ==
    LET hs == [i \in DOMAIN start.bindings |->
                  Handler(start.bindings[i].fn, start.bindings[i].binding, i)]
        on(e, t) == {i \in DOMAIN hs : start.bindings[i].elem = e /\ hs[i].type = t}
        delegated(e, t) == {i \in on(e, t) : hs[i].sel # ""}
    IN [events |-> [e \in Elem |-> [t \in Types |-> Picked(hs, delegated(e, t))
                                                   \o Picked(hs, on(e, t) \ delegated(e, t))]],
        delegates |-> [e \in Elem |-> [t \in Types |-> Cardinality(delegated(e, t))]],
        listening |-> {l \in Elem \X (Types \ Bubbling) : on(l[1], l[2]) # {}},
        attaches |-> [t \in Bubbling |-> Cardinality({e \in Elem : on(e, t) # {}})], gone |-> {}]

EvInit ==
    /\ stack = <<>> /\ triggered = "none" /\ evCalls = 0
    /\ \E start \in Starts :
          /\ bound = Page(start) /\ focused = start.focus
          /\ seen = [NoHistory EXCEPT !.next = Len(start.bindings) + 1]
EvNext ==
    \/ On \/ Off \/ RemoveElem \/ Trigger \/ User
    \/ Advance \/ CallHandler \/ Return \/ Capture \/ Finish \/ Method
EvSpec == EvInit /\ [][EvNext]_evVars

-----------------------------------------------------------------------------
(* What must hold.                                                          *)

\* The variables have their types, and triggered names a method or nothing.
EvTypeOK ==
    /\ evCalls \in 0..MaxEvents /\ triggered \in {"none", "click", "focus", "blur"}
    /\ focused \in Elem \cup {"none"} /\ bound.gone \subseteq Elem

\* In the handlers of a type those that are delegated come first, as many as
\* delegateCount says; an element listens to the browser for as long as it has
\* handlers, and no longer but after off or a removal that names a type which
\* is bound as another.
ListsFit ==
    \A e \in Elem, t \in Types :
        LET hs == bound.events[e][t]
        IN /\ \A i \in DOMAIN hs : hs[i].sel # "" <=> i <= bound.delegates[e][t]
           /\ hs # <<>> /\ t \notin Bubbling => <<e, t>> \in bound.listening
           /\ hs = <<>> /\ "mapped off" \notin seen.odd => <<e, t>> \notin bound.listening
\* The handlers on the document that make focusin and focusout of focus and
\* blur are there while an element needs them, and are counted back, with the
\* same exception.
FocusHeard ==
    \A t \in Bubbling :
        LET users == Cardinality({e \in Elem : bound.events[e][t] # <<>>})
        IN bound.attaches[t] >= users /\ ("mapped off" \notin seen.odd => bound.attaches[t] = users)
\* A handler hears of an event at most once for each element, although trigger
\* tells it and the method it calls lets the browser tell it again; excepted
\* are events that a handler triggers inside the method of another.
ToldOnce == "in a method" \notin seen.odd => ~seen.again
\* A handler bound with one is called once, but for those bound under another
\* type than they were given, which never unbind, and those delegated to
\* elements of which one is in another: the two are chosen before either is
\* called.
Nests(sel) == \E a, b \in Match[sel] : a # b /\ Within(a, b)
OneOnce ==
    "nested" \notin seen.odd =>
        \A h \in seen.onesAgain : h.type # h.origType \/ (h.sel # "" /\ Nests(h.sel))

\* What is bound is what is attached, an event is told once to each handler it
\* is meant for, and a handler for one time is called once.
EventsSound == EvTypeOK /\ ListsFit /\ FocusHeard /\ ToldOnce /\ OneOnce

=============================================================================
