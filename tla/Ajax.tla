-------------------------------- MODULE Ajax --------------------------------
(***************************************************************************)
(* jQuery.ajax: the settings of a request through prefilters and           *)
(* transports, its end by an answer, an abort or a timeout, the conversion *)
(* of the answer, the callbacks and the global events; the transports over *)
(* XMLHttpRequest and over script elements, and jsonp.                     *)
(*                                                                         *)
(* net is the page: an operator takes it and returns what a step leaves of *)
(* it.  A function of the program that is called does one thing: nothing,  *)
(* abort the request, begin another, throw.  What its caller still has to  *)
(* do is kept in calls, and is the next step but for the calls that the    *)
(* function makes in turn.                                                 *)
(***************************************************************************)
EXTENDS Integers, Sequences, FiniteSets, SequencesExt

CONSTANTS
    Requests,       \* what ajax is called with, see Options
    Inner,          \* the request that a callback begins
    Cors,           \* support.cors
    MaxRequests     \* bound: requests

VARIABLE net

\* Names of functions in window: none, the page's, one made for a request.
NoName == <<>>
PageName == <<"cb">>
UniqueName(r) == <<"jsonp", r>>
Names == {PageName} \cup {UniqueName(r) : r \in 1..MaxRequests}

DataTypes == {"*", "text", "json", "jsonp", "script", "xml", "html"}

\* types: the words of dataType; cross: to another domain; name: jsonpCallback;
\* before and sent: what beforeSend and a handler of ajaxSend do; back: what
\* success, error and complete do.
Options ==
    [types : Seq(DataTypes) \ {<<>>}, cross : BOOLEAN, name : {NoName, PageName},
     async : BOOLEAN, timeout : BOOLEAN, global : BOOLEAN, before : {"none", "abort", "false"},
     sent : {"none", "abort"}, back : {"none", "abort", "begin", "throw"}]

ASSUME AjaxAssumption ==
    /\ Requests \subseteq Options /\ Inner \in Options
    /\ Cors \in BOOLEAN /\ MaxRequests \in Nat

\* Answers a server can give: its status, the content type, whether the
\* browser makes a document of it, whether it can be parsed.
NoAnswer == [types |-> <<>>, content |-> "", bad |-> FALSE]
Answers ==
    {a \in [types : {<<"text">>, <<"xml", "text">>}, content : {"", "json", "xml"}, bad : BOOLEAN] :
        a.types = <<"xml", "text">> => a.content = "xml" /\ ~a.bad}
Reply == [status : {200, 304, 500, 0}, answer : Answers]
Fine == [status |-> 200, answer |-> [types |-> <<"text">>, content |-> "", bad |-> FALSE]]

\* A value of window[jsonpCallback]: nothing, a function of the page, or the
\* function of a request.
NoFn == 0
PageFn == -1

(* sync is the answer of a request that is not async; value, reached,       *)
(* successes, errors and completes are what the callbacks were told.        *)
NewRequest(o, sync) ==
    [o |-> o, sync |-> sync, types |-> o.types, state |-> 0, transport |-> "none", timer |-> FALSE,
     fire |-> FALSE, global |-> o.global, jsonp |-> FALSE, name |-> o.name, previous |-> NoFn,
     container |-> NoFn, wire |-> "none", callback |-> FALSE, installed |-> FALSE,
     settled |-> FALSE, outcome |-> "none", value |-> NoFn, reached |-> "none",
     successes |-> 0, errors |-> 0, completes |-> 0]

(* active, window and the requests are the code's; started counts ajaxStart *)
(* less ajaxStop, and odd keeps what upsets the count of requests.          *)
Update(S, r, q) == [S EXCEPT !.requests[r] = q]
Upset(S, what) == [S EXCEPT !.odd = @ \cup {what}]

\* The calls under way: at says what is next of a request.  An exception
\* leaves them all.
Call(S, r, at) == [S EXCEPT !.calls = Append(@, [r |-> r, at |-> at])]
Pop(S) == [S EXCEPT !.calls = Front(@)]
Throw(S) == [S EXCEPT !.calls = <<>>, !.odd = @ \cup {"thrown"}]

-----------------------------------------------------------------------------
(* Prefilters and transports.                                               *)

\* The jsonp prefilter installs a callback, and delegates to script.
Shared(S, r, name) ==
    \E i \in DOMAIN S.requests \ {r} :
        /\ S.requests[i].jsonp /\ S.requests[i].name = name
        /\ S.requests[i].state < 2 \/ S.requests[i].wire = "late"
Install(S, r, name) ==
    LET q == [S.requests[r] EXCEPT !.jsonp = TRUE, !.name = name, !.previous = S.window[name],
                                   !.types = <<"script", "json">> \o Tail(@)]
        T == IF Shared(S, r, name) THEN Upset(S, "name shared") ELSE S
    IN [Update(T, r, q) EXCEPT !.window[name] = r]
JsonpFilter(S, r) ==
    IF S.requests[r].types[1] = "jsonp"
    THEN Install(S, r, IF S.requests[r].name = NoName THEN UniqueName(r) ELSE S.requests[r].name)
    ELSE S
ScriptFilter(S, r) ==
    IF S.requests[r].types[1] = "script" /\ S.requests[r].o.cross
    THEN Update(S, r, [S.requests[r] EXCEPT !.global = FALSE])
    ELSE S

\* inspectPrefiltersOrTransports, for the two prefilters and for the two
\* transports that there are.
Prefilter(S, r) == ScriptFilter(JsonpFilter(S, r), r)
TransportOf(q) ==
    IF q.types[1] = "script" /\ q.o.cross THEN "script"
    ELSE IF ~q.o.cross \/ Cors THEN "xhr" ELSE "none"

-----------------------------------------------------------------------------
(* Conversion of an answer.                                                 *)

\* The converters of ajaxSettings, of jsonp and of script.
Converters(q) ==
    {<<"*", "text">>, <<"text", "html">>, <<"text", "json">>, <<"text", "xml">>, <<"text", "script">>}
    \cup (IF q.jsonp THEN {<<"script", "json">>} ELSE {})
KnownType(content) == content \in {"xml", "html", "json", "script"}

\* ajaxHandleResponses: the chain of types from the one of the answer to the
\* one asked for.  The first types asked for that are "*" give way to the type
\* of the content.
Stars(types) == {i \in DOMAIN types : \A j \in 1..i : types[j] = "*"}
Asked(q, content) ==
    LET asked == SubSeq(q.types, Cardinality(Stars(q.types)) + 1, Len(q.types))
    IN IF q.types[1] = "*" /\ KnownType(content) THEN <<content>> \o asked ELSE asked
Final(q, types, responses) ==
    LET fits == {i \in DOMAIN responses :
                    \/ types = <<>> \/ types[1] \in {responses[j] : j \in DOMAIN responses}
                    \/ <<responses[i], types[1]>> \in Converters(q)}
    IN IF types # <<>> /\ types[1] \in {responses[j] : j \in DOMAIN responses} THEN types[1]
       ELSE IF fits # {} THEN responses[CHOOSE i \in fits : \A j \in fits : i <= j]
       ELSE responses[1]
From(final, types) ==
    IF types # <<>> /\ types[1] = final THEN types ELSE <<final>> \o types
ChainFrom(q, types, responses) == From(Final(q, types, responses), types)
Chain(q, content, responses) == ChainFrom(q, Asked(q, content), responses)

\* ajaxConvert: each type to the next, directly or over one between; a "*"
\* keeps the type.  What is "bad" fails in the parser; a script that is
\* converted from text is run.
Current(chain, i) ==
    LET named == {j \in 1..i : chain[j] # "*"}
    IN IF named = {} THEN "*" ELSE chain[CHOOSE j \in named : \A k \in named : k <= j]
Direct(q, a, b) == {<<a, b>>, <<"*", b>>} \cap Converters(q) # {}
Via(q, a, b) == \E c \in Converters(q) : c[1] \in {a, "*"} /\ <<c[2], b>> \in Converters(q)
Convertible(q, chain) ==
    \A i \in 2..Len(chain) :
        LET a == Current(chain, i - 1) b == Current(chain, i)
        IN a \in {"*", b} \/ Direct(q, a, b) \/ Via(q, a, b)
Parsed(chain) == \E i \in 2..Len(chain) : chain[i] \in {"json", "xml", "script"} /\ chain[i] # chain[i - 1]

CallWindow(S, name, value) ==
    LET i == S.window[name]
    IN IF i \in DOMAIN S.requests THEN Update(S, i, [S.requests[i] EXCEPT !.container = value]) ELSE S

-----------------------------------------------------------------------------
(* done: the end of a request, whatever ends it.                            *)

\* The callbacks of the deferred: jsonp's own is the first, and gives the
\* response to the function that was there before.
JsonpCleanUp(S, r) ==
    LET q == S.requests[r]
        T == [S EXCEPT !.window[q.name] = q.previous]
    IN IF ~q.jsonp THEN S
       ELSE IF q.container # NoFn /\ q.previous # NoFn THEN CallWindow(T, q.name, q.container)
       ELSE T
Ended(good, text, value, type) == [good |-> good, text |-> text, value |-> value, type |-> type]
Failed(text) == Ended(FALSE, text, NoFn, "none")
Told(q, end) ==
    [q EXCEPT !.settled = TRUE, !.outcome = end.text, !.value = end.value, !.reached = end.type,
              !.successes = IF end.good /\ q.installed THEN @ + 1 ELSE @,
              !.errors = IF ~end.good /\ q.installed THEN @ + 1 ELSE @]
Settle(S, r, end) ==
    LET T == JsonpCleanUp(S, r)
    IN IF S.requests[r].settled THEN S ELSE Update(T, r, Told(T.requests[r], end))

\* An answer may be a script to run: that of jsonp calls the callback.
ChainOf(q, answer) ==
    IF answer.types = <<>> THEN q.types ELSE Chain(q, answer.content, answer.types)
Ran(S, r, answer) ==
    LET q == S.requests[r]
        chain == ChainOf(q, answer)
    IN IF q.jsonp /\ ~answer.bad /\ chain[1] = "text" /\ "script" \in {chain[i] : i \in DOMAIN chain}
       THEN CallWindow(S, q.name, r) ELSE S
Converted(q, r, answer) ==
    LET chain == ChainOf(q, answer)
    IN IF /\ Convertible(q, chain) /\ ~(answer.bad /\ Parsed(chain))
          /\ q.jsonp => q.container # NoFn
       THEN Ended(TRUE, "success", IF q.jsonp THEN q.container ELSE r, Current(chain, Len(chain)))
       ELSE Failed("parsererror")
Outcome(S, r, status, text, answer) ==
    LET T == Ran(S, r, answer)
    IN IF status \in 200..299 THEN Settle(T, r, Converted(T.requests[r], r, answer))
       ELSE IF status = 304 THEN Settle(S, r, Ended(TRUE, "notmodified", NoFn, "none"))
       ELSE Settle(S, r, Failed(IF status = 0 /\ text # "" THEN text ELSE "error"))

\* A deferred that is settled calls nothing again.
Finished(q) == [q EXCEPT !.state = 2, !.timer = FALSE, !.transport = "none"]
EndFrom(q) == IF ~q.installed THEN "count" ELSE IF q.settled THEN "complete" ELSE "tell"
\* Mutant: a request may end again.
DoneAgain(S, r, status, text, answer) ==
    LET q == S.requests[r]
    IN Call(Outcome(Update(S, r, Finished(q)), r, status, text, answer), r, EndFrom(q))
Done(S, r, status, text, answer) ==
    LET q == S.requests[r]
    IN IF q.state = 2 THEN S
       ELSE Call(Outcome(Update(S, r, Finished(q)), r, status, text, answer), r, EndFrom(q))

-----------------------------------------------------------------------------
(* abort, and the transports.                                               *)

\* A transport that has been sent calls back once; abort makes that the abort.
TransportAbort(q) ==
    IF q.transport = "none" THEN q
    ELSE [q EXCEPT !.callback = FALSE,
                   !.wire = IF @ # "sent" THEN @ ELSE IF q.transport = "xhr" THEN "none" ELSE "late"]
Abort(S, r, text) ==
    Done(Update(S, r, TransportAbort(S.requests[r])), r, 0, text, NoAnswer)

Answered(q) == [q EXCEPT !.callback = FALSE, !.wire = "none"]
XhrAnswer(S, r, status, answer) ==
    IF ~S.requests[r].callback THEN S
    ELSE Done(Update(S, r, Answered(S.requests[r])), r, status, "", answer)

-----------------------------------------------------------------------------
(* ajax                                                                     *)

\* The request is sent; a transport that an abort has taken away throws, which
\* is an end like another.  A request that is not async is answered before
\* send returns.
Send(S, r) ==
    LET q == [S.requests[r] EXCEPT !.state = 1, !.timer = S.requests[r].o.async /\ S.requests[r].o.timeout]
    IN IF q.transport = "none" THEN Done(Update(S, r, q), r, -1, "error", NoAnswer)
       ELSE IF q.o.async \/ q.transport = "script"
       THEN Update(S, r, [q EXCEPT !.wire = "sent", !.callback = TRUE])
       ELSE Done(Update(S, r, q), r, q.sync.status, "", q.sync.answer)

CountUp(S, r) ==
    IF S.requests[r].global
    THEN [Update(S, r, [S.requests[r] EXCEPT !.fire = TRUE])
             EXCEPT !.active = @ + 1, !.started = IF S.active = 0 THEN @ + 1 ELSE @]
    ELSE S
Begun(S, o, sync) ==
    LET r == Len(S.requests) + 1
    IN CountUp(Prefilter([S EXCEPT !.requests = Append(@, NewRequest(o, sync))], r), r)
Refuses(o) == o.before \in {"abort", "false"}
Ready(S, r) ==
    Update(S, r, [S.requests[r] EXCEPT !.installed = TRUE, !.transport = TransportOf(S.requests[r])])

\* ajaxSend tells every handler; one that aborts ends the request before it
\* is sent, which ajax does not notice.
AjaxSend(S, r) == Abort(Call(Upset(S, "abort in ajaxSend"), r, "send"), r, "abort")
Launch(S, r) ==
    LET q == S.requests[r]
    IN IF q.transport = "none" THEN Done(S, r, -1, "No Transport", NoAnswer)
       ELSE IF q.fire /\ q.o.sent = "abort" THEN AjaxSend(S, r)
       ELSE Send(S, r)
AjaxWith(S, o, sync) ==
    LET r == Len(S.requests) + 1
    IN IF Refuses(o) THEN Done(Begun(S, o, sync), r, 0, "abort", NoAnswer)
       ELSE Launch(Ready(Begun(S, o, sync), r), r)

-----------------------------------------------------------------------------
(* The program, the server and the browser.                                 *)

Begin(S) == IF Len(S.requests) < MaxRequests THEN AjaxWith(S, Inner, Fine) ELSE S
Act(S, r, what) ==
    CASE what = "none" -> S
      [] what = "abort" -> Abort(S, r, "abort")
      [] what = "throw" -> Throw(S)
      [] what = "begin" -> Begin(S)

Idle == net.calls = <<>>
Sent == {r \in DOMAIN net.requests : net.requests[r].wire = "sent"}

Ajax ==
    /\ Idle /\ Len(net.requests) < MaxRequests
    /\ \E o \in Requests :
          \E sync \in IF o.async THEN {Fine} ELSE Reply : net' = AjaxWith(net, o, sync)
ServerAnswers ==
    /\ Idle
    /\ \E r \in Sent : /\ net.requests[r].transport = "xhr"
                       /\ \E a \in Reply : net' = XhrAnswer(net, r, a.status, a.answer)

\* A script element runs when its text has come, also after an abort, and
\* then tells so.
RunJsonp(S, r) == IF S.requests[r].jsonp THEN CallWindow(S, S.requests[r].name, r) ELSE S
CrossScript ==
    /\ Idle
    /\ \E r \in Sent :
          /\ net.requests[r].transport = "script"
          /\ LET T == RunJsonp(net, r)
             IN net' = Done(Update(T, r, Answered(T.requests[r])), r, 200, "success", NoAnswer)
LateScript ==
    /\ Idle
    /\ \E r \in DOMAIN net.requests :
          /\ net.requests[r].wire = "late"
          /\ net' = RunJsonp(Update(net, r, [net.requests[r] EXCEPT !.wire = "none"]), r)
Timeout ==
    /\ Idle
    /\ \E r \in DOMAIN net.requests : net.requests[r].timer /\ net' = Abort(net, r, "timeout")
UserAbort == Idle /\ \E r \in Sent : net' = Abort(net, r, "abort")

-----------------------------------------------------------------------------
(* done goes on: success or error, complete, ajaxComplete and the count.    *)

At(at) == net.calls # <<>> /\ Last(net.calls).at = at
Goes(S, at) == Call(Pop(S), Last(S.calls).r, at)

Tell ==
    /\ At("tell")
    /\ LET r == Last(net.calls).r
       IN net' = Act(Goes(net, "complete"), r, net.requests[r].o.back)
\* complete is called once.
Complete ==
    /\ At("complete")
    /\ LET r == Last(net.calls).r
           q == net.requests[r]
       IN net' = IF q.completes > 0 THEN Goes(net, "count")
                 ELSE Act(Goes(Update(net, r, [q EXCEPT !.completes = 1]), "count"), r, q.o.back)
CountDown ==
    /\ At("count")
    /\ net' = IF net.requests[Last(net.calls).r].fire
              THEN [Pop(net) EXCEPT !.active = @ - 1, !.started = IF net.active = 1 THEN @ - 1 ELSE @]
              ELSE Pop(net)
\* What follows ajaxSend.
SendOn == At("send") /\ net' = Send(Pop(net), Last(net.calls).r)

AjaxInit ==
    \E f \in {NoFn, PageFn} :
        net = [requests |-> <<>>, active |-> 0, started |-> 0, odd |-> {}, calls |-> <<>>,
               window |-> [n \in Names |-> IF n = PageName THEN f ELSE NoFn]]
AjaxNext ==
    \/ Ajax \/ ServerAnswers \/ CrossScript \/ LateScript \/ Timeout \/ UserAbort
    \/ Tell \/ Complete \/ CountDown \/ SendOn
AjaxSpec == AjaxInit /\ [][AjaxNext]_net

-----------------------------------------------------------------------------
(* What must hold.                                                          *)

\* The variables have their types.
Outcomes ==
    {"none", "success", "notmodified", "parsererror", "error", "abort", "timeout", "No Transport"}
RequestRec ==
    [o : Options, sync : Reply, types : Seq(DataTypes) \ {<<>>}, state : 0..2,
     transport : {"none", "xhr", "script"}, timer : BOOLEAN, fire : BOOLEAN, global : BOOLEAN,
     jsonp : BOOLEAN, name : Names \cup {NoName}, previous : -1..MaxRequests,
     container : 0..MaxRequests, wire : {"none", "sent", "late"}, callback : BOOLEAN,
     installed : BOOLEAN, settled : BOOLEAN, outcome : Outcomes, value : 0..MaxRequests,
     reached : DataTypes \cup {"none"}, successes : Nat, errors : Nat, completes : Nat]
CallRec == [r : 1..MaxRequests, at : {"send", "tell", "complete", "count"}]
NetRec ==
    [requests : Seq(RequestRec), active : Int, started : Int,
     odd : SUBSET {"thrown", "abort in ajaxSend", "name shared"}, calls : Seq(CallRec),
     window : [Names -> -1..MaxRequests]]
AjaxTypeOK ==
    /\ net \in NetRec /\ Len(net.requests) <= MaxRequests
    /\ \A i \in DOMAIN net.calls : net.calls[i].r \in DOMAIN net.requests

Ending == {net.calls[i].r : i \in DOMAIN net.calls}
\* jQuery.active counts the requests with global events that are under way,
\* and ajaxStart and ajaxStop follow it; but after a callback that throws, or
\* an abort in ajaxSend.
ActiveCounts ==
    net.odd \cap {"thrown", "abort in ajaxSend"} = {} =>
        /\ net.active = Cardinality({r \in DOMAIN net.requests : net.requests[r].fire
                                        /\ (net.requests[r].state < 2 \/ r \in Ending)})
        /\ net.started = IF net.active > 0 THEN 1 ELSE 0
\* A request has one outcome, success or error, then one complete, whatever
\* answers, aborts and timeouts meet; and what has been sent will call back.
OneOutcome ==
    \A r \in DOMAIN net.requests :
        LET q == net.requests[r]
        IN /\ q.successes + q.errors + (IF q.installed THEN 0 ELSE 1) <= 1
           /\ q.completes <= q.successes + q.errors
           /\ q.state = 2 /\ "thrown" \notin net.odd /\ r \notin Ending =>
                 q.successes + q.errors = q.completes
           /\ q.state = 2 => ~q.timer /\ q.transport = "none" /\ ~q.callback
           /\ q.state = 1 => q.wire = "sent" /\ q.callback
           /\ (q.state = 2) <=> q.settled
\* The success of a request is told its own answer, with the exception of
\* requests of jsonp that share the name of their callback.
OwnAnswer ==
    "name shared" \notin net.odd =>
        \A r \in DOMAIN net.requests : net.requests[r].outcome = "success" => net.requests[r].value = r
\* jsonp leaves none of its callbacks in window after the request.
WindowClean ==
    "name shared" \notin net.odd =>
        \A n \in Names :
            net.window[n] \in DOMAIN net.requests => net.requests[net.window[n]].state < 2
\* success is told the data in the last of the types asked for.
Wanted(o) == IF o.types = <<"jsonp">> THEN "json" ELSE Last(o.types)
TypeReached ==
    \A r \in DOMAIN net.requests :
        LET q == net.requests[r]
        IN q.outcome = "success" /\ Last(q.o.types) # "*" => q.reached = Wanted(q.o)

\* A request ends once, with one outcome and one complete, and with its own
\* answer in the type asked for; active counts the requests under way, and
\* jsonp leaves no callback behind.
RequestsSound ==
    AjaxTypeOK /\ ActiveCounts /\ OneOutcome /\ OwnAnswer /\ WindowClean /\ TypeReached

=============================================================================
