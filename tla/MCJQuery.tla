------------------------------ MODULE MCJQuery ------------------------------
(* The instance of JQuery for TLC. *)
EXTENDS JQuery

AllParts == {"lists", "deferreds", "effects", "requests", "events"}
Bounds == [lists |-> 4, deferreds |-> 4, effects |-> 4]

SomeFlags ==
    [plain |-> {}, kept |-> {"memory", "unique"}, once |-> {"once"},
     stopping |-> {"memory", "stopOnFalse"}]

(* Animations of a box, queued and not, that complete at once or stop. *)
Animation(kind, props, length, queued, complete) ==
    [kind |-> kind, props |-> props, length |-> length, queued |-> queued, complete |-> complete]
Both == <<"height", "opacity">>
Animations ==
    {Animation("hide", Both, 1, TRUE, "none"), Animation("show", <<"height">>, 1, TRUE, "none"),
     Animation("toggle", <<"height">>, 2, TRUE, "none"), Animation("to", <<"opacity">>, 0, FALSE, "none"),
     Animation("hide", <<"opacity">>, 1, FALSE, "none"), Animation("to", <<"height">>, 1, TRUE, "stop"),
     Animation("to", Both, 1, TRUE, "stopEnd")}

(* Requests over both transports, of which callbacks do what. *)
Request(types, cross, name, async, before, sent, back) ==
    [types |-> types, cross |-> cross, name |-> name, async |-> async, timeout |-> TRUE,
     global |-> TRUE, before |-> before, sent |-> sent, back |-> back]
JsonOnly == Request(<<"json">>, FALSE, NoName, TRUE, "none", "none", "none")
SomeRequests ==
    {Request(<<"json">>, FALSE, NoName, TRUE, "none", "none", "begin"),
     Request(<<"*">>, FALSE, NoName, TRUE, "none", "none", "abort"),
     Request(<<"jsonp">>, TRUE, PageName, TRUE, "none", "none", "none"),
     Request(<<"jsonp">>, TRUE, NoName, TRUE, "none", "none", "none"),
     Request(<<"jsonp">>, FALSE, NoName, FALSE, "none", "none", "begin"),
     Request(<<"script">>, TRUE, NoName, TRUE, "none", "none", "throw"),
     Request(<<"xml">>, FALSE, NoName, FALSE, "none", "none", "throw"),
     Request(<<"json", "html">>, FALSE, NoName, TRUE, "none", "none", "none"),
     Request(<<"text">>, TRUE, NoName, TRUE, "none", "none", "none"),
     Request(<<"text">>, FALSE, NoName, TRUE, "none", "abort", "none"),
     Request(<<"text">>, FALSE, NoName, TRUE, "abort", "none", "none"),
     Request(<<"xml">>, FALSE, NoName, TRUE, "none", "none", "throw")}

(* An item in a list, handlers on both, and pages that have some to begin. *)
InList == [list |-> <<"list">>, item |-> <<"item", "list">>]
Selected == [li |-> {"item"}]
Bind(type, sel, ns, one) == [type |-> type, sel |-> sel, ns |-> ns, one |-> one]
SomeBindings ==
    {Bind("click", "", "", TRUE), Bind("click", "li", "n", FALSE), Bind("mouseenter", "", "", TRUE),
     Bind("focus", "", "", FALSE), Bind("focus", "li", "", FALSE), Bind("focusin", "", "", FALSE),
     Bind("blur", "", "", FALSE)}
Has(elem, type, one) == [elem |-> elem, fn |-> "f", binding |-> Bind(type, "", "", one)]
Pages ==
    {[bindings |-> <<>>, focus |-> "none"],
     [bindings |-> <<Has("list", "blur", FALSE), Has("item", "focus", FALSE)>>, focus |-> "list"],
     [bindings |-> <<Has("item", "click", FALSE), Has("item", "click", TRUE)>>, focus |-> "none"]}

=============================================================================
