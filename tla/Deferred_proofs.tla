-------------------------- MODULE Deferred_proofs --------------------------
(***************************************************************************)
(* Proofs that a deferred calls the handlers of its outcome, all of them   *)
(* and once each, that it is settled once, and that when and pipe follow   *)
(* the deferreds they were given, for any number of deferreds, functions,  *)
(* values and calls.                                                       *)
(*                                                                         *)
(* The invariant is built in the order of the code.  Well says that lists  *)
(* and loops go together: a loop belongs to one list, which has still to   *)
(* call what its loop variables say, and a list that is fired once has     *)
(* called the first of the functions added to it, with one value.          *)
(* Contents says which functions a list has: first the three that          *)
(* Deferred itself adds, then those of the program, of when and of pipe.   *)
(* Phases says how far settling is: the three run first, one after the     *)
(* other, while nothing else can, so that a list with a later function     *)
(* running is that of a deferred wholly settled.  PartsOnce and WhenInv    *)
(* say that when counts the parts whose function has not run, and PipeInv  *)
(* that what pipe waits for is added, or still to be added by then.        *)
(***************************************************************************)
EXTENDS Deferred, SequenceTheorems, FiniteSetTheorems, TLAPS

\* The types: what lists are fired with, the functions in them, and the records.
Val == {<<v>> : v \in Value}
Outcomes == {"resolved", "rejected"}
Entry == {User(f) : f \in Fn} \cup {Settle(s) : s \in Outcomes}
         \cup {DisableList(l) : l \in Lists} \cup {LockList(l) : l \in Lists}
         \cup {Forward(l) : l \in Lists} \cup {Filter(l) : l \in Lists} \cup {PartDone}
ListRec ==
    [list : Seq(Entry), gone : BOOLEAN, stack : Seq(Val), locked : BOOLEAN,
     memory : Val \cup {Undefined}, firing : BOOLEAN, start : Nat, length : Nat, index : Nat,
     broken : BOOLEAN, due : Seq(Entry), added : Seq(Entry), log : Seq(Entry \X Val)]
FrameRec == [list : Lists, value : Val, entry : Entry \cup {NoEntry}, over : {FALSE}]
TodoRec == [depth : Nat, list : Lists, entry : Entry]

\* A loop fires l; it is calling a function of l; the same as numbers; l is fired
\* at most once.
Fires(fs, l) == \E i \in DOMAIN fs : fs[i].list = l
Calls(fs, l) == \E i \in DOMAIN fs : fs[i].list = l /\ fs[i].entry # NoEntry
Loops(fs, l) == IF Fires(fs, l) THEN 1 ELSE 0
InCall(fs, l) == IF Calls(fs, l) THEN 1 ELSE 0
Once(l) == "once" \in Flags[l]

\* How many functions the list l has called that have returned.
RanIn(ls, fs, l) == Len(ls[l].log) - InCall(fs, l)

\* t is what remains of s after k elements; log are calls of the first
\* functions of s with v.
Remains(t, s, k) == k + Len(t) = Len(s) /\ \A i \in 1..Len(t) : t[i] = s[k + i]
Logged(log, s, v) == Len(log) <= Len(s) /\ \A i \in 1..Len(log) : log[i] = <<s[i], v>>

\* A list that is fired once, with f loops under way of which c are calling.
OnceOK(L, f, c) ==
    /\ L.stack = <<>>
    /\ L.locked => L.gone
    /\ L.memory = Undefined => L.log = <<>> /\ (L.gone \/ L.added = L.list)
    /\ L.memory # Undefined =>
          /\ Remains(L.due, L.added, Len(L.log))
          /\ Logged(L.log, L.added, L.memory)
          /\ f = 0 => L.list = <<>>
    /\ c = 1 => L.log # <<>>
\* A list, likewise.
ListOK(l, L, f, c) ==
    /\ L \in ListRec
    /\ ~L.broken /\ L.start = 0 /\ (L.firing <=> f = 1) /\ c <= f
    /\ L.locked => L.stack = <<>>
    /\ L.gone => L.locked /\ L.memory = Undefined /\ L.list = <<>>
    /\ f = 1 => /\ L.memory \in Val /\ L.length = Len(L.list)
                /\ Remains(L.due, L.list, L.index + c)
    /\ f = 0 => L.due = <<>>
    /\ Once(l) => OnceOK(L, f, c)

\* The lists ls and the loops fs go together: each list is that of its loop,
\* if it has one, and calls what its loop calls.
Distinct(fs) == \A i, j \in DOMAIN fs : fs[i].list = fs[j].list => i = j
FrameOK(F, L) ==
    /\ F.value = L.memory
    /\ F.entry # NoEntry /\ Once(F.list) => F.entry = L.log[Len(L.log)][1]
Well(ls, fs) ==
    /\ DOMAIN ls = Lists /\ fs \in Seq(FrameRec) /\ Distinct(fs)
    /\ \A l \in Lists : ListOK(l, ls[l], Loops(fs, l), InCall(fs, l))
    /\ \A i \in DOMAIN fs : FrameOK(fs[i], ls[fs[i].list])

\* Types; and functions that when and pipe have still to add wait for the
\* loops in which they were called, the inner ones first.
TypesInv ==
    /\ todo \in Seq(TodoRec)
    /\ calls \in 0..MaxCalls
    /\ state \in [Deferreds -> {"unmade", "pending", "resolved", "rejected"}]
    /\ count \in Nat
WellInv == Well(lists, frames)
TodoInv ==
    /\ \A i \in DOMAIN todo : todo[i].depth <= Len(frames)
    /\ \A i, j \in DOMAIN todo : i < j => todo[j].depth <= todo[i].depth

\* The function e may be added to l after the deferred was made: by the program,
\* by when, by pipe or by the promise its filter returned.
LaterIn(st, l, e) ==
    \/ \E f \in Fn : e = User(f)
    \/ l[1] \in Part /\ l[2] = "done" /\ st[All] # "unmade" /\ e = PartDone
    \/ l[1] \in Part /\ l[2] # "done" /\ st[All] # "unmade" /\ e = Forward(<<All, l[2]>>)
    \/ l = <<Source, "done">> /\ st[Piped] # "unmade" /\ e = Filter(<<Piped, "done">>)
    \/ /\ l[1] \in Part /\ st[Piped] # "unmade" /\ e = Forward(<<Piped, l[2]>>)
       /\ st[Source] = "resolved" \/ (l[1] = Source /\ l[2] # "done")
Later(l, e) == LaterIn(state, l, e)
\* What a deferred adds to its list l when it is made.
Own(l) == NewDeferred(l[1])[l[2]]
Contents ==
    /\ \A l \in Lists :
          /\ Len(Own(l)) <= Len(lists[l].added)
          /\ \A i \in DOMAIN lists[l].added :
                IF i <= Len(Own(l)) THEN lists[l].added[i] = Own(l)[i] ELSE Later(l, lists[l].added[i])
          /\ ~Once(l) => \A i \in DOMAIN lists[l].list : Later(l, lists[l].list[i])
    /\ \A i \in DOMAIN frames : ~Once(frames[i].list) /\ frames[i].entry # NoEntry =>
          Later(frames[i].list, frames[i].entry)
    /\ \A i \in DOMAIN todo : Later(todo[i].list, todo[i].entry)

\* A list was fired; neither outcome of a deferred was; the functions of a list
\* that have returned; an outcome as a state; the other list.
Begun(l) == lists[l].memory # Undefined
Open(d) == ~Begun(<<d, "done">>) /\ ~Begun(<<d, "fail">>)
Ran(l) == RanIn(lists, frames, l)
Outcome(k) == IF k = "done" THEN "resolved" ELSE "rejected"
Other(k) == IF k = "done" THEN "fail" ELSE "done"
Ends == {"done", "fail"}

\* The list of an outcome has begun: its first function sets the state, the
\* second disables the other list and the third locks that of progress, with
\* nothing of the program in between.
Phase(d, k) ==
    LET l == <<d, k>>
        o == <<d, Other(k)>>
    IN Begun(l) =>
        /\ ~Begun(o)
        /\ Ran(l) = 0 => state[d] \in {"unmade", "pending"}
        /\ Ran(l) > 0 => state[d] = Outcome(k)
        /\ lists[o].gone <=> Ran(l) > 1
        /\ Ran(l) > 2 => lists[<<d, "progress">>].locked
        /\ Ran(l) < 3 => frames # <<>> /\ Top.list = l /\ Idle
Phases ==
    \A d \in Deferreds :
        /\ \A k \in Ends : Phase(d, k)
        /\ Open(d) => /\ state[d] \in {"unmade", "pending"}
                      /\ ~lists[<<d, "done">>].gone /\ ~lists[<<d, "fail">>].gone

\* Of a list fired once the functions of its deferred have returned.
Settled == \A l \in Lists : Once(l) /\ Begun(l) => Ran(l) > 2

\* The function e of l has returned, was added, is to be added, is one of these
\* or can never be called.
RanEntry(l, e) == \E i \in 1..Ran(l) : lists[l].added[i] = e
Holds(l, e) == \E i \in DOMAIN lists[l].added : lists[l].added[i] = e
Waits(l, e) == \E i \in DOMAIN todo : todo[i].list = l /\ todo[i].entry = e
Due(l, e) == Holds(l, e) \/ Waits(l, e) \/ lists[l].gone

\* when adds its function once to the list of each part.
PartsOnce ==
    /\ \A d \in Part : LET added == lists[<<d, "done">>].added IN
          /\ \A i, j \in DOMAIN added : added[i] = PartDone /\ added[j] = PartDone => i = j
          /\ Waits(<<d, "done">>, PartDone) => ~Holds(<<d, "done">>, PartDone)
    /\ \A i, j \in DOMAIN todo :
          todo[i].list = todo[j].list /\ todo[i].entry = PartDone /\ todo[j].entry = PartDone => i = j

\* The functions of when and pipe, and the parts when has still to hear of.
AllFail == Forward(<<All, "fail">>)
PipedFilter == Filter(<<Piped, "done">>)
PipedEnd(k) == Forward(<<Piped, k>>)
Unfinished == {d \in Part : ~RanEntry(<<d, "done">>, PartDone)}
\* The promise of when is settled when and only when its parts have told it.
WhenInv ==
    /\ state[All] = "unmade" => Open(All)
    /\ Begun(<<All, "done">>) => Unfinished = {}
    /\ Begun(<<All, "fail">>) => \E d \in Part : RanEntry(<<d, "fail">>, AllFail)
    /\ state[All] = "unmade" => count = 0
    /\ state[All] # "unmade" =>
          /\ count = Cardinality(Unfinished)
          /\ Unfinished = {} => ~Open(All)
          /\ \A d \in Part :
                /\ Due(<<d, "done">>, PartDone)
                /\ Due(<<d, "fail">>, AllFail)
                /\ RanEntry(<<d, "fail">>, AllFail) => ~Open(All)
\* The promise of pipe is settled after its source, and every outcome it waits
\* for will be told to it.
PipeInv ==
    /\ state[Piped] = "unmade" => Open(Piped)
    /\ Begun(<<Piped, "done">>) => state[Source] = "resolved"
    /\ Begun(<<Piped, "fail">>) => state[Source] \in Outcomes
    /\ \A p \in Part, k \in Ends : RanEntry(<<p, k>>, PipedEnd(k)) => ~Open(Piped)
    /\ RanEntry(<<Source, "done">>, PipedFilter) =>
          \/ ~Open(Piped)
          \/ \E p \in Part : \A k \in Ends : Due(<<p, k>>, PipedEnd(k))
    /\ state[Piped] # "unmade" =>
          /\ Due(<<Source, "done">>, PipedFilter)
          /\ Due(<<Source, "fail">>, PipedEnd("fail"))

\* The inductive invariant.
DefInv ==
    /\ TypesInv /\ WellInv /\ TodoInv /\ Contents /\ Phases
    /\ PartsOnce /\ WhenInv /\ PipeInv

-----------------------------------------------------------------------------
(* Sequences.                                                               *)

\* A sequence with one element more.
LEMMA AppendFacts ==
  ASSUME NEW S, NEW s \in Seq(S), NEW e \in S
  PROVE  /\ Append(s, e) \in Seq(S) /\ Len(s) \in Nat /\ Len(Append(s, e)) = Len(s) + 1
         /\ Append(s, e)[Len(s) + 1] = e
         /\ \A i \in 1..Len(s) : Append(s, e)[i] = s[i]
OBVIOUS

\* A sequence without its first element.
LEMMA TailFacts ==
  ASSUME NEW S, NEW s \in Seq(S), s # <<>>
  PROVE  /\ Tail(s) \in Seq(S) /\ Len(s) \in Nat \ {0} /\ Len(Tail(s)) = Len(s) - 1
         /\ \A i \in 1..Len(Tail(s)) : Tail(s)[i] = s[i + 1]
OBVIOUS

\* All of a sequence remains at first, and nothing in the end.
LEMMA RemainsAll ==
  ASSUME NEW S, NEW s \in Seq(S)
  PROVE  Remains(s, s, 0) /\ Remains(<<>>, s, Len(s))
<1>1. Len(s) \in Nat /\ Len(<<>>) = 0 /\ 0 + Len(s) = Len(s) /\ \A i \in 1..Len(s) : 0 + i = i
  OBVIOUS
<1>2. QED
  BY <1>1 DEF Remains

\* What is added to a list that fires is also still to call.
LEMMA RemainsAppend ==
  ASSUME NEW S, NEW s \in Seq(S), NEW t \in Seq(S), NEW k \in Nat, NEW e \in S,
         Remains(t, s, k)
  PROVE  Remains(Append(t, e), Append(s, e), k)
<1> DEFINE a == Append(t, e)
           b == Append(s, e)
<1>1. k + Len(t) = Len(s) /\ \A i \in 1..Len(t) : t[i] = s[k + i]
  BY DEF Remains
<1>2. /\ Len(t) \in Nat /\ Len(a) = Len(t) + 1 /\ a[Len(t) + 1] = e
      /\ \A i \in 1..Len(t) : a[i] = t[i]
  BY AppendFacts
<1>3. /\ Len(s) \in Nat /\ Len(b) = Len(s) + 1 /\ b[Len(s) + 1] = e
      /\ \A i \in 1..Len(s) : b[i] = s[i]
  BY AppendFacts
<1> HIDE DEF a, b
<1>4. k + Len(a) = Len(b) /\ Len(t) \in Nat /\ Len(s) \in Nat
  BY <1>1, <1>2, <1>3
<1> k + Len(t) = Len(s)
  BY <1>1
<1>5. ASSUME NEW i \in 1..Len(a) PROVE a[i] = b[k + i]
  <2>1. CASE i = Len(t) + 1
    <3>1. k + i = Len(s) + 1
      BY <1>4, <2>1
    <3>2. QED
      BY <1>2, <1>3, <2>1, <3>1
  <2>2. CASE i # Len(t) + 1
    <3>1. i \in 1..Len(t) /\ k + i \in 1..Len(s)
      BY <1>1, <1>2, <1>4, <2>2
    <3>2. QED
      BY <1>1, <1>2, <1>3, <3>1
  <2>3. QED
    BY <2>1, <2>2
<1>6. QED
  BY <1>4, <1>5 DEF Remains, a, b

\* What remains is not empty: its first element is the next one.
LEMMA RemainsTail ==
  ASSUME NEW S, NEW s \in Seq(S), NEW t \in Seq(S), NEW k \in Nat, Remains(t, s, k), k < Len(s)
  PROVE  t # <<>> /\ Remains(Tail(t), s, k + 1) /\ s[k + 1] \in S /\ t[1] = s[k + 1]
<1>1. k + Len(t) = Len(s) /\ \A i \in 1..Len(t) : t[i] = s[k + i]
  BY DEF Remains
<1>2. t # <<>> /\ Len(t) \in Nat /\ Len(s) \in Nat /\ Len(t) > 0
  BY <1>1
<1>3. Len(Tail(t)) = Len(t) - 1 /\ \A i \in 1..Len(Tail(t)) : Tail(t)[i] = t[i + 1]
  BY <1>2, TailFacts
<1>4. s[k + 1] \in S /\ t[1] = s[k + 1]
  BY <1>1, <1>2
<1>5. ASSUME NEW i \in 1..Len(Tail(t)) PROVE Tail(t)[i] = s[k + 1 + i]
  <2>1. i + 1 \in 1..Len(t) /\ k + (i + 1) = k + 1 + i
    BY <1>2, <1>3
  <2>2. QED
    BY <1>1, <1>3, <2>1
<1>6. k + 1 + Len(Tail(t)) = Len(s)
  BY <1>1, <1>2, <1>3
<1>7. QED
  BY <1>2, <1>4, <1>5, <1>6 DEF Remains

\* What remains of a list is what SubSeq gives.
LEMMA RemainsIsSubSeq ==
  ASSUME NEW S, NEW s \in Seq(S), NEW t \in Seq(S), NEW k \in Nat, Remains(t, s, k)
  PROVE  t = SubSeq(s, k + 1, Len(s))
<1> DEFINE u == SubSeq(s, k + 1, Len(s))
<1>1. k + Len(t) = Len(s) /\ (\A i \in 1..Len(t) : t[i] = s[k + i]) /\ Len(t) \in Nat /\ Len(s) \in Nat
  BY DEF Remains
<1>2. u \in Seq(S) /\ Len(u) = Len(s) - k /\ \A i \in 1..Len(u) : u[i] = s[k + i]
  <2>1. k + 1 \in 1..Len(s) + 1 /\ Len(s) \in 0..Len(s)
    BY <1>1
  <2>2. u \in Seq(S) /\ Len(u) = Len(s) - k
    BY <1>1
  <2>3. \A i \in 1..Len(u) : u[i] = s[k + i]
    BY <1>1, <2>2
  <2>4. QED
    BY <2>2, <2>3
<1> HIDE DEF u
<1>3. Len(u) = Len(t) /\ \A i \in 1..Len(t) : t[i] = u[i]
  BY <1>1, <1>2
<1>4. t = u
  BY <1>2, <1>3, SeqEqual
<1>5. QED
  BY <1>4 DEF u

\* What is appended to the sequence is what remains of it.
LEMMA RemainsOne ==
  ASSUME NEW S, NEW s \in Seq(S), NEW e \in S
  PROVE  Remains(<<e>>, Append(s, e), Len(s)) /\ <<e>> \in Seq(S)
<1>1. Remains(<<>>, s, Len(s)) /\ <<>> \in Seq(S) /\ Len(s) \in Nat
  BY RemainsAll
<1>2. Remains(Append(<<>>, e), Append(s, e), Len(s))
  BY <1>1, RemainsAppend, Zenon
<1>3. Append(<<>>, e) = <<e>> /\ <<e>> \in Seq(S)
  OBVIOUS
<1>4. QED
  BY <1>2, <1>3

\* What AddTo finds to be new in the list.
LEMMA LastOfAppend ==
  ASSUME NEW S, NEW s \in Seq(S), NEW e \in S
  PROVE  SubSeq(Append(s, e), Len(s) + 1, Len(Append(s, e))) = <<e>>
<1>1. Remains(<<e>>, Append(s, e), Len(s)) /\ <<e>> \in Seq(S)
  BY RemainsOne
<1>2. Append(s, e) \in Seq(S) /\ Len(s) \in Nat
  BY AppendFacts
<1>3. QED
  BY <1>1, <1>2, RemainsIsSubSeq

\* A list that grows keeps the calls it has made.
LEMMA LoggedAppend ==
  ASSUME NEW S, NEW V, NEW log \in Seq(S \X V), NEW s \in Seq(S), NEW e \in S, NEW v \in V,
         Logged(log, s, v)
  PROVE  Logged(log, Append(s, e), v)
<1>1. Len(log) <= Len(s) /\ (\A i \in 1..Len(log) : log[i] = <<s[i], v>>) /\ Len(log) \in Nat
  BY DEF Logged
<1>2. /\ Len(s) \in Nat /\ Len(Append(s, e)) = Len(s) + 1
      /\ \A i \in 1..Len(s) : Append(s, e)[i] = s[i]
  BY AppendFacts
<1>3. ASSUME NEW i \in 1..Len(log) PROVE log[i] = <<Append(s, e)[i], v>>
  <2>1. i \in 1..Len(s)
    BY <1>1, <1>2
  <2>2. QED
    BY <1>1, <1>2, <2>1
<1>4. Len(log) <= Len(s) + 1
  BY <1>1, <1>2
<1>5. QED
  BY <1>2, <1>3, <1>4 DEF Logged

\* The next function is called: one call more, of the function next to it.
LEMMA LoggedCall ==
  ASSUME NEW S, NEW V, NEW log \in Seq(S \X V), NEW s \in Seq(S), NEW v \in V,
         Logged(log, s, v), Len(log) < Len(s)
  PROVE  LET new == Append(log, <<s[Len(log) + 1], v>>)
         IN /\ Logged(new, s, v) /\ new \in Seq(S \X V) /\ Len(new) = Len(log) + 1
            /\ new[Len(new)] = <<s[Len(log) + 1], v>>
<1> DEFINE x == <<s[Len(log) + 1], v>>
           new == Append(log, x)
<1>1. Len(log) <= Len(s) /\ (\A i \in 1..Len(log) : log[i] = <<s[i], v>>)
  BY DEF Logged
<1>2. Len(log) \in Nat /\ Len(s) \in Nat /\ Len(log) + 1 \in 1..Len(s)
  OBVIOUS
<1>3. s[Len(log) + 1] \in S
  BY <1>2
<1>4. x \in S \X V
  BY <1>3
<1> HIDE DEF x
<1>5. /\ new \in Seq(S \X V) /\ Len(new) = Len(log) + 1 /\ new[Len(log) + 1] = x
      /\ \A i \in 1..Len(log) : new[i] = log[i]
  BY <1>4, AppendFacts
<1> HIDE DEF new
<1>6. ASSUME NEW i \in 1..Len(new) PROVE new[i] = <<s[i], v>>
  <2>1. CASE i = Len(log) + 1
    BY <1>5, <2>1 DEF x
  <2>2. CASE i # Len(log) + 1
    <3>1. i \in 1..Len(log)
      BY <1>2, <1>5, <2>2
    <3>2. QED
      BY <1>1, <1>5, <3>1
  <2>3. QED
    BY <2>1, <2>2
<1>7. Len(new) <= Len(s)
  BY <1>2, <1>5
<1>8. QED
  BY <1>5, <1>6, <1>7 DEF Logged, new, x

-----------------------------------------------------------------------------
(* Facts about the constants.                                               *)

\* The lists of a deferred: those of its outcomes are fired once.
LEMMA FlagFacts ==
  ASSUME DeferredConstants, NEW l \in Lists
  PROVE  /\ l = <<l[1], l[2]>> /\ l[1] \in Deferreds /\ l[2] \in Kinds
         /\ "memory" \in Flags[l] /\ "unique" \notin Flags[l] /\ "stopOnFalse" \notin Flags[l]
         /\ Once(l) <=> l[2] # "progress"
BY DEF DeferredConstants, DeferredFlags, Once, Kinds

\* Every deferred has a list of each kind.
LEMMA ListFacts ==
  ASSUME DeferredConstants, NEW d \in Deferreds, NEW k \in Kinds
  PROVE  <<d, k>> \in Lists /\ <<d, k>>[1] = d /\ <<d, k>>[2] = k
BY DEF DeferredConstants

\* A value is neither undefined nor true.
LEMMA ValFacts ==
  /\ Undefined \notin Val /\ Halted \notin Val /\ Halted # Undefined
BY DEF Val, Undefined, Halted

-----------------------------------------------------------------------------
(* The methods keep a list of a deferred well formed.                       *)

\* fire, up to its loop, of a list that is not firing.
LEMMA StartFireOK ==
  ASSUME DeferredConstants, NEW l \in Lists, NEW L, NEW v \in Val,
         ListOK(l, L, 0, 0), ~L.gone,
         Once(l) => L.log = <<>> /\ L.added = L.list
  PROVE  LET U == StartFire(l, L, v)
         IN /\ ListOK(l, U, 1, 0)
            /\ U.memory = v /\ U.log = L.log /\ U.added = L.added /\ U.list = L.list
            /\ ~U.gone /\ U.locked = L.locked
<1> DEFINE U == StartFire(l, L, v)
<1>1. /\ L \in ListRec /\ L.start = 0 /\ "memory" \in Flags[l] /\ L.start + 1 = 1
      /\ v # Undefined /\ ~L.broken /\ (L.locked => L.stack = <<>>)
  BY FlagFacts, ValFacts DEF ListOK
<1>2. SubSeq(L.list, 1, Len(L.list)) = L.list /\ Len(L.list) \in Nat /\ L.list \in Seq(Entry)
  BY <1>1 DEF ListRec
<1>3. SubSeq(L.list, L.start + 1, Len(L.list)) = L.list
  BY <1>1, <1>2
<1>4. U = [L EXCEPT !.memory = v, !.firing = TRUE, !.index = 0, !.start = 0,
                    !.length = Len(L.list), !.due = L.list]
  BY <1>1, <1>3 DEF StartFire
<1> HIDE DEF U
<1>5. /\ U \in ListRec
      /\ U.memory = v /\ U.firing = TRUE /\ U.index = 0 /\ U.start = 0 /\ U.length = Len(L.list)
      /\ U.due = L.list /\ U.list = L.list /\ U.added = L.added /\ U.log = L.log
      /\ U.gone = L.gone /\ U.locked = L.locked /\ U.stack = L.stack /\ U.broken = L.broken
  BY <1>1, <1>2, <1>4 DEF ListRec
<1>6. Once(l) => OnceOK(U, 1, 0)
  <2> SUFFICES ASSUME Once(l) PROVE OnceOK(U, 1, 0)
    OBVIOUS
  <2>1. /\ L.log = <<>> /\ L.added = L.list /\ L.stack = <<>> /\ Len(L.log) = 0
        /\ L.locked => L.gone
    BY DEF ListOK, OnceOK
  <2>2. Remains(L.list, L.list, 0) /\ Logged(<<>>, L.added, v)
    BY <1>2, RemainsAll DEF Logged
  <2>3. QED
    BY <1>1, <1>5, <2>1, <2>2 DEF OnceOK
<1>7. ListOK(l, U, 1, 0)
  <2>1. Remains(L.list, L.list, 0) /\ 0 + 0 = 0
    BY <1>2, RemainsAll
  <2>2. QED
    BY <1>1, <1>5, <1>6, <2>1 DEF ListOK
<1>8. QED
  BY <1>5, <1>7 DEF U

\* add of one function: it is called in its turn, at once, or when the list
\* is fired.
LEMMA AddToOK ==
  ASSUME DeferredConstants, NEW l \in Lists, NEW L \in ListRec, NEW e \in Entry,
         NEW f \in {0, 1}, NEW c \in {0, 1}, ListOK(l, L, f, c)
  PROVE  LET U == AddTo(l, L, e)
         IN /\ ListOK(l, U, IF FiresAtOnce(L) THEN 1 ELSE f, c)
            /\ FiresAtOnce(L) => f = 0 /\ c = 0 /\ L.memory \in Val /\ U.due = <<e>>
            /\ U.memory = L.memory /\ U.log = L.log /\ U.locked = L.locked /\ U.gone = L.gone
            /\ IF L.gone THEN U = L
               ELSE U.added = Append(L.added, e) /\ U.list = Append(L.list, e)
<1> USE DEF ListRec
<1> DEFINE U == AddTo(l, L, e)
           n == Len(L.list)
           m == Append(L.list, e)
           a == Append(L.added, e)
           X == [L EXCEPT !.list = m, !.added = a]
           k == L.index + c
<1>1. /\ ~L.broken /\ L.start = 0 /\ (L.firing <=> f = 1) /\ c <= f
      /\ L.locked => L.stack = <<>>
      /\ L.gone => L.locked /\ L.memory = Undefined /\ L.list = <<>>
      /\ f = 0 => L.due = <<>>
      /\ f = 1 => L.memory \in Val
  BY DEF ListOK
<1>2. n \in Nat /\ k \in Nat /\ Len(L.log) \in Nat
  OBVIOUS
<1>3. m \in Seq(Entry) /\ Len(m) = n + 1
  BY AppendFacts
<1>4. a \in Seq(Entry)
  BY AppendFacts
<1>5. m \in Seq(Entry) /\ a \in Seq(Entry)
  BY <1>3, <1>4
<1>6. SubSeq(m, n + 1, Len(m)) = <<e>>
  BY LastOfAppend
<1>7. Extended(l, L, e) = X
  BY FlagFacts DEF Extended
<1>8. FiresAtOnce(L) <=> ~L.gone /\ f = 0 /\ L.memory # Undefined
  BY <1>1, ValFacts DEF FiresAtOnce, HasValue
<1>9. CASE L.gone
  <2>1. U = L /\ ~FiresAtOnce(L)
    BY <1>8, <1>9 DEF AddTo
  <2>2. QED
    BY <1>9, <2>1
<1>10. CASE ~L.gone /\ f = 1
  <2> DEFINE due == Append(L.due, e)
  <2>1. ~FiresAtOnce(L) /\ L.memory \in Val /\ L.memory # Undefined /\ L.firing
    BY <1>1, <1>8, <1>10, ValFacts
  <2>2. due \in Seq(Entry)
    BY AppendFacts
  <2>3. L.due \o SubSeq(m, n + 1, Len(m)) = due
    BY <1>6, AppendIsConcat
  <2>4. U = [X EXCEPT !.length = Len(m), !.due = L.due \o SubSeq(m, n + 1, Len(m))]
    <3>1. X.list = m /\ X.due = L.due
      BY <1>5
    <3>2. U = [X EXCEPT !.length = Len(X.list),
                        !.due = X.due \o SubSeq(X.list, n + 1, Len(X.list))]
      <4> HIDE DEF X
      <4>1. QED
        BY <1>7, <1>10, <2>1 DEF AddTo
    <3>3. QED
      BY <3>1, <3>2
  <2>5. U = [X EXCEPT !.length = Len(m), !.due = due]
    BY <2>3, <2>4
  <2> HIDE DEF m, a, n, due, U
  <2>6. U = [L EXCEPT !.list = m, !.added = a, !.length = Len(m), !.due = due]
    BY <1>5, <2>5
  <2>7. Len(m) \in Nat
    BY <1>2, <1>3
  <2> HIDE DEF X, k
  <2>8. /\ U \in ListRec /\ U.list = m /\ U.added = a /\ U.due = due /\ U.length = Len(m)
        /\ U.memory = L.memory /\ U.log = L.log /\ U.locked = L.locked /\ U.gone = L.gone
        /\ U.broken = L.broken /\ U.start = L.start /\ U.firing = L.firing
        /\ U.stack = L.stack /\ U.index = L.index
    BY <1>5, <2>2, <2>6, <2>7
  <2>9. Remains(L.due, L.list, k)
    BY <1>10 DEF ListOK, k
  <2>10. Remains(due, m, k)
    BY <1>2, <2>9, RemainsAppend DEF due, m
  <2>11. Once(l) => OnceOK(U, f, c)
    <3> SUFFICES ASSUME Once(l) PROVE OnceOK(U, f, c)
      OBVIOUS
    <3>1. OnceOK(L, f, c)
      BY DEF ListOK
    <3>2. /\ L.stack = <<>> /\ (c = 1 => L.log # <<>>) /\ (L.locked => L.gone)
          /\ Remains(L.due, L.added, Len(L.log)) /\ Logged(L.log, L.added, L.memory)
      BY <2>1, <3>1 DEF OnceOK
    <3>3. Remains(due, a, Len(L.log))
      BY <1>2, <3>2, RemainsAppend DEF due, a
    <3>4. Logged(L.log, a, L.memory)
      BY <2>1, <3>2, LoggedAppend DEF a
    <3>5. QED
      BY <1>10, <2>1, <2>8, <3>2, <3>3, <3>4 DEF OnceOK
  <2>12. ListOK(l, U, f, c)
    BY <1>1, <1>10, <2>1, <2>8, <2>10, <2>11 DEF ListOK, k
  <2>13. QED
    BY <1>10, <2>1, <2>8, <2>12 DEF m, a, U
<1>11. CASE FiresAtOnce(L)
  <2>1. ~L.gone /\ f = 0 /\ c = 0 /\ L.memory \in Val /\ L.memory # Undefined /\ ~L.firing
    BY <1>1, <1>8, <1>11
  <2> DEFINE Y == [X EXCEPT !.start = n]
             due == <<e>>
  <2>2. due \in Seq(Entry) /\ Remains(due, m, n) /\ Remains(due, a, Len(L.added))
    BY RemainsOne
  <2>3. due \in Seq(Entry) /\ Len(m) \in Nat
    BY <1>2, <1>3
  <2>4. U = StartFire(l, Y, L.memory)
    <3> HIDE DEF X
    <3>1. QED
      BY <1>7, <1>11, <2>1 DEF AddTo
  <2>5. Y = [L EXCEPT !.list = m, !.added = a, !.start = n] /\ Y.list = m /\ Y.start = n
    BY <1>2, <1>5
  <2>6. U = [Y EXCEPT !.memory = L.memory, !.firing = TRUE, !.index = n, !.start = 0,
                      !.length = Len(m), !.due = due]
    <3> HIDE DEF Y
    <3>1. QED
      BY FlagFacts, <1>6, <2>4, <2>5 DEF StartFire
  <2> HIDE DEF U, m, a, n, due, Y, X, k
  <2>7. U = [L EXCEPT !.list = m, !.added = a, !.memory = L.memory, !.firing = TRUE,
                      !.index = n, !.start = 0, !.length = Len(m), !.due = due]
    BY <1>2, <1>5, <2>3, <2>5, <2>6
  <2>8. /\ U \in ListRec /\ U.list = m /\ U.added = a /\ U.due = due /\ U.length = Len(m)
        /\ U.memory = L.memory /\ U.log = L.log /\ U.locked = L.locked /\ U.gone = L.gone
        /\ U.broken = L.broken /\ U.start = 0 /\ U.firing = TRUE
        /\ U.stack = L.stack /\ U.index = n
    BY <1>2, <1>5, <2>3, <2>7
  <2>9. n + 0 = n
    BY <1>2
  <2>10. Once(l) => OnceOK(U, 1, 0)
    <3> SUFFICES ASSUME Once(l) PROVE OnceOK(U, 1, 0)
      OBVIOUS
    <3>1. OnceOK(L, f, c)
      BY DEF ListOK
    <3>2. /\ L.stack = <<>> /\ L.due = <<>> /\ (L.locked => L.gone)
          /\ Remains(L.due, L.added, Len(L.log)) /\ Logged(L.log, L.added, L.memory)
      BY <1>1, <2>1, <3>1 DEF OnceOK
    <3>3. Len(L.added) = Len(L.log)
      BY <3>2 DEF Remains
    <3>4. Logged(L.log, a, L.memory)
      BY <2>1, <3>2, LoggedAppend DEF a
    <3>5. Remains(due, a, Len(L.log))
      BY <2>2, <3>3
    <3>6. QED
      BY <2>1, <2>8, <3>2, <3>4, <3>5 DEF OnceOK
  <2>11. ListOK(l, U, 1, 0)
    BY <1>1, <2>1, <2>2, <2>8, <2>9, <2>10 DEF ListOK
  <2>12. QED
    BY <1>11, <2>1, <2>8, <2>11 DEF m, a, U, due
<1>12. CASE ~L.gone /\ f = 0 /\ ~FiresAtOnce(L)
  <2>1. U = X /\ L.memory = Undefined /\ c = 0
    BY <1>1, <1>7, <1>8, <1>12 DEF AddTo
  <2> HIDE DEF U, m, a, n, k
  <2>2. /\ U \in ListRec /\ U.list = m /\ U.added = a
        /\ U.memory = L.memory /\ U.log = L.log /\ U.locked = L.locked /\ U.gone = L.gone
        /\ U.broken = L.broken /\ U.start = L.start /\ U.firing = L.firing /\ U.due = L.due
        /\ U.stack = L.stack /\ U.index = L.index /\ U.length = L.length
    BY <1>5, <2>1
  <2>3. Once(l) => OnceOK(U, f, c)
    <3> SUFFICES ASSUME Once(l) PROVE OnceOK(U, f, c)
      OBVIOUS
    <3>1. OnceOK(L, f, c)
      BY DEF ListOK
    <3>2. L.stack = <<>> /\ L.log = <<>> /\ L.added = L.list /\ (L.locked => L.gone)
      BY <1>12, <2>1, <3>1 DEF OnceOK
    <3>3. a = m
      BY <3>2 DEF a, m
    <3>4. QED
      BY <2>1, <2>2, <3>2, <3>3 DEF OnceOK
  <2>4. ListOK(l, U, f, c)
    BY <1>1, <1>12, <2>1, <2>2, <2>3 DEF ListOK
  <2>5. QED
    BY <1>12, <2>1, <2>2, <2>4 DEF m, a, U
<1>13. QED
  BY <1>8, <1>9, <1>10, <1>11, <1>12

\* fire or fireWith of a list.
LEMMA FireListOK ==
  ASSUME DeferredConstants, NEW l \in Lists, NEW L \in ListRec, NEW v \in Val,
         NEW f \in {0, 1}, NEW c \in {0, 1}, ListOK(l, L, f, c)
  PROVE  LET U == FireList(l, L, v)
         IN /\ ListOK(l, U, IF Begins(l, L) THEN 1 ELSE f, c)
            /\ Begins(l, L) => f = 0 /\ c = 0 /\ ~L.gone /\ ~L.locked
            /\ U.memory = IF Begins(l, L) THEN v ELSE L.memory
            /\ U.log = L.log /\ U.added = L.added /\ U.list = L.list
            /\ U.gone = L.gone /\ U.locked = L.locked
<1> USE DEF ListRec
<1> DEFINE U == FireList(l, L, v)
<1>1. /\ ~L.broken /\ L.start = 0 /\ (L.firing <=> f = 1) /\ c <= f
      /\ L.locked => L.stack = <<>>
      /\ L.gone => L.locked /\ L.memory = Undefined /\ L.list = <<>>
      /\ f = 0 => L.due = <<>>
      /\ f = 1 => L.memory \in Val
  BY DEF ListOK
<1>2. CASE Begins(l, L)
  <2>1. U = StartFire(l, L, v) /\ ~L.locked /\ f = 0 /\ c = 0 /\ ~L.gone
    BY <1>1, <1>2 DEF FireList, Begins
  <2>2. Once(l) => L.log = <<>> /\ L.added = L.list
    <3> SUFFICES ASSUME Once(l) PROVE L.log = <<>> /\ L.added = L.list
      OBVIOUS
    <3>1. OnceOK(L, f, c) /\ L.memory = Undefined
      BY <1>2 DEF ListOK, Begins, Once
    <3>2. QED
      BY <2>1, <3>1 DEF OnceOK
  <2>3. ListOK(l, L, 0, 0)
    BY <2>1
  <2> HIDE DEF U
  <2>4. /\ ListOK(l, U, 1, 0)
        /\ U.memory = v /\ U.log = L.log /\ U.added = L.added /\ U.list = L.list
        /\ ~U.gone /\ U.locked = L.locked
    BY <2>1, <2>2, <2>3, StartFireOK
  <2>5. U.gone = L.gone
    BY <2>1, <2>4 DEF ListOK
  <2>6. QED
    BY <1>2, <2>1, <2>4, <2>5 DEF U
<1>3. CASE ~Begins(l, L) /\ ~L.locked /\ L.firing /\ ~Once(l)
  <2>1. U = [L EXCEPT !.stack = Append(L.stack, v)]
    BY <1>3 DEF FireList, Once
  <2>2. Append(L.stack, v) \in Seq(Val)
    BY AppendFacts
  <2> HIDE DEF U
  <2>3. /\ U \in ListRec /\ U.list = L.list /\ U.added = L.added
        /\ U.memory = L.memory /\ U.log = L.log /\ U.locked = L.locked /\ U.gone = L.gone
        /\ U.broken = L.broken /\ U.start = L.start /\ U.firing = L.firing /\ U.due = L.due
        /\ U.index = L.index /\ U.length = L.length
    BY <2>1, <2>2
  <2>4. ListOK(l, U, f, c)
    BY <1>3, <2>3 DEF ListOK
  <2>5. QED
    BY <1>3, <2>3, <2>4 DEF U
<1>4. CASE ~Begins(l, L) /\ ~(~L.locked /\ L.firing /\ ~Once(l))
  <2>1. U = L
    BY <1>4 DEF FireList, Once
  <2>2. QED
    BY <1>4, <2>1
<1>5. QED
  BY <1>2, <1>3, <1>4

\* disable and lock.
LEMMA DisableOK ==
  ASSUME NEW l \in Lists, NEW L \in ListRec, NEW f \in {0, 1}, NEW c \in {0, 1},
         ListOK(l, L, f, c), L.memory = Undefined
  PROVE  LET U == Disable(L)
         IN /\ ListOK(l, U, f, c)
            /\ U.memory = L.memory /\ U.log = L.log /\ U.added = L.added
            /\ U.list = <<>> /\ U.gone /\ U.locked
<1> USE DEF ListRec
<1> DEFINE U == Disable(L)
<1>1. ~L.broken /\ L.start = 0 /\ ~L.firing /\ f = 0 /\ c = 0
  BY ValFacts DEF ListOK
<1>2. <<>> \in Seq(Entry) /\ <<>> \in Seq(Val)
  OBVIOUS
<1>3. /\ U \in ListRec /\ U.list = <<>> /\ U.gone /\ U.stack = <<>> /\ U.locked
      /\ U.memory = Undefined /\ U.due = <<>>
      /\ U.added = L.added /\ U.log = L.log /\ U.broken = L.broken /\ U.start = L.start
      /\ U.firing = L.firing
  BY <1>2 DEF Disable
<1> HIDE DEF U
<1>4. Once(l) => OnceOK(U, f, c)
  BY <1>1, <1>3 DEF ListOK, OnceOK
<1>5. ListOK(l, U, f, c)
  BY <1>1, <1>3, <1>4 DEF ListOK
<1>6. QED
  BY <1>3, <1>5 DEF U

\* A list of progress that is locked, or disabled when it was never fired.
LEMMA LockOK ==
  ASSUME NEW l \in Lists, NEW L \in ListRec, NEW f \in {0, 1}, NEW c \in {0, 1},
         ListOK(l, L, f, c), ~Once(l)
  PROVE  LET U == Lock(L)
         IN /\ ListOK(l, U, f, c)
            /\ U.memory = L.memory /\ U.log = L.log /\ U.added = L.added
            /\ U.list = L.list \/ U.list = <<>>
            /\ U.locked
<1> USE DEF ListRec
<1> DEFINE U == Lock(L)
<1>1. CASE HasValue(L.memory)
  <2>1. U = [L EXCEPT !.stack = <<>>, !.locked = TRUE] /\ <<>> \in Seq(Val)
    BY <1>1 DEF Lock
  <2> HIDE DEF U
  <2>2. /\ U \in ListRec /\ U.list = L.list /\ U.gone = L.gone /\ U.stack = <<>> /\ U.locked
        /\ U.memory = L.memory /\ U.due = L.due
        /\ U.added = L.added /\ U.log = L.log /\ U.broken = L.broken /\ U.start = L.start
        /\ U.firing = L.firing /\ U.length = L.length /\ U.index = L.index
    BY <2>1
  <2>3. ListOK(l, U, f, c)
    BY <2>2 DEF ListOK
  <2>4. QED
    BY <2>2, <2>3 DEF U
<1>2. CASE ~HasValue(L.memory)
  <2>1. U = Disable(L) /\ L.memory = Undefined
    BY <1>2, ValFacts DEF Lock, HasValue
  <2> HIDE DEF U
  <2>2. QED
    BY <2>1, DisableOK, SMTT(60) DEF U
<1>3. QED
  BY <1>1, <1>2

\* The loop calls the next function: the first that is due and, of a list
\* that is fired once, the next one that was added.
LEMMA CallOK ==
  ASSUME NEW l \in Lists, NEW L \in ListRec, ListOK(l, L, 1, 0), L.index < L.length
  PROVE  LET e == L.list[L.index + 1]
             U == [L EXCEPT !.due = IF @ = <<>> THEN <<>> ELSE Tail(@),
                            !.log = Append(@, <<e, L.memory>>)]
         IN /\ L.index < Len(L.list) /\ e \in Entry
            /\ ListOK(l, U, 1, 1)
            /\ U.log = Append(L.log, <<e, L.memory>>) /\ Len(U.log) = Len(L.log) + 1
            /\ U.log[Len(U.log)] = <<e, L.memory>>
            /\ Once(l) => Len(L.log) + 1 \in 1..Len(L.added) /\ e = L.added[Len(L.log) + 1]
            /\ U.memory = L.memory /\ U.added = L.added /\ U.list = L.list
            /\ U.gone = L.gone /\ U.locked = L.locked
<1> USE DEF ListRec
<1> DEFINE e == L.list[L.index + 1]
           x == <<e, L.memory>>
           log == Append(L.log, x)
           due == Tail(L.due)
           U == [L EXCEPT !.due = IF @ = <<>> THEN <<>> ELSE Tail(@), !.log = Append(@, x)]
<1>1. /\ ~L.broken /\ L.start = 0 /\ L.firing /\ L.length = Len(L.list)
      /\ L.locked => L.stack = <<>>
      /\ L.gone => L.locked /\ L.memory = Undefined /\ L.list = <<>>
      /\ L.memory \in Val /\ Remains(L.due, L.list, L.index + 0)
  BY DEF ListOK
<1>2. Remains(L.due, L.list, L.index) /\ L.index < Len(L.list)
  BY <1>1
<1>3. /\ L.due # <<>> /\ Remains(due, L.list, L.index + 1) /\ e \in Entry
      /\ L.due[1] = e
  BY <1>2, RemainsTail
<1>4. due \in Seq(Entry)
  BY <1>3, TailFacts
<1>5. x \in Entry \X Val
  BY <1>1, <1>3
<1> HIDE DEF x
<1>6. log \in Seq(Entry \X Val) /\ Len(log) = Len(L.log) + 1 /\ log[Len(log)] = x /\ Len(L.log) \in Nat
  BY <1>5, AppendFacts
<1>7. log \in Seq(Entry \X Val) /\ due \in Seq(Entry)
  BY <1>4, <1>6
<1>8. U = [L EXCEPT !.due = due, !.log = log]
  BY <1>3
<1> HIDE DEF U, due, log, e
<1>9. /\ U \in ListRec /\ U.list = L.list /\ U.gone = L.gone /\ U.stack = L.stack
      /\ U.memory = L.memory /\ U.due = due /\ U.locked = L.locked
      /\ U.added = L.added /\ U.log = log /\ U.broken = L.broken /\ U.start = L.start
      /\ U.firing = L.firing /\ U.length = L.length /\ U.index = L.index
  BY <1>7, <1>8
<1>10. ASSUME Once(l)
       PROVE  OnceOK(U, 1, 1) /\ Len(L.log) + 1 \in 1..Len(L.added) /\ e = L.added[Len(L.log) + 1]
  <2>1. /\ L.stack = <<>> /\ L.memory # Undefined /\ (L.locked => L.gone)
        /\ Remains(L.due, L.added, Len(L.log)) /\ Logged(L.log, L.added, L.memory)
    BY <1>1, <1>10, ValFacts DEF ListOK, OnceOK
  <2>2. Len(L.log) + Len(L.due) = Len(L.added)
    BY <2>1 DEF Remains
  <2>3. Len(L.log) < Len(L.added) /\ Len(L.log) \in Nat
    BY <1>3, <2>2
  <2>4. Remains(due, L.added, Len(L.log) + 1) /\ L.due[1] = L.added[Len(L.log) + 1]
    BY <2>1, <2>3, RemainsTail DEF due
  <2>5. x = <<L.added[Len(L.log) + 1], L.memory>>
    BY <1>3, <2>4 DEF x
  <2>6. Logged(log, L.added, L.memory)
    <3>1. log = Append(L.log, <<L.added[Len(L.log) + 1], L.memory>>)
      BY <2>5 DEF log
    <3>2. L.log \in Seq(Entry \X Val) /\ L.added \in Seq(Entry) /\ L.memory \in Val
      BY <1>1
    <3> HIDE DEF ListRec
    <3>3. QED
      BY <2>1, <2>3, <3>1, <3>2, LoggedCall
  <2>7. Len(log) # 0
    BY <1>6
  <2>8. log # <<>>
    BY <2>7
  <2>9. OnceOK(U, 1, 1)
    <3>1. Len(U.log) = Len(L.log) + 1
      BY <1>6, <1>9
    <3>2. QED
      BY <1>9, <2>1, <2>4, <2>6, <2>8, <3>1 DEF OnceOK
  <2>10. QED
    BY <1>3, <2>3, <2>4, <2>9
<1>11. ListOK(l, U, 1, 1)
  BY <1>1, <1>3, <1>9, <1>10 DEF ListOK
<1>12. QED
  BY <1>2, <1>3, <1>6, <1>9, <1>10, <1>11 DEF U, log, e, x

\* The function returns.
LEMMA ReturnOK ==
  ASSUME NEW l \in Lists, NEW L \in ListRec, ListOK(l, L, 1, 1)
  PROVE  LET U == [L EXCEPT !.index = @ + 1]
         IN /\ ListOK(l, U, 1, 0)
            /\ U.memory = L.memory /\ U.added = L.added /\ U.list = L.list /\ U.log = L.log
            /\ U.gone = L.gone /\ U.locked = L.locked
<1> USE DEF ListRec
<1> DEFINE U == [L EXCEPT !.index = @ + 1]
<1>1. L.index + 1 \in Nat /\ L.index + 1 + 0 = L.index + 1
  OBVIOUS
<1>2. /\ U \in ListRec /\ U.list = L.list /\ U.gone = L.gone /\ U.stack = L.stack
      /\ U.memory = L.memory /\ U.due = L.due /\ U.locked = L.locked
      /\ U.added = L.added /\ U.log = L.log /\ U.broken = L.broken /\ U.start = L.start
      /\ U.firing = L.firing /\ U.length = L.length /\ U.index = L.index + 1
  BY <1>1
<1> HIDE DEF U
<1>3. Once(l) => OnceOK(U, 1, 0)
  BY <1>2 DEF ListOK, OnceOK
<1>4. ListOK(l, U, 1, 0)
  BY <1>1, <1>2, <1>3 DEF ListOK
<1>5. QED
  BY <1>2, <1>4 DEF U

\* The end of fire: the list is fired again with a value that waits, is
\* cleared, or waits to be fired.
LEMMA FinishOK ==
  ASSUME DeferredConstants, NEW l \in Lists, NEW L \in ListRec, ListOK(l, L, 1, 0),
         ~(L.index < L.length)
  PROVE  LET M == [L EXCEPT !.firing = FALSE, !.broken = FALSE]
             again == ~L.gone /\ "once" \notin Flags[l] /\ L.stack # <<>>
             U == IF again
                  THEN FireList(l, [M EXCEPT !.memory = L.stack[1], !.stack = Tail(@)], L.stack[1])
                  ELSE IF L.gone \/ "once" \notin Flags[l] THEN M
                  ELSE IF L.memory = Halted THEN Disable(M)
                  ELSE [M EXCEPT !.list = <<>>]
         IN /\ ListOK(l, U, IF again THEN 1 ELSE 0, 0)
            /\ again => L.stack[1] \in Val /\ U.memory = L.stack[1] /\ ~Once(l) /\ ~L.locked
            /\ ~again => U.memory = L.memory
            /\ L.memory \in Val
            /\ Once(l) => Len(L.log) = Len(L.added)
            /\ U.list = L.list \/ U.list = <<>>
            /\ U.log = L.log /\ U.added = L.added /\ U.gone = L.gone /\ U.locked = L.locked
<1> USE DEF ListRec
<1> DEFINE M == [L EXCEPT !.firing = FALSE, !.broken = FALSE]
           again == ~L.gone /\ "once" \notin Flags[l] /\ L.stack # <<>>
           N == [M EXCEPT !.memory = L.stack[1], !.stack = Tail(@)]
           U == IF again THEN FireList(l, N, L.stack[1])
                ELSE IF L.gone \/ "once" \notin Flags[l] THEN M
                ELSE IF L.memory = Halted THEN Disable(M)
                ELSE [M EXCEPT !.list = <<>>]
<1>1. /\ ~L.broken /\ L.start = 0 /\ L.firing /\ L.length = Len(L.list)
      /\ L.locked => L.stack = <<>>
      /\ L.gone => L.locked /\ L.memory = Undefined /\ L.list = <<>>
      /\ L.memory \in Val /\ Remains(L.due, L.list, L.index + 0)
  BY DEF ListOK
<1>2. L.due = <<>>
  <2>1. L.index + 0 + Len(L.due) = Len(L.list) /\ Len(L.due) \in Nat
    BY <1>1 DEF Remains
  <2>2. Len(L.due) = 0
    BY <1>1, <2>1
  <2>3. QED
    BY <2>2
<1>3. ~L.gone /\ L.memory # Undefined /\ L.memory # Halted
  BY <1>1, ValFacts
<1>4. /\ M \in ListRec /\ M.list = L.list /\ M.gone = L.gone /\ M.stack = L.stack
      /\ M.memory = L.memory /\ M.due = L.due /\ M.locked = L.locked
      /\ M.added = L.added /\ M.log = L.log /\ M.broken = FALSE /\ M.start = L.start
      /\ M.firing = FALSE /\ M.length = L.length /\ M.index = L.index
  OBVIOUS
<1>5. CASE Once(l)
  <2> DEFINE V == [L EXCEPT !.firing = FALSE, !.broken = FALSE, !.list = <<>>]
  <2>1. ~again /\ U = V
    BY <1>3, <1>5 DEF Once
  <2>2. /\ V \in ListRec /\ V.list = <<>> /\ V.gone = L.gone /\ V.stack = L.stack
        /\ V.memory = L.memory /\ V.due = L.due /\ V.locked = L.locked
        /\ V.added = L.added /\ V.log = L.log /\ V.broken = FALSE /\ V.start = L.start
        /\ V.firing = FALSE
    <3> HIDE DEF U, M, N, again
    <3>1. <<>> \in Seq(Entry)
      OBVIOUS
    <3>2. QED
      BY <3>1
  <2> HIDE DEF V, U, M, N
  <2>3. OnceOK(L, 1, 0)
    BY <1>5 DEF ListOK
  <2>4. Remains(L.due, L.added, Len(L.log))
    BY <1>3, <2>3 DEF OnceOK
  <2>5. Len(L.log) = Len(L.added)
    <3>1. Len(L.log) + Len(L.due) = Len(L.added) /\ Len(L.log) \in Nat
      BY <2>4 DEF Remains
    <3>2. Len(L.due) = 0
      BY <1>2
    <3>3. QED
      BY <3>1, <3>2
  <2>6. OnceOK(V, 0, 0)
    BY <1>3, <2>2, <2>3 DEF OnceOK
  <2>7. ListOK(l, V, 0, 0)
    BY <1>1, <1>2, <1>3, <2>2, <2>6 DEF ListOK
  <2>8. QED
    BY <1>1, <1>5, <2>1, <2>2, <2>5, <2>7 DEF U, M, N, Once
<1>6. CASE ~Once(l) /\ ~again
  <2>1. U = M
    BY <1>3, <1>6 DEF Once
  <2> HIDE DEF U, M, N
  <2>2. ListOK(l, M, 0, 0)
    BY <1>1, <1>2, <1>3, <1>4, <1>6 DEF ListOK
  <2>3. QED
    BY <1>1, <1>4, <1>6, <2>1, <2>2, ZenonT(60) DEF U, M, N
<1>7. CASE again
  <2>1. L.stack[1] \in Val /\ Tail(L.stack) \in Seq(Val) /\ ~L.locked /\ ~Once(l)
    BY <1>1, <1>7 DEF Once
  <2> DEFINE v == L.stack[1]
             t == Tail(L.stack)
             V == [L EXCEPT !.firing = FALSE, !.broken = FALSE, !.memory = v, !.stack = t]
  <2> HIDE DEF v, t
  <2>2. N = V
    BY <2>1 DEF v, t
  <2>3. v \in Val /\ t \in Seq(Val)
    BY <2>1 DEF v, t
  <2>4. /\ V \in ListRec /\ V.list = L.list /\ V.gone = L.gone /\ V.stack = t
        /\ V.memory = v /\ V.due = L.due /\ V.locked = L.locked
        /\ V.added = L.added /\ V.log = L.log /\ V.broken = FALSE /\ V.start = L.start
        /\ V.firing = FALSE
    BY <2>3
  <2> HIDE DEF V, N, M
  <2>5. ListOK(l, V, 0, 0)
    BY <1>1, <1>2, <1>3, <2>1, <2>4 DEF ListOK
  <2>6. Begins(l, V)
    BY <2>1, <2>4 DEF Begins, Once
  <2>7. U = FireList(l, V, v)
    BY <1>7, <2>2 DEF v
  <2> HIDE DEF U, again
  <2>8. /\ ListOK(l, U, 1, 0) /\ U.memory = v
        /\ U.log = V.log /\ U.added = V.added /\ U.list = V.list
        /\ U.gone = V.gone /\ U.locked = V.locked
    BY <2>3, <2>4, <2>5, <2>6, <2>7, FireListOK
  <2>9. QED
    BY <1>1, <1>7, <2>1, <2>3, <2>4, <2>8 DEF U, N, M, v, again
<1>8. QED
  BY <1>5, <1>6, <1>7 DEF Once

\* The list is what CallsDue and FiringEnds say of it.
LEMMA ListShows ==
  ASSUME NEW l \in Lists, NEW L \in ListRec, NEW f \in {0, 1}, NEW c \in {0, 1},
         ListOK(l, L, f, c)
  PROVE  /\ ~L.broken /\ (L.firing <=> f = 1)
         /\ f = 1 => L.due = SubSeq(L.list, L.index + (IF c = 1 THEN 2 ELSE 1), L.length)
<1> USE DEF ListRec
<1>1. ~L.broken /\ (L.firing <=> f = 1)
  BY DEF ListOK
<1>2. ASSUME f = 1
      PROVE  L.due = SubSeq(L.list, L.index + (IF c = 1 THEN 2 ELSE 1), L.length)
  <2>1. L.length = Len(L.list) /\ Remains(L.due, L.list, L.index + c)
    BY <1>2 DEF ListOK
  <2>2. L.index + c \in Nat /\ L.index + c + 1 = L.index + (IF c = 1 THEN 2 ELSE 1)
    OBVIOUS
  <2>3. L.list \in Seq(Entry) /\ L.due \in Seq(Entry)
    OBVIOUS
  <2> HIDE DEF ListRec
  <2>4. L.due = SubSeq(L.list, L.index + c + 1, Len(L.list))
    BY <2>1, <2>2, <2>3, RemainsIsSubSeq
  <2>5. QED
    BY <2>1, <2>2, <2>4
<1>3. QED
  BY <1>1, <1>2

-----------------------------------------------------------------------------
(* The stack of loops.                                                      *)

\* f with y for x, and the loop F when it calls e.
Put(f, x, y) == [f EXCEPT ![x] = y]
Entered(F, e) == [F EXCEPT !.entry = e]

\* The innermost loop.
LEMMA TopFacts ==
  ASSUME NEW fs \in Seq(FrameRec), fs # <<>>
  PROVE  /\ Len(fs) \in Nat \ {0} /\ Len(fs) \in DOMAIN fs /\ DOMAIN fs = 1..Len(fs)
         /\ fs[Len(fs)] \in FrameRec /\ Fires(fs, fs[Len(fs)].list)
BY DEF Fires

\* A loop that begins becomes the innermost one, and the only one of its list.
LEMMA PushFacts ==
  ASSUME NEW fs \in Seq(FrameRec), NEW F \in FrameRec
  PROVE  LET gs == Append(fs, F)
         IN /\ gs \in Seq(FrameRec) /\ Len(gs) = Len(fs) + 1 /\ gs[Len(gs)] = F
            /\ \A i \in DOMAIN gs : gs[i] = F \/ (i \in DOMAIN fs /\ gs[i] = fs[i])
            /\ \A l : Fires(gs, l) <=> Fires(fs, l) \/ l = F.list
            /\ \A l : Calls(gs, l) <=> Calls(fs, l) \/ (l = F.list /\ F.entry # NoEntry)
            /\ Distinct(fs) /\ ~Fires(fs, F.list) => Distinct(gs)
<1> DEFINE gs == Append(fs, F)
           n == Len(fs)
<1>1. /\ gs \in Seq(FrameRec) /\ n \in Nat /\ Len(gs) = n + 1
      /\ gs[n + 1] = F /\ \A i \in 1..n : gs[i] = fs[i]
  BY AppendFacts
<1>2. DOMAIN gs = 1..(n + 1) /\ DOMAIN fs = 1..n
  BY <1>1
<1> HIDE DEF gs
<1>3. \A i \in DOMAIN gs : i = n + 1 \/ i \in DOMAIN fs
  BY <1>1, <1>2
<1> HIDE DEF n
<1>4. \A i \in DOMAIN fs : i \in DOMAIN gs /\ gs[i] = fs[i] /\ i # n + 1
  BY <1>1, <1>2
<1>5. n + 1 \in DOMAIN gs /\ gs[n + 1] = F
  BY <1>1, <1>2
<1> DEFINE top == n + 1
<1> HIDE DEF top
<1>6. /\ \A i \in DOMAIN gs : i = top \/ i \in DOMAIN fs
      /\ \A i \in DOMAIN fs : i \in DOMAIN gs /\ gs[i] = fs[i] /\ i # top
      /\ top \in DOMAIN gs /\ gs[top] = F
  BY <1>3, <1>4, <1>5 DEF top
<1>7. \A l : Fires(gs, l) <=> Fires(fs, l) \/ l = F.list
  BY <1>6 DEF Fires
<1>8. \A l : Calls(gs, l) <=> Calls(fs, l) \/ (l = F.list /\ F.entry # NoEntry)
  BY <1>6 DEF Calls
<1>9. ASSUME Distinct(fs), ~Fires(fs, F.list) PROVE Distinct(gs)
  BY <1>6, <1>9 DEF Distinct, Fires
<1>10. QED
  BY <1>1, <1>6, <1>7, <1>8, <1>9 DEF gs, n

\* The innermost loop calls something else, or fires its list again.
LEMMA SetFacts ==
  ASSUME NEW fs \in Seq(FrameRec), fs # <<>>, Distinct(fs),
         NEW F \in FrameRec, F.list = fs[Len(fs)].list
  PROVE  LET gs == Put(fs, Len(fs), F)
         IN /\ gs \in Seq(FrameRec) /\ Len(gs) = Len(fs) /\ gs[Len(gs)] = F /\ gs # <<>>
            /\ DOMAIN gs = DOMAIN fs
            /\ \A i \in DOMAIN fs : i # Len(fs) => gs[i] = fs[i] /\ gs[i].list # F.list
            /\ \A l : Fires(gs, l) <=> Fires(fs, l)
            /\ Calls(gs, F.list) <=> F.entry # NoEntry
            /\ \A l : l # F.list => (Calls(gs, l) <=> Calls(fs, l))
            /\ Distinct(gs)
<1> DEFINE n == Len(fs)
           gs == Put(fs, n, F)
<1>1. n \in DOMAIN fs /\ n \in Nat /\ n # 0 /\ DOMAIN fs = 1..n
  BY TopFacts
<1>2. DOMAIN gs = DOMAIN fs /\ gs[n] = F /\ \A i \in DOMAIN fs : i # n => gs[i] = fs[i]
  BY <1>1 DEF Put
<1>3. gs \in Seq(FrameRec) /\ Len(gs) = n /\ gs # <<>>
  BY <1>1 DEF Put
<1> HIDE DEF gs, n
<1>4. \A i \in DOMAIN fs : i # n => gs[i].list # F.list
  BY <1>1, <1>2 DEF Distinct, n
<1>5. \A l : Fires(gs, l) <=> Fires(fs, l)
  BY <1>1, <1>2 DEF Fires, n
<1>6. Calls(gs, F.list) <=> F.entry # NoEntry
  BY <1>1, <1>2, <1>4 DEF Calls
<1>7. ASSUME NEW l, l # F.list PROVE Calls(gs, l) <=> Calls(fs, l)
  <2>1. fs[n].list # l
    BY <1>7 DEF n
  <2>2. QED
    BY <1>1, <1>2, <1>7, <2>1 DEF Calls
<1>8. Distinct(gs)
  <2>1. \A i \in DOMAIN fs : gs[i].list = fs[i].list
    BY <1>1, <1>2 DEF n
  <2>2. QED
    BY <1>2, <2>1 DEF Distinct
<1>9. QED
  BY <1>2, <1>3, <1>4, <1>5, <1>6, <1>7, <1>8 DEF gs, n

\* The innermost loop ends.
LEMMA PopFacts ==
  ASSUME NEW fs \in Seq(FrameRec), fs # <<>>, Distinct(fs)
  PROVE  LET gs == Front(fs)
         IN /\ gs \in Seq(FrameRec) /\ Len(gs) = Len(fs) - 1
            /\ \A i \in DOMAIN gs : i \in DOMAIN fs /\ gs[i] = fs[i]
            /\ \A l : Fires(gs, l) <=> Fires(fs, l) /\ l # fs[Len(fs)].list
            /\ \A l : Calls(gs, l) <=> Calls(fs, l) /\ l # fs[Len(fs)].list
            /\ Distinct(gs)
<1> DEFINE n == Len(fs)
           gs == Front(fs)
<1>1. n \in DOMAIN fs /\ n \in Nat /\ n # 0 /\ DOMAIN fs = 1..n
  BY TopFacts
<1>2. gs \in Seq(FrameRec) /\ Len(gs) = n - 1 /\ \A i \in 1..(n - 1) : gs[i] = fs[i]
  BY <1>1 DEF Front
<1>3. DOMAIN gs = 1..(n - 1)
  BY <1>1, <1>2
<1> HIDE DEF gs, n
<1>4. \A i \in DOMAIN gs : i \in DOMAIN fs /\ i # n /\ gs[i] = fs[i]
  BY <1>1, <1>2, <1>3
<1>5. \A i \in DOMAIN fs : i # n => i \in DOMAIN gs
  BY <1>1, <1>3
<1>6. \A i \in DOMAIN fs : i # n <=> fs[i].list # fs[n].list
  BY <1>1 DEF Distinct
<1>7. \A l : Fires(gs, l) <=> Fires(fs, l) /\ l # fs[n].list
  BY <1>4, <1>5, <1>6 DEF Fires
<1>8. \A l : Calls(gs, l) <=> Calls(fs, l) /\ l # fs[n].list
  BY <1>4, <1>5, <1>6 DEF Calls
<1>9. Distinct(gs)
  BY <1>4 DEF Distinct
<1>10. QED
  BY <1>2, <1>4, <1>7, <1>8, <1>9 DEF gs, n

-----------------------------------------------------------------------------
(* The lists and the loops keep going together.                             *)

\* What Well says of one list.
LEMMA WellTyped ==
  ASSUME NEW ls, NEW fs, Well(ls, fs), NEW l \in Lists
  PROVE  /\ ls[l] \in ListRec /\ fs \in Seq(FrameRec) /\ Loops(fs, l) \in {0, 1}
         /\ InCall(fs, l) \in {0, 1}
         /\ ListOK(l, ls[l], Loops(fs, l), InCall(fs, l))
BY DEF Well, ListOK, Loops, InCall

\* A step that changes the list l and its loop.
LEMMA WellUpdate ==
  ASSUME NEW ls, NEW fs, Well(ls, fs), NEW l \in Lists, NEW U, NEW gs \in Seq(FrameRec),
         Distinct(gs),
         ListOK(l, U, Loops(gs, l), InCall(gs, l)),
         \A k \in Lists : k # l =>
            (Fires(gs, k) <=> Fires(fs, k)) /\ (Calls(gs, k) <=> Calls(fs, k)),
         \A i \in DOMAIN gs :
            \/ gs[i].list = l /\ FrameOK(gs[i], U)
            \/ gs[i].list # l /\ \E j \in DOMAIN fs : gs[i] = fs[j]
  PROVE  Well(Put(ls, l, U), gs)
<1> DEFINE ms == Put(ls, l, U)
<1>1. DOMAIN ms = Lists /\ ms[l] = U /\ \A k \in Lists : k # l => ms[k] = ls[k]
  BY DEF Well, Put
<1> HIDE DEF ms
<1>2. ASSUME NEW k \in Lists PROVE ListOK(k, ms[k], Loops(gs, k), InCall(gs, k))
  <2>1. CASE k = l
    BY <1>1, <2>1
  <2>2. CASE k # l
    <3>1. Loops(gs, k) = Loops(fs, k) /\ InCall(gs, k) = InCall(fs, k) /\ ms[k] = ls[k]
      BY <1>1, <2>2 DEF Loops, InCall
    <3>2. QED
      BY <3>1 DEF Well
  <2>3. QED
    BY <2>1, <2>2
<1>3. ASSUME NEW i \in DOMAIN gs PROVE FrameOK(gs[i], ms[gs[i].list])
  <2>1. CASE gs[i].list = l /\ FrameOK(gs[i], U)
    BY <1>1, <2>1
  <2>2. CASE gs[i].list # l /\ \E j \in DOMAIN fs : gs[i] = fs[j]
    <3>1. PICK j \in DOMAIN fs : gs[i] = fs[j]
      BY <2>2
    <3>2. gs[i] \in FrameRec
      BY <1>1
    <3>3. gs[i].list \in Lists
      BY <3>2 DEF FrameRec
    <3>4. FrameOK(fs[j], ls[fs[j].list])
      BY DEF Well
    <3>5. QED
      BY <1>1, <2>2, <3>1, <3>3, <3>4
  <2>3. QED
    BY <2>1, <2>2
<1>4. QED
  BY <1>1, <1>2, <1>3 DEF Well, ms

\* A loop that begins has called nothing yet.
LEMMA FrameFacts ==
  ASSUME NEW l \in Lists, NEW v \in Val
  PROVE  /\ Frame(l, v) \in FrameRec /\ Frame(l, v).list = l /\ Frame(l, v).value = v
         /\ Frame(l, v).entry = NoEntry
BY DEF Frame, FrameRec

\* No function is the mark of a loop that calls none.
LEMMA NoEntryFacts == NoEntry \notin Entry /\ NoEntry[1] = "none" /\ \A e \in Entry : e[1] # "none"
BY DEF NoEntry, Entry, User, Settle, DisableList, LockList, Forward, Filter, PartDone

\* A step that changes no loop, and of the list l neither its value nor what
\* it called.
LEMMA WellSame ==
  ASSUME NEW ls, NEW fs, Well(ls, fs), NEW l \in Lists, NEW U,
         ListOK(l, U, Loops(fs, l), InCall(fs, l)),
         U.memory = ls[l].memory, U.log = ls[l].log
  PROVE  Well(Put(ls, l, U), fs)
<1>1. fs \in Seq(FrameRec) /\ Distinct(fs)
  BY DEF Well
<1>2. ASSUME NEW i \in DOMAIN fs
      PROVE  \/ fs[i].list = l /\ FrameOK(fs[i], U)
             \/ fs[i].list # l /\ \E j \in DOMAIN fs : fs[i] = fs[j]
  <2>1. FrameOK(fs[i], ls[fs[i].list])
    BY DEF Well
  <2>2. QED
    BY <2>1 DEF FrameOK
<1>3. QED
  BY <1>1, <1>2, WellUpdate

\* A step that begins a loop of the list l.
LEMMA WellPush ==
  ASSUME NEW ls, NEW fs, Well(ls, fs), NEW l \in Lists, NEW U, NEW v \in Val,
         Loops(fs, l) = 0, ListOK(l, U, 1, 0), U.memory = v
  PROVE  Well(Put(ls, l, U), Append(fs, Frame(l, v)))
<1> DEFINE F == Frame(l, v)
           gs == Append(fs, F)
<1>1. fs \in Seq(FrameRec) /\ Distinct(fs) /\ F \in FrameRec /\ F.list = l /\ F.value = v
      /\ F.entry = NoEntry /\ ~Fires(fs, l)
  BY FrameFacts DEF Well, Loops
<1> HIDE DEF F
<1>2. /\ gs \in Seq(FrameRec) /\ Distinct(gs)
      /\ \A i \in DOMAIN gs : gs[i] = F \/ (i \in DOMAIN fs /\ gs[i] = fs[i])
      /\ \A k : Fires(gs, k) <=> Fires(fs, k) \/ k = F.list
      /\ \A k : Calls(gs, k) <=> Calls(fs, k) \/ (k = F.list /\ F.entry # NoEntry)
  BY <1>1, PushFacts
<1> HIDE DEF gs
<1>3. Fires(gs, l) /\ ~Calls(gs, l) /\ \A k : k # l =>
            (Fires(gs, k) <=> Fires(fs, k)) /\ (Calls(gs, k) <=> Calls(fs, k))
  BY <1>1, <1>2 DEF Calls, Fires
<1>4. ListOK(l, U, Loops(gs, l), InCall(gs, l))
  BY <1>3 DEF Loops, InCall
<1>5. FrameOK(F, U)
  BY <1>1 DEF FrameOK
<1>6. ASSUME NEW i \in DOMAIN gs
      PROVE  \/ gs[i].list = l /\ FrameOK(gs[i], U)
             \/ gs[i].list # l /\ \E j \in DOMAIN fs : gs[i] = fs[j]
  BY <1>1, <1>2, <1>5 DEF Fires
<1>7. Well(Put(ls, l, U), gs)
  BY <1>2, <1>3, <1>4, <1>6, WellUpdate
<1>8. QED
  BY <1>7 DEF gs, F

\* A step of the innermost loop.
LEMMA WellSet ==
  ASSUME NEW ls, NEW fs, Well(ls, fs), fs # <<>>, NEW F \in FrameRec, NEW U,
         F.list = fs[Len(fs)].list, FrameOK(F, U),
         ListOK(F.list, U, 1, IF F.entry = NoEntry THEN 0 ELSE 1)
  PROVE  Well(Put(ls, F.list, U), Put(fs, Len(fs), F))
<1> DEFINE gs == Put(fs, Len(fs), F)
           l == F.list
<1>1. fs \in Seq(FrameRec) /\ Distinct(fs) /\ l \in Lists /\ Fires(fs, l) /\ Len(fs) \in DOMAIN fs
  BY TopFacts DEF Well, FrameRec
<1>2. /\ gs \in Seq(FrameRec) /\ Distinct(gs) /\ DOMAIN gs = DOMAIN fs /\ gs[Len(gs)] = F
      /\ Len(gs) = Len(fs)
      /\ \A i \in DOMAIN fs : i # Len(fs) => gs[i] = fs[i] /\ gs[i].list # F.list
      /\ \A k : Fires(gs, k) <=> Fires(fs, k)
      /\ Calls(gs, F.list) <=> F.entry # NoEntry
      /\ \A k : k # F.list => (Calls(gs, k) <=> Calls(fs, k))
  BY <1>1, SetFacts
<1> HIDE DEF gs
<1>3. ListOK(l, U, Loops(gs, l), InCall(gs, l))
  <2>1. Loops(gs, l) = 1
    BY <1>1, <1>2 DEF Loops
  <2>2. InCall(gs, l) = IF F.entry = NoEntry THEN 0 ELSE 1
    BY <1>2 DEF InCall
  <2>3. QED
    BY <2>1, <2>2
<1>4. ASSUME NEW i \in DOMAIN gs
      PROVE  \/ gs[i].list = l /\ FrameOK(gs[i], U)
             \/ gs[i].list # l /\ \E j \in DOMAIN fs : gs[i] = fs[j]
  BY <1>2
<1>5. \A k \in Lists : k # l => (Fires(gs, k) <=> Fires(fs, k)) /\ (Calls(gs, k) <=> Calls(fs, k))
  BY <1>2
<1> HIDE DEF l
<1>6. Well(Put(ls, l, U), gs)
  BY <1>1, <1>2, <1>3, <1>4, <1>5, WellUpdate
<1>7. QED
  BY <1>6 DEF gs, l

\* A step that ends the innermost loop.
LEMMA WellPop ==
  ASSUME NEW ls, NEW fs, Well(ls, fs), fs # <<>>, NEW l, l = fs[Len(fs)].list, NEW U,
         ListOK(l, U, 0, 0)
  PROVE  Well(Put(ls, l, U), Front(fs))
<1> DEFINE gs == Front(fs)
<1>1. fs \in Seq(FrameRec) /\ Distinct(fs) /\ l \in Lists
  BY TopFacts DEF Well, FrameRec
<1>2. /\ gs \in Seq(FrameRec) /\ Distinct(gs)
      /\ \A i \in DOMAIN gs : i \in DOMAIN fs /\ gs[i] = fs[i]
      /\ \A k : Fires(gs, k) <=> Fires(fs, k) /\ k # l
      /\ \A k : Calls(gs, k) <=> Calls(fs, k) /\ k # l
  BY <1>1, PopFacts
<1> HIDE DEF gs
<1>3. ListOK(l, U, Loops(gs, l), InCall(gs, l))
  BY <1>2 DEF Loops, InCall
<1>4. ASSUME NEW i \in DOMAIN gs
      PROVE  \/ gs[i].list = l /\ FrameOK(gs[i], U)
             \/ gs[i].list # l /\ \E j \in DOMAIN fs : gs[i] = fs[j]
  BY <1>2 DEF Fires
<1>5. \A k \in Lists : k # l => (Fires(gs, k) <=> Fires(fs, k)) /\ (Calls(gs, k) <=> Calls(fs, k))
  BY <1>2
<1>6. Well(Put(ls, l, U), gs)
  BY <1>1, <1>2, <1>3, <1>4, <1>5, WellUpdate
<1>7. QED
  BY <1>6 DEF gs

-----------------------------------------------------------------------------
(* What the steps do to what the deferreds see of a list.                   *)

Same(ls, fs, ms, gs, l) ==
    /\ ms[l].added = ls[l].added /\ ms[l].gone = ls[l].gone /\ ms[l].locked = ls[l].locked
    /\ ms[l].memory = Undefined <=> ls[l].memory = Undefined
    /\ RanIn(ms, gs, l) = RanIn(ls, fs, l)
Others(ls, fs, ms, gs, l) ==
    \A k \in Lists : k # l => ms[k] = ls[k] /\ Same(ls, fs, ms, gs, k)

\* A list that is replaced leaves the others as they were.
LEMMA OthersSame ==
  ASSUME NEW ls, NEW fs, NEW l \in Lists, NEW U, NEW gs, DOMAIN ls = Lists,
         \A k \in Lists : k # l => (Calls(gs, k) <=> Calls(fs, k))
  PROVE  Others(ls, fs, Put(ls, l, U), gs, l)
BY DEF Others, Same, RanIn, InCall, Put

\* The calls that have returned are a number.
LEMMA RanTyped ==
  ASSUME NEW ls, NEW fs, Well(ls, fs), NEW l \in Lists
  PROVE  RanIn(ls, fs, l) \in Int /\ Len(ls[l].log) \in Nat /\ Len(ls[l].added) \in Nat
<1>1. ls[l] \in ListRec /\ InCall(fs, l) \in {0, 1}
  BY WellTyped
<1>2. Len(ls[l].log) \in Nat /\ Len(ls[l].added) \in Nat
  BY <1>1 DEF ListRec
<1>3. QED
  BY <1>1, <1>2 DEF RanIn

\* The calls of a list against the functions added to it, f loops under way of
\* which c are calling: n called, r returned, d due and a added.
LEMMA Counts ==
  ASSUME NEW f \in {0, 1}, NEW c \in {0, 1}, NEW n \in Nat, NEW d \in Nat, NEW a \in Nat, NEW r,
         r = n - c, f = 0 => c = 0 /\ d = 0, c = 1 => n > 0, n + d = a
  PROVE  /\ r \in 0..a /\ (f = 0 => r = a) /\ (c = 1 => r + 1 = n /\ r + 1 \in 1..a)
         /\ n < a => r + 1 \in 1..a
OBVIOUS

\* A list fired once that is in no loop was not fired, or has called all.
LEMMA OnceRan ==
  ASSUME NEW ls, NEW fs, Well(ls, fs), NEW l \in Lists, Once(l)
  PROVE  /\ RanIn(ls, fs, l) \in 0..Len(ls[l].added)
         /\ ls[l].memory = Undefined => RanIn(ls, fs, l) = 0
         /\ Loops(fs, l) = 0 /\ ls[l].memory # Undefined => RanIn(ls, fs, l) = Len(ls[l].added)
         /\ InCall(fs, l) = 1 => RanIn(ls, fs, l) + 1 = Len(ls[l].log)
         /\ InCall(fs, l) = 1 \/ Len(ls[l].log) < Len(ls[l].added)
               => RanIn(ls, fs, l) + 1 \in 1..Len(ls[l].added)
<1> DEFINE L == ls[l]
           c == InCall(fs, l)
           f == Loops(fs, l)
<1>1. L \in ListRec /\ c \in {0, 1} /\ f \in {0, 1} /\ ListOK(l, L, f, c)
  BY WellTyped
<1>2. Len(L.log) \in Nat /\ Len(L.added) \in Nat /\ RanIn(ls, fs, l) = Len(L.log) - c
  BY RanTyped DEF RanIn
<1>3. OnceOK(L, f, c) /\ c <= f /\ (f = 0 => L.due = <<>>) /\ (f = 1 => L.memory \in Val)
  BY <1>1 DEF ListOK
<1>4. c = 1 => Len(L.log) > 0
  BY <1>1, <1>2, <1>3 DEF OnceOK, ListRec
<1>5. CASE L.memory = Undefined
  <2>1. c = 0 /\ f = 0
    BY <1>1, <1>3, <1>5, ValFacts
  <2>2. L.log = <<>>
    BY <1>3, <1>5 DEF OnceOK
  <2>3. Len(L.log) = 0
    BY <2>2
  <2>4. QED
    BY <1>2, <1>5, <2>1, <2>3
<1>6. CASE L.memory # Undefined
  <2>1. Logged(L.log, L.added, L.memory) /\ Remains(L.due, L.added, Len(L.log))
    BY <1>3, <1>6 DEF OnceOK
  <2>2. Len(L.log) <= Len(L.added) /\ Len(L.log) + Len(L.due) = Len(L.added)
    BY <2>1 DEF Remains, Logged
  <2>3. Len(L.due) \in Nat /\ (f = 0 => Len(L.due) = 0)
    BY <1>1, <1>3 DEF ListRec
  <2>4. (f = 0 => c = 0) /\ c \in {0, 1} /\ f \in {0, 1}
    BY <1>1, <1>3
  <2>5. f = Loops(fs, l) /\ c = InCall(fs, l) /\ L = ls[l]
    OBVIOUS
  <2> DEFINE r == RanIn(ls, fs, l)
             n == Len(L.log)
             d == Len(L.due)
             a == Len(L.added)
  <2>6. n \in Nat /\ d \in Nat /\ a \in Nat /\ n + d = a
    BY <1>2, <2>2, <2>3
  <2>7. r = n - c /\ (f = 0 => c = 0 /\ d = 0) /\ (c = 1 => n > 0)
    BY <1>2, <1>4, <2>3, <2>4
  <2> HIDE DEF L, f, c, r, n, d, a
  <2>8. /\ r \in 0..a /\ (f = 0 => r = a) /\ (c = 1 => r + 1 = n /\ r + 1 \in 1..a)
        /\ n < a => r + 1 \in 1..a
    BY <2>4, <2>6, <2>7, Counts
  <2>9. QED
    BY <1>6, <2>5, <2>8 DEF r, n, a
<1>7. QED
  BY <1>5, <1>6

\* The lists ms and loops gs after e is added to l, and after l is fired with v.
AddedTo(ls, fs, l, e, ms, gs) ==
    /\ ms = Put(ls, l, AddTo(l, ls[l], e))
    /\ gs = IF FiresAtOnce(ls[l]) THEN Append(fs, Frame(l, ls[l].memory)) ELSE fs
FiredWith(ls, fs, l, v, ms, gs) ==
    /\ ms = Put(ls, l, FireList(l, ls[l], v))
    /\ gs = IF Begins(l, ls[l]) THEN Append(fs, Frame(l, v)) ELSE fs

\* add keeps lists and loops together; it fires the new function at once
\* when the list was fired before, and then everything else was called.
LEMMA AddStep ==
  ASSUME DeferredConstants, NEW ls, NEW fs, Well(ls, fs), NEW l \in Lists, NEW e \in Entry,
         NEW ms, NEW gs, AddedTo(ls, fs, l, e, ms, gs)
  PROVE  /\ Well(ms, gs) /\ Others(ls, fs, ms, gs, l)
         /\ ms[l].memory = ls[l].memory /\ ms[l].gone = ls[l].gone /\ ms[l].locked = ls[l].locked
         /\ RanIn(ms, gs, l) = RanIn(ls, fs, l)
         /\ IF ls[l].gone THEN ms[l] = ls[l]
            ELSE ms[l].added = Append(ls[l].added, e) /\ ms[l].list = Append(ls[l].list, e)
         /\ FiresAtOnce(ls[l]) =>
               /\ ls[l].memory \in Val /\ ~ls[l].firing /\ ms[l].due = <<e>>
               /\ Once(l) => RanIn(ls, fs, l) = Len(ls[l].added)
<1> DEFINE L == ls[l]
           U == AddTo(l, L, e)
           F == Frame(l, L.memory)
           f == Loops(fs, l)
           c == InCall(fs, l)
<1>1. /\ L \in ListRec /\ fs \in Seq(FrameRec) /\ f \in {0, 1} /\ c \in {0, 1}
      /\ ListOK(l, L, f, c) /\ DOMAIN ls = Lists
  BY WellTyped DEF Well
<1>2. ms[l] = U
  <2>1. ms = Put(ls, l, U)
    BY DEF AddedTo
  <2>2. QED
    BY <1>1, <2>1 DEF Put
<1>0. ms = Put(ls, l, U) /\ gs = IF FiresAtOnce(L) THEN Append(fs, F) ELSE fs
  BY DEF AddedTo
<1> HIDE DEF L, U, f, c
<1>3. /\ ListOK(l, U, IF FiresAtOnce(L) THEN 1 ELSE f, c)
      /\ FiresAtOnce(L) => f = 0 /\ c = 0 /\ L.memory \in Val /\ U.due = <<e>>
      /\ U.memory = L.memory /\ U.log = L.log /\ U.locked = L.locked /\ U.gone = L.gone
      /\ IF L.gone THEN U = L
         ELSE U.added = Append(L.added, e) /\ U.list = Append(L.list, e)
  BY <1>1, AddToOK DEF U
<1>4. CASE FiresAtOnce(L)
  <2>1. gs = Append(fs, F) /\ F \in FrameRec /\ F.list = l /\ F.entry = NoEntry
    BY <1>0, <1>3, <1>4, FrameFacts
  <2>2. f = 0 /\ c = 0 /\ L.memory \in Val /\ ListOK(l, U, 1, 0) /\ U.memory = L.memory
    BY <1>3, <1>4
  <2>3. Well(ms, gs)
    BY <1>0, <2>1, <2>2, WellPush DEF f
  <2>4. \A k : Calls(gs, k) <=> Calls(fs, k)
    <3> HIDE DEF F
    <3>1. QED
      BY <1>1, <2>1, PushFacts
  <2>5. Others(ls, fs, ms, gs, l) /\ InCall(gs, l) = c
    BY <1>0, <1>1, <2>4, OthersSame DEF InCall, c
  <2>6. ~L.firing
    BY <1>4 DEF FiresAtOnce
  <2>7. Once(l) => RanIn(ls, fs, l) = Len(L.added)
    BY <2>2, OnceRan, ValFacts DEF f, L
  <2>8. RanIn(ms, gs, l) = RanIn(ls, fs, l)
    BY <1>2, <1>3, <2>5 DEF RanIn, L, c
  <2>9. QED
    BY <1>2, <1>3, <1>4, <2>2, <2>3, <2>5, <2>6, <2>7, <2>8 DEF L
<1>5. CASE ~FiresAtOnce(L)
  <2>1. gs = fs
    BY <1>0, <1>5
  <2>2. Well(ms, gs)
    BY <1>0, <1>3, <1>5, <2>1, WellSame DEF f, c, L
  <2>3. Others(ls, fs, ms, gs, l)
    BY <1>0, <1>1, <2>1, OthersSame
  <2>4. RanIn(ms, gs, l) = RanIn(ls, fs, l)
    BY <1>2, <1>3, <2>1 DEF RanIn, L
  <2>5. QED
    BY <1>2, <1>3, <1>5, <2>2, <2>3, <2>4 DEF L
<1>6. QED
  BY <1>4, <1>5

\* fireWith keeps lists and loops together, and begins a loop only in a list
\* that has had no value yet, if it is fired once.
LEMMA FireStep ==
  ASSUME DeferredConstants, NEW ls, NEW fs, Well(ls, fs), NEW l \in Lists, NEW v \in Val,
         NEW ms, NEW gs, FiredWith(ls, fs, l, v, ms, gs)
  PROVE  /\ Well(ms, gs) /\ Others(ls, fs, ms, gs, l)
         /\ ms[l].memory = IF Begins(l, ls[l]) THEN v ELSE ls[l].memory
         /\ ms[l].gone = ls[l].gone /\ ms[l].locked = ls[l].locked
         /\ ms[l].added = ls[l].added /\ ms[l].list = ls[l].list
         /\ RanIn(ms, gs, l) = RanIn(ls, fs, l)
         /\ Begins(l, ls[l]) =>
               /\ ~ls[l].gone /\ ~ls[l].locked /\ ~ls[l].firing
               /\ Once(l) => ls[l].memory = Undefined
<1> DEFINE L == ls[l]
           U == FireList(l, L, v)
           F == Frame(l, v)
           f == Loops(fs, l)
           c == InCall(fs, l)
<1>1. /\ L \in ListRec /\ fs \in Seq(FrameRec) /\ f \in {0, 1} /\ c \in {0, 1}
      /\ ListOK(l, L, f, c) /\ DOMAIN ls = Lists
  BY WellTyped DEF Well
<1>2. ms[l] = U
  <2>1. ms = Put(ls, l, U)
    BY DEF FiredWith
  <2>2. QED
    BY <1>1, <2>1 DEF Put
<1>0. ms = Put(ls, l, U) /\ gs = IF Begins(l, L) THEN Append(fs, F) ELSE fs
  BY DEF FiredWith
<1> HIDE DEF L, U, f, c
<1>3. /\ ListOK(l, U, IF Begins(l, L) THEN 1 ELSE f, c)
      /\ Begins(l, L) => f = 0 /\ c = 0 /\ ~L.gone /\ ~L.locked
      /\ U.memory = IF Begins(l, L) THEN v ELSE L.memory
      /\ U.log = L.log /\ U.added = L.added /\ U.list = L.list
      /\ U.gone = L.gone /\ U.locked = L.locked
  BY <1>1, FireListOK DEF U
<1>4. CASE Begins(l, L)
  <2>1. gs = Append(fs, F) /\ F \in FrameRec /\ F.list = l /\ F.entry = NoEntry
    BY <1>0, <1>4, FrameFacts
  <2>2. f = 0 /\ c = 0 /\ ListOK(l, U, 1, 0) /\ U.memory = v
    BY <1>3, <1>4
  <2>3. Well(ms, gs)
    BY <1>0, <2>1, <2>2, WellPush DEF f
  <2>4. \A k : Calls(gs, k) <=> Calls(fs, k)
    <3> HIDE DEF F
    <3>1. QED
      BY <1>1, <2>1, PushFacts
  <2>5. Others(ls, fs, ms, gs, l) /\ InCall(gs, l) = c
    BY <1>0, <1>1, <2>4, OthersSame DEF InCall, c
  <2>6. ~L.firing /\ (Once(l) => L.memory = Undefined)
    BY <1>4 DEF Begins, Once
  <2>8. RanIn(ms, gs, l) = RanIn(ls, fs, l)
    BY <1>2, <1>3, <2>5 DEF RanIn, L, c
  <2>9. QED
    BY <1>2, <1>3, <1>4, <2>2, <2>3, <2>5, <2>6, <2>8 DEF L
<1>5. CASE ~Begins(l, L)
  <2>1. gs = fs
    BY <1>0, <1>5
  <2>2. Well(ms, gs)
    BY <1>0, <1>3, <1>5, <2>1, WellSame DEF f, c, L
  <2>3. Others(ls, fs, ms, gs, l)
    BY <1>0, <1>1, <2>1, OthersSame
  <2>4. RanIn(ms, gs, l) = RanIn(ls, fs, l)
    BY <1>2, <1>3, <2>1 DEF RanIn, L
  <2>5. QED
    BY <1>2, <1>3, <1>5, <2>2, <2>3, <2>4 DEF L
<1>6. QED
  BY <1>4, <1>5

\* The list whose function e is called, and the list when it returns.
Called1(L, e, v) ==
    [L EXCEPT !.due = IF @ = <<>> THEN <<>> ELSE Tail(@), !.log = Append(@, <<e, v>>)]
NextOf(L) == L.list[L.index + 1]
Returned(L) == [L EXCEPT !.index = @ + 1]

\* The loop calls the next function: there is one, the first that is due.
LEMMA CallStep ==
  ASSUME NEW ls, NEW fs, Well(ls, fs), fs # <<>>, fs[Len(fs)].entry = NoEntry,
         NEW l, l = fs[Len(fs)].list, ls[l].index < ls[l].length,
         NEW ms, ms = Put(ls, l, Called1(ls[l], NextOf(ls[l]), fs[Len(fs)].value)),
         NEW gs, gs = Put(fs, Len(fs), Entered(fs[Len(fs)], NextOf(ls[l])))
  PROVE  /\ Well(ms, gs) /\ \A k \in Lists : Same(ls, fs, ms, gs, k)
         /\ \A k \in Lists : k # l => ms[k] = ls[k]
         /\ Len(gs) = Len(fs) /\ gs # <<>> /\ gs[Len(gs)].list = l
         /\ gs[Len(gs)].entry = NextOf(ls[l])
         /\ DOMAIN gs = DOMAIN fs /\ \A i \in DOMAIN fs : i # Len(fs) => gs[i] = fs[i]
         /\ ms[l].memory = ls[l].memory /\ ms[l].list = ls[l].list
         /\ ls[l].index < Len(ls[l].list)
         /\ NextOf(ls[l]) \in Entry /\ \E i \in DOMAIN ls[l].list : NextOf(ls[l]) = ls[l].list[i]
<1> DEFINE n == Len(fs)
           F == fs[n]
           L == ls[l]
           e == NextOf(L)
           U == [L EXCEPT !.due = IF @ = <<>> THEN <<>> ELSE Tail(@),
                          !.log = Append(@, <<e, F.value>>)]
           G == [F EXCEPT !.entry = e]
<1>1. /\ fs \in Seq(FrameRec) /\ Distinct(fs) /\ n \in DOMAIN fs /\ F \in FrameRec
      /\ l \in Lists /\ Fires(fs, l) /\ DOMAIN ls = Lists
  <2>1. fs \in Seq(FrameRec) /\ Distinct(fs) /\ DOMAIN ls = Lists
    BY DEF Well
  <2>2. n \in DOMAIN fs /\ F \in FrameRec /\ Fires(fs, l)
    BY <2>1, TopFacts
  <2>3. QED
    BY <2>1, <2>2 DEF FrameRec
<1>2. ~Calls(fs, l)
  BY <1>1 DEF Calls, Distinct
<1>3. L \in ListRec /\ ListOK(l, L, 1, 0) /\ FrameOK(F, L)
  <2>1. Loops(fs, l) = 1 /\ InCall(fs, l) = 0
    BY <1>1, <1>2 DEF Loops, InCall
  <2>2. FrameOK(F, ls[F.list])
    BY <1>1 DEF Well
  <2>3. QED
    BY <1>1, <2>1, <2>2, WellTyped
<1>4. F.value = L.memory
  BY <1>3 DEF FrameOK
<1>0. ms = Put(ls, l, U) /\ e = L.list[L.index + 1]
  BY DEF Called1, NextOf
<1>5. ms[l] = U
  BY <1>0, <1>1 DEF Put
<1>6. gs = Put(fs, n, G) /\ DOMAIN gs = DOMAIN fs
  BY <1>1 DEF Put, Entered
<1> HIDE DEF n, e
<1>7. /\ L.index < Len(L.list) /\ e \in Entry
      /\ ListOK(l, U, 1, 1)
      /\ Len(U.log) = Len(L.log) + 1 /\ U.log[Len(U.log)] = <<e, L.memory>>
      /\ Once(l) => Len(L.log) + 1 \in 1..Len(L.added) /\ e = L.added[Len(L.log) + 1]
      /\ U.memory = L.memory /\ U.added = L.added /\ U.list = L.list
      /\ U.gone = L.gone /\ U.locked = L.locked
  <2>1. L.index < L.length
    OBVIOUS
  <2> HIDE DEF L, F
  <2>2. U = [L EXCEPT !.due = IF @ = <<>> THEN <<>> ELSE Tail(@),
                      !.log = Append(@, <<e, L.memory>>)]
    BY <1>4
  <2> HIDE DEF U
  <2>3. QED
    BY <1>0, <1>1, <1>3, <2>1, <2>2, CallOK, ZenonT(60) DEF e, NextOf
<1>8. L.index + 1 \in DOMAIN L.list
  <2>1. L.list \in Seq(Entry) /\ L.index \in Nat /\ Len(L.list) \in Nat
    BY <1>3 DEF ListRec
  <2> HIDE DEF L
  <2>2. QED
    BY <1>7, <2>1
<1> HIDE DEF U, L, F
<1>9. G \in FrameRec /\ G.list = l /\ G.entry = e /\ G.value = F.value /\ e # NoEntry
  BY <1>1, <1>7, NoEntryFacts DEF FrameRec, F, n
<1>10. FrameOK(G, U)
  BY <1>4, <1>7, <1>9 DEF FrameOK
<1> HIDE DEF G
<1>11. Well(ms, gs)
  <2>1. ListOK(l, U, 1, IF G.entry = NoEntry THEN 0 ELSE 1) /\ G.list = fs[Len(fs)].list
    BY <1>7, <1>9
  <2>2. QED
    BY <1>6, <1>9, <1>10, <2>1, <1>0, WellSet DEF n
<1>12. /\ Len(gs) = n /\ gs[n] = G /\ gs # <<>>
       /\ \A i \in DOMAIN fs : i # n => gs[i] = fs[i]
       /\ Calls(gs, l) /\ \A k : k # l => (Calls(gs, k) <=> Calls(fs, k))
  <2>1. G.list = fs[Len(fs)].list /\ gs = Put(fs, Len(fs), G) /\ n = Len(fs)
    BY <1>6, <1>9 DEF n
  <2>2. /\ Len(gs) = n /\ gs[Len(gs)] = G /\ gs # <<>>
        /\ \A i \in DOMAIN fs : i # n => gs[i] = fs[i]
        /\ Calls(gs, G.list) <=> G.entry # NoEntry
        /\ \A k : k # G.list => (Calls(gs, k) <=> Calls(fs, k))
    BY <1>1, <1>9, <2>1, SetFacts
  <2>3. QED
    BY <1>9, <2>2
<1>13. Others(ls, fs, ms, gs, l)
  BY <1>0, <1>1, <1>12, OthersSame
<1>14. RanIn(ms, gs, l) = RanIn(ls, fs, l) /\ RanIn(ls, fs, l) = Len(L.log)
  <2>1. InCall(gs, l) = 1 /\ InCall(fs, l) = 0 /\ Len(L.log) \in Nat
    BY <1>1, <1>2, <1>12, RanTyped DEF InCall, L
  <2>2. QED
    BY <1>5, <1>7, <2>1, SMTT(60) DEF RanIn, L
<1>15. \A k \in Lists : Same(ls, fs, ms, gs, k)
  BY <1>5, <1>7, <1>13, <1>14, ZenonT(60) DEF Others, Same, L
<1>16. \E i \in DOMAIN L.list : e = L.list[i]
  BY <1>0, <1>8
<1>17. QED
  <2>1. \A k \in Lists : k # l => ms[k] = ls[k]
    BY <1>13 DEF Others
  <2>2. QED
    BY <1>5, <1>6, <1>7, <1>9, <1>11, <1>12, <1>15, <1>16, <2>1 DEF L, n, e

\* What the innermost loop is calling is one of the functions added.
LEMMA CallingFacts ==
  ASSUME NEW ls, NEW fs, Well(ls, fs), fs # <<>>, fs[Len(fs)].entry # NoEntry
  PROVE  LET l == fs[Len(fs)].list
         IN /\ l \in Lists /\ fs[Len(fs)].entry \in Entry /\ ls[l].memory \in Val
            /\ fs[Len(fs)].value = ls[l].memory /\ Fires(fs, l) /\ Calls(fs, l)
            /\ ls[l] \in ListRec /\ ListOK(l, ls[l], 1, 1)
            /\ RanIn(ls, fs, l) + 1 = Len(ls[l].log)
            /\ Once(l) => /\ RanIn(ls, fs, l) + 1 \in 1..Len(ls[l].added)
                          /\ fs[Len(fs)].entry = ls[l].added[RanIn(ls, fs, l) + 1]
<1> DEFINE n == Len(fs)
           F == fs[n]
           l == F.list
           L == ls[l]
<1>1. /\ fs \in Seq(FrameRec) /\ Distinct(fs) /\ n \in DOMAIN fs /\ F \in FrameRec
      /\ l \in Lists /\ Fires(fs, l) /\ DOMAIN ls = Lists
  <2>1. fs \in Seq(FrameRec) /\ Distinct(fs) /\ DOMAIN ls = Lists
    BY DEF Well
  <2>2. n \in DOMAIN fs /\ F \in FrameRec /\ Fires(fs, l)
    BY <2>1, TopFacts
  <2>3. QED
    BY <2>1, <2>2 DEF FrameRec
<1>2. Calls(fs, l)
  BY <1>1 DEF Calls
<1>3. L \in ListRec /\ ListOK(l, L, 1, 1) /\ FrameOK(F, L)
  <2>1. Loops(fs, l) = 1 /\ InCall(fs, l) = 1
    BY <1>1, <1>2 DEF Loops, InCall
  <2>2. FrameOK(F, ls[F.list])
    BY <1>1 DEF Well
  <2>3. QED
    BY <1>1, <2>1, <2>2, WellTyped
<1>4. F.value = L.memory /\ F.entry # NoEntry /\ (Once(l) => F.entry = L.log[Len(L.log)][1])
  BY <1>3 DEF FrameOK
<1>5. InCall(fs, l) = 1 /\ Len(L.log) \in Nat
  BY <1>1, <1>2, RanTyped DEF InCall
<1>6. RanIn(ls, fs, l) + 1 = Len(L.log)
  BY <1>5 DEF RanIn
<1>7. F.entry \in Entry /\ L.memory \in Val
  <2> HIDE DEF F
  <2>1. QED
    BY <1>1, <1>4 DEF FrameRec
<1> HIDE DEF L, l, F
<1>8. ASSUME Once(l)
      PROVE  RanIn(ls, fs, l) + 1 \in 1..Len(L.added) /\ F.entry = L.added[RanIn(ls, fs, l) + 1]
  <2>1. RanIn(ls, fs, l) + 1 \in 1..Len(L.added)
    BY <1>1, <1>5, <1>8, OnceRan DEF L
  <2>2. OnceOK(L, 1, 1) /\ L.memory \in Val
    BY <1>3, <1>8 DEF ListOK
  <2>3. Logged(L.log, L.added, L.memory)
    BY <2>2, ValFacts DEF OnceOK
  <2>4. L.log[Len(L.log)] = <<L.added[Len(L.log)], L.memory>>
    BY <1>6, <2>1, <2>3 DEF Logged
  <2>5. QED
    BY <1>4, <1>6, <1>8, <2>1, <2>4
<1>9. QED
  BY <1>1, <1>2, <1>3, <1>4, <1>6, <1>7, <1>8 DEF L, l, F, n

\* The function returns: one more of its list has run.
LEMMA ReturnStep ==
  ASSUME NEW ls, NEW fs, Well(ls, fs), fs # <<>>, fs[Len(fs)].entry # NoEntry,
         NEW l, l = fs[Len(fs)].list,
         NEW ms, ms = Put(ls, l, Returned(ls[l])),
         NEW gs, gs = Put(fs, Len(fs), Entered(fs[Len(fs)], NoEntry))
  PROVE  /\ Well(ms, gs) /\ Others(ls, fs, ms, gs, l) /\ l \in Lists
         /\ Len(gs) = Len(fs) /\ gs # <<>> /\ gs[Len(gs)].list = l
         /\ gs[Len(gs)].entry = NoEntry /\ gs[Len(gs)].value = fs[Len(fs)].value
         /\ DOMAIN gs = DOMAIN fs /\ \A i \in DOMAIN fs : i # Len(fs) => gs[i] = fs[i]
         /\ ms[l].memory = ls[l].memory /\ ms[l].list = ls[l].list
         /\ ms[l].added = ls[l].added /\ ms[l].gone = ls[l].gone /\ ms[l].locked = ls[l].locked
         /\ RanIn(ms, gs, l) = RanIn(ls, fs, l) + 1
         /\ fs[Len(fs)].value \in Val
<1> DEFINE n == Len(fs)
           F == fs[n]
           L == ls[l]
           U == [L EXCEPT !.index = @ + 1]
           G == [F EXCEPT !.entry = NoEntry]
<1>1. /\ fs \in Seq(FrameRec) /\ Distinct(fs) /\ n \in DOMAIN fs /\ F \in FrameRec
      /\ l \in Lists /\ Fires(fs, l) /\ DOMAIN ls = Lists
  <2>1. fs \in Seq(FrameRec) /\ Distinct(fs) /\ DOMAIN ls = Lists
    BY DEF Well
  <2>2. n \in DOMAIN fs /\ F \in FrameRec /\ Fires(fs, l)
    BY <2>1, TopFacts
  <2>3. QED
    BY <2>1, <2>2 DEF FrameRec
<1>2. /\ Calls(fs, l) /\ L \in ListRec /\ ListOK(l, L, 1, 1) /\ F.value = L.memory
      /\ F.entry # NoEntry /\ F.entry \in Entry /\ L.memory \in Val
      /\ RanIn(ls, fs, l) + 1 = Len(L.log)
      /\ Once(l) => /\ RanIn(ls, fs, l) + 1 \in 1..Len(L.added)
                    /\ F.entry = L.added[RanIn(ls, fs, l) + 1]
  BY CallingFacts
<1>5. ms[l] = U /\ ms = Put(ls, l, U)
  BY <1>1 DEF Returned, Put
<1>6. gs = Put(fs, n, G) /\ DOMAIN gs = DOMAIN fs
  BY <1>1 DEF Put, Entered
<1> HIDE DEF n
<1>7. /\ ListOK(l, U, 1, 0)
      /\ U.memory = L.memory /\ U.added = L.added /\ U.list = L.list /\ U.log = L.log
      /\ U.gone = L.gone /\ U.locked = L.locked
  <2> HIDE DEF L
  <2>1. QED
    BY <1>1, <1>2, ReturnOK
<1> HIDE DEF U, L
<1>8. /\ G \in FrameRec /\ G.list = l /\ G.entry = NoEntry /\ G.value = F.value
      /\ F.value \in Val /\ F.entry \in Entry /\ F.list = l
  <2>1. F.list = l
    BY DEF n
  <2> HIDE DEF F
  <2>2. QED
    BY <1>1, <1>2, <2>1 DEF FrameRec
<1>9. FrameOK(G, U)
  BY <1>2, <1>7, <1>8 DEF FrameOK
<1> HIDE DEF G, F
<1>10. Well(ms, gs)
  <2>1. ListOK(G.list, U, 1, IF G.entry = NoEntry THEN 0 ELSE 1) /\ G.list = fs[Len(fs)].list
    BY <1>7, <1>8
  <2>2. Well(Put(ls, G.list, U), Put(fs, Len(fs), G))
    BY <1>8, <1>9, <2>1, WellSet
  <2>3. QED
    BY <1>5, <1>6, <1>8, <2>2 DEF n
<1>11. /\ Len(gs) = n /\ gs[n] = G /\ gs # <<>>
       /\ \A i \in DOMAIN fs : i # n => gs[i] = fs[i]
       /\ \A k : Fires(gs, k) <=> Fires(fs, k)
       /\ ~Calls(gs, l) /\ \A k : k # l => (Calls(gs, k) <=> Calls(fs, k))
  <2>1. G.list = fs[Len(fs)].list /\ gs = Put(fs, Len(fs), G) /\ n = Len(fs)
    BY <1>6, <1>8 DEF n
  <2>2. /\ Len(gs) = n /\ gs[Len(gs)] = G /\ gs # <<>>
        /\ \A i \in DOMAIN fs : i # n => gs[i] = fs[i]
        /\ \A k : Fires(gs, k) <=> Fires(fs, k)
        /\ Calls(gs, G.list) <=> G.entry # NoEntry
        /\ \A k : k # G.list => (Calls(gs, k) <=> Calls(fs, k))
    BY <1>1, <1>8, <2>1, SetFacts
  <2>3. QED
    BY <1>8, <2>2
<1>12. Others(ls, fs, ms, gs, l)
  <2>1. \A k \in Lists : k # l => (Calls(gs, k) <=> Calls(fs, k))
    BY <1>11
  <2>2. Others(ls, fs, Put(ls, l, U), gs, l)
    BY <1>1, <2>1, OthersSame
  <2>3. QED
    BY <1>5, <2>2
<1>13. RanIn(ms, gs, l) = RanIn(ls, fs, l) + 1
  <2>1. InCall(gs, l) = 0 /\ Len(L.log) \in Nat
    BY <1>1, <1>11, RanTyped DEF InCall, L
  <2>2. QED
    BY <1>2, <1>5, <1>7, <2>1 DEF RanIn
<1>14. QED
  BY <1>1, <1>5, <1>6, <1>7, <1>8, <1>10, <1>11, <1>12, <1>13 DEF L, F, n

\* The list when its loop is over: fired again with a value that waits, or not.
Again(l, L) == ~L.gone /\ "once" \notin Flags[l] /\ L.stack # <<>>
Finished(l, L) ==
    LET M == [L EXCEPT !.firing = FALSE, !.broken = FALSE]
    IN IF Again(l, L)
       THEN FireList(l, [M EXCEPT !.memory = L.stack[1], !.stack = Tail(@)], L.stack[1])
       ELSE IF L.gone \/ "once" \notin Flags[l] THEN M
       ELSE IF L.memory = Halted THEN Disable(M)
       ELSE [M EXCEPT !.list = <<>>]

\* The loop ends, having called all that was added, or starts again with the
\* value that waited.
LEMMA FinishStep ==
  ASSUME DeferredConstants, NEW ls, NEW fs, Well(ls, fs), fs # <<>>,
         fs[Len(fs)].entry = NoEntry,
         NEW l, l = fs[Len(fs)].list, ~(ls[l].index < ls[l].length),
         NEW ms, ms = Put(ls, l, Finished(l, ls[l])),
         NEW gs, gs = IF Again(l, ls[l])
                      THEN Put(fs, Len(fs), Frame(l, ls[l].stack[1])) ELSE Front(fs)
  PROVE  /\ Well(ms, gs) /\ \A k \in Lists : Same(ls, fs, ms, gs, k)
         /\ \A k \in Lists : k # l => ms[k] = ls[k]
         /\ Len(gs) >= Len(fs) - 1
         /\ \A i \in DOMAIN gs : \/ i \in DOMAIN fs /\ gs[i] = fs[i]
                                \/ gs[i].entry = NoEntry
         /\ Again(l, ls[l]) => ~Once(l) /\ ~ls[l].locked
         /\ ~Again(l, ls[l]) => Len(gs) = Len(fs) - 1 /\ ~Fires(gs, l)
         /\ Once(l) => RanIn(ls, fs, l) = Len(ls[l].added)
         /\ ms[l].list = ls[l].list \/ ms[l].list = <<>>
<1> DEFINE n == Len(fs)
           F == fs[n]
           L == ls[l]
           M == [L EXCEPT !.firing = FALSE, !.broken = FALSE]
           again == ~L.gone /\ "once" \notin Flags[l] /\ L.stack # <<>>
           v == L.stack[1]
           N == [M EXCEPT !.memory = v, !.stack = Tail(@)]
           U == IF again THEN FireList(l, N, v)
                ELSE IF L.gone \/ "once" \notin Flags[l] THEN M
                ELSE IF L.memory = Halted THEN Disable(M)
                ELSE [M EXCEPT !.list = <<>>]
           G == Frame(l, v)
<1>1. /\ fs \in Seq(FrameRec) /\ Distinct(fs) /\ n \in DOMAIN fs /\ F \in FrameRec
      /\ l \in Lists /\ Fires(fs, l) /\ DOMAIN ls = Lists
  <2>1. fs \in Seq(FrameRec) /\ Distinct(fs) /\ DOMAIN ls = Lists
    BY DEF Well
  <2>2. n \in DOMAIN fs /\ F \in FrameRec /\ Fires(fs, l)
    BY <2>1, TopFacts
  <2>3. QED
    BY <2>1, <2>2 DEF FrameRec
<1>2. ~Calls(fs, l)
  BY <1>1 DEF Calls, Distinct
<1>3. Loops(fs, l) = 1 /\ InCall(fs, l) = 0
  BY <1>1, <1>2 DEF Loops, InCall
<1>4. L \in ListRec /\ ListOK(l, L, 1, 0) /\ ~(L.index < L.length)
  BY <1>1, <1>3, WellTyped
<1>0. again <=> Again(l, L)
  BY DEF Again
<1>7. /\ ms = Put(ls, l, U)
      /\ gs = IF again THEN Put(fs, n, G) ELSE Front(fs)
  <2>1. U = Finished(l, L)
    BY Zenon DEF Finished, Again
  <2> HIDE DEF U, G, again
  <2>2. QED
    BY <1>0, <2>1 DEF G
<1>5. ms[l] = U
  BY <1>1, <1>7 DEF Put
<1> HIDE DEF n, L, F
<1>6. /\ ListOK(l, U, IF again THEN 1 ELSE 0, 0)
      /\ again => v \in Val /\ U.memory = v /\ ~Once(l) /\ ~L.locked
      /\ ~again => U.memory = L.memory
      /\ L.memory \in Val
      /\ Once(l) => Len(L.log) = Len(L.added)
      /\ U.list = L.list \/ U.list = <<>>
      /\ U.log = L.log /\ U.added = L.added /\ U.gone = L.gone /\ U.locked = L.locked
  BY <1>1, <1>4, FinishOK
<1> HIDE DEF U, again, v, G
<1>9. RanIn(ls, fs, l) = Len(L.log) /\ (Once(l) => RanIn(ls, fs, l) = Len(L.added))
  <2>1. Len(L.log) \in Nat
    BY <1>1, RanTyped DEF L
  <2>2. RanIn(ls, fs, l) = Len(L.log)
    BY <1>3, <2>1 DEF RanIn, L
  <2>3. QED
    BY <1>6, <2>2
<1>10. ASSUME ~Calls(gs, l) /\ \A k : k # l => (Calls(gs, k) <=> Calls(fs, k))
       PROVE  /\ \A k \in Lists : Same(ls, fs, ms, gs, k)
              /\ \A k \in Lists : k # l => ms[k] = ls[k]
  <2>1. Others(ls, fs, ms, gs, l)
    <3>1. \A k \in Lists : k # l => (Calls(gs, k) <=> Calls(fs, k))
      BY <1>10
    <3>2. Others(ls, fs, Put(ls, l, U), gs, l)
      BY <1>1, <3>1, OthersSame
    <3>3. QED
      BY <1>7, <3>2
  <2>2. RanIn(ms, gs, l) = RanIn(ls, fs, l)
    BY <1>3, <1>5, <1>6, <1>10 DEF RanIn, InCall, L
  <2>3. U.memory # Undefined /\ L.memory # Undefined
    BY <1>6, ValFacts
  <2>4. Same(ls, fs, ms, gs, l)
    BY <1>5, <1>6, <2>2, <2>3 DEF Same, L
  <2>5. QED
    BY <2>1, <2>4 DEF Others
<1>11. CASE again
  <2>1. G \in FrameRec /\ G.list = l /\ G.entry = NoEntry /\ G.value = v
    BY <1>1, <1>6, <1>11, FrameFacts DEF G
  <2>2. gs = Put(fs, Len(fs), G) /\ G.list = fs[Len(fs)].list
    BY <1>7, <1>11, <2>1 DEF n
  <2>3. /\ Len(gs) = Len(fs) /\ gs[Len(gs)] = G /\ gs # <<>>
        /\ \A i \in DOMAIN fs : i # Len(fs) => gs[i] = fs[i]
        /\ Calls(gs, G.list) <=> G.entry # NoEntry
        /\ \A k : k # G.list => (Calls(gs, k) <=> Calls(fs, k))
    BY <1>1, <2>1, <2>2, SetFacts, SMTT(60)
  <2>4. FrameOK(G, U)
    BY <1>6, <1>11, <2>1 DEF FrameOK
  <2>5. Well(Put(ls, G.list, U), Put(fs, Len(fs), G))
    <3>1. ListOK(G.list, U, 1, IF G.entry = NoEntry THEN 0 ELSE 1)
      BY <1>6, <1>11, <2>1
    <3>2. QED
      BY <2>1, <2>2, <2>4, <3>1, WellSet
  <2>6. Well(ms, gs)
    BY <1>7, <2>1, <2>2, <2>5
  <2>7. ~Calls(gs, l) /\ \A k : k # l => (Calls(gs, k) <=> Calls(fs, k))
    BY <2>1, <2>3
  <2>8. DOMAIN gs = DOMAIN fs /\ Len(fs) \in Nat
    BY <1>1, <2>2 DEF Put
  <2>9. \A i \in DOMAIN gs : \/ i \in DOMAIN fs /\ gs[i] = fs[i]
                            \/ gs[i].entry = NoEntry
    BY <2>1, <2>3, <2>8
  <2>10. QED
    <3>1. Again(l, ls[l]) /\ Len(gs) >= Len(fs) - 1
      BY <1>0, <1>11, <2>3, <2>8, SMTT(60) DEF L
    <3>2. ms[l].list = ls[l].list \/ ms[l].list = <<>>
      BY <1>5, <1>6 DEF L
    <3>3. ~Once(l) /\ ~ls[l].locked
      BY <1>6, <1>11 DEF L
    <3>4. QED
      BY <1>10, <2>6, <2>7, <2>9, <3>1, <3>2, <3>3
<1>12. CASE ~again
  <2>1. gs = Front(fs) /\ ms = Put(ls, l, U) /\ ListOK(l, U, 0, 0)
    BY <1>6, <1>7, <1>12
  <2>2. Well(ms, gs)
    BY <1>1, <2>1, WellPop
  <2>3. /\ Len(gs) = Len(fs) - 1
        /\ \A i \in DOMAIN gs : i \in DOMAIN fs /\ gs[i] = fs[i]
        /\ \A k : Calls(gs, k) <=> Calls(fs, k) /\ k # l
        /\ ~Fires(gs, l) /\ Len(fs) \in Nat
    BY <1>1, <2>1, PopFacts
  <2>4. ~Calls(gs, l) /\ \A k : k # l => (Calls(gs, k) <=> Calls(fs, k))
    BY <2>3
  <2>5. QED
    <3>1. ~Again(l, ls[l]) /\ Len(gs) >= Len(fs) - 1
      BY <1>0, <1>12, <2>3, SMTT(60) DEF L
    <3>2. ms[l].list = ls[l].list \/ ms[l].list = <<>>
      BY <1>5, <1>6 DEF L
    <3>3. Once(l) => RanIn(ls, fs, l) = Len(ls[l].added)
      BY <1>9 DEF L
    <3>4. QED
      BY <1>10, <2>2, <2>3, <2>4, <3>1, <3>2, <3>3
<1>13. QED
  BY <1>11, <1>12

\* disable of a list that was never fired.
LEMMA DisableStep ==
  ASSUME NEW ls, NEW fs, Well(ls, fs), NEW l \in Lists, ls[l].memory = Undefined,
         NEW ms, ms = Put(ls, l, Disable(ls[l]))
  PROVE  /\ Well(ms, fs) /\ Others(ls, fs, ms, fs, l)
         /\ ms[l].memory = ls[l].memory /\ ms[l].gone /\ ms[l].locked
         /\ ms[l].added = ls[l].added /\ RanIn(ms, fs, l) = RanIn(ls, fs, l)
         /\ ms[l].list = <<>>
<1> DEFINE U == Disable(ls[l])
<1>1. DOMAIN ls = Lists
  BY DEF Well
<1>2. ms[l] = U /\ ms = Put(ls, l, U)
  BY <1>1 DEF Put
<1> HIDE DEF U
<1>3. /\ ListOK(l, U, Loops(fs, l), InCall(fs, l))
      /\ U.memory = ls[l].memory /\ U.log = ls[l].log /\ U.added = ls[l].added
      /\ U.list = <<>> /\ U.gone /\ U.locked
  BY WellTyped, DisableOK DEF U
<1>4. Well(ms, fs)
  BY <1>2, <1>3, WellSame
<1>5. Others(ls, fs, ms, fs, l)
  BY <1>1, <1>2, OthersSame
<1>6. RanIn(ms, fs, l) = RanIn(ls, fs, l)
  BY <1>2, <1>3 DEF RanIn
<1>7. QED
  BY <1>2, <1>3, <1>4, <1>5, <1>6

\* lock of a list of progress.
LEMMA LockStep ==
  ASSUME NEW ls, NEW fs, Well(ls, fs), NEW l \in Lists, ~Once(l),
         NEW ms, ms = Put(ls, l, Lock(ls[l]))
  PROVE  /\ Well(ms, fs) /\ Others(ls, fs, ms, fs, l)
         /\ ms[l].memory = ls[l].memory /\ ms[l].locked
         /\ (ls[l].gone => ms[l].gone)
         /\ ms[l].added = ls[l].added /\ RanIn(ms, fs, l) = RanIn(ls, fs, l)
         /\ ms[l].list = ls[l].list \/ ms[l].list = <<>>
<1> DEFINE U == Lock(ls[l])
<1>1. DOMAIN ls = Lists
  BY DEF Well
<1>2. ms[l] = U /\ ms = Put(ls, l, U)
  BY <1>1 DEF Put
<1>8. ls[l].gone => U.gone
  <2>1. ls[l] \in ListRec
    BY WellTyped
  <2>2. QED
    BY <2>1 DEF ListRec, Lock, Disable
<1> HIDE DEF U
<1>3. /\ ListOK(l, U, Loops(fs, l), InCall(fs, l))
      /\ U.memory = ls[l].memory /\ U.log = ls[l].log /\ U.added = ls[l].added
      /\ U.list = ls[l].list \/ U.list = <<>>
      /\ U.locked
  BY WellTyped, LockOK DEF U
<1>4. Well(ms, fs)
  BY <1>2, <1>3, WellSame
<1>5. Others(ls, fs, ms, fs, l)
  BY <1>1, <1>2, OthersSame
<1>6. RanIn(ms, fs, l) = RanIn(ls, fs, l)
  BY <1>2, <1>3 DEF RanIn
<1>7. QED
  BY <1>2, <1>3, <1>4, <1>5, <1>6, <1>8

-----------------------------------------------------------------------------
(* The functions in the lists of a deferred.                                *)

\* What a function is can be told from its first component.
LEMMA EntryKinds ==
  /\ \A f : User(f)[1] = "user" /\ PartDone[1] = "part"
  /\ \A x : /\ Settle(x)[1] = "settle" /\ DisableList(x)[1] = "disable" /\ LockList(x)[1] = "lock"
            /\ Forward(x)[1] = "forward" /\ Filter(x)[1] = "filter"
            /\ Settle(x)[2] = x /\ DisableList(x)[2] = x /\ LockList(x)[2] = x
            /\ Forward(x)[2] = x /\ Filter(x)[2] = x
BY DEF User, PartDone, Settle, DisableList, LockList, Forward, Filter

\* The functions that are added later are those of the program, of when and
\* of pipe.
LEMMA LaterFacts ==
  ASSUME DeferredConstants, NEW l \in Lists, NEW e, Later(l, e)
  PROVE  e \in Entry /\ e[1] \in {"user", "part", "forward", "filter"}
<1>1. /\ l[1] \in Deferreds /\ l[2] \in Kinds /\ All \in Deferreds /\ Piped \in Deferreds
      /\ "done" \in Kinds
  BY FlagFacts DEF Deferreds, Kinds
<1>2. <<All, l[2]>> \in Lists /\ <<Piped, l[2]>> \in Lists /\ <<Piped, "done">> \in Lists
  BY <1>1, ListFacts
<1>3. \/ \E f \in Fn : e = User(f)
      \/ e = PartDone \/ e = Forward(<<All, l[2]>>) \/ e = Filter(<<Piped, "done">>)
      \/ e = Forward(<<Piped, l[2]>>)
  BY DEF Later, LaterIn
<1>4. e \in Entry
  BY <1>2, <1>3 DEF Entry
<1>5. e[1] \in {"user", "part", "forward", "filter"}
  BY <1>3, EntryKinds
<1>6. QED
  BY <1>4, <1>5

\* The functions a deferred adds to its own lists first.
LEMMA OwnFacts ==
  ASSUME DeferredConstants, NEW l \in Lists
  PROVE  /\ ~Once(l) => l[2] = "progress" /\ Own(l) = <<>> /\ Len(Own(l)) = 0
         /\ Once(l) => /\ l[2] \in Ends /\ Len(Own(l)) = 3
                       /\ Own(l)[1] = Settle(Outcome(l[2]))
                       /\ Own(l)[2] = DisableList(<<l[1], Other(l[2])>>)
                       /\ Own(l)[3] = LockList(<<l[1], "progress">>)
         /\ Own(l) \in Seq(Entry)
<1>1. l[1] \in Deferreds /\ l[2] \in Kinds /\ (Once(l) <=> l[2] # "progress")
  BY FlagFacts
<1>2. <<l[1], "done">> \in Lists /\ <<l[1], "fail">> \in Lists /\ <<l[1], "progress">> \in Lists
  BY <1>1, ListFacts DEF Kinds
<1>3. /\ DisableList(<<l[1], "done">>) \in Entry /\ DisableList(<<l[1], "fail">>) \in Entry
      /\ LockList(<<l[1], "progress">>) \in Entry
      /\ Settle("resolved") \in Entry /\ Settle("rejected") \in Entry
  BY <1>2 DEF Entry, Outcomes
<1>4. CASE l[2] = "progress"
  BY <1>1, <1>4 DEF Own, NewDeferred
<1>5. CASE l[2] = "done"
  <2>1. Own(l) = <<Settle("resolved"), DisableList(<<l[1], "fail">>), LockList(<<l[1], "progress">>)>>
    BY <1>5 DEF Own, NewDeferred
  <2>2. QED
    BY <1>1, <1>3, <1>5, <2>1 DEF Ends, Outcome, Other
<1>6. CASE l[2] = "fail"
  <2>1. Own(l) = <<Settle("rejected"), DisableList(<<l[1], "done">>), LockList(<<l[1], "progress">>)>>
    BY <1>6 DEF Own, NewDeferred
  <2>2. QED
    BY <1>1, <1>3, <1>6, <2>1 DEF Ends, Outcome, Other
<1>7. QED
  BY <1>1, <1>4, <1>5, <1>6 DEF Kinds

\* The functions of a list fired once: three of its deferred, then later ones.
LEMMA AddedFacts ==
  ASSUME DeferredConstants, WellInv, Contents, NEW l \in Lists, Once(l)
  PROVE  LET a == lists[l].added
         IN /\ a \in Seq(Entry) /\ Len(a) \in Nat /\ Len(a) > 2 /\ l[2] \in Ends
            /\ a[1] = Settle(Outcome(l[2])) /\ a[2] = DisableList(<<l[1], Other(l[2])>>)
            /\ a[3] = LockList(<<l[1], "progress">>)
            /\ \A i \in DOMAIN a : i > 2 => i = 3 \/ Later(l, a[i])
            /\ \A i \in DOMAIN a : i = 1 \/ i = 2 \/ i = 3 \/ Later(l, a[i])
            /\ Ran(l) \in 0..Len(a)
<1> DEFINE a == lists[l].added
<1>1. a \in Seq(Entry) /\ Ran(l) \in 0..Len(a)
  BY WellTyped, OnceRan DEF WellInv, Ran, ListRec
<1>2. /\ Len(Own(l)) <= Len(a)
      /\ \A i \in DOMAIN a : IF i <= Len(Own(l)) THEN a[i] = Own(l)[i] ELSE Later(l, a[i])
  BY DEF Contents
<1>3. /\ l[2] \in Ends /\ Len(Own(l)) = 3
      /\ Own(l)[1] = Settle(Outcome(l[2]))
      /\ Own(l)[2] = DisableList(<<l[1], Other(l[2])>>)
      /\ Own(l)[3] = LockList(<<l[1], "progress">>)
  BY OwnFacts
<1> HIDE DEF a
<1>4. Len(a) \in Nat /\ Len(a) > 2 /\ DOMAIN a = 1..Len(a)
  BY <1>1, <1>2, <1>3
<1>5. 1 \in DOMAIN a /\ 2 \in DOMAIN a /\ 3 \in DOMAIN a
  BY <1>4
<1>6. a[1] = Own(l)[1] /\ a[2] = Own(l)[2] /\ a[3] = Own(l)[3]
  BY <1>2, <1>3, <1>5
<1>7. ASSUME NEW i \in DOMAIN a PROVE i = 1 \/ i = 2 \/ i = 3 \/ Later(l, a[i])
  <2>1. CASE i <= 3
    BY <1>4, <2>1
  <2>2. CASE ~(i <= 3)
    BY <1>2, <1>3, <2>2
  <2>3. QED
    BY <2>1, <2>2
<1>8. QED
  BY <1>1, <1>3, <1>4, <1>6, <1>7 DEF a

\* What a list fired once calls next, or is calling: first its own.
LEMMA NextEntry ==
  ASSUME DeferredConstants, WellInv, Contents, NEW l \in Lists, Once(l), Ran(l) < Len(lists[l].added)
  PROVE  LET e == lists[l].added[Ran(l) + 1]
         IN /\ Ran(l) = 0 => e = Settle(Outcome(l[2]))
            /\ Ran(l) = 1 => e = DisableList(<<l[1], Other(l[2])>>)
            /\ Ran(l) = 2 => e = LockList(<<l[1], "progress">>)
            /\ Ran(l) > 2 => Later(l, e)
            /\ Ran(l) \in Nat /\ Ran(l) + 1 \in DOMAIN lists[l].added
<1> DEFINE a == lists[l].added
<1>1. /\ a \in Seq(Entry) /\ Len(a) \in Nat
      /\ a[1] = Settle(Outcome(l[2])) /\ a[2] = DisableList(<<l[1], Other(l[2])>>)
      /\ a[3] = LockList(<<l[1], "progress">>)
      /\ \A i \in DOMAIN a : i = 1 \/ i = 2 \/ i = 3 \/ Later(l, a[i])
      /\ Ran(l) \in 0..Len(a)
  BY AddedFacts
<1> HIDE DEF a
<1>2. Ran(l) \in Nat /\ Ran(l) + 1 \in DOMAIN a
  BY <1>1 DEF a
<1>3. ASSUME Ran(l) > 2 PROVE Later(l, a[Ran(l) + 1])
  <2>1. Ran(l) + 1 # 1 /\ Ran(l) + 1 # 2 /\ Ran(l) + 1 # 3
    BY <1>2, <1>3
  <2>2. QED
    BY <1>1, <1>2, <2>1
<1>4. QED
  BY <1>1, <1>2, <1>3 DEF a

\* What the innermost loop is calling.
LEMMA TopEntry ==
  ASSUME DeferredConstants, WellInv, Contents, Calling
  PROVE  LET l == Top.list
             e == Top.entry
         IN /\ l \in Lists /\ e \in Entry /\ e # NoEntry /\ frames # <<>>
            /\ Once(l) => /\ e = lists[l].added[Ran(l) + 1] /\ Ran(l) < Len(lists[l].added)
                          /\ Ran(l) + 1 \in DOMAIN lists[l].added /\ Begun(l)
                          /\ Ran(l) = 0 <=> e[1] = "settle"
                          /\ Ran(l) = 1 <=> e[1] = "disable"
                          /\ Ran(l) = 2 <=> e[1] = "lock"
                          /\ Ran(l) = 0 => e = Settle(Outcome(l[2]))
                          /\ Ran(l) = 1 => e = DisableList(<<l[1], Other(l[2])>>)
                          /\ Ran(l) = 2 => e = LockList(<<l[1], "progress">>)
                          /\ Ran(l) > 2 <=> Later(l, e)
            /\ ~Once(l) => Later(l, e)
            /\ Later(l, e) <=> e[1] \in {"user", "part", "forward", "filter"}
<1> DEFINE l == Top.list
           e == Top.entry
<1>1. /\ l \in Lists /\ e \in Entry /\ e # NoEntry /\ frames # <<>> /\ lists[l].memory \in Val
      /\ Once(l) => Ran(l) + 1 \in 1..Len(lists[l].added) /\ e = lists[l].added[Ran(l) + 1]
  <2>1. Well(lists, frames) /\ frames # <<>> /\ frames[Len(frames)].entry # NoEntry
        /\ l = frames[Len(frames)].list /\ e = frames[Len(frames)].entry
    BY DEF WellInv, Calling, Top
  <2> HIDE DEF l, e
  <2>2. /\ l \in Lists /\ e \in Entry /\ lists[l].memory = frames[Len(frames)].value
        /\ frames[Len(frames)].value \in Val
        /\ Once(l) => /\ RanIn(lists, frames, l) + 1 \in 1..Len(lists[l].added)
                      /\ e = lists[l].added[RanIn(lists, frames, l) + 1]
    BY <2>1, CallingFacts
  <2>3. QED
    BY <2>1, <2>2 DEF Ran
<1>2. ASSUME Once(l) PROVE Ran(l) \in Nat /\ Ran(l) < Len(lists[l].added)
  <2>1. Len(lists[l].added) \in Nat /\ Ran(l) \in 0..Len(lists[l].added)
    BY <1>1, <1>2, AddedFacts
  <2>2. QED
    BY <1>1, <1>2, <2>1
<1>3. ASSUME Once(l)
      PROVE  /\ Ran(l) = 0 => e = Settle(Outcome(l[2]))
             /\ Ran(l) = 1 => e = DisableList(<<l[1], Other(l[2])>>)
             /\ Ran(l) = 2 => e = LockList(<<l[1], "progress">>)
             /\ Ran(l) > 2 => Later(l, e)
             /\ Ran(l) \in Nat /\ Ran(l) + 1 \in DOMAIN lists[l].added
  <2> HIDE DEF l
  <2>1. QED
    BY <1>1, <1>2, <1>3, NextEntry
<1>4. ASSUME ~Once(l) PROVE Later(l, e)
  <2>1. frames \in Seq(FrameRec)
    BY DEF WellInv, Well
  <2>2. Len(frames) \in DOMAIN frames
    BY <1>1, <2>1, TopFacts
  <2>3. QED
    BY <1>1, <1>4, <2>2 DEF Contents, Top
<1> HIDE DEF l, e
<1>5. Later(l, e) => e[1] \in {"user", "part", "forward", "filter"}
  BY <1>1, LaterFacts
<1>6. Begun(l)
  BY <1>1, ValFacts DEF Begun
<1>7. CASE Once(l)
  <2>1. Ran(l) = 0 \/ Ran(l) = 1 \/ Ran(l) = 2 \/ Ran(l) > 2
    BY <1>3, <1>7
  <2>2. /\ Ran(l) = 0 => e[1] = "settle"
        /\ Ran(l) = 1 => e[1] = "disable"
        /\ Ran(l) = 2 => e[1] = "lock"
        /\ Ran(l) > 2 => e[1] \in {"user", "part", "forward", "filter"}
    BY <1>3, <1>5, <1>7, EntryKinds
  <2>3. QED
    BY <1>1, <1>2, <1>3, <1>5, <1>6, <1>7, <2>1, <2>2 DEF l, e
<1>8. CASE ~Once(l)
  BY <1>1, <1>4, <1>5, <1>8 DEF l, e
<1>9. QED
  BY <1>7, <1>8

\* While a deferred settles, its functions are all that happens.
LEMMA NoneSettling ==
  ASSUME DeferredConstants, WellInv, Contents, Phases
  PROVE  /\ ~Idle \/ frames = <<>> => Settled
         /\ Calling /\ Later(Top.list, Top.entry) => Settled
         /\ frames # <<>> /\ Once(Top.list) /\ Ran(Top.list) > 2 => Settled
         /\ \A l \in Lists : Once(l) /\ Begun(l) /\ Ran(l) < 3 => frames # <<>> /\ Top.list = l /\ Idle
<1>1. ASSUME NEW l \in Lists, Once(l), Begun(l), Ran(l) < 3
      PROVE  frames # <<>> /\ Top.list = l /\ Idle
  <2>1. l = <<l[1], l[2]>> /\ l[1] \in Deferreds /\ l[2] \in Ends
    BY <1>1, FlagFacts, OwnFacts
  <2>2. Phase(l[1], l[2])
    BY <2>1 DEF Phases
  <2>3. QED
    BY <1>1, <2>1, <2>2 DEF Phase
<1>2. ASSUME NEW l \in Lists, Once(l) PROVE Ran(l) \in Nat
  <2>1. Ran(l) \in 0..Len(lists[l].added) /\ Len(lists[l].added) \in Nat
    BY <1>2, AddedFacts
  <2>2. QED
    BY <2>1
<1>3. \A l \in Lists : Once(l) => (Ran(l) > 2 <=> ~(Ran(l) < 3))
  BY <1>2
<1>4. ~Idle \/ frames = <<>> => Settled
  BY <1>1, <1>3 DEF Settled
<1>5. frames # <<>> /\ Once(Top.list) /\ Ran(Top.list) > 2 => Settled
  BY <1>1, <1>3 DEF Settled
<1>6. ASSUME Calling, Later(Top.list, Top.entry) PROVE Settled
  <2>1. Once(Top.list) => Ran(Top.list) > 2
    BY <1>6, TopEntry
  <2>2. QED
    BY <1>1, <1>3, <2>1 DEF Settled
<1>7. QED
  BY <1>1, <1>4, <1>5, <1>6

-----------------------------------------------------------------------------
(* A deferred settles once.                                                 *)

\* What Phases says of a list whose deferred has settled.
LEMMA SettledFacts ==
  ASSUME DeferredConstants, Phases, NEW l \in Lists, Once(l), Begun(l), Ran(l) > 2,
         Ran(l) \in Nat
  PROVE  /\ ~Begun(<<l[1], Other(l[2])>>) /\ state[l[1]] = Outcome(l[2])
         /\ lists[<<l[1], Other(l[2])>>].gone /\ lists[<<l[1], "progress">>].locked
<1>1. l = <<l[1], l[2]>> /\ l[1] \in Deferreds /\ l[2] \in Ends
  BY FlagFacts, OwnFacts
<1>2. Phase(l[1], l[2])
  BY <1>1 DEF Phases
<1>3. Ran(l) > 0 /\ Ran(l) > 1
  OBVIOUS
<1>4. QED
  BY <1>1, <1>2, <1>3 DEF Phase

\* The lists of the two outcomes of a deferred.
LEMMA EndFacts ==
  ASSUME DeferredConstants, NEW d \in Deferreds, NEW k \in Ends
  PROVE  /\ <<d, k>> \in Lists /\ <<d, Other(k)>> \in Lists /\ <<d, "progress">> \in Lists
         /\ Once(<<d, k>>) /\ Once(<<d, Other(k)>>) /\ ~Once(<<d, "progress">>)
         /\ Other(Other(k)) = k /\ Other(k) \in Ends /\ <<d, Other(k)>> # <<d, k>>
         /\ Outcome(k) \in Outcomes
         /\ <<d, k>>[1] = d /\ <<d, k>>[2] = k
         /\ <<d, Other(k)>>[1] = d /\ <<d, Other(k)>>[2] = Other(k)
<1>1. /\ k \in Kinds /\ Other(k) \in Kinds /\ "progress" \in Kinds
      /\ k # "progress" /\ Other(k) # "progress" /\ Other(k) # k /\ Other(k) \in Ends
      /\ Other(Other(k)) = k /\ Outcome(k) \in Outcomes
  BY DEF Kinds, Other, Ends, Outcome, Outcomes
<1>2. <<d, k>> \in Lists /\ <<d, Other(k)>> \in Lists /\ <<d, "progress">> \in Lists
  BY <1>1, ListFacts
<1>3. Once(<<d, k>>) /\ Once(<<d, Other(k)>>) /\ ~Once(<<d, "progress">>)
  BY <1>1, <1>2, FlagFacts
<1>4. QED
  BY <1>1, <1>2, <1>3

\* A step that settles nothing, when none settles: it may begin to.
LEMMA PhasesStay ==
  ASSUME DeferredConstants, WellInv, Contents, Phases, Settled,
         \A l \in Lists : /\ Once(l) => (lists'[l].gone <=> lists[l].gone)
                          /\ lists[l].locked => lists'[l].locked,
         \A l \in Lists : Once(l) /\ Begun(l) => Begun(l)' /\ Ran(l)' > 2 /\ Ran(l)' \in Nat,
         \A l \in Lists : Once(l) /\ ~Begun(l) /\ Begun(l)' =>
            /\ ~lists[l].gone /\ Ran(l)' = 0
            /\ frames' # <<>> /\ Top'.list = l /\ Idle',
         \A d \in Deferreds :
            \/ state'[d] = state[d]
            \/ state[d] \in {"unmade", "pending"} /\ state'[d] \in {"unmade", "pending"}
  PROVE  Phases'
<1>1. ASSUME NEW d \in Deferreds, NEW k \in Ends PROVE Phase(d, k)'
  <2> DEFINE l == <<d, k>>
             o == <<d, Other(k)>>
             p == <<d, "progress">>
  <2>1. /\ l \in Lists /\ o \in Lists /\ p \in Lists /\ Once(l) /\ Once(o) /\ Other(k) \in Ends
        /\ o # l /\ Other(Other(k)) = k /\ l[1] = d /\ l[2] = k /\ o[1] = d /\ o[2] = Other(k)
        /\ Outcome(k) \in Outcomes
    BY EndFacts
  <2>2. Ran(l) \in Nat /\ Ran(o) \in Nat
    <3>1. Ran(l) \in 0..Len(lists[l].added) /\ Len(lists[l].added) \in Nat
      BY <2>1, AddedFacts
    <3>2. Ran(o) \in 0..Len(lists[o].added) /\ Len(lists[o].added) \in Nat
      BY <2>1, AddedFacts
    <3>3. QED
      BY <3>1, <3>2
  <2>3. Begun(o) => lists[l].gone /\ ~Begun(l)
    <3>1. Begun(o) => Ran(o) > 2
      BY <2>1 DEF Settled
    <3>2. QED
      BY <2>1, <2>2, <3>1, SettledFacts
  <2>4. CASE Begun(l)
    <3>1. Ran(l) > 2
      BY <2>1, <2>4 DEF Settled
    <3>2. ~Begun(o) /\ state[d] = Outcome(k) /\ lists[o].gone /\ lists[p].locked
      BY <2>1, <2>2, <2>4, <3>1, SettledFacts
    <3>3. Begun(l)' /\ Ran(l)' > 2 /\ Ran(l)' \in Nat /\ ~Begun(o)'
      BY <2>1, <2>4, <3>2
    <3>4. state'[d] = Outcome(k) /\ lists'[o].gone /\ lists'[p].locked
      BY <2>1, <3>2 DEF Outcomes
    <3>5. Ran(l)' # 0 /\ Ran(l)' > 1 /\ Ran(l)' > 0 /\ ~(Ran(l)' < 3)
      BY <3>3
    <3>6. QED
      BY <3>3, <3>4, <3>5 DEF Phase
  <2>5. CASE ~Begun(l) /\ Begun(l)'
    <3>1. /\ ~lists[l].gone /\ Ran(l)' = 0 /\ frames' # <<>> /\ Top'.list = l /\ Idle'
      BY <2>1, <2>5
    <3>2. ~Begun(o)
      BY <2>3, <3>1
    <3>3. ~Begun(o)'
      BY <2>1, <3>1, <3>2
    <3>4. Open(d)
      BY <2>5, <3>2 DEF Open, Other, Ends
    <3>5. state[d] \in {"unmade", "pending"} /\ ~lists[o].gone
      BY <3>4 DEF Phases, Other, Ends
    <3>6. state'[d] \in {"unmade", "pending"} /\ ~lists'[o].gone
      BY <2>1, <3>5
    <3>7. ~(Ran(l)' > 0) /\ ~(Ran(l)' > 1) /\ ~(Ran(l)' > 2)
      BY <3>1
    <3>8. QED
      BY <3>1, <3>3, <3>6, <3>7 DEF Phase
  <2>6. CASE ~Begun(l)'
    BY <2>6 DEF Phase
  <2>7. QED
    BY <2>4, <2>5, <2>6
<1>2. ASSUME NEW d \in Deferreds, Open(d)'
      PROVE  /\ state'[d] \in {"unmade", "pending"}
             /\ ~lists'[<<d, "done">>].gone /\ ~lists'[<<d, "fail">>].gone
  <2>1. /\ <<d, "done">> \in Lists /\ <<d, "fail">> \in Lists
        /\ Once(<<d, "done">>) /\ Once(<<d, "fail">>)
    BY EndFacts DEF Ends, Other
  <2>2. Open(d)
    BY <1>2, <2>1 DEF Open
  <2>3. /\ state[d] \in {"unmade", "pending"}
        /\ ~lists[<<d, "done">>].gone /\ ~lists[<<d, "fail">>].gone
    BY <2>2 DEF Phases
  <2>4. QED
    BY <2>1, <2>3
<1>3. QED
  BY <1>1, <1>2 DEF Phases

\* A step that calls the next function.
LEMMA PhasesCall ==
  ASSUME DeferredConstants, Phases,
         \A l \in Lists : Same(lists, frames, lists', frames', l),
         UNCHANGED state, frames' # <<>>, Top'.list = Top.list, Idle' <=> Idle
  PROVE  Phases'
<1>1. \A l \in Lists : /\ Begun(l)' <=> Begun(l)
                       /\ Ran(l)' = Ran(l)
                       /\ lists'[l].gone <=> lists[l].gone
                       /\ lists'[l].locked <=> lists[l].locked
  BY DEF Same, Begun, Ran
<1>2. ASSUME NEW d \in Deferreds, NEW k \in Ends PROVE Phase(d, k)'
  <2>1. <<d, k>> \in Lists /\ <<d, Other(k)>> \in Lists /\ <<d, "progress">> \in Lists
    BY EndFacts
  <2>2. Phase(d, k)
    BY DEF Phases
  <2>3. QED
    BY <1>1, <2>1, <2>2 DEF Phase
<1>3. ASSUME NEW d \in Deferreds, Open(d)'
      PROVE  /\ state'[d] \in {"unmade", "pending"}
             /\ ~lists'[<<d, "done">>].gone /\ ~lists'[<<d, "fail">>].gone
  <2>1. <<d, "done">> \in Lists /\ <<d, "fail">> \in Lists
    BY EndFacts DEF Ends, Other
  <2>2. Open(d)
    BY <1>1, <1>3, <2>1 DEF Open
  <2>3. QED
    BY <1>1, <2>1, <2>2 DEF Phases
<1>4. QED
  BY <1>2, <1>3 DEF Phases

\* A step in which one of the functions of a deferred returns.
LEMMA PhasesOwn ==
  ASSUME DeferredConstants, WellInv, Contents, Phases, Calling, frames' # <<>>, Idle',
         NEW d \in Deferreds, NEW k \in Ends, Top.list = <<d, k>>, Top'.list = <<d, k>>,
         Begun(<<d, k>>), Ran(<<d, k>>) \in {0, 1, 2}, Ran(<<d, k>>)' = Ran(<<d, k>>) + 1,
         \A l \in Lists : Begun(l)' <=> Begun(l),
         \A l \in Lists : l # <<d, k>> => Ran(l)' = Ran(l),
         IF Ran(<<d, k>>) = 0 THEN state' = [state EXCEPT ![d] = Outcome(k)] ELSE state' = state,
         state \in [Deferreds -> {"unmade", "pending", "resolved", "rejected"}],
         \A l \in Lists : Once(l) =>
            (lists'[l].gone <=> lists[l].gone \/ (Ran(<<d, k>>) = 1 /\ l = <<d, Other(k)>>)),
         \A l \in Lists : lists[l].locked => lists'[l].locked,
         Ran(<<d, k>>) = 2 => lists'[<<d, "progress">>].locked
  PROVE  Phases'
<1> DEFINE l == <<d, k>>
           o == <<d, Other(k)>>
           p == <<d, "progress">>
<1>1. /\ l \in Lists /\ o \in Lists /\ p \in Lists /\ Once(l) /\ Once(o) /\ Other(k) \in Ends
      /\ o # l /\ Other(Other(k)) = k
  BY EndFacts
<1>2. Phase(d, k)
  BY DEF Phases
<1>3. ~Begun(o) /\ ~Begun(o)'
  BY <1>1, <1>2 DEF Phase
<1>4. Phase(d, k)'
  <2>1. CASE Ran(l) = 0
    <3>1. state'[d] = Outcome(k) /\ Ran(l)' = 1 /\ (lists'[o].gone <=> lists[o].gone)
      BY <1>1, <2>1
    <3>2. ~(Ran(l) > 1)
      BY <2>1
    <3>3. ~lists[o].gone
      BY <1>2, <3>2 DEF Phase
    <3>4. Ran(l)' # 0 /\ ~(Ran(l)' > 1) /\ ~(Ran(l)' > 2)
      BY <3>1
    <3>5. QED
      BY <1>3, <3>1, <3>3, <3>4 DEF Phase
  <2>2. CASE Ran(l) = 1
    <3>1. state' = state /\ Ran(l)' = 2 /\ lists'[o].gone
      BY <1>1, <2>2
    <3>2. Ran(l) > 0
      BY <2>2
    <3>3. state[d] = Outcome(k)
      BY <1>2, <3>2 DEF Phase
    <3>4. Ran(l)' # 0 /\ Ran(l)' > 1 /\ ~(Ran(l)' > 2)
      BY <3>1
    <3>5. QED
      BY <1>3, <3>1, <3>3, <3>4 DEF Phase
  <2>3. CASE Ran(l) = 2
    <3>1. state' = state /\ Ran(l)' = 3 /\ (lists'[o].gone <=> lists[o].gone) /\ lists'[p].locked
      BY <1>1, <2>3
    <3>2. Ran(l) > 0 /\ Ran(l) > 1
      BY <2>3
    <3>3. state[d] = Outcome(k) /\ lists[o].gone
      BY <1>2, <3>2 DEF Phase
    <3>4. Ran(l)' # 0 /\ Ran(l)' > 1 /\ ~(Ran(l)' < 3)
      BY <3>1
    <3>5. QED
      BY <1>3, <3>1, <3>3, <3>4 DEF Phase
  <2>4. QED
    BY <2>1, <2>2, <2>3
<1>5. Phase(d, Other(k))'
  BY <1>3 DEF Phase
<1>6. \A j \in Ends : j = k \/ j = Other(k)
  BY DEF Ends, Other
<1>7. ASSUME NEW b \in Deferreds, b # d, NEW j \in Ends PROVE Phase(b, j)'
  <2> DEFINE m == <<b, j>>
             q == <<b, Other(j)>>
             r == <<b, "progress">>
  <2>1. m \in Lists /\ q \in Lists /\ r \in Lists /\ Once(m) /\ Once(q)
    BY EndFacts
  <2>2. m # l /\ q # l /\ r # l /\ m # o /\ q # o
    BY <1>7
  <2>3. /\ Begun(m)' <=> Begun(m)
        /\ Begun(q)' <=> Begun(q)
        /\ Ran(m)' = Ran(m) /\ state'[b] = state[b]
        /\ lists'[q].gone <=> lists[q].gone
        /\ lists[r].locked => lists'[r].locked
    BY <1>7, <2>1, <2>2
  <2>4. Phase(b, j)
    BY DEF Phases
  <2> HIDE DEF l, m, q, r
  <2>5. Begun(m) => ~(Ran(m) < 3)
    BY <2>1, <2>2, NoneSettling DEF l
  <2>6. QED
    BY <2>3, <2>4, <2>5 DEF Phase, m, q, r
<1>8. ASSUME NEW b \in Deferreds, Open(b)'
      PROVE  /\ state'[b] \in {"unmade", "pending"}
             /\ ~lists'[<<b, "done">>].gone /\ ~lists'[<<b, "fail">>].gone
  <2>1. /\ <<b, "done">> \in Lists /\ <<b, "fail">> \in Lists
        /\ Once(<<b, "done">>) /\ Once(<<b, "fail">>)
    BY EndFacts DEF Ends, Other
  <2>2. Open(b)
    BY <1>8, <2>1 DEF Open
  <2>3. b # d
    BY <2>2 DEF Open, Ends
  <2>4. /\ state[b] \in {"unmade", "pending"}
        /\ ~lists[<<b, "done">>].gone /\ ~lists[<<b, "fail">>].gone
    BY <2>2 DEF Phases
  <2>5. <<b, "done">> # o /\ <<b, "fail">> # o
    BY <2>3
  <2>6. QED
    BY <2>1, <2>3, <2>4, <2>5
<1>9. QED
  BY <1>4, <1>5, <1>6, <1>7, <1>8 DEF Phases

-----------------------------------------------------------------------------
(* What is added, called and settled stays so.                              *)

\* The lists only go on: they keep their functions, their calls and what they say.
Onward ==
    /\ \A d \in Deferreds : /\ state[d] # "unmade" => state'[d] # "unmade"
                            /\ state[d] \in Outcomes => state'[d] = state[d]
    /\ \A l \in Lists :
          /\ \/ lists'[l].added = lists[l].added
             \/ \E e \in Entry : lists'[l].added = Append(lists[l].added, e)
          /\ lists[l].gone => lists'[l].gone
          /\ Begun(l) => Begun(l)'
          /\ Once(l) => \/ Ran(l)' = Ran(l)
                        \/ Ran(l)' = Ran(l) + 1 /\ Calling /\ Top.list = l

\* What may be added later still may be after a step.
LEMMA LaterOn ==
  ASSUME DeferredConstants, Onward, NEW l, NEW e, Later(l, e)
  PROVE  LaterIn(state', l, e)
<1>1. All \in Deferreds /\ Piped \in Deferreds /\ Source \in Deferreds /\ "resolved" \in Outcomes
  BY DEF DeferredConstants, Deferreds, Outcomes
<1>2. /\ state[All] # "unmade" => state'[All] # "unmade"
      /\ state[Piped] # "unmade" => state'[Piped] # "unmade"
      /\ state[Source] = "resolved" => state'[Source] = "resolved"
  BY <1>1 DEF Onward
<1>3. QED
  BY <1>2 DEF Later, LaterIn

\* Functions are only ever added at the end.
LEMMA AddedOn ==
  ASSUME WellInv, Onward, NEW l \in Lists
  PROVE  /\ lists[l].added \in Seq(Entry) /\ lists'[l].added \in Seq(Entry)
         /\ Len(lists[l].added) \in Nat /\ Len(lists'[l].added) \in Nat
         /\ Len(lists[l].added) <= Len(lists'[l].added)
         /\ \A i \in DOMAIN lists[l].added :
               i \in DOMAIN lists'[l].added /\ lists'[l].added[i] = lists[l].added[i]
<1> DEFINE a == lists[l].added
           b == lists'[l].added
<1>1. a \in Seq(Entry)
  BY WellTyped DEF WellInv, ListRec
<1>2. b = a \/ \E e \in Entry : b = Append(a, e)
  BY DEF Onward
<1> HIDE DEF a, b
<1>3. CASE b = a
  BY <1>1, <1>3 DEF a, b
<1>4. CASE \E e \in Entry : b = Append(a, e)
  <2>1. PICK e \in Entry : b = Append(a, e)
    BY <1>4
  <2>2. /\ b \in Seq(Entry) /\ Len(a) \in Nat /\ Len(b) = Len(a) + 1
        /\ \A i \in 1..Len(a) : b[i] = a[i]
    BY <1>1, <2>1, AppendFacts
  <2>3. Len(b) \in Nat /\ Len(a) <= Len(b) /\ DOMAIN a = 1..Len(a) /\ DOMAIN b = 1..Len(b)
    BY <1>1, <2>2
  <2>4. \A i \in DOMAIN a : i \in DOMAIN b /\ b[i] = a[i]
    BY <2>2, <2>3
  <2>5. QED
    BY <1>1, <2>2, <2>3, <2>4 DEF a, b
<1>5. QED
  BY <1>2, <1>3, <1>4

\* A function that was added stays added.
LEMMA HoldsOn ==
  ASSUME WellInv, Onward, NEW l \in Lists, NEW e, Holds(l, e)
  PROVE  Holds(l, e)'
BY AddedOn DEF Holds

\* A function that has run stays one that has.
LEMMA RanOn ==
  ASSUME DeferredConstants, WellInv, Contents, Onward, NEW l \in Lists, Once(l), NEW e, RanEntry(l, e)
  PROVE  RanEntry(l, e)'
<1>1. PICK i \in 1..Ran(l) : lists[l].added[i] = e
  BY DEF RanEntry
<1>2. Ran(l) \in 0..Len(lists[l].added) /\ Len(lists[l].added) \in Nat
  BY AddedFacts
<1>3. Ran(l)' = Ran(l) \/ Ran(l)' = Ran(l) + 1
  BY DEF Onward
<1>4. i \in 1..Ran(l)'
  BY <1>2, <1>3
<1>5. i \in 1..Len(lists[l].added)
  BY <1>2
<1>6. i \in DOMAIN lists[l].added
  BY <1>5, AddedOn
<1>7. lists'[l].added[i] = e
  BY <1>1, <1>6, AddedOn
<1>8. QED
  BY <1>4, <1>7 DEF RanEntry

\* Only the function that the innermost loop is calling can have run newly.
LEMMA RanBack ==
  ASSUME DeferredConstants, WellInv, Contents, Onward, NEW l \in Lists, Once(l), NEW e,
         RanEntry(l, e)', ~RanEntry(l, e)
  PROVE  Calling /\ Top.list = l /\ Top.entry = e /\ Ran(l)' = Ran(l) + 1
<1>1. PICK i \in 1..Ran(l)' : lists'[l].added[i] = e
  BY DEF RanEntry
<1>2. Ran(l) \in 0..Len(lists[l].added) /\ Len(lists[l].added) \in Nat
  BY AddedFacts
<1>3. Ran(l)' = Ran(l) \/ (Ran(l)' = Ran(l) + 1 /\ Calling /\ Top.list = l)
  BY DEF Onward
<1>4. CASE i <= Ran(l)
  <2>1. i \in 1..Ran(l) /\ i \in 1..Len(lists[l].added)
    BY <1>2, <1>3, <1>4
  <2>2. lists[l].added[i] = e
    BY <1>1, <2>1, AddedOn
  <2>3. QED
    BY <2>1, <2>2 DEF RanEntry
<1>5. CASE ~(i <= Ran(l))
  <2>1. Ran(l)' = Ran(l) + 1 /\ i = Ran(l) + 1
    BY <1>2, <1>3, <1>5
  <2>2. Calling /\ Top.list = l
    BY <1>2, <1>3, <2>1
  <2>3. Top.entry = lists[l].added[i] /\ i \in DOMAIN lists[l].added
    BY <2>1, <2>2, TopEntry
  <2>4. Top.entry = e
    BY <1>1, <2>3, AddedOn
  <2>5. QED
    BY <2>1, <2>2, <2>4
<1>6. QED
  BY <1>4, <1>5

\* A function that is due stays so if it does not leave todo for nothing.
LEMMA DueOn ==
  ASSUME WellInv, Onward, NEW l \in Lists, NEW e, Due(l, e),
         Waits(l, e) => Waits(l, e)' \/ Holds(l, e)' \/ lists'[l].gone
  PROVE  Due(l, e)'
BY HoldsOn DEF Due, Onward

\* A step adds, and calls, only functions that may be in a list by then.
LEMMA ContentsStep ==
  ASSUME DeferredConstants, WellInv, Contents, Onward,
         \A l \in Lists : \/ lists'[l].added = lists[l].added
                          \/ \E e : LaterIn(state', l, e) /\ lists'[l].added = Append(lists[l].added, e),
         \A l \in Lists : ~Once(l) =>
            \/ lists'[l].list = lists[l].list \/ lists'[l].list = <<>>
            \/ \E e : LaterIn(state', l, e) /\ lists'[l].list = Append(lists[l].list, e),
         \A i \in DOMAIN frames' :
            \/ \E j \in DOMAIN frames : frames'[i] = frames[j]
            \/ frames'[i].entry = NoEntry
            \/ Once(frames'[i].list)
            \/ LaterIn(state', frames'[i].list, frames'[i].entry),
         \A i \in DOMAIN todo' : \/ \E j \in DOMAIN todo : todo'[i] = todo[j]
                                 \/ LaterIn(state', todo'[i].list, todo'[i].entry)
  PROVE  Contents'
<1>1. ASSUME NEW l \in Lists
      PROVE  /\ Len(Own(l)) <= Len(lists'[l].added)
             /\ \A i \in DOMAIN lists'[l].added :
                   IF i <= Len(Own(l)) THEN lists'[l].added[i] = Own(l)[i]
                   ELSE LaterIn(state', l, lists'[l].added[i])
  <2> DEFINE a == lists[l].added
             b == lists'[l].added
             n == Len(Own(l))
  <2>1. /\ a \in Seq(Entry) /\ b \in Seq(Entry) /\ Len(a) \in Nat /\ Len(b) \in Nat /\ n \in Nat
        /\ Len(a) <= Len(b) /\ \A i \in DOMAIN a : i \in DOMAIN b /\ b[i] = a[i]
    BY AddedOn, OwnFacts
  <2>2. n <= Len(a) /\ \A i \in DOMAIN a : IF i <= n THEN a[i] = Own(l)[i] ELSE Later(l, a[i])
    BY DEF Contents
  <2>3. b = a \/ \E e : LaterIn(state', l, e) /\ b = Append(a, e)
    OBVIOUS
  <2> HIDE DEF a, b, n
  <2>4. ASSUME NEW i \in DOMAIN b PROVE i \in DOMAIN a \/ (~(i <= n) /\ LaterIn(state', l, b[i]))
    <3>1. CASE b = a
      BY <3>1
    <3>2. CASE b # a
      <4>1. PICK e : LaterIn(state', l, e) /\ b = Append(a, e)
        BY <2>3, <3>2
      <4>2. Len(b) = Len(a) + 1 /\ b[Len(a) + 1] = e /\ DOMAIN a = 1..Len(a) /\ DOMAIN b = 1..Len(b)
        BY <2>1, <4>1
      <4>3. i \in 1..Len(a) \/ i = Len(a) + 1
        BY <2>1, <4>2
      <4>4. i = Len(a) + 1 => ~(i <= n)
        BY <2>1, <2>2
      <4>5. QED
        BY <4>1, <4>2, <4>3, <4>4
    <3>3. QED
      BY <3>1, <3>2
  <2>5. \A i \in DOMAIN b : IF i <= n THEN b[i] = Own(l)[i] ELSE LaterIn(state', l, b[i])
    BY <2>1, <2>2, <2>4, LaterOn
  <2>6. n <= Len(b)
    BY <2>1, <2>2
  <2>7. QED
    BY <2>5, <2>6 DEF a, b, n
<1>2. ASSUME NEW l \in Lists, ~Once(l), NEW i \in DOMAIN lists'[l].list
      PROVE  LaterIn(state', l, lists'[l].list[i])
  <2> DEFINE a == lists[l].list
             b == lists'[l].list
  <2>1. a \in Seq(Entry)
    BY WellTyped DEF WellInv, ListRec
  <2>2. \A j \in DOMAIN a : Later(l, a[j])
    BY <1>2 DEF Contents
  <2>3. b = a \/ b = <<>> \/ \E e : LaterIn(state', l, e) /\ b = Append(a, e)
    BY <1>2
  <2> HIDE DEF a, b
  <2>4. CASE b = a
    BY <1>2, <2>2, <2>4, LaterOn DEF b
  <2>5. CASE b = <<>>
    BY <1>2, <2>5 DEF b
  <2>6. CASE \E e : LaterIn(state', l, e) /\ b = Append(a, e)
    <3>1. PICK e : LaterIn(state', l, e) /\ b = Append(a, e)
      BY <2>6
    <3>2. /\ Len(b) = Len(a) + 1 /\ b[Len(a) + 1] = e /\ DOMAIN a = 1..Len(a)
          /\ DOMAIN b = 1..Len(b) /\ Len(a) \in Nat /\ \A j \in 1..Len(a) : b[j] = a[j]
      BY <2>1, <3>1
    <3>3. i \in 1..Len(b)
      BY <1>2, <3>2 DEF b
    <3>4. i \in 1..Len(a) \/ i = Len(a) + 1
      BY <3>2, <3>3
    <3>5. CASE i = Len(a) + 1
      BY <3>1, <3>2, <3>5 DEF b
    <3>6. CASE i \in 1..Len(a)
      <4>1. b[i] = a[i] /\ Later(l, a[i])
        BY <2>2, <3>2, <3>6
      <4>2. QED
        BY <4>1, LaterOn DEF b
    <3>7. QED
      BY <3>4, <3>5, <3>6
  <2>7. QED
    BY <2>3, <2>4, <2>5, <2>6
<1>3. ASSUME NEW i \in DOMAIN frames', ~Once(frames'[i].list), frames'[i].entry # NoEntry
      PROVE  LaterIn(state', frames'[i].list, frames'[i].entry)
  <2>1. CASE \E j \in DOMAIN frames : frames'[i] = frames[j]
    <3>1. PICK j \in DOMAIN frames : frames'[i] = frames[j]
      BY <2>1
    <3>2. Later(frames[j].list, frames[j].entry)
      BY <1>3, <3>1 DEF Contents
    <3>3. QED
      BY <3>1, <3>2, LaterOn
  <2>2. QED
    BY <1>3, <2>1
<1>4. ASSUME NEW i \in DOMAIN todo' PROVE LaterIn(state', todo'[i].list, todo'[i].entry)
  <2>1. CASE \E j \in DOMAIN todo : todo'[i] = todo[j]
    <3>1. PICK j \in DOMAIN todo : todo'[i] = todo[j]
      BY <2>1
    <3>2. Later(todo[j].list, todo[j].entry)
      BY DEF Contents
    <3>3. QED
      BY <3>1, <3>2, LaterOn
  <2>2. QED
    BY <2>1
<1>5. QED
  BY <1>1, <1>2, <1>3, <1>4 DEF Contents, Later, Own, NewDeferred

-----------------------------------------------------------------------------
(* when.                                                                    *)

\* The lists of a deferred of the program.
LEMMA PartLists ==
  ASSUME DeferredConstants, NEW d \in Part
  PROVE  /\ d \in Deferreds /\ All \in Deferreds /\ Piped \in Deferreds /\ Source \in Deferreds
         /\ <<d, "done">> \in Lists /\ <<d, "fail">> \in Lists
         /\ Once(<<d, "done">>) /\ Once(<<d, "fail">>)
         /\ <<d, "done">>[1] = d /\ <<d, "fail">>[1] = d
         /\ <<d, "done">>[2] = "done" /\ <<d, "fail">>[2] = "fail"
<1>1. d \in Deferreds /\ All \in Deferreds /\ Piped \in Deferreds /\ Source \in Deferreds
  BY DEF DeferredConstants, Deferreds
<1>2. "done" \in Ends /\ "fail" \in Ends
  BY DEF Ends
<1>3. QED
  BY <1>1, <1>2, EndFacts

\* What steps that neither call a function of when nor fire its promise keep.
LEMMA WhenStays ==
  ASSUME DeferredConstants, WellInv, Contents, Onward, WhenInv,
         \A k \in Ends : Begun(<<All, k>>)' => Begun(<<All, k>>),
         \A l \in Lists : Once(l) /\ Calling /\ Top.list = l /\ Ran(l)' # Ran(l) =>
            Top.entry # PartDone /\ Top.entry # AllFail,
         state'[All] = "unmade" <=> state[All] = "unmade", count' = count,
         \A d \in Part : /\ Due(<<d, "done">>, PartDone) => Due(<<d, "done">>, PartDone)'
                         /\ Due(<<d, "fail">>, AllFail) => Due(<<d, "fail">>, AllFail)'
  PROVE  WhenInv'
<1>1. All \in Deferreds /\ <<All, "done">> \in Lists /\ <<All, "fail">> \in Lists
      /\ "done" \in Ends /\ "fail" \in Ends
  <2>1. All \in Deferreds /\ "done" \in Ends /\ "fail" \in Ends
    BY DEF Deferreds, Ends
  <2>2. QED
    BY <2>1, EndFacts
<1>2. Open(All)' <=> Open(All)
  BY <1>1 DEF Open, Onward
<1>3. ASSUME NEW d \in Part
      PROVE  /\ RanEntry(<<d, "done">>, PartDone)' <=> RanEntry(<<d, "done">>, PartDone)
             /\ RanEntry(<<d, "fail">>, AllFail)' <=> RanEntry(<<d, "fail">>, AllFail)
  <2>1. <<d, "done">> \in Lists /\ <<d, "fail">> \in Lists /\ Once(<<d, "done">>) /\ Once(<<d, "fail">>)
    BY PartLists
  <2>2. ASSUME NEW l \in Lists, Once(l), NEW e, RanEntry(l, e)', ~RanEntry(l, e)
        PROVE  e # PartDone /\ e # AllFail
    <3>1. Calling /\ Top.list = l /\ Top.entry = e /\ Ran(l)' = Ran(l) + 1
      BY <2>2, RanBack
    <3>2. Ran(l) \in 0..Len(lists[l].added) /\ Len(lists[l].added) \in Nat
      BY <2>2, AddedFacts
    <3>3. Ran(l)' # Ran(l)
      BY <3>1, <3>2
    <3>4. QED
      BY <2>2, <3>1, <3>3
  <2>3. /\ RanEntry(<<d, "done">>, PartDone) => RanEntry(<<d, "done">>, PartDone)'
        /\ RanEntry(<<d, "fail">>, AllFail) => RanEntry(<<d, "fail">>, AllFail)'
    BY <2>1, RanOn
  <2>4. RanEntry(<<d, "done">>, PartDone)' => RanEntry(<<d, "done">>, PartDone)
    BY <2>1, <2>2
  <2>5. RanEntry(<<d, "fail">>, AllFail)' => RanEntry(<<d, "fail">>, AllFail)
    BY <2>1, <2>2
  <2>6. QED
    BY <2>3, <2>4, <2>5
<1>4. Unfinished' = Unfinished
  BY <1>3 DEF Unfinished
<1>5. /\ Begun(<<All, "done">>)' => Unfinished' = {}
      /\ Begun(<<All, "fail">>)' => \E d \in Part : RanEntry(<<d, "fail">>, AllFail)'
  BY <1>1, <1>3, <1>4 DEF WhenInv
<1>6. ASSUME state[All] # "unmade"
      PROVE  /\ count' = Cardinality(Unfinished')
             /\ Unfinished' = {} => ~Open(All)'
             /\ \A d \in Part : /\ Due(<<d, "done">>, PartDone)'
                                /\ Due(<<d, "fail">>, AllFail)'
                                /\ RanEntry(<<d, "fail">>, AllFail)' => ~Open(All)'
  <2>1. /\ count = Cardinality(Unfinished) /\ (Unfinished = {} => ~Open(All))
        /\ \A d \in Part :
              /\ Due(<<d, "done">>, PartDone)
              /\ Due(<<d, "fail">>, AllFail)
              /\ RanEntry(<<d, "fail">>, AllFail) => ~Open(All)
    BY <1>6 DEF WhenInv
  <2>2. count' = Cardinality(Unfinished') /\ (Unfinished' = {} => ~Open(All)')
    BY <1>2, <1>4, <2>1
  <2>3. ASSUME NEW d \in Part
        PROVE  /\ Due(<<d, "done">>, PartDone)'
               /\ Due(<<d, "fail">>, AllFail)'
               /\ RanEntry(<<d, "fail">>, AllFail)' => ~Open(All)'
    BY <1>2, <1>3, <2>1
  <2>4. QED
    BY <2>2, <2>3
<1>7. AllFail' = AllFail
  BY DEF AllFail, Forward
<1>8. QED
  BY <1>2, <1>5, <1>6 DEF WhenInv, AllFail, Forward

\* Which functions have returned after a step.
LEMMA RanEntryStep ==
  ASSUME DeferredConstants, WellInv, Contents, Onward, NEW l \in Lists, Once(l), NEW e
  PROVE  RanEntry(l, e)' <=> \/ RanEntry(l, e)
                             \/ Calling /\ Top.list = l /\ Top.entry = e /\ Ran(l)' = Ran(l) + 1
<1>1. RanEntry(l, e) => RanEntry(l, e)'
  BY RanOn
<1>2. RanEntry(l, e)' /\ ~RanEntry(l, e) =>
         Calling /\ Top.list = l /\ Top.entry = e /\ Ran(l)' = Ran(l) + 1
  BY RanBack
<1>3. ASSUME Calling, Top.list = l, Top.entry = e, Ran(l)' = Ran(l) + 1 PROVE RanEntry(l, e)'
  <2>1. e = lists[l].added[Ran(l) + 1] /\ Ran(l) + 1 \in DOMAIN lists[l].added
    BY <1>3, TopEntry
  <2>2. Ran(l) \in 0..Len(lists[l].added) /\ Len(lists[l].added) \in Nat
    BY AddedFacts
  <2>3. Ran(l) + 1 \in 1..Ran(l)'
    BY <1>3, <2>2
  <2>4. lists'[l].added[Ran(l) + 1] = e
    BY <2>1, AddedOn
  <2>5. QED
    BY <2>3, <2>4 DEF RanEntry
<1>4. QED
  BY <1>1, <1>2, <1>3

\* The parts that when waits for can be counted.
LEMMA UnfinishedFinite ==
  ASSUME DeferredConstants
  PROVE  IsFiniteSet(Unfinished) /\ Cardinality(Unfinished) \in Nat
<1>1. IsFiniteSet(Part) /\ Unfinished \subseteq Part
  BY DEF DeferredConstants, Unfinished
<1>2. QED
  BY <1>1, FS_Subset, FS_CardinalityType

\* A part is done: the function that counts it returns, and fires the promise
\* if it was the last.
LEMMA WhenPart ==
  ASSUME DeferredConstants, WellInv, Contents, Onward, PartsOnce, WhenInv, count \in Nat,
         NEW d \in Part, Calling, Top.list = <<d, "done">>, Top.entry = PartDone,
         Ran(<<d, "done">>)' = Ran(<<d, "done">>) + 1,
         state' = state, state[All] # "unmade", count' = count - 1,
         Begun(<<All, "fail">>)' => Begun(<<All, "fail">>),
         Begun(<<All, "done">>)' => Begun(<<All, "done">>) \/ count = 1,
         count = 1 => ~Open(All)',
         \A x \in Part : /\ Due(<<x, "done">>, PartDone) => Due(<<x, "done">>, PartDone)'
                         /\ Due(<<x, "fail">>, AllFail) => Due(<<x, "fail">>, AllFail)'
  PROVE  WhenInv' /\ count > 0
<1> DEFINE l == <<d, "done">>
<1>1. l \in Lists /\ Once(l)
  BY PartLists
<1>2. ~RanEntry(l, PartDone)
  <2>1. lists[l].added[Ran(l) + 1] = PartDone /\ Ran(l) + 1 \in DOMAIN lists[l].added
    BY <1>1, TopEntry
  <2>2. /\ Ran(l) \in 0..Len(lists[l].added) /\ Len(lists[l].added) \in Nat
        /\ lists[l].added \in Seq(Entry)
    BY <1>1, AddedFacts
  <2>3. ASSUME NEW i \in 1..Ran(l), lists[l].added[i] = PartDone PROVE FALSE
    <3>1. i \in DOMAIN lists[l].added /\ i # Ran(l) + 1
      BY <2>2
    <3>2. QED
      BY <2>1, <2>3, <3>1 DEF PartsOnce
  <2>4. QED
    BY <2>3 DEF RanEntry
<1>3. ASSUME NEW x \in Part
      PROVE  /\ RanEntry(<<x, "done">>, PartDone)' <=> RanEntry(<<x, "done">>, PartDone) \/ x = d
             /\ RanEntry(<<x, "fail">>, AllFail)' <=> RanEntry(<<x, "fail">>, AllFail)
  <2>1. <<x, "done">> \in Lists /\ <<x, "fail">> \in Lists /\ Once(<<x, "done">>) /\ Once(<<x, "fail">>)
    BY PartLists
  <2>2. <<x, "done">> = l <=> x = d
    OBVIOUS
  <2>3. <<x, "fail">> # l
    OBVIOUS
  <2>4. QED
    BY <2>1, <2>2, <2>3, RanEntryStep
<1>4. Unfinished' = Unfinished \ {d} /\ d \in Unfinished
  BY <1>2, <1>3 DEF Unfinished
<1>5. /\ count = Cardinality(Unfinished) /\ (Unfinished = {} => ~Open(All))
      /\ \A x \in Part :
            /\ Due(<<x, "done">>, PartDone)
            /\ Due(<<x, "fail">>, AllFail)
            /\ RanEntry(<<x, "fail">>, AllFail) => ~Open(All)
      /\ Begun(<<All, "done">>) => Unfinished = {}
      /\ Begun(<<All, "fail">>) => \E x \in Part : RanEntry(<<x, "fail">>, AllFail)
  BY DEF WhenInv
<1>6. /\ Cardinality(Unfinished') = count - 1 /\ count > 0
      /\ count = 1 <=> Unfinished' = {}
  <2>1. IsFiniteSet(Unfinished) /\ Cardinality(Unfinished) \in Nat
    BY UnfinishedFinite
  <2>2. Cardinality(Unfinished \ {d}) = Cardinality(Unfinished) - 1
    BY <1>4, <2>1, FS_RemoveElement
  <2>3. IsFiniteSet(Unfinished') /\ Cardinality(Unfinished') = count - 1
    BY <1>4, <1>5, <2>1, <2>2, FS_Subset
  <2>4. Cardinality(Unfinished') \in Nat /\ (Cardinality(Unfinished') = 0 <=> Unfinished' = {})
    BY <2>3, FS_CardinalityType, FS_EmptySet
  <2>5. QED
    BY <2>3, <2>4
<1>7. Begun(<<All, "done">>)' => Unfinished' = {}
  BY <1>4, <1>5, <1>6
<1>8. Begun(<<All, "fail">>)' => \E x \in Part : RanEntry(<<x, "fail">>, AllFail)'
  BY <1>3, <1>5
<1>9. Unfinished' = {} => ~Open(All)'
  BY <1>6
<1>10. ~Open(All) => ~Open(All)'
  <2>1. <<All, "done">> \in Lists /\ <<All, "fail">> \in Lists
    BY EndFacts DEF Deferreds, Ends
  <2>2. QED
    BY <2>1 DEF Open, Onward
<1>11. \A x \in Part :
          /\ Due(<<x, "done">>, PartDone)'
          /\ Due(<<x, "fail">>, AllFail)'
          /\ RanEntry(<<x, "fail">>, AllFail)' => ~Open(All)'
  BY <1>3, <1>5, <1>10
<1>12. count' = Cardinality(Unfinished')
  BY <1>6
<1> HIDE DEF l
<1>13. QED
  BY <1>6, <1>7, <1>8, <1>9, <1>11, <1>12 DEF WhenInv, AllFail, Forward

\* A part is rejected: the promise is fired, unless it was.
LEMMA WhenFail ==
  ASSUME DeferredConstants, WellInv, Contents, Onward, WhenInv,
         NEW d \in Part, Calling, Top.list = <<d, "fail">>, Top.entry = AllFail,
         Ran(<<d, "fail">>)' = Ran(<<d, "fail">>) + 1,
         state' = state, state[All] # "unmade", count' = count,
         Begun(<<All, "done">>)' => Begun(<<All, "done">>),
         ~Open(All)',
         \A x \in Part : /\ Due(<<x, "done">>, PartDone) => Due(<<x, "done">>, PartDone)'
                         /\ Due(<<x, "fail">>, AllFail) => Due(<<x, "fail">>, AllFail)'
  PROVE  WhenInv'
<1>1. ASSUME NEW x \in Part
      PROVE  /\ RanEntry(<<x, "done">>, PartDone)' <=> RanEntry(<<x, "done">>, PartDone)
             /\ x = d => RanEntry(<<x, "fail">>, AllFail)'
  <2>1. <<x, "done">> \in Lists /\ <<x, "fail">> \in Lists /\ Once(<<x, "done">>) /\ Once(<<x, "fail">>)
    BY PartLists
  <2>2. PartDone # AllFail
    BY EntryKinds DEF AllFail
  <2>3. QED
    BY <2>1, <2>2, RanEntryStep
<1>2. Unfinished' = Unfinished
  BY <1>1 DEF Unfinished
<1>3. /\ count = Cardinality(Unfinished)
      /\ \A x \in Part : Due(<<x, "done">>, PartDone) /\ Due(<<x, "fail">>, AllFail)
      /\ Begun(<<All, "done">>) => Unfinished = {}
  BY DEF WhenInv
<1>4. \A x \in Part : Due(<<x, "done">>, PartDone)' /\ Due(<<x, "fail">>, AllFail)'
  BY <1>3
<1>5. \E x \in Part : RanEntry(<<x, "fail">>, AllFail)'
  BY <1>1
<1>6. (Begun(<<All, "done">>)' => Unfinished' = {}) /\ count' = Cardinality(Unfinished')
  BY <1>2, <1>3
<1>7. QED
  BY <1>4, <1>5, <1>6 DEF WhenInv, AllFail, Forward

-----------------------------------------------------------------------------
(* The functions that when and pipe add.                                    *)

\* The arguments of when are all its parts, each once.
LEMMA ArgumentFacts ==
  ASSUME DeferredConstants
  PROVE  /\ Cardinality(Part) \in Nat
         /\ Argument \in [1..Cardinality(Part) -> Part]
         /\ \A i, j \in 1..Cardinality(Part) : Argument[i] = Argument[j] => i = j
         /\ \A d \in Part : \E i \in 1..Cardinality(Part) : Argument[i] = d
<1> DEFINE n == Cardinality(Part)
<1>1. IsFiniteSet(Part) /\ n \in Nat
  BY FS_CardinalityType DEF DeferredConstants
<1>2. ExistsBijection(1..n, Part)
  BY <1>1, FS_CardinalityType
<1>3. \E f \in [1..n -> Part] : IsInjective(f)
  BY <1>2 DEF ExistsBijection, Bijection, Injection
<1>4. Argument \in [1..n -> Part] /\ IsInjective(Argument)
  BY <1>3 DEF Argument, SetToSeq
<1>5. Argument \in Injection(1..n, Part)
  BY <1>4 DEF Injection
<1>6. IsFiniteSet(1..n) /\ Cardinality(1..n) = n
  <2>1. 1 \in Int /\ n \in Int
    BY <1>1
  <2>2. Cardinality(1..n) = IF 1 > n THEN 0 ELSE n - 1 + 1
    BY <2>1, FS_Interval
  <2>3. QED
    BY <1>1, <2>1, <2>2, FS_Interval
<1>7. Argument \in Surjection(1..n, Part)
  BY <1>1, <1>5, <1>6, FS_Injection
<1>8. \A d \in Part : \E i \in 1..n : Argument[i] = d
  BY <1>7 DEF Surjection
<1>9. \A i, j \in 1..n : Argument[i] = Argument[j] => i = j
  BY <1>4 DEF IsInjective
<1>10. QED
  BY <1>1, <1>4, <1>8, <1>9

\* A function that is to be added.
Waiting(depth, l, e) == [depth |-> depth, list |-> l, entry |-> e]

\* The three functions that then adds.
LEMMA ThenFacts ==
  ASSUME NEW depth, NEW d, NEW a, NEW b, NEW c
  PROVE  LET t == Then(depth, d, a, b, c)
         IN /\ t = <<Waiting(depth, <<d, "done">>, a), Waiting(depth, <<d, "fail">>, b),
                     Waiting(depth, <<d, "progress">>, c)>>
            /\ Len(t) = 3 /\ DOMAIN t = 1..3
            /\ t[1] = Waiting(depth, <<d, "done">>, a) /\ t[2] = Waiting(depth, <<d, "fail">>, b)
            /\ t[3] = Waiting(depth, <<d, "progress">>, c)
BY DEF Then, Adds, Waiting

\* The n-th three of a sequence of threes, and the place in it.
LEMMA Thirds ==
  ASSUME NEW n \in Nat, NEW i \in 1..(3 * n)
  PROVE  /\ (i + 2) \div 3 \in 1..n /\ ((i + 2) % 3) + 1 \in 1..3
         /\ i = 3 * ((i + 2) \div 3) + ((i + 2) % 3) - 2
OBVIOUS

\* The element at a place of the n-th three.
LEMMA ThirdsBack ==
  ASSUME NEW n \in Nat, NEW j \in 1..n, NEW r \in 1..3
  PROVE  /\ 3 * j + r - 3 \in 1..(3 * n)
         /\ (3 * j + r - 3 + 2) \div 3 = j /\ ((3 * j + r - 3 + 2) % 3) + 1 = r
OBVIOUS

\* The components of a function that is to be added.
LEMMA WaitingFacts ==
  ASSUME NEW n, NEW l, NEW e
  PROVE  Waiting(n, l, e).depth = n /\ Waiting(n, l, e).list = l /\ Waiting(n, l, e).entry = e
BY DEF Waiting

\* What when adds to the list of a part.
WhenAdds(kind) ==
    IF kind = "done" THEN PartDone
    ELSE IF kind = "fail" THEN AllFail ELSE Forward(<<All, "progress">>)

\* when adds three functions to the lists of each part.
LEMMA AddsOfWhenFacts ==
  ASSUME DeferredConstants
  PROVE  /\ AddsOfWhen \in Seq(TodoRec) /\ AddsOfWhen # <<>>
         /\ \A i \in DOMAIN AddsOfWhen :
               \E d \in Part, k \in Kinds : AddsOfWhen[i] = Waiting(0, <<d, k>>, WhenAdds(k))
         /\ \A d \in Part, k \in Kinds :
               \E i \in DOMAIN AddsOfWhen : AddsOfWhen[i] = Waiting(0, <<d, k>>, WhenAdds(k))
         /\ \A i, j \in DOMAIN AddsOfWhen : AddsOfWhen[i].list = AddsOfWhen[j].list => i = j
<1> DEFINE n == Cardinality(Part)
           w == AddsOfWhen
           At(i) == (i + 2) \div 3
           Of(i) == ((i + 2) % 3) + 1
           Kind(r) == IF r = 1 THEN "done" ELSE IF r = 2 THEN "fail" ELSE "progress"
           Spec3(d, r) == Waiting(0, <<d, Kind(r)>>, WhenAdds(Kind(r)))
<1>1. /\ n \in Nat /\ Argument \in [1..n -> Part]
      /\ \A i, j \in 1..n : Argument[i] = Argument[j] => i = j
      /\ \A d \in Part : \E i \in 1..n : Argument[i] = d
  BY ArgumentFacts
<1>2. ASSUME NEW d, NEW r \in 1..3 PROVE ThenOfWhen(d)[r] = Spec3(d, r)
  <2>1. /\ ThenOfWhen(d)[1] = Waiting(0, <<d, "done">>, PartDone)
        /\ ThenOfWhen(d)[2] = Waiting(0, <<d, "fail">>, AllFail)
        /\ ThenOfWhen(d)[3] = Waiting(0, <<d, "progress">>, Forward(<<All, "progress">>))
    BY ThenFacts DEF ThenOfWhen, AllFail
  <2>2. r = 1 \/ r = 2 \/ r = 3
    OBVIOUS
  <2>3. QED
    BY <2>1, <2>2 DEF WhenAdds
<1>3. /\ w = [i \in 1..(3 * n) |-> ThenOfWhen(Argument[At(i)])[Of(i)]]
      /\ DOMAIN w = 1..(3 * n)
  BY DEF AddsOfWhen
<1>4. \A i \in 1..(3 * n) : At(i) \in 1..n /\ Of(i) \in 1..3
  BY <1>1, Thirds
<1>5. ASSUME NEW i \in 1..(3 * n) PROVE w[i] = Spec3(Argument[At(i)], Of(i)) /\ Argument[At(i)] \in Part
  <2>1. w[i] = ThenOfWhen(Argument[At(i)])[Of(i)]
    BY <1>3
  <2>2. At(i) \in 1..n /\ Of(i) \in 1..3
    BY <1>4
  <2> HIDE DEF w, At, Of, Spec3, n
  <2>3. QED
    BY <1>1, <1>2, <2>1, <2>2
<1>6. \A r \in 1..3 : Kind(r) \in Kinds
  BY DEF Kinds
<1>7. \A k \in Kinds : \E r \in 1..3 : Kind(r) = k
  <2>1. Kind(1) = "done" /\ Kind(2) = "fail" /\ Kind(3) = "progress"
    OBVIOUS
  <2>2. 1 \in 1..3 /\ 2 \in 1..3 /\ 3 \in 1..3
    OBVIOUS
  <2> HIDE DEF Kind
  <2>3. QED
    BY <2>1, <2>2 DEF Kinds
<1>8. \A r, q \in 1..3 : Kind(r) = Kind(q) => r = q
  OBVIOUS
<1>9. ASSUME NEW d \in Part, NEW r \in 1..3 PROVE \E i \in 1..(3 * n) : w[i] = Spec3(d, r)
  <2>1. PICK j \in 1..n : Argument[j] = d
    BY <1>1
  <2> DEFINE i == 3 * j + r - 3
  <2>2. i \in 1..(3 * n) /\ At(i) = j /\ Of(i) = r
    BY <1>1, ThirdsBack
  <2> HIDE DEF i, w, At, Of, Spec3, n
  <2>3. w[i] = Spec3(d, r)
    BY <1>5, <2>1, <2>2
  <2>4. QED
    BY <2>2, <2>3
<1>10. \A i \in 1..(3 * n) : i = 3 * At(i) + Of(i) - 3
  BY <1>1, Thirds
<1>11. ASSUME NEW d \in Part, NEW k \in Kinds
       PROVE  Waiting(0, <<d, k>>, WhenAdds(k)) \in TodoRec
  <2>1. /\ <<d, k>> \in Lists /\ <<All, "fail">> \in Lists /\ <<All, "progress">> \in Lists
    BY ListFacts DEF Deferreds, Kinds
  <2>2. WhenAdds(k) \in Entry
    BY <2>1 DEF WhenAdds, Entry, AllFail
  <2>3. QED
    BY <2>1, <2>2 DEF Waiting, TodoRec
<1> HIDE DEF w, At, Of, n
<1>12. \A i \in DOMAIN w : \E d \in Part, k \in Kinds : w[i] = Waiting(0, <<d, k>>, WhenAdds(k))
  BY <1>3, <1>4, <1>5, <1>6
<1>13. \A d \in Part, k \in Kinds : \E i \in DOMAIN w : w[i] = Waiting(0, <<d, k>>, WhenAdds(k))
  <2> TAKE d \in Part, k \in Kinds
  <2>1. PICK r \in 1..3 : Kind(r) = k
    BY <1>7
  <2>2. QED
    BY <1>3, <1>9, <2>1
<1>14. ASSUME NEW i \in DOMAIN w, NEW j \in DOMAIN w, w[i].list = w[j].list PROVE i = j
  <2>1. i \in 1..(3 * n) /\ j \in 1..(3 * n)
    BY <1>3
  <2> DEFINE d == Argument[At(i)]
             p == Kind(Of(i))
             e == Argument[At(j)]
             q == Kind(Of(j))
  <2>2. w[i] = Waiting(0, <<d, p>>, WhenAdds(p)) /\ w[j] = Waiting(0, <<e, q>>, WhenAdds(q))
    <3> HIDE DEF Kind
    <3>1. QED
      BY <1>5, <2>1
  <2>3. d = e /\ p = q
    <3> HIDE DEF d, e, p, q
    <3>1. <<d, p>> = <<e, q>>
      BY <1>14, <2>2, WaitingFacts
    <3>2. QED
      BY <3>1
  <2>4. At(i) = At(j) /\ Of(i) = Of(j)
    <3> HIDE DEF Kind
    <3>1. QED
      BY <1>1, <1>4, <1>8, <2>1, <2>3
  <2>5. QED
    BY <1>10, <2>1, <2>4
<1>15. w \in Seq(TodoRec) /\ w # <<>>
  <2>1. \A i \in 1..(3 * n) : w[i] \in TodoRec
    BY <1>3, <1>11, <1>12
  <2>2. 3 * n \in Nat /\ w \in [1..(3 * n) -> TodoRec]
    <3>1. w = [i \in 1..(3 * n) |-> w[i]]
      BY <1>3
    <3>2. QED
      BY <1>1, <2>1, <3>1
  <2>3. w \in Seq(TodoRec)
    BY <2>2, SeqDef
  <2>4. Source \in Part /\ "done" \in Kinds
    BY DEF DeferredConstants, Kinds
  <2>5. DOMAIN w # {}
    BY <1>13, <2>4
  <2>6. QED
    BY <2>3, <2>5
<1>16. QED
  BY <1>12, <1>13, <1>14, <1>15 DEF w

\* A function of when or pipe that is in a list was put there by them.
LEMMA NotYet ==
  ASSUME DeferredConstants, WellInv, Contents, NEW l \in Lists, Once(l), NEW e,
         Holds(l, e), e[1] \in {"part", "forward", "filter"}
  PROVE  Later(l, e)
<1>1. PICK i \in DOMAIN lists[l].added : lists[l].added[i] = e
  BY DEF Holds
<1>2. /\ lists[l].added[1] = Settle(Outcome(l[2]))
      /\ lists[l].added[2] = DisableList(<<l[1], Other(l[2])>>)
      /\ lists[l].added[3] = LockList(<<l[1], "progress">>)
      /\ i = 1 \/ i = 2 \/ i = 3 \/ Later(l, lists[l].added[i])
  BY AddedFacts
<1>3. i # 1 /\ i # 2 /\ i # 3
  BY <1>1, <1>2, EntryKinds
<1>4. QED
  BY <1>1, <1>2, <1>3

\* A function that has run was added.
LEMMA RanHolds ==
  ASSUME DeferredConstants, WellInv, Contents, NEW l \in Lists, Once(l), NEW e, RanEntry(l, e)
  PROVE  Holds(l, e)
<1>1. PICK i \in 1..Ran(l) : lists[l].added[i] = e
  BY DEF RanEntry
<1>2. Ran(l) \in 0..Len(lists[l].added) /\ Len(lists[l].added) \in Nat /\ lists[l].added \in Seq(Entry)
  BY AddedFacts
<1>3. i \in DOMAIN lists[l].added
  BY <1>2
<1>4. QED
  BY <1>1, <1>3 DEF Holds

\* The functions of when are only added once it was called.
LEMMA MadeEntries ==
  ASSUME DeferredConstants, WellInv, Contents, NEW d \in Part
  PROVE  /\ Holds(<<d, "done">>, PartDone) => state[All] # "unmade"
         /\ Holds(<<d, "fail">>, AllFail) => state[All] # "unmade"
<1>1. <<d, "done">> \in Lists /\ <<d, "fail">> \in Lists /\ Once(<<d, "done">>) /\ Once(<<d, "fail">>)
  BY PartLists
<1>2. PartDone[1] = "part" /\ AllFail[1] = "forward" /\ AllFail[2] = <<All, "fail">>
  BY EntryKinds DEF AllFail
<1>3. All # Piped
  BY DEF DeferredConstants
<1>4. Holds(<<d, "done">>, PartDone) => Later(<<d, "done">>, PartDone)
  BY <1>1, <1>2, NotYet
<1>5. Holds(<<d, "fail">>, AllFail) => Later(<<d, "fail">>, AllFail)
  BY <1>1, <1>2, NotYet
<1>6. Later(<<d, "done">>, PartDone) => state[All] # "unmade"
  BY <1>2, EntryKinds DEF Later, LaterIn
<1>7. Later(<<d, "fail">>, AllFail) => state[All] # "unmade"
  <2>1. \A k : PipedEnd(k)[2] = <<Piped, k>>
    BY EntryKinds DEF PipedEnd
  <2>2. \A k : PipedEnd(k) # AllFail
    BY <1>2, <1>3, <2>1
  <2>3. QED
    BY <1>2, <2>2, EntryKinds DEF Later, LaterIn, PipedEnd
<1>8. QED
  BY <1>4, <1>5, <1>6, <1>7

\* when is called: no part counts as done yet.
LEMMA WhenMade ==
  ASSUME DeferredConstants, WellInv, Contents, Onward, WhenInv,
         state[All] = "unmade", state'[All] # "unmade", count' = Cardinality(Part),
         \A k \in Ends : Begun(<<All, k>>)' => Begun(<<All, k>>),
         \A l \in Lists : Once(l) => Ran(l)' = Ran(l),
         \A d \in Part : Waits(<<d, "done">>, PartDone)' /\ Waits(<<d, "fail">>, AllFail)'
  PROVE  WhenInv'
<1>1. ASSUME NEW d \in Part
      PROVE  /\ ~RanEntry(<<d, "done">>, PartDone)'
             /\ ~RanEntry(<<d, "fail">>, AllFail)'
             /\ Due(<<d, "done">>, PartDone)' /\ Due(<<d, "fail">>, AllFail)'
  <2>1. <<d, "done">> \in Lists /\ <<d, "fail">> \in Lists /\ Once(<<d, "done">>) /\ Once(<<d, "fail">>)
    BY PartLists
  <2>2. ~RanEntry(<<d, "done">>, PartDone) /\ ~RanEntry(<<d, "fail">>, AllFail)
    BY <2>1, MadeEntries, RanHolds
  <2>3. ASSUME NEW l \in Lists, Once(l), NEW e, RanEntry(l, e)' PROVE RanEntry(l, e)
    <3>1. Ran(l) \in 0..Len(lists[l].added) /\ Len(lists[l].added) \in Nat
      BY <2>3, AddedFacts
    <3>2. Ran(l)' # Ran(l) + 1
      BY <2>3, <3>1
    <3>3. QED
      BY <2>3, <3>2, RanBack
  <2>4. ~RanEntry(<<d, "done">>, PartDone)' /\ ~RanEntry(<<d, "fail">>, AllFail)'
    BY <2>1, <2>2, <2>3
  <2>5. QED
    BY <2>4 DEF Due
<1>2. Unfinished' = Part /\ Part # {}
  BY <1>1 DEF Unfinished, DeferredConstants
<1>3. ~Begun(<<All, "done">>)' /\ ~Begun(<<All, "fail">>)'
  BY DEF WhenInv, Open, Ends
<1>4. \A d \in Part :
         /\ Due(<<d, "done">>, PartDone)'
         /\ Due(<<d, "fail">>, AllFail)'
         /\ ~RanEntry(<<d, "fail">>, AllFail)'
  BY <1>1
<1>5. count' = Cardinality(Unfinished') /\ Unfinished' # {}
  BY <1>2
<1>6. QED
  BY <1>3, <1>4, <1>5 DEF WhenInv, AllFail, Forward

-----------------------------------------------------------------------------
(* pipe.                                                                    *)

\* Its promise is fired by its source or for its filter, and by nothing else.
LEMMA PipeStep ==
  ASSUME DeferredConstants, WellInv, Contents, Onward, PipeInv,
         state'[Piped] = "unmade" =>
            \A k \in Ends : Begun(<<Piped, k>>)' => Begun(<<Piped, k>>),
         Begun(<<Piped, "done">>)' => Begun(<<Piped, "done">>) \/ state[Source] = "resolved",
         Begun(<<Piped, "fail">>)' => Begun(<<Piped, "fail">>) \/ state[Source] \in Outcomes,
         \A p \in Part, k \in Ends :
            /\ Calling /\ Top.list = <<p, k>> /\ Top.entry = PipedEnd(k)
            /\ Ran(<<p, k>>)' = Ran(<<p, k>>) + 1
            => ~Open(Piped)',
         /\ Calling /\ Top.list = <<Source, "done">> /\ Top.entry = PipedFilter
         /\ Ran(<<Source, "done">>)' = Ran(<<Source, "done">>) + 1
         => ~Open(Piped)' \/ \E p \in Part : \A k \in Ends : Due(<<p, k>>, PipedEnd(k))',
         \A p \in Part, k \in Ends : Due(<<p, k>>, PipedEnd(k)) => Due(<<p, k>>, PipedEnd(k))',
         Due(<<Source, "done">>, PipedFilter) => Due(<<Source, "done">>, PipedFilter)',
         state[Piped] = "unmade" /\ state'[Piped] # "unmade" =>
            Due(<<Source, "done">>, PipedFilter)' /\ Due(<<Source, "fail">>, PipedEnd("fail"))'
  PROVE  PipeInv'
<1>1. /\ Source \in Part /\ Source \in Deferreds /\ Piped \in Deferreds
      /\ "done" \in Ends /\ "fail" \in Ends
  BY DEF DeferredConstants, Deferreds, Ends
<1>2. <<Piped, "done">> \in Lists /\ <<Piped, "fail">> \in Lists
  BY <1>1, EndFacts
<1>3. ~Open(Piped) => ~Open(Piped)'
  BY <1>2 DEF Open, Onward
<1>4. /\ state[Piped] # "unmade" => state'[Piped] # "unmade"
      /\ state[Source] \in Outcomes => state'[Source] = state[Source]
      /\ "resolved" \in Outcomes
  BY <1>1 DEF Onward, Outcomes
<1>5. state'[Piped] = "unmade" => Open(Piped)'
  <2>1. SUFFICES ASSUME state'[Piped] = "unmade" PROVE Open(Piped)'
    OBVIOUS
  <2>2. ~Begun(<<Piped, "done">>) /\ ~Begun(<<Piped, "fail">>)
    BY <1>4, <2>1 DEF PipeInv, Open
  <2>3. QED
    BY <1>1, <2>1, <2>2 DEF Open
<1>6. Begun(<<Piped, "done">>)' => state'[Source] = "resolved"
  BY <1>4 DEF PipeInv
<1>7. Begun(<<Piped, "fail">>)' => state'[Source] \in Outcomes
  BY <1>4 DEF PipeInv
<1>8. ASSUME NEW p \in Part, NEW k \in Ends, RanEntry(<<p, k>>, PipedEnd(k))' PROVE ~Open(Piped)'
  <2>1. <<p, k>> \in Lists /\ Once(<<p, k>>)
    BY EndFacts, PartLists
  <2>2. CASE RanEntry(<<p, k>>, PipedEnd(k))
    BY <1>3, <2>2 DEF PipeInv
  <2>3. CASE ~RanEntry(<<p, k>>, PipedEnd(k))
    <3>1. PipedEnd(k)' = PipedEnd(k)
      BY DEF PipedEnd, Forward
    <3>2. RanEntry(<<p, k>>, PipedEnd(k))'
      BY <1>8
    <3>3. /\ Calling /\ Top.list = <<p, k>> /\ Top.entry = PipedEnd(k)
          /\ Ran(<<p, k>>)' = Ran(<<p, k>>) + 1
      BY <2>1, <2>3, <3>2, RanBack
    <3>4. QED
      BY <3>3
  <2>4. QED
    BY <2>2, <2>3
<1>9. ASSUME RanEntry(<<Source, "done">>, PipedFilter)'
      PROVE  ~Open(Piped)' \/ \E p \in Part : \A k \in Ends : Due(<<p, k>>, PipedEnd(k))'
  <2>1. <<Source, "done">> \in Lists /\ Once(<<Source, "done">>)
    BY <1>1, PartLists
  <2>2. CASE RanEntry(<<Source, "done">>, PipedFilter)
    <3>1. ~Open(Piped) \/ \E p \in Part : \A k \in Ends : Due(<<p, k>>, PipedEnd(k))
      BY <2>2 DEF PipeInv
    <3>2. QED
      BY <1>3, <3>1
  <2>3. CASE ~RanEntry(<<Source, "done">>, PipedFilter)
    <3>1. /\ Calling /\ Top.list = <<Source, "done">> /\ Top.entry = PipedFilter
          /\ Ran(<<Source, "done">>)' = Ran(<<Source, "done">>) + 1
      BY <1>9, <2>1, <2>3, RanBack
    <3>2. QED
      BY <3>1
  <2>4. QED
    BY <2>2, <2>3
<1>10. state'[Piped] # "unmade" =>
          Due(<<Source, "done">>, PipedFilter)' /\ Due(<<Source, "fail">>, PipedEnd("fail"))'
  <2>1. CASE state[Piped] = "unmade"
    BY <2>1
  <2>2. CASE state[Piped] # "unmade"
    <3>1. Due(<<Source, "done">>, PipedFilter) /\ Due(<<Source, "fail">>, PipedEnd("fail"))
      BY <2>2 DEF PipeInv
    <3>2. QED
      BY <1>1, <3>1
  <2>3. QED
    BY <2>1, <2>2
<1>11. QED
  BY <1>5, <1>6, <1>7, <1>8, <1>9, <1>10 DEF PipeInv, PipedEnd, PipedFilter, Forward, Filter

-----------------------------------------------------------------------------
(* The calls of add that jQuery has still to make.                          *)

\* What is to be added is a function and a list.
LEMMA TodoTyped ==
  ASSUME TypesInv, WellInv
  PROVE  /\ todo \in Seq(TodoRec) /\ Len(todo) \in Nat /\ DOMAIN todo = 1..Len(todo)
         /\ Len(frames) \in Nat
         /\ \A i \in DOMAIN todo : /\ todo[i].depth \in Nat /\ todo[i].list \in Lists
                                   /\ todo[i].entry \in Entry
<1>1. todo \in Seq(TodoRec) /\ frames \in Seq(FrameRec)
  BY DEF TypesInv, WellInv, Well
<1>2. \A i \in DOMAIN todo : todo[i] \in TodoRec
  BY <1>1
<1>3. QED
  BY <1>1, <1>2 DEF TodoRec

\* Where jQuery has none to make at once, all are for loops further out.
LEMMA IdleDepths ==
  ASSUME TypesInv, WellInv, TodoInv, Idle
  PROVE  \A i \in DOMAIN todo : todo[i].depth < Len(frames)
<1>1. SUFFICES ASSUME NEW i \in DOMAIN todo PROVE todo[i].depth < Len(frames)
  OBVIOUS
<1>2. /\ Len(todo) \in Nat /\ DOMAIN todo = 1..Len(todo) /\ Len(frames) \in Nat
      /\ todo[i].depth \in Nat
  BY TodoTyped
<1>3. 1 \in DOMAIN todo /\ todo # <<>> /\ todo[1].depth \in Nat
  BY <1>2, TodoTyped
<1>4. todo[1].depth <= Len(frames) /\ todo[1].depth # Len(frames)
  BY <1>3 DEF TodoInv, Idle
<1>5. i = 1 \/ todo[i].depth <= todo[1].depth
  BY <1>2, <1>3 DEF TodoInv
<1>6. QED
  BY <1>2, <1>3, <1>4, <1>5

\* A step of a loop: at most one ends.
LEMMA TodoStays ==
  ASSUME TypesInv, WellInv, TodoInv, Idle, todo' = todo, Len(frames') \in Nat,
         Len(frames') >= Len(frames) - 1
  PROVE  TodoInv' /\ (Len(frames') >= Len(frames) => Idle')
<1>1. /\ Len(frames) \in Nat /\ \A i \in DOMAIN todo : todo[i].depth \in Nat
      /\ DOMAIN todo = 1..Len(todo)
  BY TodoTyped
<1>2. \A i \in DOMAIN todo : todo[i].depth < Len(frames)
  BY IdleDepths
<1>3. \A i \in DOMAIN todo : todo[i].depth <= Len(frames')
  BY <1>1, <1>2
<1>4. Len(frames') >= Len(frames) => \A i \in DOMAIN todo : todo[i].depth # Len(frames')
  BY <1>1, <1>2
<1>5. TodoInv'
  BY <1>3 DEF TodoInv
<1>6. todo # <<>> => 1 \in DOMAIN todo
  BY TodoTyped
<1>7. QED
  BY <1>4, <1>5, <1>6 DEF Idle

\* The first of the functions to be added is added.
LEMMA TodoTail ==
  ASSUME TypesInv, WellInv, TodoInv, todo # <<>>, todo' = Tail(todo), Len(frames') \in Nat,
         Len(frames') >= Len(frames)
  PROVE  /\ TodoInv' /\ todo' \in Seq(TodoRec)
         /\ \A i \in DOMAIN todo' : i + 1 \in DOMAIN todo /\ todo'[i] = todo[i + 1] /\ i + 1 # 1 /\ i \in Nat
         /\ \A l, e : Waits(l, e) => Waits(l, e)' \/ (l = todo[1].list /\ e = todo[1].entry)
<1>1. /\ todo \in Seq(TodoRec) /\ Len(todo) \in Nat /\ Len(frames) \in Nat
      /\ DOMAIN todo = 1..Len(todo)
      /\ \A i \in DOMAIN todo : todo[i].depth \in Nat
  BY TodoTyped
<1>2. todo' \in Seq(TodoRec) /\ Len(todo') = Len(todo) - 1 /\ DOMAIN todo' = 1..(Len(todo) - 1)
      /\ \A i \in 1..(Len(todo) - 1) : todo'[i] = todo[i + 1]
  BY <1>1
<1>3. \A i \in DOMAIN todo' : i + 1 \in DOMAIN todo /\ todo'[i] = todo[i + 1] /\ i + 1 # 1 /\ i \in Nat
  BY <1>1, <1>2
<1>4. ASSUME NEW l, NEW e, Waits(l, e)
      PROVE  Waits(l, e)' \/ (l = todo[1].list /\ e = todo[1].entry)
  <2>1. PICK i \in DOMAIN todo : todo[i].list = l /\ todo[i].entry = e
    BY <1>4 DEF Waits
  <2>2. CASE i = 1
    BY <2>1, <2>2
  <2>3. CASE i # 1
    <3>1. i - 1 \in DOMAIN todo' /\ todo'[i - 1] = todo[i]
      BY <1>1, <1>2, <2>3
    <3>2. QED
      BY <2>1, <3>1 DEF Waits
  <2>4. QED
    BY <2>2, <2>3
<1>5. ASSUME NEW i \in DOMAIN todo' PROVE todo'[i].depth <= Len(frames')
  <2>1. i + 1 \in DOMAIN todo /\ todo'[i] = todo[i + 1]
    BY <1>3
  <2>2. todo[i + 1].depth <= Len(frames) /\ todo[i + 1].depth \in Nat
    BY <1>1, <2>1 DEF TodoInv
  <2>3. QED
    BY <1>1, <2>1, <2>2
<1>6. ASSUME NEW i \in DOMAIN todo', NEW j \in DOMAIN todo', i < j
      PROVE  todo'[j].depth <= todo'[i].depth
  <2>1. /\ i + 1 \in DOMAIN todo /\ todo'[i] = todo[i + 1] /\ i \in Nat
        /\ j + 1 \in DOMAIN todo /\ todo'[j] = todo[j + 1] /\ j \in Nat
    BY <1>3
  <2>2. i + 1 < j + 1
    BY <1>6, <2>1
  <2>3. QED
    BY <2>1, <2>2 DEF TodoInv
<1>7. TodoInv'
  BY <1>5, <1>6 DEF TodoInv
<1>8. QED
  BY <1>2, <1>3, <1>4, <1>7

\* What pipe and its filter add comes before what has waited longer.
LEMMA TodoPrefix ==
  ASSUME TypesInv, WellInv, TodoInv, Len(frames') = Len(frames),
         NEW X \in Seq(TodoRec), \A i \in DOMAIN X : X[i].depth = Len(frames), todo' = X \o todo
  PROVE  /\ TodoInv' /\ todo' \in Seq(TodoRec) /\ Len(X) \in Nat
         /\ \A i \in DOMAIN todo' :
               \/ i \in DOMAIN X /\ todo'[i] = X[i]
               \/ i - Len(X) \in DOMAIN todo /\ todo'[i] = todo[i - Len(X)] /\ i \in Nat
         /\ \A l, e : Waits(l, e) => Waits(l, e)'
         /\ \A i \in DOMAIN X : i \in DOMAIN todo' /\ todo'[i] = X[i]
<1>1. /\ todo \in Seq(TodoRec) /\ Len(todo) \in Nat /\ Len(frames) \in Nat
      /\ DOMAIN todo = 1..Len(todo)
      /\ \A i \in DOMAIN todo : todo[i].depth \in Nat
  BY TodoTyped
<1>2. Len(X) \in Nat /\ DOMAIN X = 1..Len(X)
  OBVIOUS
<1>3. /\ todo' \in Seq(TodoRec) /\ Len(todo') = Len(X) + Len(todo)
      /\ DOMAIN todo' = 1..(Len(X) + Len(todo))
      /\ \A i \in 1..(Len(X) + Len(todo)) :
            todo'[i] = IF i <= Len(X) THEN X[i] ELSE todo[i - Len(X)]
  BY <1>1, <1>2
<1>4. ASSUME NEW i \in DOMAIN todo'
      PROVE  \/ i \in DOMAIN X /\ todo'[i] = X[i]
             \/ i - Len(X) \in DOMAIN todo /\ todo'[i] = todo[i - Len(X)] /\ i \in Nat
  BY <1>1, <1>2, <1>3
<1>5. ASSUME NEW l, NEW e, Waits(l, e) PROVE Waits(l, e)'
  <2>1. PICK i \in DOMAIN todo : todo[i].list = l /\ todo[i].entry = e
    BY <1>5 DEF Waits
  <2>2. i + Len(X) \in DOMAIN todo' /\ todo'[i + Len(X)] = todo[i]
    BY <1>1, <1>2, <1>3
  <2>3. QED
    BY <2>1, <2>2 DEF Waits
<1>6. \A i \in DOMAIN X : i \in DOMAIN todo' /\ todo'[i] = X[i]
  BY <1>1, <1>2, <1>3
<1>7. ASSUME NEW i \in DOMAIN todo'
      PROVE  /\ todo'[i].depth <= Len(frames')
             /\ i \notin DOMAIN X => todo'[i].depth \in Nat
  <2>1. CASE i \in DOMAIN X /\ todo'[i] = X[i]
    BY <1>1, <2>1
  <2>2. CASE i - Len(X) \in DOMAIN todo /\ todo'[i] = todo[i - Len(X)]
    BY <1>1, <2>2 DEF TodoInv
  <2>3. QED
    BY <1>4, <2>1, <2>2
<1>8. ASSUME NEW i \in DOMAIN todo', NEW j \in DOMAIN todo', i < j
      PROVE  todo'[j].depth <= todo'[i].depth
  <2>1. CASE i \in DOMAIN X
    <3>1. todo'[i].depth = Len(frames')
      BY <1>6, <2>1
    <3>2. QED
      BY <1>7, <3>1
  <2>2. CASE i \notin DOMAIN X
    <3>1. j \notin DOMAIN X
      BY <1>2, <1>3, <1>8, <2>2
    <3>2. /\ i - Len(X) \in DOMAIN todo /\ todo'[i] = todo[i - Len(X)] /\ i \in Nat
          /\ j - Len(X) \in DOMAIN todo /\ todo'[j] = todo[j - Len(X)] /\ j \in Nat
      BY <1>4, <2>2, <3>1
    <3>3. i - Len(X) < j - Len(X)
      BY <1>2, <1>8, <3>2
    <3>4. QED
      BY <3>2, <3>3 DEF TodoInv
  <2>3. QED
    BY <2>1, <2>2
<1>9. TodoInv'
  BY <1>7, <1>8 DEF TodoInv
<1>10. QED
  BY <1>2, <1>3, <1>4, <1>5, <1>6, <1>9

\* PartDone is added once to the list of a part.
LEMMA PartsStep ==
  ASSUME DeferredConstants, WellInv, PartsOnce,
         \A d \in Part :
            \/ lists'[<<d, "done">>].added = lists[<<d, "done">>].added
            \/ \E e \in Entry :
                  /\ lists'[<<d, "done">>].added = Append(lists[<<d, "done">>].added, e)
                  /\ e = PartDone => ~Holds(<<d, "done">>, PartDone) /\ ~Waits(<<d, "done">>, PartDone)',
         \A d \in Part : Waits(<<d, "done">>, PartDone)' => ~Holds(<<d, "done">>, PartDone),
         \A i, j \in DOMAIN todo' :
            todo'[i].list = todo'[j].list /\ todo'[i].entry = PartDone /\ todo'[j].entry = PartDone
            => i = j
  PROVE  PartsOnce'
<1>1. ASSUME NEW d \in Part
      PROVE  LET added == lists'[<<d, "done">>].added IN
             /\ \A i, j \in DOMAIN added : added[i] = PartDone /\ added[j] = PartDone => i = j
             /\ Waits(<<d, "done">>, PartDone)' => ~(\E i \in DOMAIN added : added[i] = PartDone)
  <2> DEFINE a == lists[<<d, "done">>].added
             b == lists'[<<d, "done">>].added
  <2>1. a \in Seq(Entry)
    BY PartLists, WellTyped DEF WellInv, ListRec
  <2>2. \A i, j \in DOMAIN a : a[i] = PartDone /\ a[j] = PartDone => i = j
    BY DEF PartsOnce
  <2>3. Holds(<<d, "done">>, PartDone) <=> \E i \in DOMAIN a : a[i] = PartDone
    BY DEF Holds
  <2>4. \/ b = a
        \/ \E e \in Entry : /\ b = Append(a, e)
                            /\ e = PartDone => /\ ~Holds(<<d, "done">>, PartDone)
                                               /\ ~Waits(<<d, "done">>, PartDone)'
    OBVIOUS
  <2>5. Waits(<<d, "done">>, PartDone)' => ~Holds(<<d, "done">>, PartDone)
    OBVIOUS
  <2> HIDE DEF a, b
  <2>6. CASE b = a
    BY <2>2, <2>3, <2>5, <2>6 DEF b
  <2>7. CASE b # a
    <3>1. PICK e \in Entry : /\ b = Append(a, e)
                             /\ e = PartDone => /\ ~Holds(<<d, "done">>, PartDone)
                                                /\ ~Waits(<<d, "done">>, PartDone)'
      BY <2>4, <2>7
    <3>2. \A i \in DOMAIN b : (i \in DOMAIN a /\ b[i] = a[i]) \/ (i = Len(a) + 1 /\ b[i] = e)
      <4>1. /\ Len(b) = Len(a) + 1 /\ b[Len(a) + 1] = e /\ \A i \in 1..Len(a) : b[i] = a[i]
            /\ Len(a) \in Nat /\ b \in Seq(Entry)
        BY <2>1, <3>1, AppendFacts
      <4>2. DOMAIN a = 1..Len(a) /\ DOMAIN b = 1..(Len(a) + 1)
        BY <2>1, <4>1
      <4>3. QED
        BY <4>1, <4>2
    <3>3. QED
      BY <2>2, <2>3, <2>5, <3>1, <3>2 DEF b
  <2>8. QED
    BY <2>6, <2>7
<1>2. PartDone' = PartDone
  BY DEF PartDone
<1>3. QED
  BY <1>1 DEF PartsOnce, Holds, PartDone

-----------------------------------------------------------------------------
(* What the steps have in common.                                           *)

\* When none settles, a step settles none, but may fire a list.
LEMMA PhasesOn ==
  ASSUME DeferredConstants, WellInv, Contents, Phases, Settled, Onward,
         \A l \in Lists : /\ Once(l) => (lists'[l].gone <=> lists[l].gone)
                          /\ lists[l].locked => lists'[l].locked,
         \A l \in Lists : Once(l) /\ ~Begun(l) /\ Begun(l)' =>
            /\ ~lists[l].gone /\ Ran(l)' = 0
            /\ frames' # <<>> /\ Top'.list = l /\ Idle',
         \A d \in Deferreds :
            \/ state'[d] = state[d]
            \/ state[d] \in {"unmade", "pending"} /\ state'[d] \in {"unmade", "pending"}
  PROVE  Phases'
<1>1. ASSUME NEW l \in Lists, Once(l), Begun(l) PROVE Begun(l)' /\ Ran(l)' > 2 /\ Ran(l)' \in Nat
  <2>1. Ran(l) \in 0..Len(lists[l].added) /\ Len(lists[l].added) \in Nat
    BY <1>1, AddedFacts
  <2>2. Ran(l) > 2
    BY <1>1 DEF Settled
  <2>3. Ran(l)' = Ran(l) \/ Ran(l)' = Ran(l) + 1
    BY <1>1 DEF Onward
  <2>4. Ran(l)' > 2 /\ Ran(l)' \in Nat
    BY <2>1, <2>2, <2>3
  <2>5. QED
    BY <1>1, <2>4 DEF Onward
<1>2. QED
  BY <1>1, PhasesStay

\* Where nothing is added, what waits still waits.
LEMMA Untouched ==
  ASSUME DeferredConstants, WellInv, PartsOnce, Onward, todo' = todo,
         \A l \in Lists : lists'[l].added = lists[l].added
  PROVE  /\ PartsOnce'
         /\ \A l \in Lists : \A e : Due(l, e) => Due(l, e)'
<1>1. \A l, e : Waits(l, e)' <=> Waits(l, e)
  BY DEF Waits
<1>2. ASSUME NEW l \in Lists, NEW e, Due(l, e) PROVE Due(l, e)'
  BY <1>1, <1>2, DueOn
<1>3. \A d \in Part : lists'[<<d, "done">>].added = lists[<<d, "done">>].added
  BY PartLists
<1>4. \A d \in Part : Waits(<<d, "done">>, PartDone)' => ~Holds(<<d, "done">>, PartDone)
  BY <1>1 DEF PartsOnce, PartDone
<1>5. \A i, j \in DOMAIN todo' :
         todo'[i].list = todo'[j].list /\ todo'[i].entry = PartDone /\ todo'[j].entry = PartDone
         => i = j
  BY DEF PartsOnce
<1>6. PartsOnce'
  BY <1>3, <1>4, <1>5, PartsStep
<1>7. QED
  BY <1>2, <1>6

\* A step of a loop.
LEMMA LoopStep ==
  ASSUME DeferredConstants, DefInv, Idle, Well(lists', frames'), Onward,
         todo' = todo, calls' \in 0..MaxCalls, count' \in Nat,
         state' \in [Deferreds -> {"unmade", "pending", "resolved", "rejected"}],
         Len(frames') >= Len(frames) - 1,
         \A l \in Lists : lists'[l].added = lists[l].added,
         \A l \in Lists : ~Once(l) => lists'[l].list = lists[l].list \/ lists'[l].list = <<>>,
         \A i \in DOMAIN frames' :
            \/ \E j \in DOMAIN frames : frames'[i] = frames[j]
            \/ frames'[i].entry = NoEntry
            \/ Once(frames'[i].list)
            \/ LaterIn(state', frames'[i].list, frames'[i].entry),
         Phases', WhenInv', PipeInv'
  PROVE  DefInv'
<1>1. TypesInv /\ WellInv /\ TodoInv /\ Contents /\ PartsOnce
  BY DEF DefInv
<1>2. WellInv'
  BY DEF WellInv
<1>3. TypesInv'
  BY <1>1 DEF TypesInv, TodoRec
<1>4. Len(frames') \in Nat
  BY DEF Well
<1>5. TodoInv'
  BY <1>1, <1>4, TodoStays
<1>6. PartsOnce'
  BY <1>1, Untouched
<1>7. Contents'
  <2>1. \A i \in DOMAIN todo' : \E j \in DOMAIN todo : todo'[i] = todo[j]
    OBVIOUS
  <2>2. QED
    BY <1>1, <2>1, ContentsStep
<1>8. QED
  BY <1>2, <1>3, <1>5, <1>6, <1>7 DEF DefInv

\* A step in which no function returns and no list is fired.
LEMMA CalmStep ==
  ASSUME DeferredConstants, DefInv, Idle, Well(lists', frames'),
         UNCHANGED <<calls, state, count, todo>>,
         Len(frames') >= Len(frames) - 1,
         \A l \in Lists : Same(lists, frames, lists', frames', l),
         \A l \in Lists : ~Once(l) => lists'[l].list = lists[l].list \/ lists'[l].list = <<>>,
         \A i \in DOMAIN frames' :
            \/ \E j \in DOMAIN frames : frames'[i] = frames[j]
            \/ frames'[i].entry = NoEntry
            \/ Once(frames'[i].list)
            \/ LaterIn(state', frames'[i].list, frames'[i].entry),
         Phases'
  PROVE  DefInv'
<1>1. /\ TypesInv /\ WellInv /\ TodoInv /\ Contents /\ PartsOnce /\ WhenInv /\ PipeInv
  BY DEF DefInv
<1>2. ASSUME NEW l \in Lists
      PROVE  /\ lists'[l].added = lists[l].added /\ lists'[l].gone = lists[l].gone
             /\ Begun(l)' <=> Begun(l)
             /\ Ran(l)' = Ran(l)
  BY DEF Same, Begun, Ran
<1>3. Onward
  BY <1>2 DEF Onward
<1>4. \A l \in Lists : \A e : Due(l, e) => Due(l, e)'
  BY <1>1, <1>2, <1>3, Untouched
<1>5. \A d \in Deferreds, k \in Ends : Begun(<<d, k>>)' => Begun(<<d, k>>)
  BY <1>2, EndFacts
<1>6. All \in Deferreds /\ Piped \in Deferreds /\ Source \in Part
  BY DEF Deferreds, DeferredConstants
<1>7. ASSUME NEW d \in Part, NEW k \in Ends
      PROVE  /\ <<d, k>> \in Lists /\ Ran(<<d, k>>)' = Ran(<<d, k>>)
             /\ Ran(<<d, k>>) \in Nat /\ Ran(<<d, k>>)' # Ran(<<d, k>>) + 1
  <2>1. <<d, k>> \in Lists /\ Once(<<d, k>>)
    BY PartLists, EndFacts
  <2>2. Ran(<<d, k>>) \in 0..Len(lists[<<d, k>>].added) /\ Len(lists[<<d, k>>].added) \in Nat
    BY <1>1, <2>1, AddedFacts
  <2>3. QED
    BY <1>2, <2>1, <2>2
<1>8. WhenInv'
  <2>1. \A d \in Part : <<d, "done">> \in Lists /\ <<d, "fail">> \in Lists
    BY PartLists
  <2>2. \A k \in Ends : Begun(<<All, k>>)' => Begun(<<All, k>>)
    BY <1>5, <1>6
  <2>3. \A l \in Lists : Once(l) /\ Calling /\ Top.list = l /\ Ran(l)' # Ran(l) =>
           Top.entry # PartDone /\ Top.entry # AllFail
    BY <1>2
  <2>4. \A d \in Part : /\ Due(<<d, "done">>, PartDone) => Due(<<d, "done">>, PartDone)'
                        /\ Due(<<d, "fail">>, AllFail) => Due(<<d, "fail">>, AllFail)'
    BY <1>4, <2>1 DEF PartDone, AllFail, Forward
  <2>5. QED
    BY <1>1, <1>3, <2>2, <2>3, <2>4, WhenStays
<1>9. PipeInv'
  <2>1. "done" \in Ends /\ "fail" \in Ends
    BY DEF Ends
  <2>2. \A k \in Ends : Begun(<<Piped, k>>)' => Begun(<<Piped, k>>)
    BY <1>5, <1>6
  <2>3. \A p \in Part, k \in Ends : Due(<<p, k>>, PipedEnd(k)) => Due(<<p, k>>, PipedEnd(k))'
    BY <1>4, <1>7 DEF PipedEnd, Forward
  <2>4. Due(<<Source, "done">>, PipedFilter) => Due(<<Source, "done">>, PipedFilter)'
    BY <1>4, <1>6, <1>7, <2>1 DEF PipedFilter, Filter
  <2>5. state' = state
    OBVIOUS
  <2>6. QED
    BY <1>1, <1>3, <1>6, <1>7, <2>1, <2>2, <2>3, <2>4, <2>5, PipeStep
<1>10. /\ calls' \in 0..MaxCalls /\ count' \in Nat
       /\ state' \in [Deferreds -> {"unmade", "pending", "resolved", "rejected"}]
  BY <1>1 DEF TypesInv
<1>11. QED
  BY <1>2, <1>3, <1>8, <1>9, <1>10, LoopStep

\* The step that calls the next function of a list.
LEMMA CallNextStep ==
  ASSUME DeferredConstants, DefInv, Idle, CallNext, UNCHANGED <<state, count, todo>>
  PROVE  DefInv'
<1> DEFINE l == Top.list
           L == lists[l]
           e == NextOf(L)
<1>1. TypesInv /\ WellInv /\ TodoInv /\ Contents /\ Phases
  BY DEF DefInv
<1>2. frames # <<>> /\ Top.entry = NoEntry /\ L.index < L.length /\ UNCHANGED calls
  BY DEF CallNext, Looping, More
<1>3. Well(lists, frames) /\ Top = frames[Len(frames)]
  BY <1>1 DEF WellInv, Top
<1>4. L \in ListRec /\ l \in Lists /\ frames \in Seq(FrameRec)
  <2>1. frames \in Seq(FrameRec) /\ l \in Lists
    BY <1>2, <1>3, TopFacts DEF Well, FrameRec
  <2>2. QED
    BY <1>3, <2>1, WellTyped
<1>5. L.index < Len(L.list)
  BY <1>2, <1>3, CallStep
<1>6. /\ lists' = Put(lists, l, Called1(L, e, Top.value))
      /\ frames' = Put(frames, Len(frames), Entered(Top, e))
  <2>1. ~(L.index >= Len(L.list))
    <3>1. L.index \in Nat /\ Len(L.list) \in Nat
      BY <1>4 DEF ListRec
    <3>2. QED
      BY <1>5, <3>1
  <2>2. lists' = [lists EXCEPT ![l].due = IF @ = <<>> THEN <<>> ELSE Tail(@),
                               ![l].log = Append(@, <<e, Top.value>>)]
        /\ frames' = [frames EXCEPT ![Len(frames)].entry = e]
    BY <2>1 DEF CallNext, NextOf
  <2>3. lists' = Put(lists, l, Called1(L, e, Top.value))
    BY <2>2 DEF Put, Called1
  <2>4. frames' = Put(frames, Len(frames), Entered(Top, e))
    BY <2>2 DEF Put, Entered, Top
  <2>5. QED
    BY <2>3, <2>4
<1>7. /\ Well(lists', frames') /\ \A k \in Lists : Same(lists, frames, lists', frames', k)
      /\ \A k \in Lists : k # l => lists'[k] = lists[k]
      /\ Len(frames') = Len(frames) /\ frames' # <<>> /\ frames'[Len(frames')].list = l
      /\ frames'[Len(frames')].entry = e /\ DOMAIN frames' = DOMAIN frames
      /\ \A i \in DOMAIN frames : i # Len(frames) => frames'[i] = frames[i]
      /\ lists'[l].list = L.list
      /\ \E i \in DOMAIN L.list : e = L.list[i]
  <2> HIDE DEF l
  <2>1. QED
    BY <1>2, <1>3, <1>6, CallStep, SMTT(60) DEF l
<1> HIDE DEF e
<1>8. Phases'
  <2>1. Top'.list = Top.list
    BY <1>7 DEF Top
  <2>2. Idle' <=> Idle
    BY <1>7 DEF Idle
  <2>3. QED
    BY <1>1, <1>7, <2>1, <2>2, PhasesCall
<1>9. ASSUME NEW i \in DOMAIN frames'
      PROVE  \/ \E j \in DOMAIN frames : frames'[i] = frames[j]
             \/ frames'[i].entry = NoEntry
             \/ Once(frames'[i].list)
             \/ LaterIn(state', frames'[i].list, frames'[i].entry)
  <2>1. CASE i # Len(frames)
    BY <1>7, <2>1
  <2>2. CASE i = Len(frames) /\ ~Once(l)
    <3>1. Later(l, e)
      BY <1>1, <1>4, <1>7, <2>2 DEF Contents
    <3>2. LaterIn(state', l, e)
      BY <3>1 DEF Later
    <3>3. QED
      BY <1>7, <2>2, <3>2
  <2>3. CASE i = Len(frames) /\ Once(l)
    BY <1>7, <2>3
  <2>4. QED
    BY <2>1, <2>2, <2>3
<1>10. Len(frames') >= Len(frames) - 1
  BY <1>4, <1>7
<1>11. \A k \in Lists : ~Once(k) => lists'[k].list = lists[k].list \/ lists'[k].list = <<>>
  BY <1>7
<1>12. UNCHANGED <<calls, state, count, todo>>
  BY <1>2
<1> HIDE DEF l, L
<1>13. QED
  BY <1>7, <1>8, <1>9, <1>10, <1>11, <1>12, CalmStep

\* The step that ends a loop.
LEMMA FinishDefStep ==
  ASSUME DeferredConstants, DefInv, Idle, Finish, UNCHANGED <<state, count, todo>>
  PROVE  DefInv'
<1> DEFINE l == Top.list
           L == lists[l]
           M == [L EXCEPT !.firing = FALSE, !.broken = FALSE]
<1>1. TypesInv /\ WellInv /\ TodoInv /\ Contents /\ Phases
  BY DEF DefInv
<1>2. frames # <<>> /\ Top.entry = NoEntry /\ UNCHANGED calls /\ (Top.over \/ ~More(M))
  BY DEF Finish, Looping
<1>3. Well(lists, frames) /\ Top = frames[Len(frames)]
  BY <1>1 DEF WellInv, Top
<1>4. frames \in Seq(FrameRec) /\ l \in Lists /\ ~Top.over /\ Fires(frames, l)
  BY <1>2, <1>3, TopFacts DEF Well, FrameRec
<1>5. ~(L.index < L.length)
  <2>1. L \in ListRec
    BY <1>3, <1>4, WellTyped
  <2>2. L.gone => L.length = 0
    <3>1. /\ ListOK(l, L, Loops(frames, l), InCall(frames, l))
      BY <1>3, <1>4, WellTyped
    <3>2. Loops(frames, l) = 1
      BY <1>4 DEF Loops
    <3>3. L.list = <<>> => Len(L.list) = 0
      OBVIOUS
    <3>4. QED
      BY <3>1, <3>2, <3>3 DEF ListOK
  <2>3. L.index \in Nat
    BY <2>1 DEF ListRec
  <2>4. M.gone = L.gone /\ M.index = L.index /\ M.length = L.length
    <3> HIDE DEF L
    <3>1. QED
      BY <2>1 DEF ListRec
  <2>5. QED
    BY <1>2, <1>4, <2>2, <2>3, <2>4 DEF More
<1>6. /\ lists' = Put(lists, l, Finished(l, L))
      /\ frames' = IF Again(l, L) THEN Put(frames, Len(frames), Frame(l, L.stack[1]))
                   ELSE Front(frames)
  <2>1. L \in ListRec
    BY <1>3, <1>4, WellTyped
  <2>2. M.gone = L.gone /\ M.stack = L.stack /\ M.memory = L.memory
    <3> HIDE DEF L
    <3>1. QED
      BY <2>1 DEF ListRec
  <2> DEFINE again == ~M.gone /\ "once" \notin Flags[l] /\ M.stack # <<>>
             U == [M EXCEPT !.memory = M.stack[1], !.stack = Tail(@)]
  <2>3. again <=> Again(l, L)
    BY <2>2 DEF Again
  <2>4. /\ frames' = IF again THEN [frames EXCEPT ![Len(frames)] = Frame(l, M.stack[1])] ELSE Rest
        /\ lists' = [lists EXCEPT ![l] =
                       IF again THEN FireList(l, U, M.stack[1])
                       ELSE IF M.gone \/ "once" \notin Flags[l] THEN M
                       ELSE IF M.memory = Halted THEN Disable(M)
                       ELSE [M EXCEPT !.list = <<>>]]
    BY DEF Finish
  <2> HIDE DEF again, M, L, l
  <2>5. frames' = IF Again(l, L) THEN Put(frames, Len(frames), Frame(l, L.stack[1])) ELSE Front(frames)
    BY <2>2, <2>3, <2>4 DEF Put, Rest
  <2>6. Finished(l, L) = IF again THEN FireList(l, U, M.stack[1])
                         ELSE IF M.gone \/ "once" \notin Flags[l] THEN M
                         ELSE IF M.memory = Halted THEN Disable(M)
                         ELSE [M EXCEPT !.list = <<>>]
    BY <2>2, <2>3 DEF Finished, M
  <2>7. lists' = Put(lists, l, Finished(l, L))
    BY <2>4, <2>6 DEF Put
  <2>8. QED
    BY <2>5, <2>7
<1> HIDE DEF M
<1>7. /\ Well(lists', frames') /\ \A k \in Lists : Same(lists, frames, lists', frames', k)
      /\ \A k \in Lists : k # l => lists'[k] = lists[k]
      /\ Len(frames') >= Len(frames) - 1
      /\ \A i \in DOMAIN frames' : \/ i \in DOMAIN frames /\ frames'[i] = frames[i]
                                   \/ frames'[i].entry = NoEntry
      /\ Once(l) => RanIn(lists, frames, l) = Len(L.added)
      /\ lists'[l].list = L.list \/ lists'[l].list = <<>>
  <2> HIDE DEF l
  <2>1. QED
    BY <1>2, <1>3, <1>5, <1>6, FinishStep, SMTT(60) DEF l
<1>9. Settled
  <2>1. CASE Once(l)
    <3>1. Ran(l) = Len(lists[l].added) /\ Len(lists[l].added) > 2
      BY <1>1, <1>4, <1>7, <2>1, AddedFacts DEF Ran
    <3>2. QED
      BY <1>1, <1>2, <2>1, <3>1, NoneSettling
  <2>2. CASE ~Once(l)
    <3>1. \A k \in Lists : Once(k) /\ Begun(k) /\ Ran(k) < 3 => Top.list = k
      BY <1>1, NoneSettling
    <3>2. ASSUME NEW k \in Lists, Once(k), Begun(k) PROVE Ran(k) > 2
      <4>1. Ran(k) \in 0..Len(lists[k].added) /\ Len(lists[k].added) \in Nat
        BY <1>1, <3>2, AddedFacts
      <4>2. ~(Ran(k) < 3)
        BY <2>2, <3>1, <3>2
      <4>3. QED
        BY <4>1, <4>2
    <3>3. QED
      BY <3>2 DEF Settled
  <2>3. QED
    BY <2>1, <2>2
<1>10. ASSUME NEW k \in Lists
       PROVE  /\ lists'[k].added = lists[k].added /\ lists'[k].gone = lists[k].gone
              /\ lists'[k].locked = lists[k].locked
              /\ Begun(k)' <=> Begun(k)
              /\ Ran(k)' = Ran(k)
  BY <1>7 DEF Same, Begun, Ran
<1>11. Onward
  BY <1>10 DEF Onward
<1>12. Phases'
  BY <1>1, <1>9, <1>10, <1>11, PhasesOn
<1>13. ASSUME NEW i \in DOMAIN frames'
       PROVE  \/ \E j \in DOMAIN frames : frames'[i] = frames[j]
              \/ frames'[i].entry = NoEntry
  BY <1>7
<1>15. \A k \in Lists : ~Once(k) => lists'[k].list = lists[k].list \/ lists'[k].list = <<>>
  BY <1>7
<1>16. UNCHANGED <<calls, state, count, todo>>
  BY <1>2
<1> HIDE DEF l, L
<1>17. QED
  BY <1>7, <1>12, <1>13, <1>15, <1>16, CalmStep

-----------------------------------------------------------------------------
(* A function returns that fires nothing.                                   *)

\* What a step must do for the invariant when a function returns that fires
\* no other list.
LEMMA PlainReturn ==
  ASSUME DeferredConstants, DefInv, Idle, Calling,
         Top.entry[1] \in {"user", "settle", "disable", "lock"},
         Well(lists', frames'), Onward, todo' = todo, calls' = calls, count' = count,
         state' \in [Deferreds -> {"unmade", "pending", "resolved", "rejected"}],
         state[All] = "unmade" => state'[All] = "unmade",
         state[Piped] = "unmade" => state'[Piped] = "unmade",
         Len(frames') = Len(frames),
         \A i \in DOMAIN frames' : \/ \E j \in DOMAIN frames : frames'[i] = frames[j]
                                   \/ frames'[i].entry = NoEntry,
         \A l \in Lists : /\ lists'[l].added = lists[l].added
                          /\ Begun(l)' => Begun(l)
                          /\ ~Once(l) => lists'[l].list = lists[l].list \/ lists'[l].list = <<>>,
         Phases'
  PROVE  DefInv'
<1>1. /\ TypesInv /\ WellInv /\ TodoInv /\ Contents /\ PartsOnce /\ WhenInv /\ PipeInv
  BY DEF DefInv
<1>2. \A l \in Lists : \A e : Due(l, e) => Due(l, e)'
  BY <1>1, Untouched
<1>3. All \in Deferreds /\ Piped \in Deferreds /\ Source \in Part
  BY DEF Deferreds, DeferredConstants
<1>4. \A d \in Deferreds, k \in Ends : <<d, k>> \in Lists
  BY EndFacts
<1>5. Top.entry # PartDone /\ Top.entry # AllFail /\ Top.entry # PipedFilter
      /\ \A k : Top.entry # PipedEnd(k)
  BY EntryKinds DEF AllFail, PipedFilter, PipedEnd
<1>6. \A d \in Part, k \in Ends : <<d, k>> \in Lists
  BY <1>4, PartLists
<1>7. "done" \in Ends /\ "fail" \in Ends
  BY DEF Ends
<1>8. /\ state[All] # "unmade" => state'[All] # "unmade"
      /\ state[Piped] # "unmade" => state'[Piped] # "unmade"
  BY <1>3 DEF Onward
<1>9. WhenInv'
  <2>1. \A k \in Ends : Begun(<<All, k>>)' => Begun(<<All, k>>)
    BY <1>3, <1>4
  <2>2. \A l \in Lists : Once(l) /\ Calling /\ Top.list = l /\ Ran(l)' # Ran(l) =>
           Top.entry # PartDone /\ Top.entry # AllFail
    BY <1>5
  <2>3. \A d \in Part : /\ Due(<<d, "done">>, PartDone) => Due(<<d, "done">>, PartDone)'
                        /\ Due(<<d, "fail">>, AllFail) => Due(<<d, "fail">>, AllFail)'
    BY <1>2, <1>6, <1>7 DEF PartDone, AllFail, Forward
  <2>4. state'[All] = "unmade" <=> state[All] = "unmade"
    BY <1>8
  <2>5. QED
    BY <1>1, <2>1, <2>2, <2>3, <2>4, WhenStays
<1>10. PipeInv'
  <2>1. \A k \in Ends : Begun(<<Piped, k>>)' => Begun(<<Piped, k>>)
    BY <1>3, <1>4
  <2>2. \A p \in Part, k \in Ends : Due(<<p, k>>, PipedEnd(k)) => Due(<<p, k>>, PipedEnd(k))'
    BY <1>2, <1>6 DEF PipedEnd, Forward
  <2>3. Due(<<Source, "done">>, PipedFilter) => Due(<<Source, "done">>, PipedFilter)'
    BY <1>2, <1>3, <1>6, <1>7 DEF PipedFilter, Filter
  <2>4. QED
    BY <1>1, <1>5, <1>7, <2>1, <2>2, <2>3, PipeStep
<1>11. calls' \in 0..MaxCalls /\ count' \in Nat
  BY <1>1 DEF TypesInv
<1>12. Len(frames') >= Len(frames) - 1
  <2>1. Len(frames) \in Nat
    BY <1>1 DEF WellInv, Well
  <2>2. QED
    BY <2>1
<1>13. QED
  BY <1>9, <1>10, <1>11, <1>12, LoopStep

\* The lists and loops when the innermost function has returned.
LEMMA Returning ==
  ASSUME DeferredConstants, WellInv, Calling, NEW l, l = Top.list,
         NEW ms, ms = Put(lists, l, Returned(lists[l])), NEW gs, gs = Back
  PROVE  /\ Well(ms, gs) /\ Others(lists, frames, ms, gs, l) /\ l \in Lists
         /\ Len(gs) = Len(frames) /\ gs # <<>> /\ gs[Len(gs)].list = l
         /\ \A i \in DOMAIN gs : \/ i \in DOMAIN frames /\ gs[i] = frames[i]
                                 \/ gs[i].entry = NoEntry
         /\ ms[l].memory = lists[l].memory /\ ms[l].list = lists[l].list
         /\ ms[l].added = lists[l].added /\ ms[l].gone = lists[l].gone
         /\ ms[l].locked = lists[l].locked
         /\ RanIn(ms, gs, l) = RanIn(lists, frames, l) + 1
         /\ Top.value \in Val
<1>1. Well(lists, frames) /\ Top = frames[Len(frames)] /\ frames # <<>> /\ Top.entry # NoEntry
  BY DEF WellInv, Top, Calling
<1>2. gs = Put(frames, Len(frames), Entered(frames[Len(frames)], NoEntry))
  BY DEF Back, Put, Entered
<1>3. /\ Well(ms, gs) /\ Others(lists, frames, ms, gs, l) /\ l \in Lists
      /\ Len(gs) = Len(frames) /\ gs # <<>> /\ gs[Len(gs)].list = l
      /\ gs[Len(gs)].entry = NoEntry
      /\ DOMAIN gs = DOMAIN frames /\ \A i \in DOMAIN frames : i # Len(frames) => gs[i] = frames[i]
      /\ ms[l].memory = lists[l].memory /\ ms[l].list = lists[l].list
      /\ ms[l].added = lists[l].added /\ ms[l].gone = lists[l].gone
      /\ ms[l].locked = lists[l].locked
      /\ RanIn(ms, gs, l) = RanIn(lists, frames, l) + 1
      /\ Top.value \in Val
  BY <1>1, <1>2, ReturnStep
<1>4. \A i \in DOMAIN gs : \/ i \in DOMAIN frames /\ gs[i] = frames[i]
                           \/ gs[i].entry = NoEntry
  BY <1>3
<1>5. QED
  BY <1>3, <1>4

\* Two lists may be replaced in any order.
LEMMA PutSwap ==
  ASSUME NEW f, NEW x, NEW y, x # y, NEW a, NEW b
  PROVE  Put(Put(f, x, a), y, b) = Put(Put(f, y, b), x, a)
<1> DEFINE g == [z \in DOMAIN f |-> IF z = x THEN a ELSE IF z = y THEN b ELSE f[z]]
<1>1. Put(Put(f, x, a), y, b) = g
  BY Zenon DEF Put
<1>2. Put(Put(f, y, b), x, a) = g
  BY Zenon DEF Put
<1> HIDE DEF g
<1>3. QED
  BY <1>1, <1>2

\* A function of jQuery changes one list, and the loop that called it another.
LEMMA TwoLists ==
  ASSUME NEW ls, NEW l \in DOMAIN ls, NEW to \in DOMAIN ls, to # l, NEW U,
         NEW ns, ns = [[ls EXCEPT ![to] = U] EXCEPT ![l].index = @ + 1]
  PROVE  /\ ns = Put(Put(ls, l, Returned(ls[l])), to, U)
         /\ Put(ls, l, Returned(ls[l]))[to] = ls[to]
<1> DEFINE A == Put(ls, to, U)
<1>1. ns = Put(A, l, Returned(A[l]))
  BY DEF Put, Returned
<1>2. A[l] = ls[l]
  BY DEF Put
<1>3. Put(ls, l, Returned(ls[l]))[to] = ls[to]
  BY DEF Put
<1>4. Put(Put(ls, l, Returned(ls[l])), to, U) = Put(A, l, Returned(ls[l]))
  BY PutSwap
<1> HIDE DEF A
<1>5. ns = Put(A, l, Returned(ls[l]))
  BY <1>1, <1>2
<1>6. QED
  BY <1>3, <1>4, <1>5

\* What Return does to the list of its loop.
LEMMA OneList ==
  ASSUME NEW ls, NEW l, NEW ns, ns = [ls EXCEPT ![l].index = @ + 1]
  PROVE  ns = Put(ls, l, Returned(ls[l]))
BY DEF Put, Returned

\* A function of the program returns.
LEMMA UserReturnStep ==
  ASSUME DeferredConstants, DefInv, Idle, UserReturn, UNCHANGED <<state, count, todo>>
  PROVE  DefInv'
<1> DEFINE l == Top.list
<1>1. TypesInv /\ WellInv /\ TodoInv /\ Contents /\ Phases
  BY DEF DefInv
<1>2. Calling /\ calls' = calls /\ Top.entry[1] = "user" /\ frames' = Back
  BY DEF UserReturn, Return
<1>3. lists' = Put(lists, l, Returned(lists[l]))
  <2>1. lists' = [lists EXCEPT ![Top.list].index = @ + 1]
    BY DEF UserReturn, Return
  <2>2. QED
    BY <2>1, OneList
<1> HIDE DEF l
<1>4. l = Top.list
  BY DEF l
<1>5. /\ Well(lists', frames') /\ Others(lists, frames, lists', frames', l) /\ l \in Lists
      /\ Len(frames') = Len(frames)
      /\ \A i \in DOMAIN frames' : \/ i \in DOMAIN frames /\ frames'[i] = frames[i]
                                   \/ frames'[i].entry = NoEntry
      /\ lists'[l].memory = lists[l].memory /\ lists'[l].list = lists[l].list
      /\ lists'[l].added = lists[l].added /\ lists'[l].gone = lists[l].gone
      /\ lists'[l].locked = lists[l].locked
      /\ RanIn(lists', frames', l) = RanIn(lists, frames, l) + 1
  BY <1>1, <1>2, <1>3, <1>4, Returning
<1>6. ASSUME NEW k \in Lists
      PROVE  /\ lists'[k].added = lists[k].added /\ lists'[k].gone = lists[k].gone
             /\ lists'[k].locked = lists[k].locked /\ lists'[k].list = lists[k].list
             /\ Begun(k)' <=> Begun(k)
             /\ Ran(k)' = Ran(k) \/ (Ran(k)' = Ran(k) + 1 /\ Calling /\ Top.list = k)
  <2>1. CASE k = l
    BY <1>2, <1>4, <1>5, <2>1 DEF Begun, Ran
  <2>2. CASE k # l
    BY <1>5, <2>2 DEF Others, Same, Begun, Ran
  <2>3. QED
    BY <2>1, <2>2
<1>7. Onward
  BY <1>6 DEF Onward
<1>8. Settled
  BY <1>1, <1>2, TopEntry, NoneSettling
<1>9. Phases'
  BY <1>1, <1>6, <1>7, <1>8, PhasesOn
<1>10. state' \in [Deferreds -> {"unmade", "pending", "resolved", "rejected"}]
  BY <1>1 DEF TypesInv
<1>11. QED
  BY <1>2, <1>5, <1>6, <1>7, <1>9, <1>10, PlainReturn

\* One of the functions that jQuery puts first in the list of an outcome.
LEMMA OwnTop ==
  ASSUME DeferredConstants, DefInv, Calling, Top.entry[1] \in {"settle", "disable", "lock"}
  PROVE  \E d \in Deferreds, k \in Ends :
            /\ Top.list = <<d, k>> /\ Begun(<<d, k>>) /\ Ran(<<d, k>>) \in {0, 1, 2}
            /\ Ran(<<d, k>>) = 0 <=> Top.entry[1] = "settle"
            /\ Ran(<<d, k>>) = 1 <=> Top.entry[1] = "disable"
            /\ Ran(<<d, k>>) = 2 <=> Top.entry[1] = "lock"
            /\ Ran(<<d, k>>) = 0 => Top.entry[2] = Outcome(k)
            /\ Ran(<<d, k>>) = 1 => Top.entry[2] = <<d, Other(k)>>
            /\ Ran(<<d, k>>) = 2 => Top.entry[2] = <<d, "progress">>
<1> DEFINE l == Top.list
<1>1. WellInv /\ Contents /\ Phases
  BY DEF DefInv
<1>2. /\ l \in Lists
      /\ Once(l) => /\ Begun(l)
                    /\ Ran(l) = 0 <=> Top.entry[1] = "settle"
                    /\ Ran(l) = 1 <=> Top.entry[1] = "disable"
                    /\ Ran(l) = 2 <=> Top.entry[1] = "lock"
                    /\ Ran(l) = 0 => Top.entry = Settle(Outcome(l[2]))
                    /\ Ran(l) = 1 => Top.entry = DisableList(<<l[1], Other(l[2])>>)
                    /\ Ran(l) = 2 => Top.entry = LockList(<<l[1], "progress">>)
      /\ ~Once(l) => Later(l, Top.entry)
      /\ Later(l, Top.entry) <=> Top.entry[1] \in {"user", "part", "forward", "filter"}
  BY <1>1, TopEntry
<1>3. Once(l) /\ Begun(l) /\ Ran(l) \in {0, 1, 2}
  BY <1>2
<1> HIDE DEF l
<1>4. l = <<l[1], l[2]>> /\ l[1] \in Deferreds /\ l[2] \in Ends
  BY <1>2, <1>3, FlagFacts, OwnFacts
<1>5. /\ Ran(l) = 0 => Top.entry[2] = Outcome(l[2])
      /\ Ran(l) = 1 => Top.entry[2] = <<l[1], Other(l[2])>>
      /\ Ran(l) = 2 => Top.entry[2] = <<l[1], "progress">>
  BY <1>2, <1>3, EntryKinds
<1>6. \E d \in Deferreds, k \in Ends :
            /\ l = <<d, k>> /\ Begun(l) /\ Ran(l) \in {0, 1, 2}
            /\ Ran(l) = 0 <=> Top.entry[1] = "settle"
            /\ Ran(l) = 1 <=> Top.entry[1] = "disable"
            /\ Ran(l) = 2 <=> Top.entry[1] = "lock"
            /\ Ran(l) = 0 => Top.entry[2] = Outcome(k)
            /\ Ran(l) = 1 => Top.entry[2] = <<d, Other(k)>>
            /\ Ran(l) = 2 => Top.entry[2] = <<d, "progress">>
  BY <1>2, <1>3, <1>4, <1>5
<1>7. QED
  BY <1>6 DEF l

\* It returns: it has settled the deferred, or changed another list of it.
LEMMA OwnReturn ==
  ASSUME DeferredConstants, DefInv, Idle, Calling, NEW d \in Deferreds, NEW k \in Ends,
         Top.list = <<d, k>>, Begun(<<d, k>>), Ran(<<d, k>>) \in {0, 1, 2},
         Top.entry[1] \in {"settle", "disable", "lock"},
         calls' = calls, count' = count, todo' = todo,
         Well(lists', frames'), Len(frames') = Len(frames), frames' # <<>>,
         Top'.list = <<d, k>>,
         \A i \in DOMAIN frames' : \/ i \in DOMAIN frames /\ frames'[i] = frames[i]
                                   \/ frames'[i].entry = NoEntry,
         \A l \in Lists :
            /\ lists'[l].added = lists[l].added
            /\ lists'[l].memory = lists[l].memory
            /\ ~Once(l) => lists'[l].list = lists[l].list \/ lists'[l].list = <<>>
            /\ lists[l].locked => lists'[l].locked
            /\ lists[l].gone => lists'[l].gone
            /\ Once(l) => (lists'[l].gone <=>
                              lists[l].gone \/ (Ran(<<d, k>>) = 1 /\ l = <<d, Other(k)>>))
            /\ l # <<d, k>> => RanIn(lists', frames', l) = RanIn(lists, frames, l),
         RanIn(lists', frames', <<d, k>>) = RanIn(lists, frames, <<d, k>>) + 1,
         IF Ran(<<d, k>>) = 0 THEN state' = [state EXCEPT ![d] = Outcome(k)] ELSE state' = state,
         Ran(<<d, k>>) = 2 => lists'[<<d, "progress">>].locked
  PROVE  DefInv'
<1>1. TypesInv /\ WellInv /\ TodoInv /\ Contents /\ Phases /\ WhenInv /\ PipeInv
  BY DEF DefInv
<1>2. <<d, k>> \in Lists
  BY EndFacts
<1>3. /\ \A l \in Lists : /\ Begun(l)' <=> Begun(l)
                          /\ l # <<d, k>> => Ran(l)' = Ran(l)
      /\ Ran(<<d, k>>)' = Ran(<<d, k>>) + 1
  BY DEF Begun, Ran
<1>4. state \in [Deferreds -> {"unmade", "pending", "resolved", "rejected"}]
  BY <1>1 DEF TypesInv
<1>5. /\ Phase(d, k)
      /\ Ran(<<d, k>>) = 0 => state[d] \in {"unmade", "pending"}
  <2>1. Phase(d, k)
    BY <1>1 DEF Phases
  <2>2. QED
    BY <2>1 DEF Phase
<1>6. /\ state' \in [Deferreds -> {"unmade", "pending", "resolved", "rejected"}]
      /\ \A x \in Deferreds : /\ state[x] # "unmade" => state'[x] # "unmade"
                              /\ state[x] \in Outcomes => state'[x] = state[x]
                              /\ x # d => state'[x] = state[x]
  <2>1. CASE Ran(<<d, k>>) = 0
    <3>1. Outcome(k) \in {"resolved", "rejected"}
      BY DEF Outcome
    <3>2. state' = [state EXCEPT ![d] = Outcome(k)]
      BY <2>1
    <3>3. QED
      BY <1>4, <1>5, <2>1, <3>1, <3>2 DEF Outcomes
  <2>2. CASE Ran(<<d, k>>) # 0
    BY <1>4, <2>2
  <2>3. QED
    BY <2>1, <2>2
<1>7. Onward
  <2>1. ASSUME NEW l \in Lists, Once(l)
        PROVE  \/ Ran(l)' = Ran(l)
               \/ Ran(l)' = Ran(l) + 1 /\ Calling /\ Top.list = l
    BY <1>3
  <2>2. QED
    BY <1>3, <1>6, <2>1 DEF Onward
<1>8. Idle'
  BY DEF Idle
<1>9. Phases'
  BY <1>1, <1>3, <1>4, <1>8, PhasesOwn
<1>10. /\ state[All] = "unmade" => d # All
       /\ state[Piped] = "unmade" => d # Piped
       /\ All \in Deferreds /\ Piped \in Deferreds
  BY <1>1 DEF WhenInv, PipeInv, Open, Ends, Deferreds
<1>11. QED
  BY <1>1, <1>3, <1>6, <1>7, <1>9, <1>10, PlainReturn

\* A deferred settles.
LEMMA SettleStep ==
  ASSUME DeferredConstants, DefInv, Idle, Calling, Top.entry[1] = "settle",
         lists' = Put(lists, Top.list, Returned(lists[Top.list])), frames' = Back,
         state' = [state EXCEPT ![Top.list[1]] = Top.entry[2]],
         UNCHANGED <<calls, count, todo>>
  PROVE  DefInv'
<1>1. WellInv
  BY DEF DefInv
<1>2. PICK d \in Deferreds, k \in Ends :
            /\ Top.list = <<d, k>> /\ Begun(<<d, k>>) /\ Ran(<<d, k>>) \in {0, 1, 2}
            /\ Ran(<<d, k>>) = 0 <=> Top.entry[1] = "settle"
            /\ Ran(<<d, k>>) = 0 => Top.entry[2] = Outcome(k)
  BY OwnTop
<1> DEFINE l == <<d, k>>
<1>3. l = Top.list /\ lists' = Put(lists, l, Returned(lists[l])) /\ l[1] = d
  BY <1>2
<1>4. state' = [state EXCEPT ![d] = Outcome(k)] /\ Ran(l) = 0
  BY <1>2, <1>3
<1> HIDE DEF l
<1>5. /\ Well(lists', frames') /\ Others(lists, frames, lists', frames', l) /\ l \in Lists
      /\ Len(frames') = Len(frames) /\ frames' # <<>> /\ frames'[Len(frames')].list = l
      /\ \A i \in DOMAIN frames' : \/ i \in DOMAIN frames /\ frames'[i] = frames[i]
                                   \/ frames'[i].entry = NoEntry
      /\ lists'[l].memory = lists[l].memory /\ lists'[l].list = lists[l].list
      /\ lists'[l].added = lists[l].added /\ lists'[l].gone = lists[l].gone
      /\ lists'[l].locked = lists[l].locked
      /\ RanIn(lists', frames', l) = RanIn(lists, frames, l) + 1
  <2>1. frames' = Back
    OBVIOUS
  <2>2. QED
    BY <1>1, <1>3, <2>1, Returning
<1>6. ASSUME NEW m \in Lists
      PROVE  /\ lists'[m].added = lists[m].added
             /\ lists'[m].memory = lists[m].memory
             /\ lists'[m].list = lists[m].list
             /\ lists'[m].locked = lists[m].locked
             /\ lists'[m].gone = lists[m].gone
             /\ m # l => RanIn(lists', frames', m) = RanIn(lists, frames, m)
  BY <1>5 DEF Others, Same
<1>7. Top'.list = l
  BY <1>5 DEF Top
<1>8. ASSUME NEW m \in Lists
      PROVE  /\ lists'[m].added = lists[m].added
             /\ lists'[m].memory = lists[m].memory
             /\ ~Once(m) => lists'[m].list = lists[m].list \/ lists'[m].list = <<>>
             /\ lists[m].locked => lists'[m].locked
             /\ lists[m].gone => lists'[m].gone
             /\ Once(m) => (lists'[m].gone <=>
                              lists[m].gone \/ (Ran(l) = 1 /\ m = <<d, Other(k)>>))
             /\ m # l => RanIn(lists', frames', m) = RanIn(lists, frames, m)
  BY <1>4, <1>6
<1>9. Top.list = l /\ Begun(l) /\ Ran(l) \in {0, 1, 2}
  BY <1>2 DEF l
<1>10. calls' = calls /\ count' = count /\ todo' = todo
  OBVIOUS
<1>11. /\ IF Ran(l) = 0 THEN state' = [state EXCEPT ![d] = Outcome(k)] ELSE state' = state
       /\ Ran(l) = 2 => lists'[<<d, "progress">>].locked
       /\ Top.entry[1] \in {"settle", "disable", "lock"}
  <2>1. Ran(l) # 2 /\ Top.entry[1] \in {"settle", "disable", "lock"}
    BY <1>4
  <2>2. IF Ran(l) = 0 THEN state' = [state EXCEPT ![d] = Outcome(k)] ELSE state' = state
    BY <1>4, Zenon
  <2>3. QED
    BY <2>1, <2>2, Zenon
<1>12. QED
  BY <1>5, <1>7, <1>8, <1>9, <1>10, <1>11, OwnReturn DEF l

\* It closes its list of the other outcome, and that of its progress.
LEMMA CloseStep ==
  ASSUME DeferredConstants, DefInv, Idle, Calling, frames' = Back,
         UNCHANGED <<calls, state, count, todo>>, NEW to, to = Top.entry[2],
         to # Top.list => lists' = Put(Put(lists, Top.list, Returned(lists[Top.list])), to,
                            IF Top.entry[1] = "disable" THEN Disable(lists[to])
                            ELSE Lock(lists[to])),
         Top.entry[1] \in {"disable", "lock"}
  PROVE  DefInv'
<1>1. WellInv /\ Phases
  BY DEF DefInv
<1>2. PICK d \in Deferreds, k \in Ends :
            /\ Top.list = <<d, k>> /\ Begun(<<d, k>>) /\ Ran(<<d, k>>) \in {0, 1, 2}
            /\ Ran(<<d, k>>) = 1 <=> Top.entry[1] = "disable"
            /\ Ran(<<d, k>>) = 2 <=> Top.entry[1] = "lock"
            /\ Ran(<<d, k>>) = 1 => Top.entry[2] = <<d, Other(k)>>
            /\ Ran(<<d, k>>) = 2 => Top.entry[2] = <<d, "progress">>
  BY OwnTop
<1> DEFINE l == <<d, k>>
           ms == Put(lists, l, Returned(lists[l]))
<1>3. l = Top.list /\ to # l /\ to \in Lists /\ Ran(l) \in {1, 2}
      /\ (Ran(l) = 1 => to = <<d, Other(k)>> /\ Once(to) /\ ~Begun(to))
      /\ (Ran(l) = 2 => to = <<d, "progress">> /\ ~Once(to))
  <2>1. <<d, "progress">> # l
    BY DEF Ends
  <2>2. ~Begun(<<d, Other(k)>>)
    BY <1>1, <1>2 DEF Phases, Phase
  <2>3. /\ <<d, Other(k)>> \in Lists /\ <<d, "progress">> \in Lists
        /\ Once(<<d, Other(k)>>) /\ ~Once(<<d, "progress">>) /\ <<d, Other(k)>> # l
    BY EndFacts
  <2>4. CASE Ran(l) = 1
    BY <1>2, <2>2, <2>3, <2>4
  <2>5. CASE Ran(l) = 2
    BY <1>2, <2>1, <2>3, <2>5
  <2>6. QED
    BY <1>2, <2>4, <2>5
<1>4. lists' = Put(ms, to, IF Top.entry[1] = "disable" THEN Disable(lists[to]) ELSE Lock(lists[to]))
  BY <1>3
<1>5. DOMAIN lists = Lists /\ ms[to] = lists[to]
  BY <1>1, <1>3 DEF WellInv, Well, Put
<1>6. ms = Put(lists, l, Returned(lists[l]))
  OBVIOUS
<1> HIDE DEF l, ms
<1>7. /\ Well(ms, frames') /\ Others(lists, frames, ms, frames', l) /\ l \in Lists
      /\ Len(frames') = Len(frames) /\ frames' # <<>> /\ frames'[Len(frames')].list = l
      /\ \A i \in DOMAIN frames' : \/ i \in DOMAIN frames /\ frames'[i] = frames[i]
                                   \/ frames'[i].entry = NoEntry
      /\ ms[l].memory = lists[l].memory /\ ms[l].list = lists[l].list
      /\ ms[l].added = lists[l].added /\ ms[l].gone = lists[l].gone
      /\ ms[l].locked = lists[l].locked
      /\ RanIn(ms, frames', l) = RanIn(lists, frames, l) + 1
  <2>1. frames' = Back /\ l = Top.list
    BY <1>3
  <2>2. QED
    BY <1>1, <1>6, <2>1, Returning
<1>8. /\ Well(lists', frames') /\ Others(ms, frames', lists', frames', to)
      /\ lists'[to].memory = ms[to].memory /\ lists'[to].locked
      /\ (ms[to].gone => lists'[to].gone)
      /\ lists'[to].added = ms[to].added /\ RanIn(lists', frames', to) = RanIn(ms, frames', to)
      /\ lists'[to].list = ms[to].list \/ lists'[to].list = <<>>
      /\ Ran(l) = 1 => lists'[to].gone
  <2>1. CASE Ran(l) = 1
    <3>1. lists' = Put(ms, to, Disable(ms[to])) /\ ms[to].memory = Undefined
      BY <1>2, <1>3, <1>4, <1>5, <2>1 DEF l, Begun
    <3>2. QED
      BY <1>3, <1>7, <3>1, DisableStep, SMTT(60)
  <2>2. CASE Ran(l) = 2
    <3>1. lists' = Put(ms, to, Lock(ms[to])) /\ ~Once(to)
      BY <1>2, <1>3, <1>4, <1>5, <2>2 DEF l
    <3>2. QED
      BY <1>3, <1>7, <2>2, <3>1, LockStep, SMTT(60)
  <2>3. QED
    BY <1>3, <2>1, <2>2
<1>9. ASSUME NEW m \in Lists
      PROVE  /\ lists'[m].added = lists[m].added
             /\ lists'[m].memory = lists[m].memory
             /\ ~Once(m) => lists'[m].list = lists[m].list \/ lists'[m].list = <<>>
             /\ lists[m].locked => lists'[m].locked
             /\ lists[m].gone => lists'[m].gone
             /\ Once(m) => (lists'[m].gone <=>
                              lists[m].gone \/ (Ran(l) = 1 /\ m = <<d, Other(k)>>))
             /\ m # l => RanIn(lists', frames', m) = RanIn(lists, frames, m)
  <2>1. CASE m = l
    <3>1. lists'[m] = ms[m] /\ m # to /\ (Ran(l) = 1 => m # <<d, Other(k)>>)
      BY <1>3, <1>7, <1>8, <2>1 DEF Others
    <3>2. QED
      BY <1>7, <2>1, <3>1
  <2>2. CASE m = to
    <3>1. ms[m] = lists[m] /\ RanIn(ms, frames', m) = RanIn(lists, frames, m) /\ m # l
      BY <1>3, <1>7, <2>2 DEF Others, Same
    <3>2. QED
      BY <1>3, <1>8, <2>2, <3>1
  <2>3. CASE m # to /\ m # l
    <3>1. /\ lists'[m] = lists[m] /\ RanIn(lists', frames', m) = RanIn(lists, frames, m)
      BY <1>7, <1>8, <2>3 DEF Others, Same
    <3>2. QED
      BY <1>3, <2>3, <3>1
  <2>4. QED
    BY <2>1, <2>2, <2>3
<1>10. Top'.list = l
  BY <1>7 DEF Top
<1>11. RanIn(lists', frames', l) = RanIn(lists, frames, l) + 1
  BY <1>3, <1>7, <1>8 DEF Others, Same
<1>12. Top.list = l /\ Begun(l) /\ Ran(l) \in {0, 1, 2}
  BY <1>2 DEF l
<1>13. calls' = calls /\ count' = count /\ todo' = todo
  OBVIOUS
<1>14. /\ IF Ran(l) = 0 THEN state' = [state EXCEPT ![d] = Outcome(k)] ELSE state' = state
       /\ Ran(l) = 2 => lists'[<<d, "progress">>].locked
       /\ Top.entry[1] \in {"settle", "disable", "lock"}
  <2>1. Ran(l) # 0 /\ state' = state
    BY <1>3
  <2>2. Ran(l) = 2 => lists'[<<d, "progress">>].locked
    BY <1>3, <1>8
  <2>3. QED
    BY <2>1, <2>2
<1>15. QED
  BY <1>7, <1>8, <1>9, <1>10, <1>11, <1>12, <1>13, <1>14, OwnReturn DEF l

-----------------------------------------------------------------------------
(* A function returns that the program or jQuery added later.               *)

\* What is left to show of a step in which a function returns that was added
\* by when or pipe, and may have fired another list.
LEMMA LaterStep ==
  ASSUME DeferredConstants, DefInv, Idle, Calling, Later(Top.list, Top.entry),
         Well(lists', frames'), UNCHANGED <<calls, state, todo>>,
         Len(frames') >= Len(frames),
         \A i \in DOMAIN frames' : \/ i \in DOMAIN frames /\ frames'[i] = frames[i]
                                   \/ frames'[i].entry = NoEntry,
         \A m \in Lists :
            /\ lists'[m].added = lists[m].added /\ lists'[m].gone = lists[m].gone
            /\ lists'[m].locked = lists[m].locked /\ lists'[m].list = lists[m].list
            /\ Begun(m) => Begun(m)'
            /\ m # Top.list => Ran(m)' = Ran(m)
            /\ m = Top.list => Ran(m)' = Ran(m) + 1
            /\ Once(m) /\ ~Begun(m) /\ Begun(m)' =>
                  ~lists[m].gone /\ Ran(m) = 0 /\ frames' # <<>> /\ Top'.list = m
  PROVE  /\ Onward /\ Settled
         /\ \A m \in Lists : \A e : Due(m, e) => Due(m, e)'
         /\ WhenInv' /\ PipeInv' /\ count' \in Nat => DefInv'
<1>1. TypesInv /\ WellInv /\ TodoInv /\ Contents /\ Phases /\ PartsOnce
  BY DEF DefInv
<1>2. Settled
  BY <1>1, NoneSettling
<1>3. Onward
  BY DEF Onward
<1>4. \A m \in Lists : \A e : Due(m, e) => Due(m, e)'
  BY <1>1, <1>3, Untouched
<1>5. Len(frames') \in Nat /\ Len(frames) \in Nat
  BY <1>1 DEF WellInv, Well
<1>6. Idle'
  BY <1>1, <1>5, TodoStays
<1>7. ASSUME NEW m \in Lists, Once(m), ~Begun(m), Begun(m)'
      PROVE  ~lists[m].gone /\ Ran(m)' = 0 /\ frames' # <<>> /\ Top'.list = m /\ Idle'
  <2>1. m # Top.list
    BY <1>1, <1>7, TopEntry
  <2>2. QED
    BY <1>6, <1>7, <2>1
<1>8. Phases'
  BY <1>1, <1>2, <1>3, <1>7, PhasesOn
<1>9. ASSUME WhenInv', PipeInv', count' \in Nat PROVE DefInv'
  <2>1. state' \in [Deferreds -> {"unmade", "pending", "resolved", "rejected"}]
        /\ calls' \in 0..MaxCalls
    BY <1>1 DEF TypesInv
  <2>2. Len(frames') >= Len(frames) - 1
    BY <1>5
  <2>3. \A i \in DOMAIN frames' : \/ \E j \in DOMAIN frames : frames'[i] = frames[j]
                                  \/ frames'[i].entry = NoEntry
    OBVIOUS
  <2>4. todo' = todo
    OBVIOUS
  <2>5. QED
    BY <1>3, <1>8, <1>9, <2>1, <2>2, <2>3, <2>4, LoopStep
<1>10. QED
  BY <1>2, <1>3, <1>4, <1>9

\* The function fires another list with the value it was called with.
LEMMA FireNowStep ==
  ASSUME DeferredConstants, WellInv, Calling, NEW l, l = Top.list, NEW to \in Lists, to # l,
         lists' = Put(Put(lists, l, Returned(lists[l])), to, FireList(to, lists[to], Top.value)),
         frames' = IF Begins(to, lists[to]) THEN Append(Back, Frame(to, Top.value)) ELSE Back
  PROVE  /\ Well(lists', frames') /\ l \in Lists /\ Len(frames') >= Len(frames)
         /\ \A i \in DOMAIN frames' : \/ i \in DOMAIN frames /\ frames'[i] = frames[i]
                                      \/ frames'[i].entry = NoEntry
         /\ \A m \in Lists :
               /\ lists'[m].added = lists[m].added /\ lists'[m].gone = lists[m].gone
               /\ lists'[m].locked = lists[m].locked /\ lists'[m].list = lists[m].list
               /\ m # to => (Begun(m)' <=> Begun(m))
               /\ Begun(m) => Begun(m)'
               /\ m # l => Ran(m)' = Ran(m)
               /\ m = l => Ran(m)' = Ran(m) + 1
               /\ Once(m) /\ ~Begun(m) /\ Begun(m)' =>
                  ~lists[m].gone /\ Ran(m) = 0 /\ frames' # <<>> /\ Top'.list = m
         /\ Begins(to, lists[to]) => Begun(to)'
<1> DEFINE ms == Put(lists, l, Returned(lists[l]))
           v == Top.value
<1>1. lists' = Put(ms, to, FireList(to, lists[to], v)) /\ ms = Put(lists, l, Returned(lists[l]))
      /\ frames' = IF Begins(to, lists[to]) THEN Append(Back, Frame(to, v)) ELSE Back
  OBVIOUS
<1>2. DOMAIN lists = Lists /\ ms[to] = lists[to]
  BY DEF WellInv, Well, Put
<1> HIDE DEF ms
<1>3. /\ Well(ms, Back) /\ Others(lists, frames, ms, Back, l) /\ l \in Lists
      /\ Len(Back) = Len(frames) /\ Back # <<>>
      /\ \A i \in DOMAIN Back : \/ i \in DOMAIN frames /\ Back[i] = frames[i]
                                \/ Back[i].entry = NoEntry
      /\ ms[l].memory = lists[l].memory /\ ms[l].list = lists[l].list
      /\ ms[l].added = lists[l].added /\ ms[l].gone = lists[l].gone
      /\ ms[l].locked = lists[l].locked
      /\ RanIn(ms, Back, l) = RanIn(lists, frames, l) + 1
      /\ v \in Val
  BY <1>1, Returning
<1>4. /\ Well(lists', frames') /\ Others(ms, Back, lists', frames', to)
      /\ lists'[to].memory = IF Begins(to, ms[to]) THEN v ELSE ms[to].memory
      /\ lists'[to].gone = ms[to].gone /\ lists'[to].locked = ms[to].locked
      /\ lists'[to].added = ms[to].added /\ lists'[to].list = ms[to].list
      /\ RanIn(lists', frames', to) = RanIn(ms, Back, to)
      /\ Begins(to, ms[to]) => ~ms[to].gone
  <2> HIDE DEF v
  <2>1. FiredWith(ms, Back, to, v, lists', frames') /\ v \in Val
    BY <1>1, <1>2, <1>3 DEF FiredWith
  <2>2. Well(ms, Back)
    BY <1>3
  <2>3. QED
    BY <2>1, <2>2, FireStep
<1>5. frames' = (IF Begins(to, lists[to]) THEN Append(Back, Frame(to, v)) ELSE Back)
      /\ Back \in Seq(FrameRec) /\ frames \in Seq(FrameRec)
  BY <1>1, <1>3 DEF WellInv, Well
<1>6. /\ Len(frames') >= Len(frames)
      /\ \A i \in DOMAIN frames' : \/ i \in DOMAIN frames /\ frames'[i] = frames[i]
                                   \/ frames'[i].entry = NoEntry
      /\ Begins(to, lists[to]) => frames' # <<>> /\ Top'.list = to
  <2>1. CASE Begins(to, lists[to])
    <3> DEFINE F == Frame(to, v)
    <3>1. F \in FrameRec /\ F.list = to /\ F.entry = NoEntry
      BY <1>3 DEF Frame, FrameRec
    <3>2. frames' = Append(Back, F)
      BY <1>5, <2>1
    <3> HIDE DEF F
    <3>3. /\ Len(frames') = Len(Back) + 1 /\ frames'[Len(frames')] = F
          /\ \A i \in DOMAIN frames' : frames'[i] = F \/ (i \in DOMAIN Back /\ frames'[i] = Back[i])
      BY <1>5, <3>1, <3>2, PushFacts
    <3>4. Top'.list = to
      BY <3>1, <3>3 DEF Top
    <3>5. Len(Back) = Len(frames) /\ Len(frames) \in Nat /\ frames' \in Seq(FrameRec)
      BY <1>3, <1>4, <1>5, SMTT(60) DEF Well
    <3>6. Len(frames') >= Len(frames) /\ frames' # <<>>
      BY <3>3, <3>5
    <3>7. QED
      BY <1>3, <3>1, <3>3, <3>4, <3>6
  <2>2. CASE ~Begins(to, lists[to])
    <3>1. frames' = Back
      BY <1>5, <2>2
    <3>2. Len(frames) \in Nat
      BY <1>5
    <3>3. QED
      BY <1>3, <2>2, <3>1, <3>2
  <2>3. QED
    BY <2>1, <2>2
<1>7. ASSUME NEW m \in Lists
      PROVE  /\ lists'[m].added = lists[m].added /\ lists'[m].gone = lists[m].gone
             /\ lists'[m].locked = lists[m].locked /\ lists'[m].list = lists[m].list
             /\ m # to => (Begun(m)' <=> Begun(m))
             /\ Begun(m) => Begun(m)'
             /\ m # l => Ran(m)' = Ran(m)
             /\ m = l => Ran(m)' = Ran(m) + 1
             /\ Once(m) /\ ~Begun(m) /\ Begun(m)' =>
                  ~lists[m].gone /\ Ran(m) = 0 /\ frames' # <<>> /\ Top'.list = m
  <2>1. CASE m = l
    <3>1. lists'[m] = ms[m] /\ m # to /\ RanIn(lists', frames', m) = RanIn(ms, Back, m)
      BY <1>3, <1>4, <2>1 DEF Others, Same
    <3>2. QED
      BY <1>3, <2>1, <3>1 DEF Begun, Ran
  <2>2. CASE m = to
    <3>1. ms[m] = lists[m] /\ RanIn(ms, Back, m) = RanIn(lists, frames, m) /\ m # l
      BY <1>2, <1>3, <2>2 DEF Others, Same
    <3>2. v # Undefined
      BY <1>3, ValFacts
    <3>3. Begun(m) => Begun(m)'
      BY <1>4, <2>2, <3>1, <3>2 DEF Begun
    <3>4. Begun(m)' /\ ~Begun(m) => Begins(to, lists[to])
      BY <1>4, <2>2, <3>1 DEF Begun
    <3>5. Once(m) /\ ~Begun(m) => Ran(m) = 0
      BY OnceRan DEF WellInv, Begun, Ran
    <3>6. QED
      BY <1>4, <1>6, <2>2, <3>1, <3>3, <3>4, <3>5 DEF Begun, Ran
  <2>3. CASE m # to /\ m # l
    <3>1. /\ lists'[m] = lists[m] /\ RanIn(lists', frames', m) = RanIn(lists, frames, m)
      BY <1>3, <1>4, <2>3, SMTT(60) DEF Others, Same
    <3>2. QED
      BY <2>3, <3>1 DEF Begun, Ran
  <2>4. QED
    BY <2>1, <2>2, <2>3
<1>8. Begins(to, lists[to]) => Begun(to)'
  BY <1>2, <1>3, <1>4, ValFacts DEF Begun
<1>9. QED
  BY <1>3, <1>4, <1>6, <1>7, <1>8

\* What is fired is not open any more.
LEMMA Fired ==
  ASSUME DeferredConstants, WellInv, Phases, NEW d \in Deferreds, NEW k \in Ends,
         Begins(<<d, k>>, lists[<<d, k>>]) => Begun(<<d, k>>)',
         \A m \in Lists : Begun(m) => Begun(m)'
  PROVE  ~Open(d)'
<1> DEFINE l == <<d, k>>
           L == lists[l]
<1>1. l \in Lists /\ Once(l) /\ <<d, "done">> \in Lists /\ <<d, "fail">> \in Lists
      /\ (l = <<d, "done">> \/ l = <<d, "fail">>)
  BY EndFacts DEF Ends
<1>2. ListOK(l, L, Loops(frames, l), InCall(frames, l))
  BY <1>1, WellTyped DEF WellInv
<1> HIDE DEF l, L
<1>3. /\ L.locked => L.gone
      /\ L.firing => L.memory \in Val
  BY <1>1, <1>2 DEF ListOK, OnceOK
<1>4. CASE ~Open(d)
  <2>1. Begun(<<d, "done">>)' \/ Begun(<<d, "fail">>)'
    BY <1>1, <1>4 DEF Open
  <2>2. QED
    BY <2>1 DEF Open
<1>5. CASE Open(d)
  <2>1. ~L.gone /\ ~Begun(l)
    BY <1>1, <1>5 DEF Phases, Open, l, L
  <2>2. L.memory = Undefined /\ ~L.locked /\ ~L.firing
    BY <1>3, <2>1, ValFacts DEF Begun, L
  <2>3. Begins(l, L)
    BY <2>2 DEF Begins
  <2>4. Begun(<<d, k>>)'
    BY <2>3 DEF l, L
  <2>5. Begun(<<d, "done">>)' \/ Begun(<<d, "fail">>)'
    BY <2>4 DEF Ends
  <2>6. QED
    BY <2>5 DEF Open
<1>6. QED
  BY <1>4, <1>5

\* What is done where jQuery fires a list at once.
FiresNow(to) ==
    /\ lists' = Put(Put(lists, Top.list, Returned(lists[Top.list])), to,
                    FireList(to, lists[to], Top.value))
    /\ frames' = IF Begins(to, lists[to]) THEN Append(Back, Frame(to, Top.value)) ELSE Back

\* Of those, a function that fires a list of when or pipe settles them.
LEMMA FiresNowStep ==
  ASSUME DeferredConstants, DefInv, Idle, Calling, Later(Top.list, Top.entry),
         NEW d \in Deferreds \ Part, NEW k \in Kinds, Top.list[1] \in Part, FiresNow(<<d, k>>),
         UNCHANGED <<calls, state, todo>>
  PROVE  /\ Onward /\ Settled
         /\ \A m \in Lists : \A e : Due(m, e) => Due(m, e)'
         /\ \A m \in Lists : m # <<d, k>> => (Begun(m)' <=> Begun(m))
         /\ \A m \in Lists : m # Top.list => Ran(m)' = Ran(m)
         /\ Top.list \in Lists /\ Ran(Top.list) \in Int /\ RanIn(lists', frames', Top.list) = Ran(Top.list) + 1
         /\ k \in Ends => ~Open(d)'
         /\ WhenInv' /\ PipeInv' /\ count' \in Nat => DefInv'
<1> DEFINE to == <<d, k>>
           l == Top.list
<1>1. WellInv /\ Phases
  BY DEF DefInv
<1>2. to \in Lists /\ to # l /\ to[1] = d
  <2>1. to[1] = d
    OBVIOUS
  <2>2. QED
    BY <2>1, ListFacts
<1>3. /\ lists' = Put(Put(lists, l, Returned(lists[l])), to, FireList(to, lists[to], Top.value))
      /\ frames' = IF Begins(to, lists[to]) THEN Append(Back, Frame(to, Top.value)) ELSE Back
  BY DEF FiresNow
<1>4. l = Top.list
  OBVIOUS
<1> HIDE DEF to, l
<1>5. /\ Well(lists', frames') /\ l \in Lists /\ Len(frames') >= Len(frames)
      /\ \A i \in DOMAIN frames' : \/ i \in DOMAIN frames /\ frames'[i] = frames[i]
                                   \/ frames'[i].entry = NoEntry
      /\ \A m \in Lists :
            /\ lists'[m].added = lists[m].added /\ lists'[m].gone = lists[m].gone
            /\ lists'[m].locked = lists[m].locked /\ lists'[m].list = lists[m].list
            /\ m # to => (Begun(m)' <=> Begun(m))
            /\ Begun(m) => Begun(m)'
            /\ m # l => Ran(m)' = Ran(m)
            /\ m = l => Ran(m)' = Ran(m) + 1
            /\ Once(m) /\ ~Begun(m) /\ Begun(m)' =>
               ~lists[m].gone /\ Ran(m) = 0 /\ frames' # <<>> /\ Top'.list = m
      /\ Begins(to, lists[to]) => Begun(to)'
  BY <1>1, <1>2, <1>3, <1>4, FireNowStep
<1>6. /\ Onward /\ Settled
      /\ \A m \in Lists : \A e : Due(m, e) => Due(m, e)'
      /\ WhenInv' /\ PipeInv' /\ count' \in Nat => DefInv'
  BY <1>4, <1>5, LaterStep
<1>7. k \in Ends => ~Open(d)'
  BY <1>1, <1>5, Fired DEF to
<1>8. Ran(l) \in Int
  BY <1>1, <1>5, RanTyped DEF Ran, WellInv
<1>9. RanIn(lists', frames', l) = Ran(l) + 1
  BY <1>5 DEF Ran
<1>10. QED
  BY <1>4, <1>5, <1>6, <1>7, <1>8, <1>9 DEF to

\* What jQuery added is for a promise it has made.
LEMMA ForwardTop ==
  ASSUME DeferredConstants, DefInv, Calling, Top.entry[1] = "forward"
  PROVE  /\ Later(Top.list, Top.entry)
         /\ \E p \in Part, k \in Kinds :
               /\ Top.list = <<p, k>>
               /\ \/ /\ k # "done" /\ state[All] # "unmade"
                     /\ Top.entry = Forward(<<All, k>>) /\ Top.entry[2] = <<All, k>>
                  \/ /\ state[Piped] # "unmade"
                     /\ Top.entry = Forward(<<Piped, k>>) /\ Top.entry[2] = <<Piped, k>>
                     /\ state[Source] = "resolved" \/ (p = Source /\ k # "done")
<1> DEFINE l == Top.list
           e == Top.entry
<1>1. WellInv /\ Contents
  BY DEF DefInv
<1>2. l \in Lists /\ Later(l, e)
  BY <1>1, TopEntry
<1>3. e[1] = "forward"
  OBVIOUS
<1> HIDE DEF l, e
<1>4. l = <<l[1], l[2]>> /\ l[2] \in Kinds
  BY <1>2, FlagFacts
<1>5. \/ /\ l[1] \in Part /\ l[2] # "done" /\ state[All] # "unmade" /\ e = Forward(<<All, l[2]>>)
      \/ /\ l[1] \in Part /\ state[Piped] # "unmade" /\ e = Forward(<<Piped, l[2]>>)
         /\ state[Source] = "resolved" \/ (l[1] = Source /\ l[2] # "done")
  <2>1. /\ \A f \in Fn : e # User(f)
        /\ e # PartDone /\ e # Filter(<<Piped, "done">>)
    BY <1>3, EntryKinds
  <2>2. QED
    BY <1>2, <2>1 DEF Later, LaterIn
<1>6. \A x : e = Forward(x) => e[2] = x
  BY EntryKinds
<1>7. \E p \in Part, k \in Kinds :
         /\ l = <<p, k>>
         /\ \/ /\ k # "done" /\ state[All] # "unmade"
               /\ e = Forward(<<All, k>>) /\ e[2] = <<All, k>>
            \/ /\ state[Piped] # "unmade"
               /\ e = Forward(<<Piped, k>>) /\ e[2] = <<Piped, k>>
               /\ state[Source] = "resolved" \/ (p = Source /\ k # "done")
  <2>1. l[1] \in Part
    BY <1>5
  <2>2. \/ /\ l[2] # "done" /\ state[All] # "unmade"
           /\ e = Forward(<<All, l[2]>>) /\ e[2] = <<All, l[2]>>
        \/ /\ state[Piped] # "unmade"
           /\ e = Forward(<<Piped, l[2]>>) /\ e[2] = <<Piped, l[2]>>
           /\ state[Source] = "resolved" \/ (l[1] = Source /\ l[2] # "done")
    BY <1>5, <1>6
  <2>3. QED
    BY <1>4, <2>1, <2>2
<1>8. QED
  BY <1>2, <1>7 DEF l, e

\* The lists of a promise differ from those of the other and of the parts.
LEMMA Promised ==
  ASSUME DeferredConstants
  PROVE  /\ All \in Deferreds \ Part /\ Piped \in Deferreds \ Part /\ All # Piped
         /\ Source \in Part /\ "done" \in Ends /\ "fail" \in Ends /\ "progress" \notin Ends
         /\ Ends \subseteq Kinds /\ "progress" \in Kinds
         /\ \A k \in Kinds : k \in Ends \/ k = "progress"
         /\ \A d \in Deferreds, k \in Ends : <<d, k>> \in Lists /\ Once(<<d, k>>)
         /\ \A a, b, c, d : a # c \/ b # d => <<a, b>> # <<c, d>>
  <1>1. \A d \in Deferreds, k \in Ends : <<d, k>> \in Lists /\ Once(<<d, k>>)
    BY EndFacts
  <1>2. QED
    BY <1>1 DEF DeferredConstants, Deferreds, Ends, Kinds

\* An outcome of a part is that of the promise of when.
LEMMA ForwardAllStep ==
  ASSUME DeferredConstants, DefInv, Idle, Calling, NEW p \in Part, NEW k \in Kinds,
         Top.list = <<p, k>>, Later(Top.list, Top.entry), k # "done", state[All] # "unmade",
         Top.entry = Forward(<<All, k>>), FiresNow(<<All, k>>),
         UNCHANGED <<calls, state, count, todo>>
  PROVE  DefInv'
<1>1. TypesInv /\ WellInv /\ Contents /\ WhenInv /\ PipeInv
  BY DEF DefInv
<1>2. <<p, k>>[1] = p
  OBVIOUS
<1>3. /\ Onward
      /\ \A m \in Lists : \A e : Due(m, e) => Due(m, e)'
      /\ \A m \in Lists : m # <<All, k>> => (Begun(m)' <=> Begun(m))
      /\ \A m \in Lists : m # <<p, k>> => Ran(m)' = Ran(m)
      /\ RanIn(lists', frames', <<p, k>>) = Ran(<<p, k>>) + 1
      /\ k \in Ends => ~Open(All)'
      /\ WhenInv' /\ PipeInv' /\ count' \in Nat => DefInv'
  <2>1. Top.list[1] \in Part /\ All \in Deferreds \ Part
    BY <1>2, Promised
  <2>2. UNCHANGED <<calls, state, todo>>
    OBVIOUS
  <2>3. /\ Onward
        /\ \A m \in Lists : \A e : Due(m, e) => Due(m, e)'
        /\ \A m \in Lists : m # <<All, k>> => (Begun(m)' <=> Begun(m))
        /\ \A m \in Lists : m # Top.list => Ran(m)' = Ran(m)
        /\ RanIn(lists', frames', Top.list) = Ran(Top.list) + 1
        /\ k \in Ends => ~Open(All)'
        /\ WhenInv' /\ PipeInv' /\ count' \in Nat => DefInv'
    BY <2>1, <2>2, FiresNowStep
  <2>4. QED
    BY <2>3
<1>4. \A d \in Part : \A j \in Ends : <<d, j>> \in Lists
  BY PartLists, Promised
<1>5. \A d \in Part : /\ Due(<<d, "done">>, PartDone) => Due(<<d, "done">>, PartDone)'
                      /\ Due(<<d, "fail">>, AllFail) => Due(<<d, "fail">>, AllFail)'
  <2>1. ASSUME NEW d \in Part
        PROVE  \A e : /\ Due(<<d, "done">>, e) => Due(<<d, "done">>, e)'
                      /\ Due(<<d, "fail">>, e) => Due(<<d, "fail">>, e)'
    BY <1>3, PartLists
  <2>2. QED
    BY <2>1 DEF PartDone, AllFail, Forward
<1>6. count' = count /\ count' \in Nat /\ state' = state
  BY <1>1 DEF TypesInv
<1>7. WhenInv'
  <2>1. CASE k = "fail"
    <3>1. Begun(<<All, "done">>)' => Begun(<<All, "done">>)
      BY <1>3, <2>1, Promised
    <3>2. ~Open(All)' /\ Ran(<<p, "fail">>)' = Ran(<<p, "fail">>) + 1
      BY <1>3, <2>1, Promised DEF Ran
    <3>3. Top.list = <<p, "fail">> /\ Top.entry = AllFail
      BY <2>1 DEF AllFail
    <3>4. QED
      BY <1>1, <1>3, <1>5, <1>6, <3>1, <3>2, <3>3, WhenFail
  <2>2. CASE k = "progress"
    <3>1. \A j \in Ends : Begun(<<All, j>>)' => Begun(<<All, j>>)
      BY <1>3, <2>2, Promised
    <3>2. \A m \in Lists : Once(m) /\ Calling /\ Top.list = m /\ Ran(m)' # Ran(m) =>
             Top.entry # PartDone /\ Top.entry # AllFail
      <4>1. <<p, k>> \in Lists => ~Once(<<p, k>>)
        BY <2>2, FlagFacts
      <4>2. QED
        BY <4>1
    <3>3. state'[All] = "unmade" <=> state[All] = "unmade"
      BY <1>6
    <3>4. QED
      BY <1>1, <1>3, <1>5, <1>6, <3>1, <3>2, <3>3, WhenStays
  <2>3. QED
    BY <2>1, <2>2, Promised DEF Ends
<1>8. PipeInv'
  <2>1. \A j \in Ends : Begun(<<Piped, j>>)' => Begun(<<Piped, j>>)
    BY <1>3, Promised
  <2>2. (\A j : Top.entry # PipedEnd(j)) /\ Top.entry # PipedFilter
    <3>1. \A j : <<All, k>> # <<Piped, j>>
      BY Promised
    <3>2. Top.entry[1] = "forward" /\ Top.entry[2] = <<All, k>>
      BY EntryKinds
    <3>3. QED
      BY <3>1, <3>2, EntryKinds DEF PipedEnd, PipedFilter
  <2>3. \A d \in Part, j \in Ends : Due(<<d, j>>, PipedEnd(j)) => Due(<<d, j>>, PipedEnd(j))'
    BY <1>3, <1>4 DEF PipedEnd, Forward
  <2>4. Due(<<Source, "done">>, PipedFilter) => Due(<<Source, "done">>, PipedFilter)'
    BY <1>3, <1>4, Promised DEF PipedFilter, Filter
  <2>5. QED
    BY <1>1, <1>3, <1>6, <2>1, <2>2, <2>3, <2>4, Promised, PipeStep
<1>9. QED
  BY <1>3, <1>6, <1>7, <1>8

\* The outcome of a part, or the value of the filter, is that of the promise
\* of pipe.
LEMMA PipedStep ==
  ASSUME DeferredConstants, DefInv, Idle, Calling, NEW p \in Part, NEW k \in Kinds,
         Top.list = <<p, k>>, Later(Top.list, Top.entry), state[Piped] # "unmade",
         \/ /\ Top.entry = Forward(<<Piped, k>>)
            /\ state[Source] = "resolved" \/ (p = Source /\ k # "done")
         \/ Top.entry = Filter(<<Piped, "done">>) /\ p = Source /\ k = "done",
         FiresNow(<<Piped, k>>),
         UNCHANGED <<calls, state, count, todo>>
  PROVE  DefInv'
<1>1. TypesInv /\ WellInv /\ Contents /\ WhenInv /\ PipeInv /\ Phases
  BY DEF DefInv
<1>2. <<p, k>>[1] = p
  OBVIOUS
<1>3. /\ Onward /\ Settled
      /\ \A m \in Lists : \A e : Due(m, e) => Due(m, e)'
      /\ \A m \in Lists : m # <<Piped, k>> => (Begun(m)' <=> Begun(m))
      /\ \A m \in Lists : m # <<p, k>> => Ran(m)' = Ran(m)
      /\ k \in Ends => ~Open(Piped)'
      /\ WhenInv' /\ PipeInv' /\ count' \in Nat => DefInv'
  <2>1. Top.list[1] \in Part /\ Piped \in Deferreds \ Part
    BY <1>2, Promised
  <2>2. UNCHANGED <<calls, state, todo>>
    OBVIOUS
  <2>3. /\ Onward /\ Settled
        /\ \A m \in Lists : \A e : Due(m, e) => Due(m, e)'
        /\ \A m \in Lists : m # <<Piped, k>> => (Begun(m)' <=> Begun(m))
        /\ \A m \in Lists : m # Top.list => Ran(m)' = Ran(m)
        /\ k \in Ends => ~Open(Piped)'
        /\ WhenInv' /\ PipeInv' /\ count' \in Nat => DefInv'
    BY <2>1, <2>2, FiresNowStep
  <2>4. QED
    BY <2>3
<1>4. \A d \in Part : \A j \in Ends : <<d, j>> \in Lists
  BY PartLists, Promised
<1>5. \A d \in Part : /\ Due(<<d, "done">>, PartDone) => Due(<<d, "done">>, PartDone)'
                      /\ Due(<<d, "fail">>, AllFail) => Due(<<d, "fail">>, AllFail)'
  <2>1. ASSUME NEW d \in Part
        PROVE  \A e : /\ Due(<<d, "done">>, e) => Due(<<d, "done">>, e)'
                      /\ Due(<<d, "fail">>, e) => Due(<<d, "fail">>, e)'
    BY <1>3, PartLists
  <2>2. QED
    BY <2>1 DEF PartDone, AllFail, Forward
<1>6. count' = count /\ count' \in Nat /\ state' = state
  BY <1>1 DEF TypesInv
<1>7. WhenInv'
  <2>1. \A j \in Ends : Begun(<<All, j>>)' => Begun(<<All, j>>)
    BY <1>3, Promised
  <2>2. Top.entry # PartDone /\ Top.entry # AllFail
    <3>1. <<Piped, k>> # <<All, "fail">>
      BY Promised
    <3>2. Top.entry = Forward(<<Piped, k>>) => Top.entry[1] = "forward" /\ Top.entry[2] = <<Piped, k>>
      BY EntryKinds
    <3>3. Top.entry = Filter(<<Piped, "done">>) => Top.entry[1] = "filter"
      BY EntryKinds
    <3>4. QED
      BY <3>1, <3>2, <3>3, EntryKinds DEF AllFail
  <2>3. \A m \in Lists : Once(m) /\ Calling /\ Top.list = m /\ Ran(m)' # Ran(m) =>
           Top.entry # PartDone /\ Top.entry # AllFail
    BY <2>2
  <2>4. state'[All] = "unmade" <=> state[All] = "unmade"
    BY <1>6
  <2>5. QED
    BY <1>1, <1>3, <1>5, <1>6, <2>1, <2>3, <2>4, WhenStays
<1>8. k = "done" => state[Source] = "resolved"
  <2>1. CASE p = Source /\ k = "done"
    <3> DEFINE l == <<p, k>>
    <3>1. l \in Lists /\ Once(l) /\ l[1] = Source /\ l[2] = "done"
      BY <2>1, PartLists
    <3>2. Begun(l)
      <4>1. Once(Top.list) => Begun(Top.list)
        BY <1>1, TopEntry
      <4>2. QED
        BY <3>1, <4>1
    <3> HIDE DEF l
    <3>3. Ran(l) > 2 /\ Ran(l) \in Nat
      <4>1. Ran(l) \in 0..Len(lists[l].added) /\ Len(lists[l].added) \in Nat
        BY <1>1, <3>1, AddedFacts
      <4>2. QED
        BY <1>3, <3>1, <3>2, <4>1 DEF Settled
    <3>4. state[l[1]] = Outcome(l[2])
      BY <1>1, <3>1, <3>2, <3>3, SettledFacts
    <3>5. QED
      BY <3>1, <3>4 DEF Outcome
  <2>2. CASE ~(p = Source /\ k = "done")
    BY <2>2
  <2>3. QED
    BY <2>1, <2>2
<1>9. k = "fail" => state[Source] \in Outcomes
  <2>1. CASE p = Source /\ k = "fail"
    <3> DEFINE l == <<p, k>>
    <3>1. l \in Lists /\ Once(l) /\ l[1] = Source /\ l[2] = "fail"
      BY <2>1, PartLists
    <3>2. Begun(l)
      <4>1. Once(Top.list) => Begun(Top.list)
        BY <1>1, TopEntry
      <4>2. QED
        BY <3>1, <4>1
    <3> HIDE DEF l
    <3>3. Ran(l) > 2 /\ Ran(l) \in Nat
      <4>1. Ran(l) \in 0..Len(lists[l].added) /\ Len(lists[l].added) \in Nat
        BY <1>1, <3>1, AddedFacts
      <4>2. QED
        BY <1>3, <3>1, <3>2, <4>1 DEF Settled
    <3>4. state[l[1]] = Outcome(l[2])
      BY <1>1, <3>1, <3>2, <3>3, SettledFacts
    <3>5. QED
      BY <3>1, <3>4 DEF Outcome, Outcomes
  <2>2. CASE ~(p = Source /\ k = "fail")
    BY <2>2 DEF Outcomes
  <2>3. QED
    BY <2>1, <2>2
<1>10. PipeInv'
  <2>1. state'[Piped] # "unmade"
    BY <1>6
  <2>2. Begun(<<Piped, "done">>)' => Begun(<<Piped, "done">>) \/ state[Source] = "resolved"
    BY <1>3, <1>8, Promised
  <2>3. Begun(<<Piped, "fail">>)' => Begun(<<Piped, "fail">>) \/ state[Source] \in Outcomes
    BY <1>3, <1>9, Promised
  <2>4. /\ \A d \in Part, j \in Ends : Top.list = <<d, j>> => ~Open(Piped)'
        /\ Top.list = <<Source, "done">> => ~Open(Piped)'
    <3>1. \A d, j : Top.list = <<d, j>> => j = k
      OBVIOUS
    <3>2. QED
      BY <1>3, <3>1, Promised
  <2>5. \A d \in Part, j \in Ends : Due(<<d, j>>, PipedEnd(j)) => Due(<<d, j>>, PipedEnd(j))'
    BY <1>3, <1>4 DEF PipedEnd, Forward
  <2>6. Due(<<Source, "done">>, PipedFilter) => Due(<<Source, "done">>, PipedFilter)'
    BY <1>3, <1>4, Promised DEF PipedFilter, Filter
  <2>7. QED
    BY <1>1, <1>3, <2>1, <2>2, <2>3, <2>4, <2>5, <2>6, PipeStep
<1>11. QED
  BY <1>3, <1>6, <1>7, <1>10

\* A function that passes on what its list was fired with.
LEMMA ForwardStep ==
  ASSUME DeferredConstants, DefInv, Idle, Calling, Top.entry[1] = "forward",
         FiresNow(Top.entry[2]), UNCHANGED <<calls, state, count, todo>>
  PROVE  DefInv'
<1>1. PICK p \in Part, k \in Kinds :
         /\ Top.list = <<p, k>>
         /\ \/ /\ k # "done" /\ state[All] # "unmade"
               /\ Top.entry = Forward(<<All, k>>) /\ Top.entry[2] = <<All, k>>
            \/ /\ state[Piped] # "unmade"
               /\ Top.entry = Forward(<<Piped, k>>) /\ Top.entry[2] = <<Piped, k>>
               /\ state[Source] = "resolved" \/ (p = Source /\ k # "done")
  BY ForwardTop
<1>2. Later(Top.list, Top.entry)
  BY ForwardTop
<1>3. CASE k # "done" /\ state[All] # "unmade" /\ Top.entry = Forward(<<All, k>>) /\ Top.entry[2] = <<All, k>>
  <2>1. FiresNow(<<All, k>>)
    BY <1>3
  <2>2. Top.list = <<p, k>>
    BY <1>1
  <2>3. QED
    BY <1>2, <1>3, <2>1, <2>2, ForwardAllStep
<1>4. CASE /\ state[Piped] # "unmade"
           /\ Top.entry = Forward(<<Piped, k>>) /\ Top.entry[2] = <<Piped, k>>
           /\ state[Source] = "resolved" \/ (p = Source /\ k # "done")
  <2>1. FiresNow(<<Piped, k>>)
    BY <1>4
  <2>2. Top.list = <<p, k>>
    BY <1>1
  <2>3. QED
    BY <1>2, <1>4, <2>1, <2>2, PipedStep
<1>5. QED
  BY <1>1, <1>3, <1>4

\* pipe was called with a function that returns a value.
LEMMA FilterTop ==
  ASSUME DeferredConstants, DefInv, Calling, Top.entry[1] = "filter"
  PROVE  /\ Later(Top.list, Top.entry) /\ Top.list = <<Source, "done">> /\ state[Piped] # "unmade"
         /\ Top.entry = Filter(<<Piped, "done">>) /\ Top.entry[2] = <<Piped, "done">>
<1> DEFINE l == Top.list
           e == Top.entry
<1>1. WellInv /\ Contents
  BY DEF DefInv
<1>2. l \in Lists /\ Later(l, e)
  BY <1>1, TopEntry
<1>3. e[1] = "filter"
  OBVIOUS
<1> HIDE DEF l, e
<1>4. /\ \A f \in Fn : e # User(f)
      /\ e # PartDone /\ \A x : e # Forward(x)
  BY <1>3, EntryKinds
<1>5. l = <<Source, "done">> /\ state[Piped] # "unmade" /\ e = Filter(<<Piped, "done">>)
  BY <1>2, <1>4 DEF Later, LaterIn
<1>6. e[2] = <<Piped, "done">>
  BY <1>5, EntryKinds
<1>7. QED
  BY <1>2, <1>5, <1>6 DEF l, e

\* The filter of pipe returns a value, which is fired at once.
LEMMA FilterStep ==
  ASSUME DeferredConstants, DefInv, Idle, Calling, Top.entry[1] = "filter",
         FiresNow(Top.entry[2]), UNCHANGED <<calls, state, count, todo>>
  PROVE  DefInv'
<1>1. /\ Later(Top.list, Top.entry) /\ Top.list = <<Source, "done">> /\ state[Piped] # "unmade"
      /\ Top.entry = Filter(<<Piped, "done">>) /\ Top.entry[2] = <<Piped, "done">>
  BY FilterTop
<1>2. Source \in Part /\ "done" \in Kinds /\ FiresNow(<<Piped, "done">>)
  BY <1>1, Promised
<1>3. QED
  BY <1>1, <1>2, PipedStep

\* The function of when that counts a part.
LEMMA PartTop ==
  ASSUME DeferredConstants, DefInv, Calling, Top.entry[1] = "part"
  PROVE  /\ Later(Top.list, Top.entry) /\ Top.entry = PartDone /\ state[All] # "unmade"
         /\ \E d \in Part : Top.list = <<d, "done">>
<1> DEFINE l == Top.list
           e == Top.entry
<1>1. WellInv /\ Contents
  BY DEF DefInv
<1>2. l \in Lists /\ Later(l, e)
  BY <1>1, TopEntry
<1>3. e[1] = "part"
  OBVIOUS
<1> HIDE DEF l, e
<1>4. /\ \A f \in Fn : e # User(f)
      /\ \A x : e # Forward(x) /\ e # Filter(x)
  BY <1>3, EntryKinds
<1>5. l[1] \in Part /\ l[2] = "done" /\ state[All] # "unmade" /\ e = PartDone
  BY <1>2, <1>4 DEF Later, LaterIn
<1>6. l = <<l[1], l[2]>>
  BY <1>2, FlagFacts
<1>7. \E d \in Part : l = <<d, "done">>
  BY <1>5, <1>6
<1>8. QED
  BY <1>2, <1>5, <1>7 DEF l, e

\* What counting a part, and firing or not, has in common.
LEMMA PartCount ==
  ASSUME DeferredConstants, DefInv, Idle, Calling, NEW d \in Part,
         Top.list = <<d, "done">>, Top.entry = PartDone, state[All] # "unmade",
         Onward, count' = count - 1, UNCHANGED <<calls, state, todo>>,
         \A m \in Lists : \A e : Due(m, e) => Due(m, e)',
         \A j \in Ends : Begun(<<Piped, j>>)' => Begun(<<Piped, j>>),
         Ran(<<d, "done">>)' = Ran(<<d, "done">>) + 1,
         Begun(<<All, "fail">>)' => Begun(<<All, "fail">>),
         Begun(<<All, "done">>)' => Begun(<<All, "done">>) \/ count = 1,
         count = 1 => ~Open(All)'
  PROVE  WhenInv' /\ PipeInv' /\ count' \in Nat
<1>1. TypesInv /\ WellInv /\ Contents /\ WhenInv /\ PipeInv /\ PartsOnce
  BY DEF DefInv
<1>2. \A x \in Part : \A j \in Ends : <<x, j>> \in Lists
  BY PartLists, Promised
<1>3. \A x \in Part : /\ Due(<<x, "done">>, PartDone) => Due(<<x, "done">>, PartDone)'
                      /\ Due(<<x, "fail">>, AllFail) => Due(<<x, "fail">>, AllFail)'
  <2>1. ASSUME NEW x \in Part
        PROVE  \A e : /\ Due(<<x, "done">>, e) => Due(<<x, "done">>, e)'
                      /\ Due(<<x, "fail">>, e) => Due(<<x, "fail">>, e)'
    BY PartLists
  <2>2. QED
    BY <2>1 DEF PartDone, AllFail, Forward
<1>4. count \in Nat /\ state' = state
  BY <1>1 DEF TypesInv
<1>5. WhenInv' /\ count > 0
  BY <1>1, <1>3, <1>4, WhenPart
<1>6. PipeInv'
  <2>1. (\A j : Top.entry # PipedEnd(j)) /\ Top.entry # PipedFilter
    BY EntryKinds DEF PipedEnd, PipedFilter
  <2>2. \A x \in Part, j \in Ends : Due(<<x, j>>, PipedEnd(j)) => Due(<<x, j>>, PipedEnd(j))'
    BY <1>2 DEF PipedEnd, Forward
  <2>3. Due(<<Source, "done">>, PipedFilter) => Due(<<Source, "done">>, PipedFilter)'
    BY <1>2, Promised DEF PipedFilter, Filter
  <2>4. QED
    BY <1>1, <1>4, <2>1, <2>2, <2>3, Promised, PipeStep
<1>7. count' \in Nat
  BY <1>4, <1>5
<1>8. QED
  BY <1>5, <1>6, <1>7

\* The last part is done.
LEMMA LastPartStep ==
  ASSUME DeferredConstants, DefInv, Idle, Calling, Top.entry[1] = "part", count = 1,
         FiresNow(<<All, "done">>), count' = count - 1, UNCHANGED <<calls, state, todo>>
  PROVE  DefInv'
<1>1. Later(Top.list, Top.entry) /\ Top.entry = PartDone /\ state[All] # "unmade"
  BY PartTop
<1>2. PICK d \in Part : Top.list = <<d, "done">>
  BY PartTop
<1>3. /\ Onward
      /\ \A m \in Lists : \A e : Due(m, e) => Due(m, e)'
      /\ \A m \in Lists : m # <<All, "done">> => (Begun(m)' <=> Begun(m))
      /\ RanIn(lists', frames', <<d, "done">>) = Ran(<<d, "done">>) + 1
      /\ ~Open(All)'
      /\ WhenInv' /\ PipeInv' /\ count' \in Nat => DefInv'
  <2>1. Top.list[1] \in Part /\ All \in Deferreds \ Part /\ "done" \in Kinds /\ "done" \in Ends
    BY <1>2, Promised
  <2>2. /\ Onward
        /\ \A m \in Lists : \A e : Due(m, e) => Due(m, e)'
        /\ \A m \in Lists : m # <<All, "done">> => (Begun(m)' <=> Begun(m))
        /\ RanIn(lists', frames', Top.list) = Ran(Top.list) + 1
        /\ ~Open(All)'
        /\ WhenInv' /\ PipeInv' /\ count' \in Nat => DefInv'
    BY <1>1, <2>1, FiresNowStep
  <2>3. QED
    BY <1>2, <2>2
<1>4. /\ \A j \in Ends : Begun(<<Piped, j>>)' => Begun(<<Piped, j>>)
      /\ Begun(<<All, "fail">>)' => Begun(<<All, "fail">>)
  BY <1>3, Promised
<1>5. Ran(<<d, "done">>)' = Ran(<<d, "done">>) + 1
  BY <1>3 DEF Ran
<1>6. UNCHANGED <<calls, state, todo>> /\ count' = count - 1
  OBVIOUS
<1>7. WhenInv' /\ PipeInv' /\ count' \in Nat
  BY <1>1, <1>2, <1>3, <1>4, <1>5, <1>6, PartCount
<1>8. QED
  BY <1>3, <1>7

\* Others are to come.
LEMMA PartStep ==
  ASSUME DeferredConstants, DefInv, Idle, Calling, Top.entry[1] = "part", count # 1,
         lists' = Put(lists, Top.list, Returned(lists[Top.list])), frames' = Back,
         count' = count - 1, UNCHANGED <<calls, state, todo>>
  PROVE  DefInv'
<1>1. Later(Top.list, Top.entry) /\ Top.entry = PartDone /\ state[All] # "unmade"
  BY PartTop
<1>2. PICK d \in Part : Top.list = <<d, "done">>
  BY PartTop
<1> DEFINE l == <<d, "done">>
<1>3. l = Top.list /\ lists' = Put(lists, l, Returned(lists[l])) /\ frames' = Back
  BY <1>2
<1>4. WellInv
  BY DEF DefInv
<1> HIDE DEF l
<1>5. /\ Well(lists', frames') /\ Others(lists, frames, lists', frames', l) /\ l \in Lists
      /\ Len(frames') = Len(frames)
      /\ \A i \in DOMAIN frames' : \/ i \in DOMAIN frames /\ frames'[i] = frames[i]
                                   \/ frames'[i].entry = NoEntry
      /\ lists'[l].memory = lists[l].memory /\ lists'[l].list = lists[l].list
      /\ lists'[l].added = lists[l].added /\ lists'[l].gone = lists[l].gone
      /\ lists'[l].locked = lists[l].locked
      /\ RanIn(lists', frames', l) = RanIn(lists, frames, l) + 1
  BY <1>3, <1>4, Returning
<1>6. ASSUME NEW m \in Lists
      PROVE  /\ lists'[m].added = lists[m].added /\ lists'[m].gone = lists[m].gone
             /\ lists'[m].locked = lists[m].locked /\ lists'[m].list = lists[m].list
             /\ Begun(m)' <=> Begun(m)
             /\ m # Top.list => Ran(m)' = Ran(m)
             /\ m = Top.list => Ran(m)' = Ran(m) + 1
  <2>1. CASE m = l
    BY <1>3, <1>5, <2>1 DEF Begun, Ran
  <2>2. CASE m # l
    BY <1>3, <1>5, <2>2 DEF Others, Same, Begun, Ran
  <2>3. QED
    BY <2>1, <2>2
<1>7. Len(frames') >= Len(frames)
  BY <1>4, <1>5 DEF WellInv, Well
<1>8. UNCHANGED <<calls, state, todo>> /\ count' = count - 1
  OBVIOUS
<1>9. /\ Onward
      /\ \A m \in Lists : \A e : Due(m, e) => Due(m, e)'
      /\ WhenInv' /\ PipeInv' /\ count' \in Nat => DefInv'
  BY <1>1, <1>5, <1>6, <1>7, <1>8, LaterStep
<1>10. /\ \A j \in Ends : Begun(<<Piped, j>>)' => Begun(<<Piped, j>>)
       /\ \A j \in Ends : Begun(<<All, j>>)' => Begun(<<All, j>>)
       /\ "fail" \in Ends /\ "done" \in Ends
  BY <1>6, Promised
<1>11. Ran(<<d, "done">>)' = Ran(<<d, "done">>) + 1
  <2>1. RanIn(lists', frames', l) = Ran(l) + 1
    BY <1>5 DEF Ran
  <2>2. QED
    BY <2>1 DEF Ran, l
<1>12. WhenInv' /\ PipeInv' /\ count' \in Nat
  BY <1>1, <1>2, <1>8, <1>9, <1>10, <1>11, PartCount
<1>13. QED
  BY <1>9, <1>12

\* What a promise that the filter returns is given.
PromiseAdds(X, n, p) ==
    /\ X \in Seq(TodoRec) /\ DOMAIN X = 1..3
    /\ \A i \in DOMAIN X :
          /\ X[i].depth = n
          /\ \E k \in Kinds : X[i].list = <<p, k>> /\ X[i].entry = Forward(<<Piped, k>>)
    /\ \A k \in Kinds : \E i \in DOMAIN X :
          X[i].list = <<p, k>> /\ X[i].entry = Forward(<<Piped, k>>)

\* The functions that pass on everything of a promise.
LEMMA ForwardAllFacts ==
  ASSUME DeferredConstants, NEW n \in Nat, NEW p \in Part
  PROVE  PromiseAdds(ForwardAll(n, p, Piped), n, p)
<1> DEFINE X == ForwardAll(n, p, Piped)
           W(k) == Waiting(n, <<p, k>>, Forward(<<Piped, k>>))
<1>1. /\ X = <<W("done"), W("fail"), W("progress")>>
      /\ DOMAIN X = 1..3 /\ X[1] = W("done") /\ X[2] = W("fail") /\ X[3] = W("progress")
  <2> DEFINE a == Forward(<<Piped, "done">>)
             b == Forward(<<Piped, "fail">>)
             c == Forward(<<Piped, "progress">>)
             t == Then(n, p, a, b, c)
  <2>1. X = t
    BY DEF ForwardAll
  <2>2. W("done") = Waiting(n, <<p, "done">>, a) /\ W("fail") = Waiting(n, <<p, "fail">>, b)
        /\ W("progress") = Waiting(n, <<p, "progress">>, c)
    OBVIOUS
  <2> HIDE DEF a, b, c, W, X
  <2>3. /\ t = <<Waiting(n, <<p, "done">>, a), Waiting(n, <<p, "fail">>, b),
                Waiting(n, <<p, "progress">>, c)>>
        /\ DOMAIN t = 1..3
        /\ t[1] = Waiting(n, <<p, "done">>, a) /\ t[2] = Waiting(n, <<p, "fail">>, b)
        /\ t[3] = Waiting(n, <<p, "progress">>, c)
    BY ThenFacts
  <2> HIDE DEF t
  <2>4. QED
    BY <2>1, <2>2, <2>3
<1>2. ASSUME NEW k \in Kinds
      PROVE  /\ W(k) \in TodoRec /\ W(k).depth = n /\ W(k).list = <<p, k>>
             /\ W(k).entry = Forward(<<Piped, k>>)
  <2>1. <<p, k>> \in Lists /\ <<Piped, k>> \in Lists
    BY ListFacts, PartLists
  <2>2. Forward(<<Piped, k>>) \in Entry
    BY <2>1 DEF Entry
  <2>3. W(k) \in TodoRec
    BY <2>1, <2>2 DEF Waiting, TodoRec
  <2>4. QED
    BY <2>3, WaitingFacts
<1> HIDE DEF W, X
<1>3. "done" \in Kinds /\ "fail" \in Kinds /\ "progress" \in Kinds
      /\ Kinds = {"done", "fail", "progress"}
  BY DEF Kinds
<1>4. W("done") \in TodoRec /\ W("fail") \in TodoRec /\ W("progress") \in TodoRec
  BY <1>2, <1>3
<1>5. X \in Seq(TodoRec)
  BY <1>1, <1>4
<1>6. ASSUME NEW i \in DOMAIN X
      PROVE  /\ X[i].depth = n
             /\ \E k \in Kinds : X[i].list = <<p, k>> /\ X[i].entry = Forward(<<Piped, k>>)
  <2>1. PICK k \in Kinds : X[i] = W(k)
    BY <1>1, <1>3
  <2>2. QED
    BY <1>2, <2>1
<1>7. ASSUME NEW k \in Kinds
      PROVE  \E i \in DOMAIN X : X[i].list = <<p, k>> /\ X[i].entry = Forward(<<Piped, k>>)
  <2>1. \E i \in DOMAIN X : X[i] = W(k)
    BY <1>1, <1>3
  <2>2. QED
    BY <1>2, <2>1
<1>8. PromiseAdds(X, n, p)
  BY <1>1, <1>5, <1>6, <1>7 DEF PromiseAdds
<1>9. QED
  BY <1>8 DEF X

\* The filter of pipe returns a promise, which the promise of pipe follows.
LEMMA FilterPromiseStep ==
  ASSUME DeferredConstants, DefInv, Idle, Calling, Top.entry[1] = "filter",
         lists' = Put(lists, Top.list, Returned(lists[Top.list])), frames' = Back,
         UNCHANGED <<calls, state, count>>, NEW p \in Part,
         todo' = ForwardAll(Len(frames), p, Piped) \o todo
  PROVE  DefInv'
<1> DEFINE l == <<Source, "done">>
           X == ForwardAll(Len(frames), p, Piped)
<1>1. /\ Later(Top.list, Top.entry) /\ Top.list = l /\ state[Piped] # "unmade"
      /\ Top.entry = Filter(<<Piped, "done">>)
  BY FilterTop
<1>2. /\ TypesInv /\ WellInv /\ TodoInv /\ Contents /\ Phases /\ PartsOnce /\ WhenInv /\ PipeInv
  BY DEF DefInv
<1>3. l = Top.list /\ lists' = Put(lists, l, Returned(lists[l])) /\ frames' = Back
  BY <1>1
<1>4. todo' = X \o todo /\ Len(frames) \in Nat
  BY <1>2, TodoTyped
<1>5. /\ X \in Seq(TodoRec) /\ DOMAIN X = 1..3
      /\ \A i \in DOMAIN X :
            /\ X[i].depth = Len(frames)
            /\ \E k \in Kinds : X[i].list = <<p, k>> /\ X[i].entry = Forward(<<Piped, k>>)
      /\ \A k \in Kinds : \E i \in DOMAIN X :
            X[i].list = <<p, k>> /\ X[i].entry = Forward(<<Piped, k>>)
  <2>1. PromiseAdds(X, Len(frames), p)
    BY <1>4, ForwardAllFacts
  <2> HIDE DEF X
  <2>2. QED
    BY <2>1 DEF PromiseAdds
<1>6. Once(l) /\ l[1] = Source /\ l[2] = "done" /\ l \in Lists
  BY Promised, PartLists
<1> HIDE DEF l, X
<1>7. /\ Well(lists', frames') /\ Others(lists, frames, lists', frames', l)
      /\ Len(frames') = Len(frames)
      /\ \A i \in DOMAIN frames' : \/ i \in DOMAIN frames /\ frames'[i] = frames[i]
                                   \/ frames'[i].entry = NoEntry
      /\ lists'[l].memory = lists[l].memory /\ lists'[l].list = lists[l].list
      /\ lists'[l].added = lists[l].added /\ lists'[l].gone = lists[l].gone
      /\ lists'[l].locked = lists[l].locked
      /\ RanIn(lists', frames', l) = RanIn(lists, frames, l) + 1
  BY <1>2, <1>3, Returning
<1>8. ASSUME NEW m \in Lists
      PROVE  /\ lists'[m].added = lists[m].added /\ lists'[m].gone = lists[m].gone
             /\ lists'[m].locked = lists[m].locked /\ lists'[m].list = lists[m].list
             /\ Begun(m)' <=> Begun(m)
             /\ m # Top.list => Ran(m)' = Ran(m)
             /\ m = Top.list => Ran(m)' = Ran(m) + 1
  <2>1. CASE m = l
    BY <1>3, <1>7, <2>1 DEF Begun, Ran
  <2>2. CASE m # l
    BY <1>3, <1>7, <2>2 DEF Others, Same, Begun, Ran
  <2>3. QED
    BY <2>1, <2>2
<1>9. state' = state /\ count' = count /\ calls' = calls
  OBVIOUS
<1>10. Onward /\ Settled
  <2>1. Onward
    BY <1>8, <1>9 DEF Onward
  <2>2. QED
    BY <1>1, <1>2, <2>1, NoneSettling
<1>11. Phases'
  BY <1>2, <1>8, <1>9, <1>10, PhasesOn
<1>12. state[Source] = "resolved"
  <2>1. Begun(l)
    <3>1. Once(Top.list) => Begun(Top.list)
      BY <1>2, TopEntry
    <3>2. QED
      BY <1>3, <1>6, <3>1
  <2>2. Ran(l) > 2 /\ Ran(l) \in Nat
    <3>1. Ran(l) \in 0..Len(lists[l].added) /\ Len(lists[l].added) \in Nat
      BY <1>2, <1>6, AddedFacts
    <3>2. QED
      BY <1>6, <1>10, <2>1, <3>1 DEF Settled
  <2>3. state[l[1]] = Outcome(l[2])
    BY <1>2, <1>6, <2>1, <2>2, SettledFacts
  <2>4. QED
    BY <1>6, <2>3 DEF Outcome
<1>13. /\ TodoInv' /\ todo' \in Seq(TodoRec) /\ Len(X) \in Nat
       /\ \A i \in DOMAIN todo' :
             \/ i \in DOMAIN X /\ todo'[i] = X[i]
             \/ i - Len(X) \in DOMAIN todo /\ todo'[i] = todo[i - Len(X)] /\ i \in Nat
       /\ \A m, e : Waits(m, e) => Waits(m, e)'
       /\ \A i \in DOMAIN X : i \in DOMAIN todo' /\ todo'[i] = X[i]
  BY <1>2, <1>4, <1>5, <1>7, TodoPrefix
<1>14. TypesInv'
  BY <1>2, <1>9, <1>13 DEF TypesInv
<1>15. Contents'
  <2>1. \A i \in DOMAIN todo' : \/ \E j \in DOMAIN todo : todo'[i] = todo[j]
                                \/ LaterIn(state', todo'[i].list, todo'[i].entry)
    <3>1. ASSUME NEW k \in Kinds
          PROVE  LaterIn(state', <<p, k>>, Forward(<<Piped, k>>))
      BY <1>1, <1>9, <1>12 DEF LaterIn
    <3>2. ASSUME NEW i \in DOMAIN X PROVE LaterIn(state', X[i].list, X[i].entry)
      BY <1>5, <3>1
    <3>3. QED
      BY <1>13, <3>2
  <2>2. \A i \in DOMAIN frames' :
          \/ \E j \in DOMAIN frames : frames'[i] = frames[j]
          \/ frames'[i].entry = NoEntry
    BY <1>7
  <2>3. QED
    BY <1>2, <1>8, <1>10, <2>1, <2>2, ContentsStep
<1>16. \A i \in DOMAIN todo' : todo'[i].entry = PartDone =>
          i - Len(X) \in DOMAIN todo /\ todo'[i] = todo[i - Len(X)] /\ i \in Nat
  <2>1. ASSUME NEW i \in DOMAIN X PROVE X[i].entry # PartDone
    <3>1. PICK k \in Kinds : X[i].entry = Forward(<<Piped, k>>)
      BY <1>5
    <3>2. X[i].entry[1] = "forward" /\ PartDone[1] = "part"
      BY <3>1, EntryKinds
    <3>3. QED
      BY <3>2
  <2>2. QED
    BY <1>13, <2>1
<1>17. PartsOnce'
  <2>1. ASSUME NEW d \in Part, Waits(<<d, "done">>, PartDone)' PROVE ~Holds(<<d, "done">>, PartDone)
    <3>1. PICK i \in DOMAIN todo' : todo'[i].list = <<d, "done">> /\ todo'[i].entry = PartDone
      BY <2>1 DEF Waits, PartDone
    <3>2. Waits(<<d, "done">>, PartDone)
      BY <1>16, <3>1 DEF Waits
    <3>3. QED
      BY <1>2, <3>2 DEF PartsOnce
  <2>2. ASSUME NEW i \in DOMAIN todo', NEW j \in DOMAIN todo',
               todo'[i].list = todo'[j].list, todo'[i].entry = PartDone, todo'[j].entry = PartDone
        PROVE  i = j
    <3>1. i - Len(X) = j - Len(X)
      BY <1>2, <1>16, <2>2 DEF PartsOnce
    <3>2. i \in Nat /\ j \in Nat
      BY <1>16, <2>2
    <3>3. QED
      BY <1>13, <3>1, <3>2
  <2>3. \A d \in Part : lists'[<<d, "done">>].added = lists[<<d, "done">>].added
    BY <1>8, PartLists
  <2>4. QED
    BY <1>2, <2>1, <2>2, <2>3, PartsStep
<1>18. \A m \in Lists : \A e : Due(m, e) => Due(m, e)'
  BY <1>2, <1>10, <1>13, DueOn
<1>19. \A d \in Part : \A j \in Ends : <<d, j>> \in Lists
  BY PartLists, Promised
<1>20. WhenInv'
  <2>1. \A j \in Ends : Begun(<<All, j>>)' => Begun(<<All, j>>)
    BY <1>8, Promised
  <2>2. Top.entry # PartDone /\ Top.entry # AllFail
    BY <1>1, EntryKinds DEF AllFail
  <2>3. \A m \in Lists : Once(m) /\ Calling /\ Top.list = m /\ Ran(m)' # Ran(m) =>
           Top.entry # PartDone /\ Top.entry # AllFail
    BY <2>2
  <2>4. \A d \in Part : /\ Due(<<d, "done">>, PartDone) => Due(<<d, "done">>, PartDone)'
                        /\ Due(<<d, "fail">>, AllFail) => Due(<<d, "fail">>, AllFail)'
    <3>1. ASSUME NEW d \in Part
          PROVE  \A e : /\ Due(<<d, "done">>, e) => Due(<<d, "done">>, e)'
                        /\ Due(<<d, "fail">>, e) => Due(<<d, "fail">>, e)'
      BY <1>18, PartLists
    <3>2. QED
      BY <3>1 DEF PartDone, AllFail, Forward
  <2>5. state'[All] = "unmade" <=> state[All] = "unmade"
    BY <1>9
  <2>6. QED
    BY <1>2, <1>9, <1>10, <2>1, <2>3, <2>4, <2>5, WhenStays
<1>21. PipeInv'
  <2>1. \A j \in Ends : Begun(<<Piped, j>>)' => Begun(<<Piped, j>>)
    BY <1>8, Promised
  <2>2. \A j : Top.entry # PipedEnd(j)
    BY <1>1, EntryKinds DEF PipedEnd
  <2>3. ASSUME NEW k \in Ends PROVE Due(<<p, k>>, PipedEnd(k))'
    <3>1. k \in Kinds
      BY Promised
    <3>2. PICK i \in DOMAIN X : X[i].list = <<p, k>> /\ X[i].entry = Forward(<<Piped, k>>)
      BY <1>5, <3>1
    <3>3. i \in DOMAIN todo' /\ todo'[i] = X[i]
      BY <1>13
    <3>4. Waits(<<p, k>>, PipedEnd(k))'
      BY <3>2, <3>3 DEF Waits, PipedEnd, Forward
    <3>5. QED
      BY <3>4 DEF Due
  <2>4. \E q \in Part : \A k \in Ends : Due(<<q, k>>, PipedEnd(k))'
    BY <2>3
  <2>5. \A d \in Part, j \in Ends : Due(<<d, j>>, PipedEnd(j)) => Due(<<d, j>>, PipedEnd(j))'
    BY <1>18, <1>19 DEF PipedEnd, Forward
  <2>6. Due(<<Source, "done">>, PipedFilter) => Due(<<Source, "done">>, PipedFilter)'
    BY <1>18, <1>19, Promised DEF PipedFilter, Filter
  <2>7. QED
    BY <1>2, <1>9, <1>10, <2>1, <2>2, <2>4, <2>5, <2>6, Promised, PipeStep
<1>22. WellInv'
  BY <1>7 DEF WellInv
<1>23. QED
  BY <1>11, <1>13, <1>14, <1>15, <1>17, <1>20, <1>21, <1>22 DEF DefInv

\* What RunOwn does where it fires a list.
LEMMA FiresNowIs ==
  ASSUME WellInv, Top.list \in Lists, NEW to \in Lists, to # Top.list,
         lists' = [lists EXCEPT ![to] = FireList(to, @, Top.value), ![Top.list].index = @ + 1],
         frames' = IF Begins(to, lists[to]) THEN Append(Back, Frame(to, Top.value)) ELSE Back
  PROVE  FiresNow(to)
<1> DEFINE l == Top.list
           U == FireList(to, lists[to], Top.value)
<1>1. DOMAIN lists = Lists
  BY DEF WellInv, Well
<1>2. lists' = [[lists EXCEPT ![to] = U] EXCEPT ![l].index = @ + 1]
  OBVIOUS
<1>3. l \in DOMAIN lists /\ to \in DOMAIN lists /\ to # l
  BY <1>1
<1> HIDE DEF l, U
<1>4. lists' = Put(Put(lists, l, Returned(lists[l])), to, U)
  BY <1>2, <1>3, TwoLists
<1>5. QED
  BY <1>4 DEF FiresNow, l, U

\* The functions that are not of the program.
LEMMA OwnKinds ==
  ASSUME DeferredConstants, DefInv, Calling, Top.entry[1] # "user"
  PROVE  /\ Top.entry[1] \in {"settle", "disable", "lock", "forward", "part", "filter"}
         /\ Top.list \in Lists /\ WellInv /\ DOMAIN lists = Lists
         /\ Top.entry[1] \in {"disable", "lock", "forward", "filter"} => Top.entry[2] \in Lists
<1>1. WellInv /\ Contents
  BY DEF DefInv
<1>2. Top.list \in Lists /\ Top.entry \in Entry
  BY <1>1, TopEntry
<1>3. Top.entry[1] \in {"settle", "disable", "lock", "forward", "part", "filter"}
  BY <1>2, EntryKinds DEF Entry
<1>4. Top.entry[1] \in {"disable", "lock", "forward", "filter"} => Top.entry[2] \in Lists
  BY <1>2, EntryKinds DEF Entry
<1>5. QED
  BY <1>1, <1>2, <1>3, <1>4 DEF WellInv, Well

\* A function of jQuery runs and returns.
LEMMA RunOwnStep ==
  ASSUME DeferredConstants, DefInv, RunOwn
  PROVE  DefInv'
<1> DEFINE e == Top.entry
           l == Top.list
           FireNow(to) ==
               /\ lists' = [lists EXCEPT ![to] = FireList(to, @, Top.value), ![l].index = @ + 1]
               /\ frames' = IF Begins(to, lists[to]) THEN Append(Back, Frame(to, Top.value)) ELSE Back
           Go == lists' = [lists EXCEPT ![l].index = @ + 1] /\ frames' = Back
<1>1. Calling /\ e[1] # "user" /\ Idle /\ UNCHANGED calls
  BY DEF RunOwn
<1>2. /\ e[1] \in {"settle", "disable", "lock", "forward", "part", "filter"}
      /\ l \in Lists /\ WellInv /\ DOMAIN lists = Lists
      /\ e[1] \in {"disable", "lock", "forward", "filter"} => e[2] \in Lists
  BY <1>1, OwnKinds
<1>3. CASE e[1] = "settle"
  <2>1. Go /\ state' = [state EXCEPT ![l[1]] = e[2]] /\ UNCHANGED <<count, todo>>
    BY <1>3 DEF RunOwn
  <2>2. lists' = Put(lists, l, Returned(lists[l])) /\ frames' = Back
    BY <2>1, OneList
  <2>3. QED
    BY <1>1, <1>3, <2>1, <2>2, SettleStep
<1>4. CASE e[1] \in {"disable", "lock"}
  <2> DEFINE to == e[2]
             U == IF e[1] = "disable" THEN Disable(lists[to]) ELSE Lock(lists[to])
  <2>1. /\ lists' = [[lists EXCEPT ![to] = U] EXCEPT ![l].index = @ + 1]
        /\ frames' = Back /\ UNCHANGED <<state, count, todo>>
    <3>1. CASE e[1] = "disable"
      <4>1. /\ lists' = [[lists EXCEPT ![e[2]] = Disable(@)] EXCEPT ![l].index = @ + 1]
            /\ frames' = Back /\ UNCHANGED <<state, count, todo>>
        BY <3>1 DEF RunOwn
      <4>2. U = Disable(lists[to])
        BY <3>1
      <4>3. QED
        BY <4>1, <4>2
    <3>2. CASE e[1] = "lock"
      <4>1. /\ lists' = [[lists EXCEPT ![e[2]] = Lock(@)] EXCEPT ![l].index = @ + 1]
            /\ frames' = Back /\ UNCHANGED <<state, count, todo>>
        BY <3>2 DEF RunOwn
      <4>2. U = Lock(lists[to])
        BY <3>2
      <4>3. QED
        BY <4>1, <4>2
    <3>3. QED
      BY <1>4, <3>1, <3>2
  <2>2. to \in DOMAIN lists /\ l \in DOMAIN lists
    BY <1>2, <1>4
  <2> HIDE DEF U
  <2>3. to # l => lists' = Put(Put(lists, l, Returned(lists[l])), to, U)
    <3>1. lists' = [[lists EXCEPT ![to] = U] EXCEPT ![l].index = @ + 1]
      BY <2>1
    <3> HIDE DEF to, l
    <3>2. QED
      BY <2>2, <3>1, TwoLists
  <2>4. frames' = Back /\ UNCHANGED <<calls, state, count, todo>>
    BY <1>1, <2>1
  <2>5. to # l => lists' = Put(Put(lists, l, Returned(lists[l])), to,
                            IF e[1] = "disable" THEN Disable(lists[to]) ELSE Lock(lists[to]))
    BY <2>3 DEF U
  <2>6. QED
    BY <1>1, <1>4, <2>4, <2>5, CloseStep
<1>5. CASE e[1] = "forward"
  <2>1. FireNow(e[2]) /\ UNCHANGED <<state, count, todo>>
    BY <1>5 DEF RunOwn
  <2>2. e[2] # l
    BY <1>1, <1>5, ForwardTop, Promised
  <2>3. FiresNow(e[2])
    BY <1>2, <1>5, <2>1, <2>2, FiresNowIs
  <2>4. QED
    BY <1>1, <1>5, <2>1, <2>3, ForwardStep
<1>6. CASE e[1] = "part"
  <2>1. /\ count' = count - 1 /\ UNCHANGED <<state, todo>>
        /\ IF count = 1 THEN FireNow(<<All, "done">>) ELSE Go
    BY <1>6 DEF RunOwn
  <2>2. CASE count = 1
    <3>1. <<All, "done">> # l /\ <<All, "done">> \in Lists
      BY <1>1, <1>6, PartTop, Promised
    <3>2. FiresNow(<<All, "done">>)
      BY <1>2, <2>1, <2>2, <3>1, FiresNowIs
    <3>3. QED
      BY <1>1, <1>6, <2>1, <2>2, <3>2, LastPartStep
  <2>3. CASE count # 1
    <3>1. lists' = Put(lists, l, Returned(lists[l])) /\ frames' = Back
      BY <2>1, <2>3, OneList
    <3>2. QED
      BY <1>1, <1>6, <2>1, <2>3, <3>1, PartStep
  <2>4. QED
    BY <2>2, <2>3
<1>7. CASE e[1] = "filter"
  <2>1. \/ FireNow(e[2]) /\ UNCHANGED <<state, count, todo>>
        \/ /\ UNCHANGED <<state, count>> /\ Go
           /\ \E p \in Part \ {l[1]} : todo' = ForwardAll(Len(frames), p, Piped) \o todo
    BY <1>7 DEF RunOwn
  <2>2. CASE FireNow(e[2]) /\ UNCHANGED <<state, count, todo>>
    <3>1. e[2] # l
      BY <1>1, <1>7, FilterTop, Promised
    <3>2. FiresNow(e[2])
      BY <1>2, <1>7, <2>2, <3>1, FiresNowIs
    <3>3. QED
      BY <1>1, <1>7, <2>2, <3>2, FilterStep
  <2>3. CASE /\ UNCHANGED <<state, count>> /\ Go
             /\ \E p \in Part \ {l[1]} : todo' = ForwardAll(Len(frames), p, Piped) \o todo
    <3>1. lists' = Put(lists, l, Returned(lists[l])) /\ frames' = Back
      BY <2>3, OneList
    <3>2. PICK p \in Part : todo' = ForwardAll(Len(frames), p, Piped) \o todo
      BY <2>3
    <3>3. UNCHANGED <<calls, state, count>>
      BY <1>1, <2>3
    <3>4. QED
      BY <1>1, <1>7, <3>1, <3>2, <3>3, FilterPromiseStep
  <2>4. QED
    BY <2>1, <2>2, <2>3
<1>8. QED
  BY <1>2, <1>3, <1>4, <1>5, <1>6, <1>7

-----------------------------------------------------------------------------
(* The program's calls.                                                     *)

\* The program acts where nothing settles.
LEMMA ProgramSettled ==
  ASSUME DeferredConstants, DefInv, InProgram
  PROVE  Settled
<1>1. WellInv /\ Contents /\ Phases
  BY DEF DefInv
<1>2. CASE frames = <<>>
  BY <1>1, <1>2, NoneSettling
<1>3. CASE frames # <<>> /\ Top.entry[1] = "user"
  <2>1. Calling
    BY <1>3 DEF Calling, NoEntry
  <2>2. Later(Top.list, Top.entry)
    BY <1>1, <1>3, <2>1, TopEntry
  <2>3. QED
    BY <1>1, <2>1, <2>2, NoneSettling
<1>4. QED
  BY <1>2, <1>3 DEF InProgram

\* A loop begins, or none does.
Pushed(fs, c, l, v, gs) == gs = IF c THEN Append(fs, Frame(l, v)) ELSE fs

\* A loop that may begin leaves those under way as they are.
LEMMA PushedFacts ==
  ASSUME NEW fs \in Seq(FrameRec), NEW c, NEW l \in Lists, NEW v, NEW gs,
         Pushed(fs, c, l, v, gs), c => v \in Val
  PROVE  /\ Len(gs) \in Nat /\ Len(gs) >= Len(fs)
         /\ \A i \in DOMAIN gs : \/ i \in DOMAIN fs /\ gs[i] = fs[i]
                                 \/ gs[i].entry = NoEntry
         /\ c => gs # <<>> /\ gs[Len(gs)].list = l
<1>0. Len(fs) \in Nat
  OBVIOUS
<1>1. CASE c
  <2> DEFINE F == Frame(l, v)
  <2>1. F \in FrameRec /\ F.list = l /\ F.entry = NoEntry
    BY <1>1 DEF Frame, FrameRec
  <2>2. gs = Append(fs, F)
    BY <1>1 DEF Pushed
  <2> HIDE DEF F
  <2>3. /\ gs \in Seq(FrameRec) /\ Len(gs) = Len(fs) + 1 /\ gs[Len(gs)] = F
        /\ \A i \in DOMAIN gs : gs[i] = F \/ (i \in DOMAIN fs /\ gs[i] = fs[i])
    BY <2>1, <2>2, PushFacts
  <2>4. Len(gs) \in Nat /\ Len(gs) >= Len(fs) /\ gs # <<>>
    BY <1>0, <2>3
  <2>5. QED
    BY <2>1, <2>3, <2>4
<1>2. CASE ~c
  <2>1. gs = fs
    BY <1>2 DEF Pushed
  <2>2. QED
    BY <1>0, <1>2, <2>1
<1>3. QED
  BY <1>1, <1>2

\* The program settles one of its deferreds, or tells of its progress.
LEMMA UserFireStep ==
  ASSUME DeferredConstants, DefInv, Idle, InProgram, calls' \in 0..MaxCalls,
         NEW l \in Lists, NEW v \in Val, l[1] \in Part,
         FiredWith(lists, frames, l, v, lists', frames'), UNCHANGED <<state, count, todo>>
  PROVE  DefInv'
<1>1. /\ TypesInv /\ WellInv /\ TodoInv /\ Contents /\ Phases /\ PartsOnce /\ WhenInv /\ PipeInv
  BY DEF DefInv
<1>2. Settled
  BY ProgramSettled
<1>3. /\ Well(lists', frames') /\ Others(lists, frames, lists', frames', l)
      /\ lists'[l].memory = IF Begins(l, lists[l]) THEN v ELSE lists[l].memory
      /\ lists'[l].gone = lists[l].gone /\ lists'[l].locked = lists[l].locked
      /\ lists'[l].added = lists[l].added /\ lists'[l].list = lists[l].list
      /\ RanIn(lists', frames', l) = RanIn(lists, frames, l)
      /\ Begins(l, lists[l]) => ~lists[l].gone
  BY <1>1, FireStep DEF WellInv
<1>4. /\ Len(frames') \in Nat /\ Len(frames') >= Len(frames) /\ Len(frames) \in Nat
      /\ \A i \in DOMAIN frames' : \/ i \in DOMAIN frames /\ frames'[i] = frames[i]
                                   \/ frames'[i].entry = NoEntry
      /\ Begins(l, lists[l]) => frames' # <<>> /\ frames'[Len(frames')].list = l
  <2>1. Pushed(frames, Begins(l, lists[l]), l, v, frames')
    BY DEF Pushed, FiredWith
  <2>2. frames \in Seq(FrameRec)
    BY <1>1 DEF WellInv, Well
  <2>3. QED
    BY <2>1, <2>2, PushedFacts
<1>5. Idle'
  BY <1>1, <1>4, TodoStays
<1>6. ASSUME NEW m \in Lists
      PROVE  /\ lists'[m].added = lists[m].added /\ lists'[m].gone = lists[m].gone
             /\ lists'[m].locked = lists[m].locked /\ lists'[m].list = lists[m].list
             /\ Ran(m)' = Ran(m)
             /\ m # l => (Begun(m)' <=> Begun(m))
             /\ Begun(m) => Begun(m)'
             /\ Once(m) /\ ~Begun(m) /\ Begun(m)' =>
                  ~lists[m].gone /\ Ran(m)' = 0 /\ frames' # <<>> /\ Top'.list = m /\ Idle'
  <2>1. CASE m = l
    <3>1. v # Undefined
      BY ValFacts
    <3>2. Begun(m) => Begun(m)'
      BY <1>3, <2>1, <3>1 DEF Begun
    <3>3. ~Begun(m) /\ Begun(m)' => Begins(l, lists[l])
      BY <1>3, <2>1 DEF Begun
    <3>4. Once(m) /\ ~Begun(m) => Ran(m) = 0
      BY <1>1, OnceRan DEF WellInv, Begun, Ran
    <3>5. Ran(m)' = Ran(m)
      BY <1>3, <2>1 DEF Ran
    <3>6. Begins(l, lists[l]) => Top'.list = m
      BY <1>4, <2>1 DEF Top
    <3>7. QED
      BY <1>3, <1>4, <1>5, <2>1, <3>2, <3>3, <3>4, <3>5, <3>6
  <2>2. CASE m # l
    BY <1>3, <2>2 DEF Others, Same, Begun, Ran
  <2>3. QED
    BY <2>1, <2>2
<1>7. state' = state /\ count' = count /\ todo' = todo
  OBVIOUS
<1>8. Onward
  BY <1>6, <1>7 DEF Onward
<1>9. Phases'
  BY <1>1, <1>2, <1>6, <1>7, <1>8, PhasesOn
<1>10. \A m \in Lists : \A e : Due(m, e) => Due(m, e)'
  BY <1>1, <1>6, <1>7, <1>8, Untouched
<1>11. \A d \in Part : \A j \in Ends : <<d, j>> \in Lists
  BY PartLists, Promised
<1>12. ASSUME NEW d \in {All, Piped}, NEW k \in Ends
       PROVE  /\ <<d, k>> \in Lists
              /\ Begun(<<d, k>>)' => Begun(<<d, k>>)
  <2>1. <<d, k>>[1] = d /\ d \notin Part
    BY Promised
  <2>2. <<d, k>> # l /\ <<d, k>> \in Lists
    BY <2>1, Promised
  <2>3. QED
    BY <1>6, <2>2
<1>13. ASSUME NEW d \in Part, NEW k \in Ends
       PROVE  Ran(<<d, k>>)' # Ran(<<d, k>>) + 1
  <2>1. <<d, k>> \in Lists
    BY <1>11
  <2>2. Ran(<<d, k>>) \in Int
    BY <1>1, <2>1, RanTyped DEF Ran, WellInv
  <2>3. Ran(<<d, k>>)' = Ran(<<d, k>>)
    BY <1>6, <2>1
  <2>4. QED
    BY <2>2, <2>3
<1>14. WhenInv'
  <2>1. \A j \in Ends : Begun(<<All, j>>)' => Begun(<<All, j>>)
    BY <1>12
  <2>2. \A m \in Lists : Once(m) /\ Calling /\ Top.list = m /\ Ran(m)' # Ran(m) =>
           Top.entry # PartDone /\ Top.entry # AllFail
    BY <1>6
  <2>3. \A d \in Part : /\ Due(<<d, "done">>, PartDone) => Due(<<d, "done">>, PartDone)'
                        /\ Due(<<d, "fail">>, AllFail) => Due(<<d, "fail">>, AllFail)'
    <3>1. ASSUME NEW d \in Part
          PROVE  \A e : /\ Due(<<d, "done">>, e) => Due(<<d, "done">>, e)'
                        /\ Due(<<d, "fail">>, e) => Due(<<d, "fail">>, e)'
      BY <1>10, PartLists
    <3>2. QED
      BY <3>1 DEF PartDone, AllFail, Forward
  <2>4. state'[All] = "unmade" <=> state[All] = "unmade"
    BY <1>7
  <2>5. QED
    BY <1>1, <1>7, <1>8, <2>1, <2>2, <2>3, <2>4, WhenStays
<1>15. PipeInv'
  <2>1. \A j \in Ends : Begun(<<Piped, j>>)' => Begun(<<Piped, j>>)
    BY <1>12
  <2>2. \A d \in Part, j \in Ends : Due(<<d, j>>, PipedEnd(j)) => Due(<<d, j>>, PipedEnd(j))'
    BY <1>10, <1>11 DEF PipedEnd, Forward
  <2>3. Due(<<Source, "done">>, PipedFilter) => Due(<<Source, "done">>, PipedFilter)'
    BY <1>10, <1>11, Promised DEF PipedFilter, Filter
  <2>4. QED
    BY <1>1, <1>7, <1>8, <1>13, <2>1, <2>2, <2>3, Promised, PipeStep
<1>16. /\ count' \in Nat /\ Len(frames') >= Len(frames) - 1
       /\ state' \in [Deferreds -> {"unmade", "pending", "resolved", "rejected"}]
  BY <1>1, <1>4, <1>7 DEF TypesInv
<1>17. \A i \in DOMAIN frames' : \/ \E j \in DOMAIN frames : frames'[i] = frames[j]
                                 \/ frames'[i].entry = NoEntry
  BY <1>4
<1>18. QED
  BY <1>3, <1>6, <1>7, <1>8, <1>9, <1>14, <1>15, <1>16, <1>17, LoopStep

\* A function is added where nothing settles; a list that has been fired calls
\* it at once.
LEMMA AddingStep ==
  ASSUME DeferredConstants, DefInv, Settled, NEW l \in Lists, NEW e, Later(l, e),
         AddedTo(lists, frames, l, e, lists', frames'),
         UNCHANGED <<state, count>>, calls' \in 0..MaxCalls,
         TodoInv', todo' \in Seq(TodoRec),
         \A i \in DOMAIN todo' : \E j \in DOMAIN todo : todo'[i] = todo[j],
         \A m, x : Waits(m, x) => Waits(m, x)' \/ (m = l /\ x = e),
         \A d \in Part : l = <<d, "done">> /\ e = PartDone =>
            ~Holds(<<d, "done">>, PartDone) /\ ~Waits(<<d, "done">>, PartDone)',
         \A i, j \in DOMAIN todo' :
            todo'[i].list = todo'[j].list /\ todo'[i].entry = PartDone /\ todo'[j].entry = PartDone
            => i = j
  PROVE  DefInv'
<1>1. /\ TypesInv /\ WellInv /\ TodoInv /\ Contents /\ Phases /\ PartsOnce /\ WhenInv /\ PipeInv
  BY DEF DefInv
<1>2. e \in Entry
  BY LaterFacts
<1>3. /\ Well(lists', frames') /\ Others(lists, frames, lists', frames', l)
      /\ lists'[l].memory = lists[l].memory /\ lists'[l].gone = lists[l].gone
      /\ lists'[l].locked = lists[l].locked
      /\ RanIn(lists', frames', l) = RanIn(lists, frames, l)
      /\ IF lists[l].gone THEN lists'[l] = lists[l]
         ELSE lists'[l].added = Append(lists[l].added, e) /\ lists'[l].list = Append(lists[l].list, e)
      /\ FiresAtOnce(lists[l]) => lists[l].memory \in Val
  BY <1>1, <1>2, AddStep DEF WellInv
<1>4. \A i \in DOMAIN frames' : \/ i \in DOMAIN frames /\ frames'[i] = frames[i]
                                \/ frames'[i].entry = NoEntry
  <2>1. Pushed(frames, FiresAtOnce(lists[l]), l, lists[l].memory, frames')
    BY DEF Pushed, AddedTo
  <2>2. frames \in Seq(FrameRec)
    BY <1>1 DEF WellInv, Well
  <2>3. QED
    BY <1>3, <2>1, <2>2, PushedFacts
<1>5. state' = state /\ count' = count
  OBVIOUS
<1>6. LaterIn(state', l, e)
  BY <1>5 DEF Later
<1>7. ASSUME NEW m \in Lists
      PROVE  /\ lists'[m].gone = lists[m].gone /\ lists'[m].locked = lists[m].locked
             /\ Begun(m)' <=> Begun(m)
             /\ Ran(m)' = Ran(m)
             /\ \/ lists'[m].added = lists[m].added /\ lists'[m].list = lists[m].list
                \/ /\ m = l /\ lists'[m].added = Append(lists[m].added, e)
                   /\ lists'[m].list = Append(lists[m].list, e)
  <2>1. CASE m = l
    BY <1>3, <2>1 DEF Begun, Ran
  <2>2. CASE m # l
    BY <1>3, <2>2 DEF Others, Same, Begun, Ran
  <2>3. QED
    BY <2>1, <2>2
<1>8. Onward
  BY <1>2, <1>5, <1>7 DEF Onward
<1>9. Phases'
  BY <1>1, <1>5, <1>7, <1>8, PhasesOn
<1>10. Contents'
  <2>1. \A m \in Lists : \/ lists'[m].added = lists[m].added
                         \/ \E x : LaterIn(state', m, x) /\ lists'[m].added = Append(lists[m].added, x)
    BY <1>6, <1>7
  <2>2. \A m \in Lists : ~Once(m) =>
           \/ lists'[m].list = lists[m].list \/ lists'[m].list = <<>>
           \/ \E x : LaterIn(state', m, x) /\ lists'[m].list = Append(lists[m].list, x)
    BY <1>6, <1>7
  <2>3. \A i \in DOMAIN frames' :
            \/ \E j \in DOMAIN frames : frames'[i] = frames[j]
            \/ frames'[i].entry = NoEntry
    BY <1>4
  <2>4. QED
    BY <1>1, <1>8, <2>1, <2>2, <2>3, ContentsStep
<1>11. PartsOnce'
  <2>1. ASSUME NEW d \in Part
        PROVE  \/ lists'[<<d, "done">>].added = lists[<<d, "done">>].added
               \/ \E x \in Entry :
                  /\ lists'[<<d, "done">>].added = Append(lists[<<d, "done">>].added, x)
                  /\ x = PartDone => ~Holds(<<d, "done">>, PartDone) /\ ~Waits(<<d, "done">>, PartDone)'
    <3> DEFINE m == <<d, "done">>
    <3>1. m \in Lists
      BY PartLists
    <3>2. m = l /\ e = PartDone => ~Holds(m, PartDone) /\ ~Waits(<<d, "done">>, PartDone)'
      OBVIOUS
    <3>3. \/ lists'[m].added = lists[m].added
          \/ m = l /\ lists'[m].added = Append(lists[m].added, e)
      BY <1>7, <3>1
    <3>4. QED
      BY <1>2, <3>2, <3>3
  <2>2. ASSUME NEW d \in Part, Waits(<<d, "done">>, PartDone)' PROVE ~Holds(<<d, "done">>, PartDone)
    <3>1. PICK i \in DOMAIN todo' : todo'[i].list = <<d, "done">> /\ todo'[i].entry = PartDone
      BY <2>2 DEF Waits, PartDone
    <3>2. Waits(<<d, "done">>, PartDone)
      BY <3>1 DEF Waits
    <3>3. QED
      BY <1>1, <3>2 DEF PartsOnce
  <2>3. QED
    BY <1>1, <2>1, <2>2, PartsStep
<1>12. ASSUME NEW m \in Lists, NEW x, Due(m, x) PROVE Due(m, x)'
  <2>1. CASE Waits(m, x) /\ ~Waits(m, x)'
    <3>1. m = l /\ x = e
      BY <2>1
    <3>2. CASE lists[l].gone
      BY <1>3, <3>1, <3>2 DEF Due
    <3>3. CASE ~lists[l].gone
      <4>1. lists[l].added \in Seq(Entry) /\ lists'[l].added = Append(lists[l].added, e)
        BY <1>1, <1>3, <1>8, <3>3, AddedOn
      <4>2. Holds(l, e)'
        <5>1. Len(lists[l].added) + 1 \in DOMAIN lists'[l].added
              /\ lists'[l].added[Len(lists[l].added) + 1] = e
          BY <1>2, <4>1
        <5>2. \E i \in DOMAIN lists'[l].added : lists'[l].added[i] = e
          BY <5>1
        <5>3. QED
          BY <1>5, <5>2 DEF Holds
      <4>3. QED
        BY <3>1, <4>2 DEF Due
    <3>4. QED
      BY <3>2, <3>3
  <2>2. CASE Waits(m, x) => Waits(m, x)'
    BY <1>1, <1>8, <1>12, <2>2, DueOn
  <2>3. QED
    BY <2>1, <2>2
<1>13. \A d \in Part : \A j \in Ends : <<d, j>> \in Lists
  BY PartLists, Promised
<1>14. ASSUME NEW d \in Part, NEW k \in Ends
       PROVE  Ran(<<d, k>>)' # Ran(<<d, k>>) + 1
  <2>1. <<d, k>> \in Lists
    BY <1>13
  <2>2. Ran(<<d, k>>) \in Int
    BY <1>1, <2>1, RanTyped DEF Ran, WellInv
  <2>3. Ran(<<d, k>>)' = Ran(<<d, k>>)
    BY <1>7, <2>1
  <2>4. QED
    BY <2>2, <2>3
<1>15. \A d \in {All, Piped} : \A k \in Ends : Begun(<<d, k>>)' => Begun(<<d, k>>)
  BY <1>7, Promised
<1>16. WhenInv'
  <2>1. \A j \in Ends : Begun(<<All, j>>)' => Begun(<<All, j>>)
    BY <1>15
  <2>2. \A m \in Lists : Once(m) /\ Calling /\ Top.list = m /\ Ran(m)' # Ran(m) =>
           Top.entry # PartDone /\ Top.entry # AllFail
    BY <1>7
  <2>3. \A d \in Part : /\ Due(<<d, "done">>, PartDone) => Due(<<d, "done">>, PartDone)'
                        /\ Due(<<d, "fail">>, AllFail) => Due(<<d, "fail">>, AllFail)'
    <3>1. ASSUME NEW d \in Part
          PROVE  \A x : /\ Due(<<d, "done">>, x) => Due(<<d, "done">>, x)'
                        /\ Due(<<d, "fail">>, x) => Due(<<d, "fail">>, x)'
      BY <1>12, PartLists
    <3>2. QED
      BY <3>1 DEF PartDone, AllFail, Forward
  <2>4. state'[All] = "unmade" <=> state[All] = "unmade"
    BY <1>5
  <2>5. QED
    BY <1>1, <1>5, <1>8, <2>1, <2>2, <2>3, <2>4, WhenStays
<1>17. PipeInv'
  <2>1. \A j \in Ends : Begun(<<Piped, j>>)' => Begun(<<Piped, j>>)
    BY <1>15
  <2>2. \A d \in Part, j \in Ends : Due(<<d, j>>, PipedEnd(j)) => Due(<<d, j>>, PipedEnd(j))'
    BY <1>12, <1>13 DEF PipedEnd, Forward
  <2>3. Due(<<Source, "done">>, PipedFilter) => Due(<<Source, "done">>, PipedFilter)'
    BY <1>12, <1>13, Promised DEF PipedFilter, Filter
  <2>4. QED
    BY <1>1, <1>5, <1>8, <1>14, <2>1, <2>2, <2>3, Promised, PipeStep
<1>18. TypesInv' /\ WellInv'
  BY <1>1, <1>3, <1>5 DEF TypesInv, WellInv
<1>19. QED
  BY <1>9, <1>10, <1>11, <1>16, <1>17, <1>18 DEF DefInv

\* The program adds a handler to a list.
LEMMA UserAddStep ==
  ASSUME DeferredConstants, DefInv, Idle, UserAdd, UNCHANGED <<state, count, todo>>
  PROVE  DefInv'
<1>1. PICK l \in Lists, f \in Fn : CallAdd(l, User(f))
  BY DEF UserAdd
<1> DEFINE e == User(f)
<1>2. /\ TypesInv /\ WellInv /\ TodoInv /\ PartsOnce
  BY DEF DefInv
<1>3. InProgram /\ calls < MaxCalls /\ calls' = calls + 1
  BY DEF UserAdd, Program
<1>4. Settled
  BY <1>3, ProgramSettled
<1>5. Later(l, e) /\ e # PartDone /\ e \in Entry
  <2>1. Later(l, e)
    BY DEF Later, LaterIn
  <2>2. e # PartDone
    BY EntryKinds
  <2>3. QED
    BY <2>1, <2>2, LaterFacts
<1> HIDE DEF e
<1>6. AddedTo(lists, frames, l, e, lists', frames')
  BY <1>1 DEF CallAdd, Apply, AddedTo, Put, e
<1>7. calls' \in 0..MaxCalls
  BY <1>2, <1>3 DEF TypesInv, DeferredConstants
<1>8. Len(frames') \in Nat /\ Len(frames') >= Len(frames) /\ Len(frames) \in Nat
  <2>1. Pushed(frames, FiresAtOnce(lists[l]), l, lists[l].memory, frames')
    BY <1>6 DEF Pushed, AddedTo
  <2>2. frames \in Seq(FrameRec)
    BY <1>2 DEF WellInv, Well
  <2>3. FiresAtOnce(lists[l]) => lists[l].memory \in Val
    BY <1>2, <1>5, <1>6, AddStep DEF WellInv
  <2>4. QED
    BY <2>1, <2>2, <2>3, PushedFacts
<1>9. todo' = todo /\ state' = state /\ count' = count
  OBVIOUS
<1>10. TodoInv' /\ todo' \in Seq(TodoRec)
  <2>1. TodoInv'
    BY <1>2, <1>8, <1>9, TodoStays
  <2>2. todo \in Seq(TodoRec)
    BY <1>2 DEF TypesInv
  <2>3. QED
    BY <1>9, <2>1, <2>2
<1>11. \A m, x : Waits(m, x) => Waits(m, x)'
  BY <1>9 DEF Waits
<1>12. \A i, j \in DOMAIN todo' :
          todo'[i].list = todo'[j].list /\ todo'[i].entry = PartDone /\ todo'[j].entry = PartDone
          => i = j
  BY <1>2, <1>9 DEF PartsOnce
<1>13. \A i \in DOMAIN todo' : \E j \in DOMAIN todo : todo'[i] = todo[j]
  BY <1>9
<1>14. QED
  BY <1>4, <1>5, <1>6, <1>7, <1>9, <1>10, <1>11, <1>12, <1>13, AddingStep

\* jQuery adds the next of its functions.
LEMMA AddTodoStep ==
  ASSUME DeferredConstants, DefInv, AddTodo
  PROVE  DefInv'
<1> DEFINE l == todo[1].list
           e == todo[1].entry
<1>1. /\ TypesInv /\ WellInv /\ TodoInv /\ Contents /\ Phases /\ PartsOnce
  BY DEF DefInv
<1>2. ~Idle /\ todo' = Tail(todo) /\ CallAdd(l, e) /\ UNCHANGED <<calls, state, count>>
  BY DEF AddTodo
<1>3. todo # <<>>
  BY <1>2 DEF Idle
<1>4. /\ todo \in Seq(TodoRec) /\ Len(todo) \in Nat /\ DOMAIN todo = 1..Len(todo)
      /\ 1 \in DOMAIN todo /\ l \in Lists /\ e \in Entry
  <2>1. todo \in Seq(TodoRec) /\ Len(todo) \in Nat /\ DOMAIN todo = 1..Len(todo)
        /\ \A i \in DOMAIN todo : todo[i].list \in Lists /\ todo[i].entry \in Entry
    BY <1>1, TodoTyped
  <2>2. 1 \in DOMAIN todo
    BY <1>3, <2>1
  <2>3. QED
    BY <2>1, <2>2
<1>5. Settled
  BY <1>1, <1>2, NoneSettling
<1>6. Later(l, e)
  BY <1>1, <1>4 DEF Contents
<1>7. 1 \in DOMAIN todo /\ todo[1].list = l /\ todo[1].entry = e
  BY <1>4
<1> HIDE DEF l, e
<1>8. AddedTo(lists, frames, l, e, lists', frames')
  BY <1>2 DEF CallAdd, Apply, AddedTo, Put
<1>9. Len(frames') \in Nat /\ Len(frames') >= Len(frames)
  <2>1. Pushed(frames, FiresAtOnce(lists[l]), l, lists[l].memory, frames')
    BY <1>8 DEF Pushed, AddedTo
  <2>2. frames \in Seq(FrameRec)
    BY <1>1 DEF WellInv, Well
  <2>3. FiresAtOnce(lists[l]) => lists[l].memory \in Val
    BY <1>1, <1>4, <1>8, AddStep DEF WellInv
  <2>4. QED
    BY <1>4, <2>1, <2>2, <2>3, PushedFacts
<1>10. /\ TodoInv' /\ todo' \in Seq(TodoRec)
       /\ \A i \in DOMAIN todo' : i + 1 \in DOMAIN todo /\ todo'[i] = todo[i + 1] /\ i + 1 # 1 /\ i \in Nat
       /\ \A m, x : Waits(m, x) => Waits(m, x)' \/ (m = l /\ x = e)
  BY <1>1, <1>2, <1>3, <1>7, <1>9, TodoTail
<1>11. \A d \in Part : l = <<d, "done">> /\ e = PartDone =>
          ~Holds(<<d, "done">>, PartDone) /\ ~Waits(<<d, "done">>, PartDone)'
  <2>1. ASSUME NEW d \in Part, l = <<d, "done">>, e = PartDone
        PROVE  ~Holds(<<d, "done">>, PartDone) /\ ~Waits(<<d, "done">>, PartDone)'
    <3>1. Waits(<<d, "done">>, PartDone)
      BY <1>7, <2>1 DEF Waits
    <3>2. ~Holds(<<d, "done">>, PartDone)
      BY <1>1, <3>1 DEF PartsOnce
    <3>3. ASSUME NEW i \in DOMAIN todo', todo'[i].list = l, todo'[i].entry = PartDone PROVE FALSE
      <4>1. i + 1 \in DOMAIN todo /\ todo[i + 1].list = todo[1].list
            /\ todo[i + 1].entry = PartDone /\ todo[1].entry = PartDone /\ i + 1 # 1
        BY <1>7, <1>10, <2>1, <3>3
      <4>2. QED
        BY <1>1, <1>7, <4>1 DEF PartsOnce
    <3>4. ~Waits(<<d, "done">>, PartDone)'
      BY <2>1, <3>3 DEF Waits, PartDone
    <3>5. QED
      BY <3>2, <3>4
  <2>2. QED
    BY <2>1
<1>12. ASSUME NEW i \in DOMAIN todo', NEW j \in DOMAIN todo',
              todo'[i].list = todo'[j].list, todo'[i].entry = PartDone, todo'[j].entry = PartDone
       PROVE  i = j
  <2>1. i + 1 = j + 1 /\ i \in Nat /\ j \in Nat
    BY <1>1, <1>10, <1>12 DEF PartsOnce
  <2>2. QED
    BY <2>1
<1>13. \A i \in DOMAIN todo' : \E j \in DOMAIN todo : todo'[i] = todo[j]
  BY <1>10
<1>14. calls' \in 0..MaxCalls /\ UNCHANGED <<state, count>>
  BY <1>1, <1>2 DEF TypesInv
<1>15. l \in Lists
  BY <1>4 DEF l
<1>16. QED
  BY <1>5, <1>6, <1>8, <1>10, <1>11, <1>12, <1>13, <1>14, <1>15, AddingStep

\* The program calls resolve, reject or notify.
LEMMA UserFireNextStep ==
  ASSUME DeferredConstants, DefInv, Idle, UserFire, UNCHANGED <<state, count, todo>>
  PROVE  DefInv'
<1>1. PICK l \in Lists, x \in Value : l[1] \notin {All, Piped} /\ CallFire(l, <<x>>)
  BY DEF UserFire
<1> DEFINE v == <<x>>
<1>2. v \in Val
  BY DEF Val
<1>3. InProgram /\ calls < MaxCalls /\ calls' = calls + 1
  BY DEF UserFire, Program
<1>4. calls' \in 0..MaxCalls
  BY <1>3 DEF DefInv, TypesInv, DeferredConstants
<1>5. l[1] \in Part
  BY <1>1, FlagFacts DEF Deferreds
<1> HIDE DEF v
<1>6. FiredWith(lists, frames, l, v, lists', frames')
  BY <1>1 DEF CallFire, Apply, FiredWith, Put, v
<1>7. QED
  BY <1>2, <1>3, <1>4, <1>5, <1>6, UserFireStep

-----------------------------------------------------------------------------
(* when and pipe.                                                           *)

\* jQuery makes a deferred, where nothing is under way.
Made1(d) ==
    /\ frames = <<>> /\ todo = <<>> /\ UNCHANGED <<lists, frames>>
    /\ d \in {All, Piped} /\ state[d] = "unmade" /\ state' = [state EXCEPT ![d] = "pending"]
    /\ calls' \in 0..MaxCalls

\* To make a deferred begins no list, runs no function and loses none that is due.
LEMMA MadeFacts ==
  ASSUME DeferredConstants, DefInv, NEW d, Made1(d)
  PROVE  /\ Onward /\ Settled /\ d \in Deferreds /\ state'[d] = "pending"
         /\ state' \in [Deferreds -> {"unmade", "pending", "resolved", "rejected"}]
         /\ \A x \in Deferreds : x # d => state'[x] = state[x]
         /\ \A l \in Lists : (Begun(l)' <=> Begun(l)) /\ Ran(l)' = Ran(l)
         /\ \A l \in Lists : \A e : Due(l, e) => Due(l, e)'
         /\ \A p \in Part : \A k \in Ends : Ran(<<p, k>>)' # Ran(<<p, k>>) + 1
<1>1. /\ TypesInv /\ WellInv /\ Contents /\ Phases /\ PartsOnce
  BY DEF DefInv
<1>2. lists' = lists /\ frames' = frames /\ frames = <<>> /\ todo = <<>>
  BY DEF Made1
<1>3. d \in Deferreds
  BY Promised DEF Made1
<1>4. /\ state'[d] = "pending" /\ state[d] = "unmade"
      /\ \A x \in Deferreds : x # d => state'[x] = state[x]
      /\ state' \in [Deferreds -> {"unmade", "pending", "resolved", "rejected"}]
  BY <1>1, <1>3 DEF Made1, TypesInv
<1>5. \A l \in Lists : /\ Begun(l)' <=> Begun(l)
                       /\ Ran(l)' = Ran(l)
  BY <1>2 DEF Begun, Ran, RanIn, InCall, Calls
<1>6. Onward
  <2>1. \A x \in Deferreds : /\ state[x] # "unmade" => state'[x] # "unmade"
                             /\ state[x] \in Outcomes => state'[x] = state[x]
    BY <1>4 DEF Outcomes
  <2>2. QED
    BY <1>2, <1>5, <2>1 DEF Onward
<1>7. Settled
  BY <1>1, <1>2, NoneSettling
<1>8. \A l, e : ~Waits(l, e)
  BY <1>2 DEF Waits
<1>9. \A l \in Lists : \A e : Due(l, e) => Due(l, e)'
  BY <1>1, <1>6, <1>8, DueOn
<1>10. ASSUME NEW p \in Part, NEW k \in Ends PROVE Ran(<<p, k>>)' # Ran(<<p, k>>) + 1
  <2>1. <<p, k>> \in Lists
    BY PartLists, Promised
  <2>2. Ran(<<p, k>>) \in Int
    BY <1>1, <2>1, RanTyped DEF Ran, WellInv
  <2>3. Ran(<<p, k>>)' = Ran(<<p, k>>)
    BY <1>5, <2>1
  <2>4. QED
    BY <2>2, <2>3
<1>11. QED
  BY <1>3, <1>4, <1>5, <1>6, <1>7, <1>9, <1>10

\* What it adds to the lists waits.
LEMMA MadeStep ==
  ASSUME DeferredConstants, DefInv, NEW d, Made1(d), count' \in Nat, todo' \in Seq(TodoRec),
         \A i \in DOMAIN todo' : /\ todo'[i].depth = 0
                                 /\ LaterIn(state', todo'[i].list, todo'[i].entry),
         \A p \in Part : Waits(<<p, "done">>, PartDone)' => ~Holds(<<p, "done">>, PartDone),
         \A i, j \in DOMAIN todo' :
            todo'[i].list = todo'[j].list /\ todo'[i].entry = PartDone /\ todo'[j].entry = PartDone
            => i = j,
         WhenInv', PipeInv'
  PROVE  DefInv'
<1>1. /\ TypesInv /\ WellInv /\ Contents /\ Phases /\ PartsOnce
  BY DEF DefInv
<1>2. lists' = lists /\ frames' = frames /\ frames = <<>> /\ todo = <<>>
  BY DEF Made1
<1>3. /\ Onward /\ Settled /\ d \in Deferreds /\ state'[d] = "pending"
      /\ state' \in [Deferreds -> {"unmade", "pending", "resolved", "rejected"}]
      /\ \A x \in Deferreds : x # d => state'[x] = state[x]
      /\ \A l \in Lists : (Begun(l)' <=> Begun(l)) /\ Ran(l)' = Ran(l)
  BY MadeFacts
<1>4. Phases'
  <2>1. \A x \in Deferreds :
            \/ state'[x] = state[x]
            \/ state[x] \in {"unmade", "pending"} /\ state'[x] \in {"unmade", "pending"}
    BY <1>3 DEF Made1
  <2>2. \A l \in Lists : /\ Once(l) => (lists'[l].gone <=> lists[l].gone)
                         /\ lists[l].locked => lists'[l].locked
    BY <1>2
  <2>3. \A l \in Lists : ~(Once(l) /\ ~Begun(l) /\ Begun(l)')
    BY <1>3
  <2>4. QED
    BY <1>1, <1>3, <2>1, <2>2, <2>3, PhasesOn
<1>5. TodoInv'
  <2>1. Len(frames') = 0
    BY <1>2
  <2>2. QED
    BY <2>1 DEF TodoInv
<1>6. Contents'
  <2>1. \A i \in DOMAIN frames' : \E j \in DOMAIN frames : frames'[i] = frames[j]
    BY <1>2
  <2>2. \A l \in Lists : lists'[l].added = lists[l].added /\ lists'[l].list = lists[l].list
    BY <1>2
  <2>3. \A i \in DOMAIN todo' : LaterIn(state', todo'[i].list, todo'[i].entry)
    OBVIOUS
  <2>4. QED
    BY <1>1, <1>3, <2>1, <2>2, <2>3, ContentsStep
<1>7. PartsOnce'
  BY <1>1, <1>2, PartsStep
<1>8. TypesInv'
  BY <1>3 DEF TypesInv, Made1
<1>9. WellInv'
  BY <1>1, <1>2 DEF WellInv
<1>10. QED
  BY <1>4, <1>5, <1>6, <1>7, <1>8, <1>9 DEF DefInv

\* when is called with all parts.
LEMMA WhenDefStep ==
  ASSUME DeferredConstants, DefInv, When
  PROVE  DefInv'
<1>1. /\ TypesInv /\ WellInv /\ Contents /\ Phases /\ PartsOnce /\ WhenInv /\ PipeInv
  BY DEF DefInv
<1>2. Made1(All)
  <2>1. calls' \in 0..MaxCalls
    BY <1>1 DEF When, Call, TypesInv, DeferredConstants
  <2>2. QED
    BY <2>1 DEF Made1, When, Call
<1> DEFINE T == AddsOfWhen
<1>3. todo' = T /\ count' = Cardinality(Part) /\ state[All] = "unmade"
  BY DEF When
<1>4. /\ T \in Seq(TodoRec)
      /\ \A i \in DOMAIN T :
            \E d \in Part, k \in Kinds : T[i] = Waiting(0, <<d, k>>, WhenAdds(k))
      /\ \A d \in Part, k \in Kinds :
            \E i \in DOMAIN T : T[i] = Waiting(0, <<d, k>>, WhenAdds(k))
      /\ \A i, j \in DOMAIN T : T[i].list = T[j].list => i = j
  BY AddsOfWhenFacts
<1> HIDE DEF T
<1>5. /\ Onward /\ state'[All] = "pending"
      /\ \A x \in Deferreds : x # All => state'[x] = state[x]
      /\ \A l \in Lists : (Begun(l)' <=> Begun(l)) /\ Ran(l)' = Ran(l)
      /\ \A l \in Lists : \A e : Due(l, e) => Due(l, e)'
      /\ \A p \in Part : \A k \in Ends : Ran(<<p, k>>)' # Ran(<<p, k>>) + 1
  BY <1>2, MadeFacts
<1>6. Cardinality(Part) \in Nat
  BY FS_CardinalityType DEF DeferredConstants
<1>7. \A i \in DOMAIN todo' : /\ todo'[i].depth = 0
                              /\ LaterIn(state', todo'[i].list, todo'[i].entry)
  <2>1. ASSUME NEW d \in Part, NEW k \in Kinds PROVE LaterIn(state', <<d, k>>, WhenAdds(k))
    <3>1. state'[All] # "unmade"
      BY <1>5
    <3>2. QED
      BY <3>1 DEF LaterIn, WhenAdds, Kinds, AllFail
  <2>2. ASSUME NEW i \in DOMAIN T PROVE T[i].depth = 0 /\ LaterIn(state', T[i].list, T[i].entry)
    <3>1. PICK d \in Part, k \in Kinds : T[i] = Waiting(0, <<d, k>>, WhenAdds(k))
      BY <1>4
    <3>2. T[i].depth = 0 /\ T[i].list = <<d, k>> /\ T[i].entry = WhenAdds(k)
      BY <3>1, WaitingFacts
    <3>3. QED
      BY <2>1, <3>2
  <2>3. QED
    BY <1>3, <2>2
<1>8. \A d \in Part : Waits(<<d, "done">>, PartDone)' /\ Waits(<<d, "fail">>, AllFail)'
  <2>1. ASSUME NEW d \in Part, NEW k \in Ends, NEW e, e = WhenAdds(k)
        PROVE  Waits(<<d, k>>, e)'
    <3>0. k \in Kinds
      BY Promised
    <3>1. PICK i \in DOMAIN T : T[i] = Waiting(0, <<d, k>>, WhenAdds(k))
      BY <1>4, <3>0
    <3>2. T[i].list = <<d, k>> /\ T[i].entry = e
      BY <2>1, <3>1, WaitingFacts
    <3>3. QED
      BY <1>3, <3>2 DEF Waits
  <2>2. WhenAdds("done") = PartDone /\ WhenAdds("fail") = AllFail /\ "done" \in Ends /\ "fail" \in Ends
    BY DEF WhenAdds, Ends
  <2>3. \A d \in Part : Waits(<<d, "done">>, WhenAdds("done"))' /\ Waits(<<d, "fail">>, WhenAdds("fail"))'
    BY <2>1, <2>2 DEF WhenAdds, PartDone, AllFail, Forward
  <2>4. QED
    BY <2>3 DEF WhenAdds
<1>9. \A p \in Part : ~Holds(<<p, "done">>, PartDone)
  BY <1>1, <1>3, MadeEntries
<1>10. WhenInv'
  <2>1. state'[All] # "unmade" /\ \A k \in Ends : Begun(<<All, k>>)' => Begun(<<All, k>>)
    BY <1>5, Promised
  <2>2. \A l \in Lists : Once(l) => Ran(l)' = Ran(l)
    BY <1>5
  <2>3. QED
    BY <1>1, <1>3, <1>5, <1>8, <2>1, <2>2, WhenMade
<1>11. PipeInv'
  <2>1. \A j \in Ends : Begun(<<Piped, j>>)' => Begun(<<Piped, j>>)
    BY <1>5, Promised
  <2>2. \A d \in Part : \A j \in Ends : <<d, j>> \in Lists
    BY PartLists, Promised
  <2>3. \A d \in Part, j \in Ends : Due(<<d, j>>, PipedEnd(j)) => Due(<<d, j>>, PipedEnd(j))'
    BY <1>5, <2>2 DEF PipedEnd, Forward
  <2>4. Due(<<Source, "done">>, PipedFilter) => Due(<<Source, "done">>, PipedFilter)'
    BY <1>5, <2>2, Promised DEF PipedFilter, Filter
  <2>5. state'[Piped] = state[Piped]
    BY <1>5, Promised
  <2>6. QED
    BY <1>1, <1>5, <2>1, <2>3, <2>4, <2>5, Promised, PipeStep
<1>12. \A i, j \in DOMAIN todo' : todo'[i].list = todo'[j].list => i = j
  BY <1>3, <1>4
<1>13. QED
  BY <1>2, <1>3, <1>4, <1>6, <1>7, <1>9, <1>10, <1>11, <1>12, MadeStep

\* What pipe adds to the lists of its source.
PipeAdds(kind) == IF kind = "done" THEN PipedFilter ELSE PipedEnd(kind)

\* A sequence of three.
LEMMA ThreeFacts ==
  ASSUME NEW S, NEW a \in S, NEW b \in S, NEW c \in S
  PROVE  <<a, b, c>> \in Seq(S)
OBVIOUS

\* The functions that pipe adds to the lists of its source.
LEMMA PipeAddsFacts ==
  ASSUME DeferredConstants,
         NEW T, T = Then(0, Source, Filter(<<Piped, "done">>), Forward(<<Piped, "fail">>),
                         Forward(<<Piped, "progress">>))
  PROVE  /\ T \in Seq(TodoRec) /\ DOMAIN T = 1..3
         /\ \A i \in DOMAIN T : \E k \in Kinds : T[i] = Waiting(0, <<Source, k>>, PipeAdds(k))
         /\ \A k \in Kinds : \E i \in DOMAIN T : T[i] = Waiting(0, <<Source, k>>, PipeAdds(k))
<1> DEFINE W(k) == Waiting(0, <<Source, k>>, PipeAdds(k))
<1>1. /\ T = <<W("done"), W("fail"), W("progress")>> /\ DOMAIN T = 1..3
      /\ T[1] = W("done") /\ T[2] = W("fail") /\ T[3] = W("progress")
  BY ThenFacts DEF PipeAdds, PipedFilter, PipedEnd
<1>2. ASSUME NEW k \in Kinds PROVE W(k) \in TodoRec
  <2>1. <<Source, k>> \in Lists
    BY Promised, ListFacts DEF Deferreds
  <2>2. <<Piped, k>> \in Lists
    BY Promised, ListFacts DEF Deferreds
  <2>3. PipeAdds(k) \in Entry
    <3>1. CASE k = "done"
      BY <2>2, <3>1 DEF PipeAdds, PipedFilter, Entry
    <3>2. CASE k # "done"
      BY <2>2, <3>2 DEF PipeAdds, PipedEnd, Entry
    <3>3. QED
      BY <3>1, <3>2
  <2>4. QED
    BY <2>1, <2>3 DEF TodoRec, Waiting
<1>3. "done" \in Kinds /\ "fail" \in Kinds /\ "progress" \in Kinds
      /\ \A k \in Kinds : k = "done" \/ k = "fail" \/ k = "progress"
  BY DEF Kinds
<1> HIDE DEF W
<1>4. T \in Seq(TodoRec)
  <2>1. W("done") \in TodoRec /\ W("fail") \in TodoRec /\ W("progress") \in TodoRec
    BY <1>2, <1>3
  <2>2. T = <<W("done"), W("fail"), W("progress")>>
    BY <1>1
  <2>3. QED
    BY <2>1, <2>2, ThreeFacts
<1>5. \A i \in DOMAIN T : \E k \in Kinds : T[i] = W(k)
  BY <1>1, <1>3
<1>6. \A k \in Kinds : \E i \in DOMAIN T : T[i] = W(k)
  <2>1. 1 \in DOMAIN T /\ 2 \in DOMAIN T /\ 3 \in DOMAIN T
    BY <1>1
  <2>2. QED
    BY <1>1, <1>3, <2>1
<1>7. QED
  BY <1>1, <1>4, <1>5, <1>6 DEF W

\* pipe is called.
LEMMA PipeDefStep ==
  ASSUME DeferredConstants, DefInv, Pipe
  PROVE  DefInv'
<1>1. /\ TypesInv /\ WellInv /\ Contents /\ Phases /\ PartsOnce /\ WhenInv /\ PipeInv
  BY DEF DefInv
<1>2. Made1(Piped)
  <2>1. calls' \in 0..MaxCalls
    BY <1>1 DEF Pipe, Call, TypesInv, DeferredConstants
  <2>2. QED
    BY <2>1 DEF Made1, Pipe, Call
<1> DEFINE T == todo'
<1>3. T = Then(0, Source, Filter(<<Piped, "done">>), Forward(<<Piped, "fail">>),
               Forward(<<Piped, "progress">>))
      /\ count' = count /\ state[Piped] = "unmade"
  BY DEF Pipe
<1>4. /\ T \in Seq(TodoRec) /\ DOMAIN T = 1..3
      /\ \A i \in DOMAIN T : \E k \in Kinds : T[i] = Waiting(0, <<Source, k>>, PipeAdds(k))
      /\ \A k \in Kinds : \E i \in DOMAIN T : T[i] = Waiting(0, <<Source, k>>, PipeAdds(k))
  BY <1>3, PipeAddsFacts
<1>5. /\ Onward /\ state'[Piped] = "pending"
      /\ \A x \in Deferreds : x # Piped => state'[x] = state[x]
      /\ \A l \in Lists : (Begun(l)' <=> Begun(l)) /\ Ran(l)' = Ran(l)
      /\ \A l \in Lists : \A e : Due(l, e) => Due(l, e)'
      /\ \A p \in Part : \A k \in Ends : Ran(<<p, k>>)' # Ran(<<p, k>>) + 1
  BY <1>2, MadeFacts
<1>6. ASSUME NEW i \in DOMAIN T
      PROVE  /\ T[i].depth = 0
             /\ LaterIn(state', T[i].list, T[i].entry)
             /\ T[i].entry # PartDone
  <2>1. PICK k \in Kinds : T[i] = Waiting(0, <<Source, k>>, PipeAdds(k))
    BY <1>4
  <2>2. T[i].depth = 0 /\ T[i].list = <<Source, k>> /\ T[i].entry = PipeAdds(k)
    BY <2>1, WaitingFacts
  <2>3. state'[Piped] # "unmade" /\ Source \in Part
    BY <1>5, Promised
  <2>4. LaterIn(state', <<Source, k>>, PipeAdds(k))
    BY <2>3 DEF LaterIn, PipeAdds, PipedFilter, PipedEnd
  <2>5. PipeAdds(k) # PartDone
    BY EntryKinds DEF PipeAdds, PipedFilter, PipedEnd
  <2>6. QED
    BY <2>2, <2>4, <2>5
<1>7. Waits(<<Source, "done">>, PipedFilter)' /\ Waits(<<Source, "fail">>, PipedEnd("fail"))'
  <2>1. ASSUME NEW k \in Kinds PROVE Waits(<<Source, k>>, PipeAdds(k))'
    <3>1. PICK i \in DOMAIN T : T[i] = Waiting(0, <<Source, k>>, PipeAdds(k))
      BY <1>4
    <3>2. T[i].list = <<Source, k>> /\ T[i].entry = PipeAdds(k)
      BY <3>1, WaitingFacts
    <3>3. QED
      BY <3>2 DEF Waits, PipeAdds, PipedFilter, PipedEnd, Forward, Filter
  <2>2. "done" \in Kinds /\ "fail" \in Kinds
    BY DEF Kinds
  <2>3. Waits(<<Source, "done">>, PipeAdds("done"))' /\ Waits(<<Source, "fail">>, PipeAdds("fail"))'
    BY <2>1, <2>2
  <2>4. QED
    BY <2>3 DEF PipeAdds
<1>8. WhenInv'
  <2>1. \A j \in Ends : Begun(<<All, j>>)' => Begun(<<All, j>>)
    BY <1>5, Promised
  <2>2. \A l \in Lists : Once(l) /\ Calling /\ Top.list = l /\ Ran(l)' # Ran(l) =>
           Top.entry # PartDone /\ Top.entry # AllFail
    BY <1>5
  <2>3. \A d \in Part : /\ Due(<<d, "done">>, PartDone) => Due(<<d, "done">>, PartDone)'
                        /\ Due(<<d, "fail">>, AllFail) => Due(<<d, "fail">>, AllFail)'
    <3>1. ASSUME NEW d \in Part
          PROVE  \A x : /\ Due(<<d, "done">>, x) => Due(<<d, "done">>, x)'
                        /\ Due(<<d, "fail">>, x) => Due(<<d, "fail">>, x)'
      BY <1>5, PartLists
    <3>2. QED
      BY <3>1 DEF PartDone, AllFail, Forward
  <2>4. state'[All] = state[All]
    BY <1>5, Promised
  <2>5. QED
    BY <1>1, <1>3, <1>5, <2>1, <2>2, <2>3, <2>4, WhenStays
<1>9. PipeInv'
  <2>1. state'[Piped] # "unmade" /\ \A j \in Ends : Begun(<<Piped, j>>)' => Begun(<<Piped, j>>)
    BY <1>5, Promised
  <2>2. \A d \in Part : \A j \in Ends : <<d, j>> \in Lists
    BY PartLists, Promised
  <2>3. \A d \in Part, j \in Ends : Due(<<d, j>>, PipedEnd(j)) => Due(<<d, j>>, PipedEnd(j))'
    BY <1>5, <2>2 DEF PipedEnd, Forward
  <2>4. Due(<<Source, "done">>, PipedFilter)' /\ Due(<<Source, "fail">>, PipedEnd("fail"))'
    BY <1>7 DEF Due
  <2>5. QED
    BY <1>1, <1>5, <2>1, <2>3, <2>4, Promised, PipeStep
<1>10. count' \in Nat
  BY <1>1, <1>3 DEF TypesInv
<1>11. \A p \in Part : ~Waits(<<p, "done">>, PartDone)'
  <2>1. ASSUME NEW p \in Part, Waits(<<p, "done">>, PartDone)' PROVE FALSE
    <3>1. PICK i \in DOMAIN todo' : todo'[i].entry = PartDone
      BY <2>1 DEF Waits, PartDone
    <3>2. QED
      BY <1>6, <3>1
  <2>2. QED
    BY <2>1
<1>12. QED
  BY <1>2, <1>4, <1>6, <1>8, <1>9, <1>10, <1>11, MadeStep

-----------------------------------------------------------------------------
(* The invariant.                                                           *)

\* The invariant is one of the variables.
LEMMA DefInvStutters ==
  ASSUME DeferredConstants, DefInv, UNCHANGED defVars
  PROVE  DefInv'
<1>1. /\ lists' = lists /\ frames' = frames /\ calls' = calls /\ state' = state
      /\ count' = count /\ todo' = todo
  BY DEF defVars
<1>2. /\ TypesInv /\ WellInv /\ TodoInv /\ Contents /\ Phases /\ PartsOnce /\ WhenInv /\ PipeInv
  BY DEF DefInv
<1>4. /\ \A l : Begun(l)' <=> Begun(l)
      /\ \A l : Ran(l)' = Ran(l)
      /\ \A l, e : Waits(l, e)' <=> Waits(l, e)
      /\ \A l, e : Holds(l, e)' <=> Holds(l, e)
  BY <1>1 DEF Begun, Ran, RanIn, InCall, Calls, Waits, Holds
<1>5. TypesInv' /\ WellInv' /\ TodoInv' /\ Contents'
  BY <1>1, <1>2 DEF TypesInv, WellInv, TodoInv, Contents, Later
<1>6. Phases'
  <2>1. (Idle' <=> Idle) /\ Top' = Top
    BY <1>1 DEF Idle, Top
  <2>2. \A d, k : Phase(d, k)' <=> Phase(d, k)
    BY <1>1, <1>4, <2>1 DEF Phase
  <2>3. \A d : Open(d)' <=> Open(d)
    BY <1>4 DEF Open
  <2>4. QED
    BY <1>1, <1>2, <2>2, <2>3 DEF Phases
<1>7. PartsOnce'
  BY <1>1, <1>2 DEF PartsOnce, Waits, Holds
<1>8. \A l, e : RanEntry(l, e)' <=> RanEntry(l, e)
  BY <1>1, <1>4 DEF RanEntry
<1>9. \A l, e : Due(l, e)' <=> Due(l, e)
  BY <1>1, <1>4 DEF Due
<1>10. WhenInv'
  BY <1>1, <1>2 DEF WhenInv, Unfinished, Open, Begun, Ran, RanIn, InCall, Calls, RanEntry, Due, Holds, Waits
<1>11. PipeInv'
  BY <1>1, <1>2 DEF PipeInv, Open, Begun, Ran, RanIn, InCall, Calls, RanEntry, Due, Holds, Waits
<1>12. QED
  BY <1>5, <1>6, <1>7, <1>10, <1>11 DEF DefInv

\* The invariant is inductive.
LEMMA DefInvStep ==
  ASSUME DeferredConstants, DefInv, [DefNext]_defVars
  PROVE  DefInv'
<1>1. CASE Idle /\ UserAdd /\ UNCHANGED <<state, count, todo>>
  BY <1>1, UserAddStep
<1>2. CASE Idle /\ UserFire /\ UNCHANGED <<state, count, todo>>
  BY <1>2, UserFireNextStep
<1>3. CASE Idle /\ UserReturn /\ UNCHANGED <<state, count, todo>>
  BY <1>3, UserReturnStep
<1>4. CASE Idle /\ CallNext /\ UNCHANGED <<state, count, todo>>
  BY <1>4, CallNextStep
<1>5. CASE Idle /\ Finish /\ UNCHANGED <<state, count, todo>>
  BY <1>5, FinishDefStep
<1>6. CASE AddTodo
  BY <1>6, AddTodoStep
<1>7. CASE When
  BY <1>7, WhenDefStep
<1>8. CASE Pipe
  BY <1>8, PipeDefStep
<1>9. CASE RunOwn
  BY <1>9, RunOwnStep
<1>10. CASE UNCHANGED defVars
  BY <1>10, DefInvStutters
<1>11. QED
  BY <1>1, <1>2, <1>3, <1>4, <1>5, <1>6, <1>7, <1>8, <1>9, <1>10 DEF DefNext

\* A list that was just made.
LEMMA NewListOK ==
  ASSUME DeferredConstants, NEW l \in Lists
  PROVE  /\ Own(l) \in Seq(Entry)
         /\ ListOK(l, NewList(Own(l)), 0, 0)
<1>1. Own(l) \in Seq(Entry)
  BY OwnFacts
<1> DEFINE s == Own(l)
<1> HIDE DEF s
<1>2. s \in Seq(Entry)
  BY <1>1 DEF s
<1>3. ListOK(l, NewList(s), 0, 0)
  BY <1>2 DEF ListOK, ListRec, NewList, OnceOK, Undefined
<1>4. QED
  BY <1>1, <1>3 DEF s

\* The invariant holds at first.
LEMMA DefInvInit ==
  ASSUME DeferredConstants, DefInit
  PROVE  DefInv
<1>1. /\ DOMAIN lists = Lists /\ frames = <<>> /\ calls = 0 /\ count = 0 /\ todo = <<>>
      /\ \A l \in Lists : lists[l] = NewList(Own(l))
      /\ state = [d \in Deferreds |-> IF d \in Part THEN "pending" ELSE "unmade"]
  BY DEF DefInit, Own
<1>2. TypesInv
  BY <1>1 DEF TypesInv, DeferredConstants
<1>3. \A l \in Lists : Loops(frames, l) = 0 /\ InCall(frames, l) = 0
  BY <1>1 DEF Loops, InCall, Fires, Calls
<1>4. WellInv
  <2>1. \A l \in Lists : ListOK(l, lists[l], Loops(frames, l), InCall(frames, l))
    BY <1>1, <1>3, NewListOK
  <2>2. frames \in Seq(FrameRec) /\ Distinct(frames)
    BY <1>1 DEF Distinct
  <2>3. QED
    BY <1>1, <2>1, <2>2 DEF WellInv, Well
<1>5. TodoInv
  BY <1>1 DEF TodoInv
<1>6. ASSUME NEW l \in Lists
      PROVE  /\ lists[l].added = Own(l) /\ lists[l].list = Own(l) /\ ~lists[l].gone
             /\ ~Begun(l) /\ lists[l].log = <<>>
  BY <1>1 DEF NewList, Begun
<1>7. \A l \in Lists : Ran(l) = 0
  BY <1>3, <1>6 DEF Ran, RanIn
<1>8. Contents
  <2>1. ASSUME NEW l \in Lists
        PROVE  /\ Len(Own(l)) <= Len(lists[l].added)
               /\ \A i \in DOMAIN lists[l].added :
                     IF i <= Len(Own(l)) THEN lists[l].added[i] = Own(l)[i] ELSE Later(l, lists[l].added[i])
               /\ ~Once(l) => lists[l].list = <<>>
    <3>1. Own(l) \in Seq(Entry) /\ lists[l].added = Own(l) /\ lists[l].list = Own(l)
      BY <1>6, OwnFacts
    <3>2. Len(Own(l)) \in Nat /\ DOMAIN Own(l) = 1..Len(Own(l))
      BY <3>1
    <3>3. ~Once(l) => Own(l) = <<>>
      BY OwnFacts
    <3>4. QED
      BY <3>1, <3>2, <3>3
  <2>2. QED
    BY <1>1, <2>1 DEF Contents
<1>9. ASSUME NEW d \in Deferreds, NEW k \in Ends
      PROVE  <<d, k>> \in Lists /\ ~Begun(<<d, k>>) /\ ~lists[<<d, k>>].gone
  BY <1>6, Promised
<1>10. "done" \in Ends /\ "fail" \in Ends
  BY Promised
<1>11. \A d \in Deferreds : Open(d)
  BY <1>9, <1>10 DEF Open
<1>12. Phases
  <2>1. \A d \in Deferreds : state[d] \in {"unmade", "pending"}
    BY <1>1
  <2>2. QED
    BY <1>9, <1>10, <2>1 DEF Phases, Phase
<1>13. state[All] = "unmade" /\ state[Piped] = "unmade" /\ All \in Deferreds /\ Piped \in Deferreds
  BY <1>1, Promised
<1>14. PartsOnce
  <2>1. ASSUME NEW d \in Part PROVE ~Holds(<<d, "done">>, PartDone)
    BY <1>4, <1>8, <1>13, MadeEntries
  <2>2. \A l, e : ~Waits(l, e)
    BY <1>1 DEF Waits
  <2>3. \A d \in Part : \A i \in DOMAIN lists[<<d, "done">>].added :
           lists[<<d, "done">>].added[i] # PartDone
    BY <2>1 DEF Holds
  <2>4. QED
    BY <1>1, <2>2, <2>3 DEF PartsOnce
<1>15. \A l \in Lists : \A e : ~RanEntry(l, e)
  BY <1>7 DEF RanEntry
<1>16. WhenInv
  <2>1. ~Begun(<<All, "done">>) /\ ~Begun(<<All, "fail">>) /\ Open(All)
    BY <1>9, <1>10, <1>11, <1>13
  <2>2. QED
    BY <1>1, <1>13, <2>1 DEF WhenInv
<1>17. PipeInv
  <2>1. ~Begun(<<Piped, "done">>) /\ ~Begun(<<Piped, "fail">>) /\ Open(Piped)
    BY <1>9, <1>10, <1>11, <1>13
  <2>2. \A p \in Part, k \in Ends : ~RanEntry(<<p, k>>, PipedEnd(k))
    BY <1>9, <1>15 DEF Deferreds
  <2>3. ~RanEntry(<<Source, "done">>, PipedFilter)
    BY <1>9, <1>10, <1>15, Promised DEF Deferreds
  <2>4. QED
    BY <1>13, <2>1, <2>2, <2>3 DEF PipeInv
<1>18. QED
  BY <1>2, <1>4, <1>5, <1>8, <1>12, <1>14, <1>16, <1>17 DEF DefInv

-----------------------------------------------------------------------------
(* What the invariant shows.                                                *)

\* The deferreds of the program are there from the start.
PartsMade == \A d \in Part : state[d] # "unmade"

\* A deferred that tells its outcome has begun to call the handlers of it.
LEMMA OutcomeBegun ==
  ASSUME DeferredConstants, DefInv, NEW d \in Deferreds, NEW k \in Ends, state[d] = Outcome(k)
  PROVE  Begun(<<d, k>>) /\ Ran(<<d, k>>) \in Nat
<1>1. /\ WellInv /\ Phases
  BY DEF DefInv
<1>2. state[d] \notin {"unmade", "pending"} /\ \A j \in Ends : j = k \/ j = Other(k)
  BY DEF Outcome, Other, Ends
<1>3. ~Open(d)
  BY <1>1, <1>2 DEF Phases
<1>4. \A j \in Ends : Phase(d, j)
  BY <1>1 DEF Phases
<1>5. ASSUME NEW j \in Ends PROVE <<d, j>> \in Lists /\ Ran(<<d, j>>) \in Nat
  <2>1. <<d, j>> \in Lists /\ Once(<<d, j>>)
    BY EndFacts
  <2>2. Ran(<<d, j>>) \in 0..Len(lists[<<d, j>>].added) /\ Len(lists[<<d, j>>].added) \in Nat
    BY <1>1, <2>1, OnceRan, RanTyped DEF WellInv, Ran
  <2>3. QED
    BY <2>1, <2>2
<1>6. ~Begun(<<d, Other(k)>>)
  <2>1. ASSUME Begun(<<d, Other(k)>>) PROVE FALSE
    <3>1. Other(k) \in Ends /\ Other(Other(k)) = k /\ Outcome(Other(k)) # Outcome(k)
      BY DEF Ends, Other, Outcome
    <3>2. Ran(<<d, Other(k)>>) > 0 => state[d] = Outcome(Other(k))
      BY <1>4, <2>1, <3>1 DEF Phase
    <3>3. Ran(<<d, Other(k)>>) = 0 => state[d] \in {"unmade", "pending"}
      BY <1>4, <2>1, <3>1 DEF Phase
    <3>4. Ran(<<d, Other(k)>>) \in Nat
      BY <1>5, <3>1
    <3>5. QED
      BY <1>2, <3>1, <3>2, <3>3, <3>4
  <2>2. QED
    BY <2>1
<1>7. Begun(<<d, k>>)
  BY <1>3, <1>6 DEF Open, Ends, Other
<1>8. QED
  BY <1>5, <1>7

\* What has returned was called in the outcome of its list.
LEMMA RanOutcome ==
  ASSUME DeferredConstants, DefInv, NEW d \in Deferreds, NEW k \in Ends, Ran(<<d, k>>) > 0
  PROVE  Begun(<<d, k>>) /\ state[d] = Outcome(k)
<1>1. /\ WellInv /\ Phases
  BY DEF DefInv
<1>2. <<d, k>> \in Lists /\ Once(<<d, k>>)
  BY EndFacts
<1>3. lists[<<d, k>>].memory = Undefined => Ran(<<d, k>>) = 0
  BY <1>1, <1>2, OnceRan DEF WellInv, Ran
<1>4. Begun(<<d, k>>)
  BY <1>3 DEF Begun
<1>5. Phase(d, k)
  BY <1>1 DEF Phases
<1>6. QED
  BY <1>4, <1>5 DEF Phase

\* A function that was added later runs when the outcome is known.
LEMMA RanEntryOutcome ==
  ASSUME DeferredConstants, DefInv, NEW d \in Deferreds, NEW k \in Ends, NEW e,
         RanEntry(<<d, k>>, e)
  PROVE  state[d] = Outcome(k)
<1>1. PICK i \in 1..Ran(<<d, k>>) : TRUE
  BY DEF RanEntry
<1>2. WellInv /\ <<d, k>> \in Lists
  BY EndFacts DEF DefInv
<1>3. Ran(<<d, k>>) \in Int
  BY <1>2, RanTyped DEF WellInv, Ran
<1>4. Ran(<<d, k>>) > 0
  BY <1>1, <1>3
<1>5. QED
  BY <1>4, RanOutcome

\* Where nothing is under way, a list of the outcome has called all it has.
LEMMA QuietRan ==
  ASSUME DeferredConstants, DefInv, Quiet, NEW d \in Deferreds, NEW k \in Ends,
         Begun(<<d, k>>)
  PROVE  /\ state[d] = Outcome(k)
         /\ Ran(<<d, k>>) = Len(lists[<<d, k>>].added)
         /\ \A e : Due(<<d, k>>, e) => RanEntry(<<d, k>>, e)
<1> DEFINE l == <<d, k>>
<1>1. /\ WellInv /\ Contents /\ Phases
  BY DEF DefInv
<1>2. frames = <<>> /\ todo = <<>>
  BY DEF Quiet
<1>3. l \in Lists /\ Once(l)
  BY EndFacts
<1>4. Loops(frames, l) = 0
  BY <1>2 DEF Loops, Fires
<1>5. Ran(l) = Len(lists[l].added)
  BY <1>1, <1>3, <1>4, OnceRan DEF WellInv, Ran, Begun
<1>6. Settled
  BY <1>1, <1>2, NoneSettling
<1>7. Ran(l) > 2
  BY <1>3, <1>6 DEF Settled
<1>8. Len(lists[l].added) \in Nat /\ lists[l].added \in Seq(Entry)
  BY <1>1, <1>3, AddedFacts
<1>9. state[d] = Outcome(k)
  BY <1>5, <1>7, <1>8, RanOutcome
<1>10. ~lists[l].gone
  <2>1. ListOK(l, lists[l], Loops(frames, l), InCall(frames, l))
    BY <1>1, <1>3, WellTyped DEF WellInv
  <2>2. QED
    BY <2>1 DEF ListOK, Begun
<1>11. ASSUME NEW e, Due(l, e) PROVE RanEntry(l, e)
  <2>1. ~Waits(l, e)
    BY <1>2 DEF Waits
  <2>2. Holds(l, e)
    BY <1>10, <1>11, <2>1 DEF Due
  <2>3. PICK i \in DOMAIN lists[l].added : lists[l].added[i] = e
    BY <2>2 DEF Holds
  <2>4. i \in 1..Ran(l)
    BY <1>5, <1>8
  <2>5. QED
    BY <2>3, <2>4 DEF RanEntry
<1>12. QED
  BY <1>5, <1>9, <1>11

-----------------------------------------------------------------------------
\* The invariant implies the types.
LEMMA ShowsTypes ==
  ASSUME DeferredConstants, DefInv
  PROVE  DefTypeOK
<1>1. TypesInv /\ WellInv /\ WhenInv
  BY DEF DefInv
<1>2. ASSUME NEW l \in Lists
      PROVE  lists[l].index \in Int /\ lists[l].firing \in BOOLEAN /\ lists[l].length \in Nat
  <2>1. lists[l] \in ListRec
    BY <1>1, WellTyped DEF WellInv
  <2>2. QED
    BY <2>1 DEF ListRec
<1>3. IsFiniteSet(Part) /\ Cardinality(Part) \in Nat
  BY FS_CardinalityType DEF DeferredConstants
<1>4. Unfinished \subseteq Part
  BY DEF Unfinished
<1>5. Cardinality(Unfinished) <= Cardinality(Part) /\ Cardinality(Unfinished) \in Nat
  BY <1>3, <1>4, FS_Subset, UnfinishedFinite
<1>6. count \in 0..Cardinality(Part)
  BY <1>1, <1>3, <1>5 DEF WhenInv
<1>7. QED
  BY <1>1, <1>2, <1>6 DEF DefTypeOK, TypesInv

\* The invariant implies that lists call what they are due to.
LEMMA ShowsCallsDue ==
  ASSUME DeferredConstants, DefInv
  PROVE  CallsDue /\ FiringEnds
<1>1. WellInv
  BY DEF DefInv
<1>2. ASSUME NEW l \in Lists
      PROVE  /\ lists[l] \in ListRec /\ Loops(frames, l) \in {0, 1}
             /\ InCall(frames, l) \in {0, 1}
             /\ ListOK(l, lists[l], Loops(frames, l), InCall(frames, l))
  BY <1>1, WellTyped DEF WellInv
<1>3. ASSUME NEW l \in Lists
      PROVE  /\ lists[l].firing <=> Loops(frames, l) = 1
             /\ Loops(frames, l) = 1 =>
                  lists[l].due = SubSeq(lists[l].list,
                     lists[l].index + (IF InCall(frames, l) = 1 THEN 2 ELSE 1), lists[l].length)
  BY <1>2, ListShows
<1>4. CallsDue
  <2>1. ASSUME NEW l \in Lists, InLoop(l)
        PROVE  lists[l].due = SubSeq(lists[l].list, lists[l].index +
                  (IF \E i \in DOMAIN frames : frames[i].list = l /\ frames[i].entry # NoEntry
                   THEN 2 ELSE 1), lists[l].length)
    <3>1. Loops(frames, l) = 1
      BY <2>1 DEF InLoop, Loops, Fires
    <3>2. InCall(frames, l) = 1 <=>
             \E i \in DOMAIN frames : frames[i].list = l /\ frames[i].entry # NoEntry
      BY DEF InCall, Calls
    <3>3. QED
      BY <1>3, <3>1, <3>2
  <2>2. QED
    BY <2>1 DEF CallsDue
<1>5. FiringEnds
  <2>1. ASSUME NEW l \in Lists PROVE lists[l].firing <=> InFrames(l)
    BY <1>3 DEF InFrames, Loops, Fires
  <2>2. ASSUME NEW l \in Lists
        PROVE  Cardinality({i \in DOMAIN frames : frames[i].list = l}) <= 1
    <3> DEFINE X == {i \in DOMAIN frames : frames[i].list = l}
    <3>1. \A i, j \in X : i = j
      BY <1>1 DEF WellInv, Well, Distinct
    <3>2. CASE X = {}
      BY <3>2, FS_EmptySet
    <3>3. CASE X # {}
      <4>1. PICK x \in X : TRUE
        BY <3>3
      <4>2. X = {x}
        BY <3>1, <4>1
      <4>3. Cardinality({x}) = 1
        BY FS_Singleton
      <4>4. QED
        BY <4>2, <4>3
    <3>4. QED
      BY <3>2, <3>3
  <2>3. QED
    BY <2>1, <2>2 DEF FiringEnds
<1>6. QED
  BY <1>4, <1>5

\* What a list that is fired once has called.
LEMMA LogFacts ==
  ASSUME DeferredConstants, DefInv, NEW d \in Deferreds, NEW k \in Ends
  PROVE  LET l == <<d, k>>
         IN /\ lists[l].log \in Seq(Entry \X Val) /\ lists[l].added \in Seq(Entry)
            /\ Len(lists[l].log) \in Nat /\ Len(lists[l].log) <= Len(lists[l].added)
            /\ Len(lists[l].added) \in Nat
            /\ \A i \in 1..Len(lists[l].log) : lists[l].log[i] = <<lists[l].added[i], lists[l].memory>>
            /\ Loops(frames, l) = 0 /\ Begun(l) => Len(lists[l].log) = Len(lists[l].added)
<1> DEFINE l == <<d, k>>
           L == lists[l]
<1>1. WellInv /\ Contents
  BY DEF DefInv
<1>2. l \in Lists /\ Once(l)
  BY EndFacts
<1>3. L \in ListRec /\ ListOK(l, L, Loops(frames, l), InCall(frames, l))
  BY <1>1, <1>2, WellTyped DEF WellInv
<1> HIDE DEF L
<1>4. L.log \in Seq(Entry \X Val) /\ L.added \in Seq(Entry)
  BY <1>3 DEF ListRec
<1>5. Len(L.log) \in Nat /\ Len(L.added) \in Nat
  BY <1>4
<1>6. OnceOK(L, Loops(frames, l), InCall(frames, l))
  BY <1>2, <1>3 DEF ListOK
<1>7. CASE L.memory = Undefined
  <2>1. L.log = <<>>
    BY <1>6, <1>7 DEF OnceOK
  <2>2. Len(L.log) = 0
    BY <2>1
  <2>3. ~Begun(l)
    BY <1>7 DEF Begun, L
  <2>4. QED
    BY <1>4, <1>5, <2>2, <2>3 DEF L
<1>8. CASE L.memory # Undefined
  <2>1. Remains(L.due, L.added, Len(L.log)) /\ Logged(L.log, L.added, L.memory)
    BY <1>6, <1>8 DEF OnceOK
  <2>2. Loops(frames, l) = 0 => L.due = <<>>
    BY <1>3 DEF ListOK
  <2>3. Loops(frames, l) = 0 => Len(L.log) = Len(L.added)
    <3>1. Len(L.log) + Len(L.due) = Len(L.added)
      BY <2>1 DEF Remains
    <3>2. Loops(frames, l) = 0 => Len(L.due) = 0
      BY <2>2
    <3>3. ASSUME Len(L.due) = 0 PROVE Len(L.log) = Len(L.added)
      <4>1. Len(L.log) + 0 = Len(L.added)
        BY <3>1, <3>3
      <4>2. QED
        BY <1>5, <4>1
    <3>4. QED
      BY <3>2, <3>3
  <2>4. QED
    BY <1>4, <1>5, <2>1, <2>3 DEF Logged, L
<1>9. QED
  BY <1>7, <1>8

\* The invariant implies that handlers run in their outcome and once.
LEMMA ShowsHandlers ==
  ASSUME DeferredConstants, DefInv
  PROVE  HandlersRun
<1>1. WellInv /\ Contents
  BY DEF DefInv
<1>2. ASSUME NEW d \in Deferreds, NEW k \in Ends, UserCalled(<<d, k>>) PROVE state[d] = Outcome(k)
  <2> DEFINE l == <<d, k>>
             L == lists[l]
  <2>1. /\ L.log \in Seq(Entry \X Val) /\ Len(L.log) \in Nat
        /\ Len(L.log) <= Len(L.added) /\ Len(L.added) \in Nat /\ L.added \in Seq(Entry)
        /\ \A i \in 1..Len(L.log) : L.log[i] = <<L.added[i], L.memory>>
    BY LogFacts
  <2>2. PICK i \in DOMAIN L.log : Called(l)[i][1] = "user"
    BY <1>2 DEF UserCalled
  <2>3. i \in 1..Len(L.log) /\ Called(l)[i] = L.log[i][1]
    BY <2>1, <2>2 DEF Called
  <2>4. L.added[i][1] = "user"
    BY <2>1, <2>2, <2>3, SMTT(60)
  <2>5. l \in Lists /\ Once(l)
    BY EndFacts
  <2>6. /\ L.added[1] = Settle(Outcome(l[2])) /\ L.added[2] = DisableList(<<l[1], Other(l[2])>>)
        /\ L.added[3] = LockList(<<l[1], "progress">>)
    BY <1>1, <2>5, AddedFacts
  <2>7. i # 1 /\ i # 2 /\ i # 3
    BY <2>4, <2>6, EntryKinds
  <2>8. Len(L.log) > 3
    BY <2>1, <2>3, <2>7
  <2>9. Ran(l) > 0
    <3>1. InCall(frames, l) \in {0, 1}
      BY DEF InCall
    <3>2. Ran(l) = Len(L.log) - InCall(frames, l)
      BY DEF Ran, RanIn
    <3>3. QED
      BY <2>1, <2>8, <3>1, <3>2
  <2>10. QED
    BY <2>9, RanOutcome
<1>3. ASSUME NEW d \in Deferreds, NEW k \in Ends, Quiet, state[d] = Outcome(k)
      PROVE  Called(<<d, k>>) = lists[<<d, k>>].added
  <2> DEFINE l == <<d, k>>
             L == lists[l]
  <2>1. Begun(l)
    BY <1>3, OutcomeBegun
  <2>2. Loops(frames, l) = 0
    BY <1>3 DEF Quiet, Loops, Fires
  <2>3. /\ L.log \in Seq(Entry \X Val) /\ Len(L.log) \in Nat
        /\ L.added \in Seq(Entry) /\ Len(L.log) = Len(L.added)
        /\ \A i \in 1..Len(L.log) : L.log[i] = <<L.added[i], L.memory>>
    BY <2>1, <2>2, LogFacts
  <2> HIDE DEF L
  <2>4. DOMAIN L.log = 1..Len(L.log) /\ DOMAIN L.added = 1..Len(L.log)
    BY <2>3
  <2>5. [i \in DOMAIN L.log |-> L.log[i][1]] = L.added
    <3>1. \A i \in 1..Len(L.log) : L.log[i][1] = L.added[i]
      BY <2>3
    <3>2. L.added = [i \in 1..Len(L.log) |-> L.added[i]]
      BY <2>3, <2>4
    <3>3. [i \in DOMAIN L.log |-> L.log[i][1]] = [i \in 1..Len(L.log) |-> L.added[i]]
      BY <2>4, <3>1
    <3>4. QED
      BY <3>2, <3>3
  <2>6. QED
    BY <2>5 DEF Called, L
<1>4. ASSUME NEW d \in Deferreds, NEW k \in Ends, NEW i \in DOMAIN lists[<<d, k>>].log
      PROVE  lists[<<d, k>>].log[i][2] = lists[<<d, k>>].log[1][2]
  <2> DEFINE L == lists[<<d, k>>]
  <2>1. /\ L.log \in Seq(Entry \X Val) /\ Len(L.log) \in Nat
        /\ \A j \in 1..Len(L.log) : L.log[j] = <<L.added[j], L.memory>>
    BY LogFacts
  <2>2. i \in 1..Len(L.log) /\ 1 \in 1..Len(L.log)
    BY <1>4, <2>1
  <2>3. L.log[i] = <<L.added[i], L.memory>> /\ L.log[1] = <<L.added[1], L.memory>>
    BY <2>1, <2>2
  <2> HIDE DEF L
  <2>4. L.log[i][2] = L.memory /\ L.log[1][2] = L.memory
    BY <2>3
  <2>5. QED
    BY <2>4 DEF L
<1>5. "done" \in Ends /\ "fail" \in Ends /\ Outcome("done") = "resolved" /\ Outcome("fail") = "rejected"
      /\ Ends = {"done", "fail"}
  BY DEF Ends, Outcome
<1>6. QED
  BY <1>2, <1>3, <1>4, <1>5 DEF HandlersRun

\* The invariant implies what when promises.
LEMMA ShowsWhen ==
  ASSUME DeferredConstants, DefInv, PartsMade
  PROVE  WhenJoins
<1>1. TypesInv /\ WhenInv /\ Phases
  BY DEF DefInv
<1>2. SUFFICES ASSUME state[All] # "unmade"
               PROVE  /\ state[All] = "resolved" => \A d \in Part : state[d] = "resolved"
                      /\ state[All] = "rejected" => \E d \in Part : state[d] = "rejected"
                      /\ Quiet /\ state[All] = "pending" =>
                            /\ \E d \in Part : state[d] = "pending"
                            /\ \A d \in Part : state[d] # "rejected"
  BY DEF WhenJoins
<1>3. /\ "done" \in Ends /\ "fail" \in Ends /\ All \in Deferreds
      /\ Outcome("done") = "resolved" /\ Outcome("fail") = "rejected" /\ Part \subseteq Deferreds
  BY DEF Ends, Outcome, Deferreds
<1>4. CASE state[All] = "resolved"
  <2>1. Begun(<<All, "done">>)
    BY <1>3, <1>4, OutcomeBegun
  <2>2. \A d \in Part : RanEntry(<<d, "done">>, PartDone)
    BY <1>1, <2>1 DEF WhenInv, Unfinished
  <2>3. \A d \in Part : state[d] = "resolved"
    BY <1>3, <2>2, RanEntryOutcome
  <2>4. QED
    BY <1>4, <2>3
<1>5. CASE state[All] = "rejected"
  <2>1. Begun(<<All, "fail">>)
    BY <1>3, <1>5, OutcomeBegun
  <2>2. PICK d \in Part : RanEntry(<<d, "fail">>, AllFail)
    BY <1>1, <2>1 DEF WhenInv
  <2>3. state[d] = "rejected"
    BY <1>3, <2>2, RanEntryOutcome
  <2>4. QED
    BY <1>5, <2>3
<1>6. CASE Quiet /\ state[All] = "pending"
  <2>1. Open(All)
    <3>1. ASSUME NEW k \in Ends, Begun(<<All, k>>) PROVE FALSE
      <4>1. state[All] = Outcome(k)
        BY <1>3, <1>6, <3>1, QuietRan
      <4>2. QED
        BY <1>6, <4>1 DEF Outcome
    <3>2. QED
      BY <1>3, <3>1 DEF Open
  <2>2. ASSUME NEW d \in Part, state[d] = "rejected" PROVE FALSE
    <3>1. Begun(<<d, "fail">>)
      BY <1>3, <2>2, OutcomeBegun
    <3>2. Due(<<d, "fail">>, AllFail)
      BY <1>1, <1>2 DEF WhenInv
    <3>3. RanEntry(<<d, "fail">>, AllFail)
      BY <1>3, <1>6, <3>1, <3>2, QuietRan
    <3>4. QED
      BY <1>1, <1>2, <2>1, <3>3 DEF WhenInv
  <2>3. PICK d \in Part : ~RanEntry(<<d, "done">>, PartDone)
    BY <1>1, <1>2, <2>1 DEF WhenInv, Unfinished
  <2>4. ASSUME state[d] = "resolved" PROVE FALSE
    <3>1. Begun(<<d, "done">>)
      BY <1>3, <2>4, OutcomeBegun
    <3>2. Due(<<d, "done">>, PartDone)
      BY <1>1, <1>2 DEF WhenInv
    <3>3. RanEntry(<<d, "done">>, PartDone)
      BY <1>3, <1>6, <3>1, <3>2, QuietRan
    <3>4. QED
      BY <2>3, <3>3
  <2>5. state[d] \in {"unmade", "pending", "resolved", "rejected"}
    BY <1>1, <1>3 DEF TypesInv
  <2>6. state[d] = "pending"
    BY <2>2, <2>4, <2>5 DEF PartsMade
  <2>7. QED
    BY <1>6, <2>2, <2>6
<1>7. QED
  BY <1>4, <1>5, <1>6

\* The invariant implies what pipe promises.
LEMMA ShowsPipe ==
  ASSUME DeferredConstants, DefInv, PartsMade
  PROVE  PipeFollows
<1>1. TypesInv /\ PipeInv /\ Phases
  BY DEF DefInv
<1>2. SUFFICES ASSUME Quiet, state[Piped] # "unmade"
               PROVE  /\ state[Source] = "pending" => state[Piped] = "pending"
                      /\ state[Source] = "rejected" => state[Piped] = "rejected"
                      /\ state[Piped] = "pending" => \E d \in Part : state[d] = "pending"
  BY DEF PipeFollows
<1>3. /\ "done" \in Ends /\ "fail" \in Ends /\ Piped \in Deferreds
      /\ Outcome("done") = "resolved" /\ Outcome("fail") = "rejected" /\ Part \subseteq Deferreds
      /\ Source \in Part /\ Source \in Deferreds
  BY Promised DEF Ends, Outcome, Deferreds
<1>4. CASE state[Source] = "pending"
  <2>1. ~Begun(<<Piped, "done">>) /\ ~Begun(<<Piped, "fail">>)
    BY <1>1, <1>4 DEF PipeInv, Outcomes
  <2>2. state[Piped] \in {"unmade", "pending"}
    BY <1>1, <1>3, <2>1 DEF Open, Phases
  <2>3. QED
    BY <1>2, <1>3, <1>4, <2>2
<1>5. CASE state[Source] = "rejected"
  <2>1. Begun(<<Source, "fail">>)
    BY <1>3, <1>5, OutcomeBegun
  <2>2. Due(<<Source, "fail">>, PipedEnd("fail"))
    BY <1>1, <1>2 DEF PipeInv
  <2>3. RanEntry(<<Source, "fail">>, PipedEnd("fail"))
    BY <1>2, <1>3, <2>1, <2>2, QuietRan
  <2>4. ~Open(Piped)
    BY <1>1, <1>3, <2>3 DEF PipeInv
  <2>5. Begun(<<Piped, "fail">>)
    BY <1>1, <1>5, <2>4 DEF PipeInv, Open
  <2>6. state[Piped] = "rejected"
    BY <1>2, <1>3, <2>5, QuietRan
  <2>7. QED
    BY <1>5, <2>6
<1>6. CASE state[Source] = "resolved"
  <2>1. SUFFICES ASSUME state[Piped] = "pending" PROVE \E d \in Part : state[d] = "pending"
    BY <1>6
  <2>2. Open(Piped)
    <3>1. ASSUME NEW k \in Ends, Begun(<<Piped, k>>) PROVE FALSE
      <4>1. state[Piped] = Outcome(k)
        BY <1>2, <1>3, <3>1, QuietRan
      <4>2. QED
        BY <2>1, <4>1 DEF Outcome
    <3>2. QED
      BY <1>3, <3>1 DEF Open
  <2>3. Begun(<<Source, "done">>)
    BY <1>3, <1>6, OutcomeBegun
  <2>4. Due(<<Source, "done">>, PipedFilter)
    BY <1>1, <1>2 DEF PipeInv
  <2>5. RanEntry(<<Source, "done">>, PipedFilter)
    BY <1>2, <1>3, <2>3, <2>4, QuietRan
  <2>6. PICK p \in Part : \A k \in Ends : Due(<<p, k>>, PipedEnd(k))
    BY <1>1, <2>2, <2>5 DEF PipeInv
  <2>7. ASSUME NEW k \in Ends, state[p] = Outcome(k) PROVE FALSE
    <3>1. Begun(<<p, k>>)
      BY <1>3, <2>7, OutcomeBegun
    <3>2. Due(<<p, k>>, PipedEnd(k))
      BY <2>6
    <3>3. RanEntry(<<p, k>>, PipedEnd(k))
      BY <1>2, <1>3, <3>1, <3>2, QuietRan
    <3>4. QED
      BY <1>1, <2>2, <3>3 DEF PipeInv
  <2>8. state[p] \in {"unmade", "pending", "resolved", "rejected"} /\ state[p] # "unmade"
    BY <1>1, <1>3 DEF TypesInv, PartsMade
  <2>9. state[p] = "pending"
    BY <1>3, <2>7, <2>8
  <2>10. QED
    BY <2>9
<1>7. state[Source] \in {"unmade", "pending", "resolved", "rejected"} /\ state[Source] # "unmade"
  BY <1>1, <1>3 DEF TypesInv, PartsMade
<1>8. QED
  BY <1>4, <1>5, <1>6, <1>7

-----------------------------------------------------------------------------
(* What a step may never do.                                                *)

\* What a function of jQuery changes of the state of a deferred.
LEMMA OwnEffects ==
  ASSUME DeferredConstants, DefInv, RunOwn
  PROVE  /\ Calling
         /\ \/ Top.entry[1] = "settle" /\ state' = [state EXCEPT ![Top.list[1]] = Top.entry[2]]
            \/ UNCHANGED state
         /\ \/ frames' = Back
            \/ \E to \in Lists :
                  frames' = IF Begins(to, lists[to]) THEN Append(Back, Frame(to, Top.value)) ELSE Back
<1> DEFINE e == Top.entry
<1>1. Calling /\ e[1] # "user"
  BY DEF RunOwn
<1>2. /\ e[1] \in {"settle", "disable", "lock", "forward", "part", "filter"}
      /\ e[1] \in {"disable", "lock", "forward", "filter"} => e[2] \in Lists
  BY <1>1, OwnKinds
<1>3. <<All, "done">> \in Lists
  BY Promised
<1>4. CASE e[1] = "settle"
  BY <1>1, <1>4 DEF RunOwn
<1>5. CASE e[1] = "disable"
  BY <1>1, <1>5 DEF RunOwn
<1>6. CASE e[1] = "lock"
  BY <1>1, <1>6 DEF RunOwn
<1>7. CASE e[1] = "forward"
  BY <1>1, <1>2, <1>7 DEF RunOwn
<1>8. CASE e[1] = "part"
  BY <1>1, <1>3, <1>8 DEF RunOwn
<1>9. CASE e[1] = "filter"
  BY <1>1, <1>2, <1>9 DEF RunOwn
<1>10. QED
  BY <1>2, <1>4, <1>5, <1>6, <1>7, <1>8, <1>9

\* A function of a deferred that settles it is called first of all.
LEMMA SettlesOpen ==
  ASSUME DeferredConstants, DefInv, RunOwn, NEW d \in Deferreds, state'[d] # state[d]
  PROVE  /\ state[d] \in {"unmade", "pending"}
         /\ state' = [state EXCEPT ![d] = Top.entry[2]]
         /\ Top.entry[2] \in Outcomes
<1>1. /\ TypesInv /\ WellInv /\ Contents /\ Phases
  BY DEF DefInv
<1>2. Calling /\ Top.entry[1] = "settle" /\ state' = [state EXCEPT ![Top.list[1]] = Top.entry[2]]
  BY OwnEffects
<1> DEFINE l == Top.list
<1>3. l \in Lists /\ ~Later(l, Top.entry)
  BY <1>1, <1>2, TopEntry
<1>4. Once(l)
  BY <1>1, <1>2, <1>3, TopEntry
<1>5. Ran(l) = 0 /\ Begun(l) /\ Top.entry = Settle(Outcome(l[2]))
  BY <1>1, <1>2, <1>4, TopEntry
<1>6. l[1] = d
  <2>1. ASSUME l[1] # d PROVE FALSE
    BY <1>1, <1>2, <2>1 DEF TypesInv
  <2>2. QED
    BY <2>1
<1>7. l = <<d, l[2]>> /\ l[2] \in Ends
  BY <1>3, <1>4, <1>6, FlagFacts, OwnFacts
<1>8. Phase(d, l[2])
  BY <1>1, <1>7 DEF Phases
<1>9. state[d] \in {"unmade", "pending"}
  BY <1>5, <1>7, <1>8 DEF Phase
<1>10. Top.entry[2] \in Outcomes
  BY <1>5, <1>7, EntryKinds DEF Outcome, Outcomes
<1>11. QED
  BY <1>2, <1>6, <1>9, <1>10

\* A deferred leaves the states in which it can be settled only once.
LEMMA StateSteps ==
  ASSUME DeferredConstants, DefInv, [DefNext]_defVars, NEW d \in Deferreds,
         state'[d] # state[d]
  PROVE  state[d] \in {"unmade", "pending"} /\ state'[d] # "unmade"
<1>1. state \in [Deferreds -> {"unmade", "pending", "resolved", "rejected"}]
  BY DEF DefInv, TypesInv
<1>2. CASE When
  BY <1>1, <1>2 DEF When
<1>3. CASE Pipe
  BY <1>1, <1>3 DEF Pipe
<1>4. CASE RunOwn
  <2>1. /\ state[d] \in {"unmade", "pending"}
        /\ state' = [state EXCEPT ![d] = Top.entry[2]]
        /\ Top.entry[2] \in Outcomes
    BY <1>4, SettlesOpen
  <2>2. QED
    BY <1>1, <2>1 DEF Outcomes
<1>5. CASE UNCHANGED state
  BY <1>5
<1>6. QED
  BY <1>2, <1>3, <1>4, <1>5 DEF DefNext, AddTodo, defVars

\* The innermost loop stays that of its list, whatever it calls.
LEMMA LoopsBack ==
  ASSUME DeferredConstants, DefInv, frames # <<>>, NEW F \in FrameRec, F.list = Top.list,
         NEW l
  PROVE  Fires(Put(frames, Len(frames), F), l) <=> Fires(frames, l)
<1>1. frames \in Seq(FrameRec) /\ Distinct(frames)
  BY DEF DefInv, WellInv, Well
<1>2. QED
  BY <1>1, SetFacts DEF Top

\* The list l begins to fire in this step.
Starts(l) == ~Fires(frames, l) /\ Fires(frames', l)

\* A loop that begins is that of its list.
LEMMA PushStarts ==
  ASSUME DeferredConstants, DefInv, NEW fs \in Seq(FrameRec), NEW c, NEW k \in Lists, NEW v,
         c => v \in Val, Pushed(fs, c, k, v, frames'),
         NEW l, \A i : Fires(fs, i) <=> Fires(frames, i), Starts(l)
  PROVE  c /\ l = k
<1>1. Fires(frames', l) /\ ~Fires(fs, l)
  BY DEF Starts
<1>2. CASE c
  <2> DEFINE F == Frame(k, v)
  <2>1. F \in FrameRec /\ F.list = k
    BY <1>2, FrameFacts
  <2>2. frames' = Append(fs, F)
    BY <1>2 DEF Pushed
  <2> HIDE DEF F
  <2>3. Fires(frames', l) <=> Fires(fs, l) \/ l = F.list
    BY <2>1, <2>2, PushFacts
  <2>4. QED
    BY <1>1, <1>2, <2>1, <2>3
<1>3. CASE ~c
  BY <1>1, <1>3 DEF Pushed
<1>4. QED
  BY <1>2, <1>3

\* What an added function, and no other, does to a list that has been locked.
OneDue(l) == Len(lists'[l].due) = 1 /\ lists'[l].memory = lists[l].memory

\* A list begins to fire when a function is added only to call that function.
LEMMA AddStarts ==
  ASSUME DeferredConstants, DefInv, NEW k \in Lists, NEW e \in Entry,
         CallAdd(k, e), NEW l, Starts(l)
  PROVE  OneDue(l)
<1>1. WellInv /\ frames \in Seq(FrameRec)
  BY DEF DefInv, WellInv, Well
<1>2. AddedTo(lists, frames, k, e, lists', frames')
  BY DEF CallAdd, Apply, AddedTo, Put
<1>3. /\ lists'[k].memory = lists[k].memory
      /\ FiresAtOnce(lists[k]) => lists[k].memory \in Val /\ lists'[k].due = <<e>>
  BY <1>1, <1>2, AddStep DEF WellInv
<1>4. Pushed(frames, FiresAtOnce(lists[k]), k, lists[k].memory, frames')
  BY <1>2 DEF Pushed, AddedTo
<1>5. FiresAtOnce(lists[k]) /\ l = k
  BY <1>1, <1>3, <1>4, PushStarts
<1>6. QED
  BY <1>3, <1>5 DEF OneDue

\* A list that begins to fire with a new value is not locked.
LEMMA FireStarts ==
  ASSUME DeferredConstants, DefInv, NEW k \in Lists, NEW v \in Val, NEW fs \in Seq(FrameRec),
         Pushed(fs, Begins(k, lists[k]), k, v, frames'),
         \A i : Fires(fs, i) <=> Fires(frames, i), NEW l, Starts(l)
  PROVE  ~lists[l].locked
<1>1. Begins(k, lists[k]) /\ l = k
  BY PushStarts
<1>2. QED
  BY <1>1 DEF Begins

\* A function that returns leaves the same lists under way.
LEMMA BackFacts ==
  ASSUME DeferredConstants, DefInv, frames # <<>>
  PROVE  /\ Back \in Seq(FrameRec)
         /\ \A l : Fires(Back, l) <=> Fires(frames, l)
<1>1. frames \in Seq(FrameRec) /\ Distinct(frames)
  BY DEF DefInv, WellInv, Well
<1> DEFINE F == Entered(Top, NoEntry)
<1>2. Top \in FrameRec
  BY <1>1, TopFacts DEF Top
<1>3. F \in FrameRec /\ F.list = Top.list
  BY <1>2 DEF Entered, FrameRec
<1>4. Back = Put(frames, Len(frames), F)
  BY <1>1, <1>2 DEF Back, Put, Entered, Top
<1> HIDE DEF F
<1>5. QED
  BY <1>1, <1>3, <1>4, SetFacts DEF Top

\* Of all the steps, only these two begin a loop of a list.
LEMMA LateStarts ==
  ASSUME DeferredConstants, DefInv, DefNext, NEW l, Starts(l), lists[l].locked
  PROVE  OneDue(l)
<1>1. /\ TypesInv /\ WellInv /\ Contents /\ frames \in Seq(FrameRec)
  BY DEF DefInv, WellInv, Well
<1>2. ~(frames' = frames)
  BY DEF Starts
<1>3. ASSUME frames # <<>>, NEW F \in FrameRec, F.list = Top.list,
             frames' = Put(frames, Len(frames), F)
      PROVE  FALSE
  BY <1>3, LoopsBack DEF Starts
<1>4. CASE UserAdd
  <2>1. PICK k \in Lists, f \in Fn : CallAdd(k, User(f))
    BY <1>4 DEF UserAdd
  <2>2. User(f) \in Entry
    BY DEF Entry
  <2>3. QED
    BY <2>1, <2>2, AddStarts
<1>5. CASE AddTodo
  <2>1. todo # <<>> /\ CallAdd(todo[1].list, todo[1].entry)
    BY <1>5 DEF AddTodo, Idle
  <2>2. 1 \in DOMAIN todo
    BY <1>1, <2>1 DEF TypesInv
  <2>3. todo[1].list \in Lists /\ todo[1].entry \in Entry
    BY <1>1, <2>2, TodoTyped
  <2>4. QED
    BY <2>1, <2>3, AddStarts
<1>6. CASE UserFire
  <2>1. PICK k \in Lists, x \in Value : CallFire(k, <<x>>)
    BY <1>6 DEF UserFire
  <2> DEFINE v == <<x>>
  <2>2. v \in Val
    BY DEF Val
  <2>3. Pushed(frames, Begins(k, lists[k]), k, v, frames')
    BY <2>1 DEF CallFire, Apply, Pushed
  <2> HIDE DEF v
  <2>4. ~lists[l].locked
    BY <1>1, <2>2, <2>3, FireStarts
  <2>5. QED
    BY <2>4
<1>7. CASE RunOwn
  <2>1. /\ Calling
        /\ \/ frames' = Back
           \/ \E to \in Lists :
                 frames' = IF Begins(to, lists[to]) THEN Append(Back, Frame(to, Top.value)) ELSE Back
    BY <1>7, OwnEffects
  <2>2. frames # <<>>
    BY <2>1 DEF Calling
  <2>3. Back \in Seq(FrameRec) /\ \A i : Fires(Back, i) <=> Fires(frames, i)
    BY <2>2, BackFacts
  <2>4. CASE frames' = Back
    BY <2>3, <2>4 DEF Starts
  <2>5. CASE \E to \in Lists :
                frames' = IF Begins(to, lists[to]) THEN Append(Back, Frame(to, Top.value)) ELSE Back
    <3>1. PICK to \in Lists :
             frames' = IF Begins(to, lists[to]) THEN Append(Back, Frame(to, Top.value)) ELSE Back
      BY <2>5
    <3>2. Pushed(Back, Begins(to, lists[to]), to, Top.value, frames')
      BY <3>1 DEF Pushed
    <3>3. Top.value \in Val
      BY <1>1, <2>2, TopFacts DEF Top, FrameRec
    <3>4. ~lists[l].locked
      BY <2>3, <3>2, <3>3, FireStarts
    <3>5. QED
      BY <3>4
  <2>6. QED
    BY <2>1, <2>4, <2>5
<1>8. CASE UserReturn
  <2>1. frames # <<>> /\ frames' = Back
    BY <1>8 DEF UserReturn, Return, Calling
  <2>2. \A i : Fires(Back, i) <=> Fires(frames, i)
    BY <2>1, BackFacts
  <2>3. QED
    BY <2>1, <2>2 DEF Starts
<1>9. CASE CallNext
  <2> DEFINE e == NextOf(lists[Top.list])
             F == Entered(Top, e)
  <2>1. /\ frames # <<>> /\ Top.entry = NoEntry /\ More(lists[Top.list])
        /\ frames' = <<>> \/ frames' = [frames EXCEPT ![Len(frames)].entry = e]
    BY <1>9 DEF CallNext, Looping, NextOf
  <2>2. frames' # <<>>
    BY DEF Starts, Fires
  <2>3. Top \in FrameRec /\ Top.list \in Lists
    BY <1>1, <2>1, TopFacts DEF Top, FrameRec
  <2>4. lists[Top.list].index < lists[Top.list].length
    BY <2>1 DEF More
  <2>5. e \in Entry
    <3> DEFINE ms == Put(lists, Top.list, Called1(lists[Top.list], e, Top.value))
               gs == Put(frames, Len(frames), Entered(Top, e))
    <3>1. NextOf(lists[Top.list]) \in Entry
      BY <1>1, <2>1, <2>4, CallStep DEF WellInv, Top
    <3>2. QED
      BY <3>1
  <2>6. F \in FrameRec /\ F.list = Top.list
    BY <2>3, <2>5 DEF Entered, FrameRec
  <2>7. frames' = Put(frames, Len(frames), F)
    BY <1>1, <2>1, <2>2 DEF Put, Entered, Top
  <2> HIDE DEF F
  <2>8. QED
    BY <1>3, <2>1, <2>6, <2>7
<1>10. CASE Finish
  <2> DEFINE k == Top.list
             F == Frame(k, lists[k].stack[1])
  <2> DEFINE L == lists[k]
             M == [L EXCEPT !.firing = FALSE, !.broken = FALSE]
             again == ~M.gone /\ "once" \notin Flags[k] /\ M.stack # <<>>
  <2>0. frames # <<>>
    BY <1>10 DEF Finish, Looping
  <2>2. Top \in FrameRec /\ k \in Lists /\ lists[k] \in ListRec
    <3>1. Top \in FrameRec /\ k \in Lists
      BY <1>1, <2>0, TopFacts DEF Top, FrameRec
    <3>2. QED
      BY <1>1, <3>1, WellTyped DEF WellInv
  <2>1. frames # <<>> /\ frames' = IF Again(k, L) THEN [frames EXCEPT ![Len(frames)] = F] ELSE Rest
    <3>1. frames' = IF ~L.gone /\ "once" \notin Flags[k] /\ M.stack # <<>>
                    THEN [frames EXCEPT ![Len(frames)] = Frame(k, M.stack[1])] ELSE Rest
      BY <1>10 DEF Finish
    <3>2. M.stack = L.stack
      <4> HIDE DEF L
      <4>1. QED
        BY <2>2 DEF ListRec, L
    <3> HIDE DEF M
    <3>3. QED
      BY <2>0, <3>1, <3>2 DEF Again
  <2>3. CASE Again(k, lists[k])
    <3>1. lists[k].stack \in Seq(Val) /\ lists[k].stack # <<>>
      BY <2>2, <2>3 DEF Again, ListRec
    <3>2. lists[k].stack[1] \in Val
      BY <3>1
    <3>3. F \in FrameRec /\ F.list = Top.list
      BY <2>2, <3>2, FrameFacts
    <3>4. frames' = Put(frames, Len(frames), F)
      BY <2>1, <2>3 DEF Put
    <3> HIDE DEF F
    <3>5. QED
      BY <1>3, <2>1, <3>3, <3>4
  <2>4. CASE ~Again(k, lists[k])
    <3>1. frames' = Front(frames) /\ Distinct(frames)
      BY <1>1, <2>1, <2>4 DEF Rest, WellInv, Well
    <3>2. \A i : Fires(Front(frames), i) => Fires(frames, i)
      BY <1>1, <2>1, <3>1, PopFacts
    <3>3. QED
      BY <3>1, <3>2 DEF Starts
  <2>5. QED
    BY <2>3, <2>4
<1>11. CASE When \/ Pipe
  BY <1>2, <1>11 DEF When, Pipe
<1>12. QED
  BY <1>4, <1>5, <1>6, <1>7, <1>8, <1>9, <1>10, <1>11 DEF DefNext

\* What no step may do, from the invariant before and after it.
LEMMA StepProperties ==
  ASSUME DeferredConstants, DefInv, [DefNext]_defVars, DefInv'
  PROVE  SettledOnce /\ LateProgress
<1>1. SettledOnce
  BY StateSteps DEF SettledOnce
<1>2. ASSUME NEW d \in Deferreds,
             lists[<<d, "progress">>].locked, ~lists[<<d, "progress">>].firing,
             lists'[<<d, "progress">>].firing
      PROVE  OneDue(<<d, "progress">>)
  <2> DEFINE l == <<d, "progress">>
  <2>1. l \in Lists
    BY Promised, ListFacts
  <2>2. Well(lists, frames) /\ Well(lists', frames')
    BY DEF DefInv, WellInv
  <2>3. ListOK(l, lists[l], Loops(frames, l), InCall(frames, l))
        /\ ListOK(l, lists'[l], Loops(frames', l), InCall(frames', l))
    BY <2>1, <2>2, WellTyped
  <2>4. Loops(frames, l) # 1 /\ Loops(frames', l) = 1
    BY <1>2, <2>3 DEF ListOK
  <2>5. Starts(l)
    BY <2>4 DEF Loops, Starts
  <2>6. DefNext
    <3>1. ~(frames' = frames)
      BY <2>5 DEF Starts
    <3>2. QED
      BY <3>1 DEF defVars
  <2> HIDE DEF l
  <2>7. OneDue(l)
    BY <1>2, <2>5, <2>6, LateStarts DEF l
  <2>8. QED
    BY <2>7 DEF l
<1>3. LateProgress
  BY <1>2 DEF LateProgress, OneDue
<1>4. QED
  BY <1>1, <1>3

-----------------------------------------------------------------------------
(* The theorems.                                                            *)

\* The invariant, with that the deferreds of the program stay made.
DefSafe == DefInv /\ PartsMade

\* All of it holds at first.
LEMMA DefSafeInit ==
  ASSUME DeferredConstants, DefInit
  PROVE  DefSafe
<1>1. DefInv
  BY DefInvInit
<1>2. PartsMade
  BY DEF DefInit, PartsMade, Deferreds
<1>3. QED
  BY <1>1, <1>2 DEF DefSafe

\* A step keeps it, settles no settled deferred and tells no late progress.
LEMMA DefSafeStep ==
  ASSUME DeferredConstants, DefSafe, [DefNext]_defVars
  PROVE  DefSafe' /\ SettledOnce /\ LateProgress
<1>1. DefInv /\ PartsMade
  BY DEF DefSafe
<1>2. DefInv'
  BY <1>1, DefInvStep
<1>3. SettledOnce /\ LateProgress
  BY <1>1, <1>2, StepProperties
<1>4. ASSUME NEW d \in Part PROVE state'[d] # "unmade"
  <2>1. d \in Deferreds /\ state[d] # "unmade"
    BY <1>1 DEF Deferreds, PartsMade
  <2>2. CASE state'[d] = state[d]
    BY <2>1, <2>2
  <2>3. CASE state'[d] # state[d]
    BY <1>1, <2>1, <2>3, StateSteps
  <2>4. QED
    BY <2>2, <2>3
<1>5. PartsMade'
  BY <1>4 DEF PartsMade
<1>6. QED
  BY <1>2, <1>3, <1>5 DEF DefSafe

\* It implies everything the properties say of a state.
LEMMA DefSafeShows ==
  ASSUME DeferredConstants, DefSafe
  PROVE  DefTypeOK /\ CallsDue /\ FiringEnds /\ HandlersRun /\ WhenJoins /\ PipeFollows
BY ShowsTypes, ShowsCallsDue, ShowsHandlers, ShowsWhen, ShowsPipe DEF DefSafe

\* The strengthening of all that is shown below holds of every state.
THEOREM DeferredSafe ==
  ASSUME DeferredConstants
  PROVE  DefSpec => []DefSafe
<1>1. DefInit => DefSafe
  BY DefSafeInit
<1>2. DefSafe /\ [DefNext]_defVars => DefSafe'
  BY DefSafeStep
<1>3. QED
  BY <1>1, <1>2, PTL DEF DefSpec

\* The lists of a deferred, its state and what when counts keep their types.
THEOREM DeferredTyped ==
  ASSUME DeferredConstants
  PROVE  DefSpec => []DefTypeOK
<1>1. DefSafe => DefTypeOK
  BY DefSafeShows
<1>2. QED
  BY <1>1, DeferredSafe, PTL

\* The lists of a deferred skip no function while they fire and fire in one
\* loop at a time, however done, fail and notify are called in one another.
THEOREM DeferredLists ==
  ASSUME DeferredConstants
  PROVE  DefSpec => [](CallsDue /\ FiringEnds)
<1>1. DefSafe => CallsDue /\ FiringEnds
  BY DefSafeShows
<1>2. QED
  BY <1>1, DeferredSafe, PTL

\* A handler is called only in the outcome it was given for and, when nothing
\* is under way, each was called once, in order, with the values of that
\* outcome.
THEOREM DeferredHandlers ==
  ASSUME DeferredConstants
  PROVE  DefSpec => []HandlersRun
<1>1. DefSafe => HandlersRun
  BY DefSafeShows
<1>2. QED
  BY <1>1, DeferredSafe, PTL

\* The promise of when is resolved after all its parts, rejected after one of
\* them, and pending no longer than that, for any number of parts.
THEOREM DeferredWhen ==
  ASSUME DeferredConstants
  PROVE  DefSpec => []WhenJoins
<1>1. DefSafe => WhenJoins
  BY DefSafeShows
<1>2. QED
  BY <1>1, DeferredSafe, PTL

\* The promise of pipe follows its source, or the promise its filter returns.
THEOREM DeferredPipe ==
  ASSUME DeferredConstants
  PROVE  DefSpec => []PipeFollows
<1>1. DefSafe => PipeFollows
  BY DefSafeShows
<1>2. QED
  BY <1>1, DeferredSafe, PTL

\* No step settles a deferred that is settled, nor has one tell of progress
\* other than to the function just added.
THEOREM DeferredOnce ==
  ASSUME DeferredConstants
  PROVE  DefSpec => [][SettledOnce /\ LateProgress]_defVars
<1>1. DefSafe /\ [DefNext]_defVars => [SettledOnce /\ LateProgress]_defVars
  BY DefSafeStep
<1>2. QED
  BY <1>1, DeferredSafe, PTL DEF DefSpec
=============================================================================
