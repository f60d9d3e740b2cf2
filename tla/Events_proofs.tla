---------------------------- MODULE Events_proofs ----------------------------
(***************************************************************************)
(* Proofs about the events of a page, for any elements, selectors, handlers *)
(* and number of calls.                                                    *)
(*                                                                         *)
(* A handler that an event has still to call is in a list that the event   *)
(* took, or will be found at an element that it has not reached.  The      *)
(* invariant (EvSafe) says that neither was told of the event before, and  *)
(* that what is attached to the page is what the lists need; both have to  *)
(* hold while handlers bind and unbind others, and while events that they  *)
(* trigger run inside the events that called them.  That order of calls is *)
(* a stack, so much of the proof is about the first and the last of a      *)
(* sequence, and about sequences that parts were taken out of.             *)
(***************************************************************************)
EXTENDS Events, SequenceTheorems, FiniteSetTheorems, WellFoundedInduction, TLAPS

\* The types.
HandlerRec ==
    [fn : Handlers, type : Types, origType : Types \cup {"mouseenter"}, sel : {""} \cup DOMAIN Match,
     ns : STRING, one : BOOLEAN, id : Nat]
BoundRec ==
    [events : [Elem -> [Types -> Seq(HandlerRec)]], delegates : [Elem -> [Types -> Nat]],
     listening : SUBSET (Elem \X Types), attaches : [Bubbling -> Int], gone : SUBSET Elem]
GroupRec == [on : Elem, hs : Seq(HandlerRec)]
FramesOf(todos) ==
    [kind : {"trigger", "native", "method"}, type : Types \cup {"mouseenter"}, target : Elem,
     path : Seq(Elem \X Types), pos : Nat, queue : Seq(GroupRec), on : Elem,
     current : HandlerRec \cup {NoHandler}, ns : {""} \cup STRING, related : Elem \cup {"none"},
     stopped : BOOLEAN, prevented : BOOLEAN, only : BOOLEAN, begun : BOOLEAN, todo : todos,
     told : SUBSET (Nat \X Elem)]
Told == FramesOf({<<>>})
FrameRec == FramesOf(Seq(Told))
SeenRec ==
    [next : Nat, again : BOOLEAN, ones : SUBSET Nat, onesAgain : SUBSET HandlerRec,
     odd : SUBSET {"mapped off", "nested", "in a method"}]

\* The first d, and they only, are delegated.
Leads(hs, d) == d <= Len(hs) /\ \A i \in DOMAIN hs : hs[i].sel # "" <=> i <= d
\* The handlers of a type at an element.
ListOK(B, e, t) ==
    /\ Leads(B.events[e][t], B.delegates[e][t])
    /\ \A i \in DOMAIN B.events[e][t] : B.events[e][t][i].type = t
Users(B, t) == {e \in Elem : B.events[e][t] # <<>>}
\* What is attached to the page; exact as long as off names no mapped type.
AttachedOK(B, exact) ==
    /\ \A e \in Elem : \A t \in Types \ Bubbling :
          /\ B.events[e][t] # <<>> => <<e, t>> \in B.listening
          /\ exact /\ B.events[e][t] = <<>> => <<e, t>> \notin B.listening
    /\ \A e \in Elem : \A t \in Bubbling : <<e, t>> \notin B.listening
    /\ \A t \in Bubbling :
          /\ B.attaches[t] >= Cardinality(Users(B, t))
          /\ exact => B.attaches[t] = Cardinality(Users(B, t))
\* A handler is of the type that its own is mapped to, and its identity is its
\* own.
Proper(h, next) == h.id < next /\ h.type = MappedType(h.origType, h.sel)
IdsOK(B, next) ==
    /\ \A e \in Elem : \A t \in Types : \A i \in DOMAIN B.events[e][t] : Proper(B.events[e][t][i], next)
    /\ \A e1, e2 \in Elem : \A t1, t2 \in Types :
          \A i1 \in DOMAIN B.events[e1][t1] : \A i2 \in DOMAIN B.events[e2][t2] :
             B.events[e1][t1][i1].id = B.events[e2][t2][i2].id => e1 = e2 /\ t1 = t2 /\ i1 = i2
HandlersOK(B, exact) ==
    B \in BoundRec /\ (\A e \in Elem : \A t \in Types : ListOK(B, e, t)) /\ AttachedOK(B, exact)
BoundOK(B, s) == HandlersOK(B, "mapped off" \notin s.odd) /\ IdsOK(B, s.next)

\* What a queue has to call, and where: nothing twice for an element, and for
\* two of them only what is delegated.
Twice(h) == h.sel # "" /\ Nests(h.sel)
Calls(q) == UNION {{<<q[a].on, q[a].hs[i]>> : i \in DOMAIN q[a].hs} : a \in DOMAIN q}
QueueOK(q) ==
    /\ \A a \in DOMAIN q : q[a].hs # <<>>
    /\ \A a, b \in DOMAIN q : q[a].on = q[b].on => a = b
    /\ \A a, b \in DOMAIN q : \A i \in DOMAIN q[a].hs : \A j \in DOMAIN q[b].hs :
          q[a].hs[i].id = q[b].hs[j].id =>
             q[a].hs[i] = q[b].hs[j] /\ (a = b => i = j) /\ (a # b => Twice(q[a].hs[i]))
\* If it is still bound, it is bound at this place.
CallOK(h, at, B, next) ==
    /\ Proper(h, next) /\ h.type = at[2]
    /\ \A e \in Elem : \A t \in Types : \A k \in Bound(B, e, t) : k.id = h.id => k = h /\ <<e, t>> = at
\* An event under way, whatever it has told: its path passes no place twice,
\* and what it has still to call it took from the place it has come to.
Straight(path) == \A p, q \in DOMAIN path : path[p] = path[q] => p = q
KindOK(f) ==
    /\ f.kind = "method" => f.current = NoHandler /\ f.queue = <<>> /\ f.path = <<>>
    /\ f.kind = "native" => /\ f.type \in Types /\ \A p \in DOMAIN f.path : f.path[p][2] = f.type
                            /\ ~f.begun => f.queue = <<>> /\ f.pos = 0
    /\ f.kind # "method" => f.todo = <<>>
FrameOK(f, B, next) ==
    /\ Straight(f.path) /\ f.pos <= Len(f.path) /\ (f.queue # <<>> => f.pos > 0)
    /\ KindOK(f) /\ QueueOK(f.queue)
    /\ \A x \in f.told : x[1] < next
    /\ \A c \in Calls(f.queue) : CallOK(c[2], f.path[f.pos], B, next)
\* The events that a method is to tell.
TodoOK(n, next) ==
    /\ n.kind = "native" /\ n.type \in Types /\ ~n.begun /\ n.queue = <<>> /\ n.pos = 0
    /\ Straight(n.path) /\ \A p \in DOMAIN n.path : n.path[p][2] = n.type
    /\ \A x \in n.told : x[1] < next
StackOK(st, B, next) ==
    /\ st \in Seq(FrameRec)
    /\ \A i \in DOMAIN st : /\ FrameOK(st[i], B, next)
                            /\ \A j \in DOMAIN st[i].todo : TodoOK(st[i].todo[j], next)

\* Nothing that an event has still to call, or may find on its way, has it told.
Fresh(f, B) ==
    /\ \A c \in Calls(f.queue) : <<c[2].id, c[1]>> \notin f.told
    /\ \A p \in DOMAIN f.path : p > f.pos =>
          \A h \in Bound(B, f.path[p][1], f.path[p][2]) :
             (\A x \in f.told : x[1] # h.id) /\ \A c \in Calls(f.queue) : c[2].id # h.id
    /\ f.kind = "native" /\ ~f.begun => f.told = {}
    /\ \A j \in DOMAIN f.todo : f.todo[j].told = {}
\* or else it is told silently: triggered names it.
Hushed(f, tr) ==
    \/ f.kind = "native" /\ f.queue = <<>> /\ f.type = tr
    \/ f.kind = "method" /\ \A j \in DOMAIN f.todo : f.todo[j].told = {} \/ f.todo[j].type = tr
Acting(f) == f.kind = "trigger" /\ ~f.only /\ HasMethod(f.type)
\* triggered is of the method under way, the last and after every trigger that
\* will call one.
ToldOK(st, B, tr) ==
    /\ \A i \in DOMAIN st : Fresh(st[i], B) \/ (tr # "none" /\ Hushed(st[i], tr))
    /\ tr # "none" =>
          \E m \in DOMAIN st :
             /\ st[m].kind = "method" /\ \A k \in 1..(m - 1) : Fresh(st[k], B)
             /\ \A k \in DOMAIN st : k > m => st[k].kind # "method" /\ ~Acting(st[k])

\* Handlers for one time that have been called are unbound; only the last
\* event has handlers to call.
OnesOK(st, B, s) ==
    /\ \A id \in s.ones : id < s.next
    /\ \A e \in Elem : \A t \in Types : \A h \in Bound(B, e, t) : h.id \in s.ones => h.type # h.origType
    /\ \A i \in DOMAIN st : i < Len(st) => st[i].queue = <<>>
    /\ \A i \in DOMAIN st : \A c \in Calls(st[i].queue) :
          c[2].id \in s.ones => c[2].type # c[2].origType \/ Twice(c[2])
    /\ \A h \in s.onesAgain : h.type # h.origType \/ Twice(h)

EvSafe ==
    /\ EvTypeOK /\ seen \in SeenRec /\ BoundOK(bound, seen) /\ StackOK(stack, bound, seen.next)
    /\ "in a method" \notin seen.odd => ToldOK(stack, bound, triggered) /\ ~seen.again
    /\ "nested" \notin seen.odd => OnesOK(stack, bound, seen)

-----------------------------------------------------------------------------
(* What is picked from a sequence.                                          *)

\* How many of the numbers in K there are up to i.
Place(K, i) == Cardinality({k \in K : k <= i})

\* A set of numbers that is not empty has a least one.
LEMMA Least ==
  ASSUME NEW T \in SUBSET Nat, T # {}
  PROVE  \E x \in T : \A y \in T : x <= y
<1>1. PICK x \in T : \A y \in T : ~(<<y, x>> \in OpToRel(<, Nat))
  BY WFMin, NatLessThanWellFounded
<1>2. ASSUME NEW y \in T PROVE x <= y
  <2>1. <<y, x>> \notin OpToRel(<, Nat)
    BY <1>1
  <2>2. x \in Nat /\ y \in Nat
    OBVIOUS
  <2>3. ~(y < x)
    <3>1. SUFFICES ASSUME y < x PROVE FALSE
      OBVIOUS
    <3>2. <<y, x>> \in OpToRel(<, Nat)
      BY <2>2, <3>1 DEF OpToRel
    <3>3. QED
      BY <2>1, <3>2
  <2>4. QED
    BY <2>2, <2>3
<1>3. QED
  BY <1>2

\* The place goes up by one at each number of the set, and only there.
LEMMA PlaceNext ==
  ASSUME NEW n \in Nat, NEW K, \A x \in K : x \in 1..n, NEW i \in Nat
  PROVE  /\ Place(K, i) \in Nat /\ Place(K, 0) = 0
         /\ i + 1 \in K => Place(K, i + 1) = Place(K, i) + 1
         /\ i + 1 \notin K => Place(K, i + 1) = Place(K, i)
         /\ \A j \in Nat : i <= j => Place(K, i) <= Place(K, j)
<1> DEFINE P(j) == {k \in K : k <= j}
<1>1. \A j : IsFiniteSet(P(j))
  <2>1. IsFiniteSet(1..n)
    BY FS_Interval
  <2>2. \A j : P(j) \subseteq 1..n
    OBVIOUS
  <2>3. QED
    BY <2>1, <2>2, FS_Subset
<1>2. \A j : Cardinality(P(j)) \in Nat /\ Place(K, j) = Cardinality(P(j))
  BY <1>1, FS_CardinalityType DEF Place
<1>3. \A k \in K : k \in Nat /\ k > 0
  OBVIOUS
<1>4. Place(K, 0) = 0
  <2>1. P(0) = {}
    BY <1>3
  <2>2. QED
    BY <1>2, <2>1, FS_EmptySet
<1>5. ASSUME i + 1 \in K PROVE Place(K, i + 1) = Place(K, i) + 1
  <2>1. P(i + 1) = P(i) \cup {i + 1} /\ i + 1 \notin P(i)
    BY <1>3, <1>5
  <2>2. IsFiniteSet(P(i))
    BY <1>1
  <2> HIDE DEF P
  <2>3. Cardinality(P(i) \cup {i + 1}) = Cardinality(P(i)) + 1
    BY <2>1, <2>2, FS_AddElement
  <2>4. QED
    BY <1>2, <2>1, <2>3
<1>6. ASSUME i + 1 \notin K PROVE Place(K, i + 1) = Place(K, i)
  <2>1. P(i + 1) = P(i)
    BY <1>3, <1>6
  <2>2. QED
    BY <1>2, <2>1
<1>7. ASSUME NEW j \in Nat, i <= j PROVE Place(K, i) <= Place(K, j)
  <2>1. P(i) \subseteq P(j)
    BY <1>3, <1>7
  <2> HIDE DEF P
  <2>2. Cardinality(P(i)) <= Cardinality(P(j))
    BY <1>1, <2>1, FS_Subset
  <2>3. QED
    BY <1>2, <2>2
<1>8. QED
  BY <1>2, <1>4, <1>5, <1>6, <1>7

\* Every place up to the last is that of one number of the set.
LEMMA PlaceTaken ==
  ASSUME NEW n \in Nat, NEW K, \A x \in K : x \in 1..n, NEW j \in Nat, j > 0, j <= Place(K, n)
  PROVE  \E i \in K : Place(K, i) = j
<1> DEFINE T == {m \in Nat : j <= Place(K, m)}
<1>1. n \in T
  OBVIOUS
<1>2. PICK x \in T : \A m \in T : x <= m
  <2>1. T \in SUBSET Nat /\ T # {}
    BY <1>1
  <2>2. QED
    BY <2>1, Least
<1>3. x \in Nat /\ j <= Place(K, x)
  OBVIOUS
<1>4. x # 0
  BY <1>3, PlaceNext
<1>5. PICK m \in Nat : x = m + 1
  <2>1. x - 1 \in Nat /\ x = (x - 1) + 1
    BY <1>3, <1>4
  <2>2. QED
    BY <2>1
<1>6. ~(j <= Place(K, m))
  BY <1>2, <1>5
<1>7. /\ Place(K, m) \in Nat
      /\ m + 1 \in K => Place(K, m + 1) = Place(K, m) + 1
      /\ m + 1 \notin K => Place(K, m + 1) = Place(K, m)
  BY PlaceNext
<1>8. x \in K /\ Place(K, x) = j
  BY <1>3, <1>5, <1>6, <1>7
<1>9. QED
  BY <1>8

\* Numbers of the set have different places, in their order.
LEMMA PlaceOne ==
  ASSUME NEW n \in Nat, NEW K, \A x \in K : x \in 1..n, NEW i \in K, NEW k \in Nat, k < i
  PROVE  Place(K, k) < Place(K, i)
<1>1. i \in Nat /\ i > 0
  OBVIOUS
<1>2. PICK m \in Nat : i = m + 1
  <2>1. i - 1 \in Nat /\ i = (i - 1) + 1
    BY <1>1
  <2>2. QED
    BY <2>1
<1>3. Place(K, m + 1) = Place(K, m) + 1 /\ Place(K, m) \in Nat
  BY <1>2, PlaceNext
<1>4. k <= m
  BY <1>1, <1>2
<1>5. Place(K, k) <= Place(K, m) /\ Place(K, k) \in Nat
  BY <1>4, PlaceNext
<1>6. QED
  BY <1>2, <1>3, <1>5

\* The whole set is counted by its last place.
LEMMA PlaceAll ==
  ASSUME NEW n \in Nat, NEW K, \A x \in K : x \in 1..n
  PROVE  Place(K, n) = Cardinality(K) /\ Cardinality(K) \in Nat /\ IsFiniteSet(K)
<1>1. {k \in K : k <= n} = K
  OBVIOUS
<1>2. Place(K, n) = Cardinality(K)
  BY <1>1 DEF Place
<1>3. IsFiniteSet(1..n)
  BY FS_Interval
<1>4. QED
  BY <1>2, <1>3, FS_Subset, FS_CardinalityType

\* What is picked are the elements at those numbers, in their order.
LEMMA PickedFacts ==
  ASSUME NEW S, NEW s \in Seq(S), NEW K \in SUBSET (DOMAIN s)
  PROVE  LET t == Picked(s, K)
         IN /\ t \in Seq(S) /\ Len(t) = Place(K, Len(s)) /\ Len(t) = Cardinality(K)
            /\ \A i \in K : /\ i \in DOMAIN s /\ Place(K, i) \in DOMAIN t
                            /\ t[Place(K, i)] = s[i]
            /\ \E g \in [DOMAIN t -> K] :
                  \A j \in DOMAIN t : Place(K, g[j]) = j /\ t[j] = s[g[j]]
<1> DEFINE t == Picked(s, K)
           n == Place(K, Len(s))
           at(j) == CHOOSE i \in K : Place(K, i) = j
<1>1. DOMAIN s = 1..Len(s) /\ Len(s) \in Nat /\ \A x \in K : x \in 1..Len(s)
  OBVIOUS
<1>2. n \in Nat /\ n = Cardinality(K)
  BY <1>1, PlaceAll
<1>3. t = [j \in 1..n |-> s[at(j)]]
  BY <1>2 DEF Picked, Place
<1>5. ASSUME NEW j \in 1..n PROVE at(j) \in K /\ Place(K, at(j)) = j
  BY <1>1, <1>2, PlaceTaken
<1> HIDE DEF t, n, at
<1>6. t \in Seq(S) /\ Len(t) = n /\ DOMAIN t = 1..n
  <2>1. \A j \in 1..n : s[at(j)] \in S
    BY <1>1, <1>5
  <2>2. QED
    BY <1>2, <1>3, <2>1
<1>7. ASSUME NEW i \in K
      PROVE  i \in DOMAIN s /\ Place(K, i) \in 1..n /\ t[Place(K, i)] = s[i]
  <2>1. i \in Nat /\ i > 0 /\ i <= Len(s)
    BY <1>1
  <2>3. Place(K, 0) < Place(K, i) /\ Place(K, 0) = 0
    BY <1>1, <2>1, PlaceOne, PlaceNext
  <2>4. Place(K, i) <= n /\ Place(K, i) \in Nat
    BY <1>1, <2>1, PlaceNext DEF n
  <2>5. Place(K, i) \in 1..n
    BY <1>2, <2>3, <2>4
  <2>6. at(Place(K, i)) \in K /\ Place(K, at(Place(K, i))) = Place(K, i)
    BY <1>5, <2>5
  <2>7. at(Place(K, i)) = i
    <3> DEFINE k == at(Place(K, i))
    <3>1. k \in Nat /\ k \in K /\ Place(K, k) = Place(K, i)
      BY <1>1, <2>6
    <3> HIDE DEF k
    <3>2. k < i => Place(K, k) < Place(K, i)
      BY <1>1, <3>1, PlaceOne
    <3>3. i < k => Place(K, i) < Place(K, k)
      BY <1>1, <2>1, <3>1, PlaceOne
    <3>4. k = i
      BY <2>1, <2>4, <3>1, <3>2, <3>3
    <3>5. QED
      BY <3>4 DEF k
  <2>8. t[Place(K, i)] = s[at(Place(K, i))]
    BY <1>3, <2>5
  <2>9. QED
    BY <1>1, <2>5, <2>7, <2>8
<1>8. \E g \in [DOMAIN t -> K] : \A j \in DOMAIN t : Place(K, g[j]) = j /\ t[j] = s[g[j]]
  <2> DEFINE g == [j \in 1..n |-> at(j)]
  <2>1. g \in [DOMAIN t -> K]
    BY <1>5, <1>6
  <2>2. \A j \in DOMAIN t : Place(K, g[j]) = j /\ t[j] = s[g[j]]
    BY <1>3, <1>5, <1>6
  <2>3. QED
    BY <2>1, <2>2
<1>9. QED
  BY <1>2, <1>6, <1>7, <1>8 DEF t, n

\* A part of a sequence.
LEMMA SubFacts ==
  ASSUME NEW S, NEW s \in Seq(S), NEW m \in Nat, m > 0, NEW n \in Nat, n <= Len(s), m <= n + 1
  PROVE  /\ SubSeq(s, m, n) \in Seq(S) /\ Len(SubSeq(s, m, n)) = n - m + 1
         /\ DOMAIN SubSeq(s, m, n) = 1..(n - m + 1)
         /\ \A i \in 1..(n - m + 1) : SubSeq(s, m, n)[i] = s[m + i - 1]
<1>1. \A i \in m..n : s[i] \in S
  <2>1. SUFFICES ASSUME NEW i \in m..n PROVE s[i] \in S
    OBVIOUS
  <2>2. i \in 1..Len(s)
    BY <2>1
  <2>3. QED
    BY <2>2, ElementOfSeq
<1>2. m \in Int /\ n \in Int
  OBVIOUS
<1>3. /\ SubSeq(s, m, n) \in Seq(S)
      /\ Len(SubSeq(s, m, n)) = IF m <= n THEN n - m + 1 ELSE 0
      /\ \A i \in 1..n - m + 1 : SubSeq(s, m, n)[i] = s[m + i - 1]
  BY <1>1, <1>2, SubSeqProperties
<1>4. Len(SubSeq(s, m, n)) = n - m + 1
  BY <1>3
<1>5. DOMAIN SubSeq(s, m, n) = 1..(n - m + 1)
  BY <1>3, <1>4, LenProperties
<1>6. QED
  BY <1>3, <1>4, <1>5

-----------------------------------------------------------------------------
(* The tree of the page.                                                    *)

\* What an element is in comes after it, once, whichever of the two one begins
\* with.
LEMMA AncestorsFacts ==
  ASSUME NEW e \in Elem
  PROVE  LET s == Ancestors[e]
         IN /\ s \in Seq(Elem) /\ Len(s) \in Nat /\ Len(s) > 0 /\ s[1] = e
            /\ \A i, j \in DOMAIN s : s[i] = s[j] => i = j
            /\ \A i, j \in DOMAIN s : i <= j => Within(s[i], s[j])
<1> DEFINE s == Ancestors[e]
<1>1. /\ s \in Seq(Elem) /\ Len(s) \in Nat /\ Len(s) > 0 /\ s[1] = e
      /\ \A i \in DOMAIN s : Ancestors[s[i]] = SubSeq(s, i, Len(s))
  <2>1. s \in Seq(Elem) /\ s # <<>> /\ s[1] = e
    BY EventsAssumption
  <2>2. \A i \in DOMAIN s : Ancestors[s[i]] = SubSeq(s, i, Len(s))
    BY EventsAssumption
  <2> HIDE DEF s
  <2>3. Len(s) \in Nat /\ Len(s) > 0
    BY <2>1
  <2>4. QED
    BY <2>1, <2>2, <2>3
<1> HIDE DEF s
<1>2. ASSUME NEW i \in DOMAIN s, NEW j \in DOMAIN s, i <= j PROVE Within(s[i], s[j])
  <2>1. i \in 1..Len(s) /\ j \in 1..Len(s)
    BY <1>1
  <2>2. Ancestors[s[i]] = SubSeq(s, i, Len(s))
    BY <1>1
  <2>3. /\ Len(SubSeq(s, i, Len(s))) = Len(s) - i + 1
        /\ \A k \in 1..(Len(s) - i + 1) : SubSeq(s, i, Len(s))[k] = s[i + k - 1]
    <3>1. i \in Nat /\ i > 0 /\ Len(s) \in Nat /\ Len(s) <= Len(s) /\ i <= Len(s) + 1
      BY <1>1, <2>1
    <3>2. QED
      BY <1>1, <3>1, SubFacts
  <2>4. j - i + 1 \in 1..(Len(s) - i + 1) /\ i + (j - i + 1) - 1 = j
    <3>1. i \in Nat /\ j \in Nat /\ Len(s) \in Nat /\ j <= Len(s) /\ i <= j
      BY <1>1, <1>2, <2>1
    <3> HIDE DEF s
    <3>2. QED
      BY <3>1
  <2>5. SubSeq(s, i, Len(s))[j - i + 1] = s[j]
    BY <2>3, <2>4
  <2>6. j - i + 1 \in DOMAIN SubSeq(s, i, Len(s))
    BY <1>1, <2>1, <2>3, <2>4
  <2>7. QED
    BY <2>2, <2>5, <2>6 DEF Within, ToSet
<1>3. ASSUME NEW i \in DOMAIN s, NEW j \in DOMAIN s, s[i] = s[j] PROVE i = j
  <2>1. i \in 1..Len(s) /\ j \in 1..Len(s)
    BY <1>1
  <2>2. SubSeq(s, i, Len(s)) = SubSeq(s, j, Len(s))
    BY <1>1, <1>3
  <2>3. Len(SubSeq(s, i, Len(s))) = Len(s) - i + 1 /\ Len(SubSeq(s, j, Len(s))) = Len(s) - j + 1
    BY <1>1, <2>1
  <2>4. QED
    BY <1>1, <2>1, <2>2, <2>3
<1>4. QED
  BY <1>1, <1>2, <1>3 DEF s

\* The way up is a beginning of that.
LEMMA UpFacts ==
  ASSUME NEW e \in Elem, NEW gone
  PROVE  LET u == Up(e, gone)
         IN /\ u \in Seq(Elem) /\ Len(u) \in Nat /\ Len(u) > 0 /\ u[1] = e
            /\ \A i, j \in DOMAIN u : u[i] = u[j] => i = j
            /\ \A i, j \in DOMAIN u : Within(u[i], u[j]) \/ Within(u[j], u[i])
<1> DEFINE s == Ancestors[e]
           u == Up(e, gone)
           Ends(n) == (s[n] \in gone \/ n = Len(s)) /\ \A i \in 1..(n - 1) : s[i] \notin gone
           T == {n \in Nat : n > 0 /\ (s[n] \in gone \/ n = Len(s))}
           last == CHOOSE n \in DOMAIN s : Ends(n)
<1>1. /\ s \in Seq(Elem) /\ Len(s) \in Nat /\ Len(s) > 0 /\ s[1] = e
      /\ \A i, j \in DOMAIN s : s[i] = s[j] => i = j
      /\ \A i, j \in DOMAIN s : i <= j => Within(s[i], s[j])
  BY AncestorsFacts
<1> HIDE DEF s
<1>2. PICK n \in T : \A m \in T : n <= m
  <2>1. Len(s) \in T
    BY <1>1
  <2>2. T \in SUBSET Nat /\ T # {}
    BY <2>1
  <2> HIDE DEF T
  <2>3. QED
    BY <2>2, Least
<1>3. n \in 1..Len(s)
  <2>1. Len(s) \in T
    BY <1>1
  <2>2. n \in Nat /\ n > 0 /\ n <= Len(s)
    BY <1>2, <2>1
  <2>3. QED
    BY <1>1, <2>2
<1>4. Ends(n)
  <2>1. ASSUME NEW i \in 1..(n - 1) PROVE s[i] \notin gone
    <3>1. i \in Nat /\ i > 0 /\ i < n
      BY <1>3
    <3>2. i \notin T
      BY <1>2, <1>3, <3>1
    <3>3. QED
      BY <3>1, <3>2
  <2>2. QED
    BY <1>2, <2>1
<1>5. last \in DOMAIN s
  <2>1. n \in DOMAIN s
    BY <1>1, <1>3
  <2> HIDE DEF Ends, T
  <2>2. QED
    BY <1>4, <2>1
<1>6. u = SubSeq(s, 1, last)
  BY DEF Up, s
<1> HIDE DEF last, u
<1>7. /\ last \in 1..Len(s) /\ Len(u) = last /\ u \in Seq(Elem) /\ DOMAIN u = 1..last
      /\ \A i \in 1..last : u[i] = s[i] /\ i \in DOMAIN s
  <2>1. last \in 1..Len(s)
    BY <1>1, <1>5
  <2>2. \A i \in 1..last : i \in DOMAIN s
    BY <1>1, <2>1
  <2>3. Len(u) = last /\ \A i \in 1..last : u[i] = s[i]
    BY <1>1, <1>6, <2>1
  <2>4. u \in Seq(Elem)
    BY <1>1, <1>6, <2>1
  <2>5. QED
    BY <2>1, <2>2, <2>3, <2>4
<1>8. u[1] = e /\ Len(u) \in Nat /\ Len(u) > 0
  BY <1>1, <1>7
<1>9. ASSUME NEW i \in DOMAIN u, NEW j \in DOMAIN u
      PROVE  /\ u[i] = u[j] => i = j
             /\ Within(u[i], u[j]) \/ Within(u[j], u[i])
  <2>1. u[i] = s[i] /\ u[j] = s[j] /\ i \in DOMAIN s /\ j \in DOMAIN s
    BY <1>7
  <2>2. i \in Nat /\ j \in Nat
    BY <1>7
  <2>3. i <= j \/ j <= i
    BY <2>2
  <2>4. QED
    BY <1>1, <2>1, <2>3
<1>10. QED
  BY <1>7, <1>8, <1>9 DEF u

-----------------------------------------------------------------------------
(* What is bound.                                                           *)

\* What is left of the handlers of an element.
Shrinks(C, B) ==
    \A e \in Elem : \A t \in Types :
        \E g \in [DOMAIN C.events[e][t] -> DOMAIN B.events[e][t]] :
            \A i \in DOMAIN C.events[e][t] :
                /\ C.events[e][t][i] = B.events[e][t][g[i]]
                /\ \A j \in DOMAIN C.events[e][t] : g[i] = g[j] => i = j

\* How many delegated ones go.
Fewer(hs, K) == Cardinality({i \in DOMAIN hs : i \notin K /\ hs[i].sel # ""})

\* Those that stay are in their order, the delegated ones first.
LEMMA StayFacts ==
  ASSUME NEW hs \in Seq(HandlerRec), NEW d \in Nat, Leads(hs, d), NEW K \in SUBSET (DOMAIN hs)
  PROVE  LET kept == Picked(hs, K)
             few == d - Fewer(hs, K)
         IN /\ kept \in Seq(HandlerRec) /\ (kept = <<>> <=> K = {})
            /\ few \in Nat /\ Leads(kept, few)
            /\ \E g \in [DOMAIN kept -> K] :
                  \A i \in DOMAIN kept : /\ kept[i] = hs[g[i]]
                                         /\ \A j \in DOMAIN kept : g[i] = g[j] => i = j
<1> DEFINE kept == Picked(hs, K)
           gone == {i \in DOMAIN hs : i \notin K /\ hs[i].sel # ""}
           near == {k \in K : k <= d}
<1>1. /\ kept \in Seq(HandlerRec) /\ Len(kept) = Place(K, Len(hs)) /\ Len(kept) = Cardinality(K)
      /\ \E g \in [DOMAIN kept -> K] :
            \A j \in DOMAIN kept : Place(K, g[j]) = j /\ kept[j] = hs[g[j]]
  BY PickedFacts
<1>3. /\ Len(hs) \in Nat /\ DOMAIN hs = 1..Len(hs) /\ \A x \in K : x \in 1..Len(hs)
      /\ d <= Len(hs)
  <2>1. Len(hs) \in Nat /\ DOMAIN hs = 1..Len(hs)
    BY LenProperties
  <2>2. \A x \in K : x \in 1..Len(hs)
    BY <2>1
  <2>3. QED
    BY <2>1, <2>2 DEF Leads
<1>11. \A i \in DOMAIN hs : hs[i].sel # "" <=> i <= d
  BY DEF Leads
<1> HIDE DEF kept
<1>2. PICK g \in [DOMAIN kept -> K] :
         \A j \in DOMAIN kept : Place(K, g[j]) = j /\ kept[j] = hs[g[j]]
  BY <1>1
<1>4. IsFiniteSet(K) /\ Cardinality(K) \in Nat
  BY <1>3, PlaceAll
<1>5. kept = <<>> <=> K = {}
  <2>1. Cardinality(K) = 0 <=> K = {}
    BY <1>4, FS_EmptySet
  <2>2. kept = <<>> <=> Len(kept) = 0
    BY <1>1
  <2>3. QED
    BY <1>1, <2>1, <2>2
<1>6. d - Cardinality(gone) = Place(K, d)
  <2>1. gone \cup near = 1..d
    <3>1. ASSUME NEW i PROVE i \in gone \cup near <=> i \in 1..d
      <4>1. i \in K => i \in Nat /\ i > 0
        BY <1>3
      <4>2. i \in gone <=> i \in 1..Len(hs) /\ i \notin K /\ i <= d
        BY <1>3, <1>11
      <4>3. i \in 1..d => i \in 1..Len(hs)
        BY <1>3
      <4>4. i \in near <=> i \in K /\ i <= d
        OBVIOUS
      <4>5. i \in 1..d <=> i \in Nat /\ i > 0 /\ i <= d
        OBVIOUS
      <4>6. i \in 1..Len(hs) => i \in Nat /\ i > 0
        BY <1>3
      <4> HIDE DEF near, gone
      <4>7. QED
        BY <4>1, <4>2, <4>3, <4>4, <4>5, <4>6
    <3>2. QED
      BY <3>1
  <2>2. gone \cap near = {}
    OBVIOUS
  <2>3. IsFiniteSet(1..d) /\ Cardinality(1..d) = d
    BY FS_Interval
  <2> HIDE DEF gone, near
  <2>4. gone \subseteq 1..d /\ near \subseteq 1..d
    BY <2>1
  <2>5. IsFiniteSet(gone) /\ IsFiniteSet(near)
    BY <2>3, <2>4, FS_Subset
  <2>6. Cardinality(gone) \in Nat /\ Cardinality(near) \in Nat
    BY <2>5, FS_CardinalityType
  <2>7. Cardinality(gone \cup near) = Cardinality(gone) + Cardinality(near) - Cardinality(gone \cap near)
    BY <2>5, FS_Union
  <2>8. Cardinality(gone \cap near) = 0
    BY <2>2, FS_EmptySet
  <2>9. Cardinality(near) = Place(K, d)
    BY DEF near, Place
  <2>10. Cardinality(gone \cup near) = d
    BY <2>1, <2>3
  <2>11. QED
    BY <2>6, <2>7, <2>8, <2>9, <2>10
<1>7. Place(K, d) \in Nat /\ Place(K, d) <= Len(kept)
  BY <1>1, <1>3, PlaceNext
<1>8. ASSUME NEW j \in DOMAIN kept PROVE kept[j].sel # "" <=> j <= Place(K, d)
  <2> DEFINE m == g[j]
  <2>1. m \in K /\ m \in Nat /\ Place(K, m) = j /\ kept[j] = hs[m]
    BY <1>2, <1>3
  <2> HIDE DEF m
  <2>2. kept[j].sel # "" <=> m <= d
    BY <1>3, <1>11, <2>1
  <2>3. m <= d => Place(K, m) <= Place(K, d)
    BY <1>3, <2>1, PlaceNext
  <2>4. d < m => Place(K, d) < Place(K, m)
    BY <1>3, <2>1, PlaceOne
  <2>5. j \in Nat
    BY <1>1
  <2>6. CASE m <= d
    BY <2>1, <2>2, <2>3, <2>6
  <2>7. CASE d < m
    <3>1. Place(K, d) < j
      BY <2>1, <2>4, <2>7
    <3>2. ~(j <= Place(K, d)) /\ ~(m <= d)
      BY <1>7, <2>1, <2>5, <2>7, <3>1
    <3>3. QED
      BY <2>2, <3>2
  <2>8. m <= d \/ d < m
    <3>1. m \in Nat
      BY <2>1
    <3>2. QED
      BY <3>1
  <2>9. QED
    BY <2>6, <2>7, <2>8
<1>9. \A i \in DOMAIN kept : /\ kept[i] = hs[g[i]]
                             /\ \A j \in DOMAIN kept : g[i] = g[j] => i = j
  BY <1>2
<1> HIDE DEF gone
<1>10. QED
  BY <1>1, <1>2, <1>5, <1>6, <1>7, <1>8, <1>9 DEF kept, gone, Leads, Fewer

\* The elements that have handlers of a type can be counted.
LEMMA UsersFacts ==
  ASSUME NEW B, NEW t
  PROVE  /\ IsFiniteSet(Users(B, t)) /\ Cardinality(Users(B, t)) \in Nat
         /\ \A e \in Users(B, t) : Cardinality(Users(B, t) \ {e}) = Cardinality(Users(B, t)) - 1
         /\ \A e : e \notin Users(B, t) =>
               Cardinality(Users(B, t) \cup {e}) = Cardinality(Users(B, t)) + 1
<1>1. IsFiniteSet(Users(B, t))
  <2>1. Users(B, t) \subseteq Elem /\ IsFiniteSet(Elem)
    BY EventsAssumption DEF Users
  <2>2. QED
    BY <2>1, FS_Subset
<1>2. QED
  BY <1>1, FS_CardinalityType, FS_AddElement, FS_RemoveElement

\* The types that a type is bound as.
LEMMA MapFacts ==
  ASSUME NEW type \in Types \cup {"mouseenter"}
  PROVE  /\ BindType(type) \in Types /\ DelegateType(type) \in Types
         /\ \A sel : MappedType(type, sel) \in Types
         /\ type \in Bubbling => BindType(type) = type /\ DelegateType(type) = type
         /\ BindType(type) \in Bubbling => type \in Bubbling
         /\ BindType(BindType(type)) = BindType(type)
         /\ DelegateType(DelegateType(type)) = DelegateType(type)
         /\ DelegateType(type) # type => type \in {"focus", "blur", "mouseenter"}
BY DEF Types, BindType, DelegateType, MappedType, Bubbling

\* The fields of what is bound.
LEMMA BoundFields ==
  ASSUME NEW B \in BoundRec
  PROVE  /\ B.events \in [Elem -> [Types -> Seq(HandlerRec)]]
         /\ B.delegates \in [Elem -> [Types -> Nat]]
         /\ B.listening \in SUBSET (Elem \X Types) /\ B.attaches \in [Bubbling -> Int]
         /\ B.gone \in SUBSET Elem
         /\ \A e \in Elem : \A t \in Types :
               /\ B.events[e][t] \in Seq(HandlerRec) /\ B.delegates[e][t] \in Nat
               /\ DOMAIN B.events[e][t] \subseteq Nat
         /\ \A t \in Bubbling : B.attaches[t] \in Int
<1>1. /\ B.events \in [Elem -> [Types -> Seq(HandlerRec)]]
      /\ B.delegates \in [Elem -> [Types -> Nat]]
      /\ B.listening \in SUBSET (Elem \X Types) /\ B.attaches \in [Bubbling -> Int]
      /\ B.gone \in SUBSET Elem
  BY DEF BoundRec
<1>2. ASSUME NEW e \in Elem, NEW t \in Types
      PROVE  /\ B.events[e][t] \in Seq(HandlerRec) /\ B.delegates[e][t] \in Nat
             /\ DOMAIN B.events[e][t] \subseteq Nat
  <2>1. B.events[e] \in [Types -> Seq(HandlerRec)] /\ B.delegates[e] \in [Types -> Nat]
    BY <1>1
  <2>2. B.events[e][t] \in Seq(HandlerRec) /\ B.delegates[e][t] \in Nat
    BY <2>1
  <2>3. DOMAIN B.events[e][t] = 1..Len(B.events[e][t]) /\ Len(B.events[e][t]) \in Nat
    BY <2>2, LenProperties
  <2>4. QED
    BY <2>2, <2>3
<1>3. QED
  BY <1>1, <1>2

\* Which of the handlers stay.
Staying(hs, going) == {i \in DOMAIN hs : hs[i] \notin going}

\* C is B without the handlers of the type t of e that are in going.
Removed(C, B, e, t, special, going) ==
    LET hs == B.events[e][t]
        stay == Staying(hs, going)
        few == B.delegates[e][t] - Fewer(hs, stay)
        over == stay = {} /\ hs # <<>>
    IN /\ C \in BoundRec /\ C.gone = B.gone
       /\ \A x \in Elem : \A u \in Types :
             /\ C.events[x][u] = IF x = e /\ u = t THEN Picked(hs, stay) ELSE B.events[x][u]
             /\ C.delegates[x][u] = IF x = e /\ u = t THEN few ELSE B.delegates[x][u]
       /\ C.listening = IF over /\ special \notin Bubbling THEN B.listening \ {<<e, t>>}
                        ELSE B.listening
       /\ \A u \in Bubbling :
             C.attaches[u] = IF over /\ u = special THEN B.attaches[u] - 1 ELSE B.attaches[u]
\* That is what removing them makes.
LEMMA RemoveThoseFields ==
  ASSUME NEW B \in BoundRec, NEW e \in Elem, NEW t \in Types, NEW special, NEW going,
         ListOK(B, e, t)
  PROVE  Removed(RemoveThose(B, e, t, special, going), B, e, t, special, going)
<1> DEFINE hs == B.events[e][t]
           stay == Staying(hs, going)
           d == B.delegates[e][t]
           few == d - Fewer(hs, stay)
           over == stay = {} /\ hs # <<>>
           kept == Picked(hs, stay)
           M == [B EXCEPT !.events[e][t] = kept, !.delegates[e][t] = few]
           C == RemoveThose(B, e, t, special, going)
<1>1. kept \in Seq(HandlerRec) /\ few \in Nat
  <2>1. hs \in Seq(HandlerRec) /\ d \in Nat /\ Leads(hs, d)
    BY BoundFields DEF ListOK
  <2>2. stay \in SUBSET (DOMAIN hs)
    BY DEF Staying
  <2> HIDE DEF hs, stay, d
  <2>3. kept \in Seq(HandlerRec)
    BY <2>1, <2>2, StayFacts
  <2>4. few \in Nat
    BY <2>1, <2>2, StayFacts
  <2>5. QED
    BY <2>3, <2>4
<1>2. Cardinality({i \in DOMAIN hs : hs[i] \in going /\ hs[i].sel # ""}) = Fewer(hs, stay)
  <2>1. {i \in DOMAIN hs : hs[i] \in going /\ hs[i].sel # ""}
           = {i \in DOMAIN hs : i \notin stay /\ hs[i].sel # ""}
    BY DEF Staying
  <2>2. QED
    BY <2>1 DEF Fewer
<1>3. C = IF over THEN TearDown(M, e, t, special) ELSE M
  <2> DEFINE same == {i \in DOMAIN hs : hs[i] \in going /\ hs[i].sel # ""}
             N == [B EXCEPT !.events[e][t] = kept, !.delegates[e][t] = d - Cardinality(same)]
  <2>1. C = IF over THEN TearDown(N, e, t, special) ELSE N
    BY DEF RemoveThose, Staying
  <2>2. N = M
    BY <1>2
  <2> HIDE DEF N, M, C, over
  <2>3. QED
    BY <2>1, <2>2
<1>4. M = [B EXCEPT !.events[e][t] = kept, !.delegates[e][t] = few]
  OBVIOUS
<1> DEFINE Goal ==
      /\ C \in BoundRec /\ C.gone = B.gone
      /\ \A x \in Elem : \A u \in Types :
            /\ C.events[x][u] = IF x = e /\ u = t THEN kept ELSE B.events[x][u]
            /\ C.delegates[x][u] = IF x = e /\ u = t THEN few ELSE B.delegates[x][u]
      /\ C.listening = IF over /\ special \notin Bubbling THEN B.listening \ {<<e, t>>}
                       ELSE B.listening
      /\ \A u \in Bubbling :
            C.attaches[u] = IF over /\ u = special THEN B.attaches[u] - 1 ELSE B.attaches[u]
<1> SUFFICES Goal
  BY DEF Removed
<1> HIDE DEF hs, stay, d, few, over, kept, M, C
<1>5. /\ M \in BoundRec /\ M.gone = B.gone /\ M.listening = B.listening /\ M.attaches = B.attaches
      /\ M.events = [B.events EXCEPT ![e][t] = kept]
      /\ M.delegates = [B.delegates EXCEPT ![e][t] = few]
  BY <1>1, <1>4 DEF BoundRec
<1>6. \A x \in Elem : \A u \in Types :
         /\ M.events[x][u] = IF x = e /\ u = t THEN kept ELSE B.events[x][u]
         /\ M.delegates[x][u] = IF x = e /\ u = t THEN few ELSE B.delegates[x][u]
  BY <1>5, BoundFields
<1>7. CASE ~over
  BY <1>3, <1>5, <1>6, <1>7
<1>8. CASE over /\ special \in Bubbling
  <2>1. C = [M EXCEPT !.attaches[special] = @ - 1]
    BY <1>3, <1>8 DEF TearDown
  <2>2. B.attaches[special] - 1 \in Int
    BY <1>8, BoundFields
  <2>3. C = [M EXCEPT !.attaches = [M.attaches EXCEPT ![special] = B.attaches[special] - 1]]
    BY <1>5, <2>1
  <2>4. [M.attaches EXCEPT ![special] = B.attaches[special] - 1] \in [Bubbling -> Int]
    BY <1>5, <2>2, BoundFields
  <2>5. /\ C \in BoundRec /\ C.gone = B.gone /\ C.listening = B.listening
        /\ C.events = M.events /\ C.delegates = M.delegates
        /\ C.attaches = [B.attaches EXCEPT ![special] = B.attaches[special] - 1]
    BY <1>5, <2>3, <2>4 DEF BoundRec
  <2>6. \A u \in Bubbling :
           C.attaches[u] = IF u = special THEN B.attaches[u] - 1 ELSE B.attaches[u]
    BY <2>5, BoundFields
  <2>7. QED
    BY <1>6, <1>8, <2>5, <2>6
<1>9. CASE over /\ special \notin Bubbling
  <2>1. C = [M EXCEPT !.listening = @ \ {<<e, t>>}]
    BY <1>3, <1>9 DEF TearDown
  <2>2. /\ C \in BoundRec /\ C.gone = B.gone /\ C.listening = B.listening \ {<<e, t>>}
        /\ C.events = M.events /\ C.delegates = M.delegates /\ C.attaches = B.attaches
    BY <1>5, <2>1 DEF BoundRec
  <2>3. QED
    BY <1>6, <1>9, <2>2
<1>10. QED
  BY <1>7, <1>8, <1>9

\* What one element changes in the number of those that have handlers.
One(B, e, t) == IF B.events[e][t] = <<>> THEN 0 ELSE 1
LEMMA UsersOne ==
  ASSUME NEW B, NEW C, NEW e \in Elem, NEW t,
         \A x \in Elem : x # e => C.events[x][t] = B.events[x][t]
  PROVE  /\ Cardinality(Users(C, t)) = Cardinality(Users(B, t)) + One(C, e, t) - One(B, e, t)
         /\ Cardinality(Users(C, t)) \in Nat /\ Cardinality(Users(B, t)) \in Nat
<1> DEFINE U == Users(B, t)
           V == Users(C, t)
<1>1. Cardinality(U) \in Nat /\ Cardinality(V) \in Nat
  BY UsersFacts
<1>2. /\ e \in U => Cardinality(U \ {e}) = Cardinality(U) - 1
      /\ e \notin U => Cardinality(U \cup {e}) = Cardinality(U) + 1
  BY UsersFacts
<1>3. e \in U <=> B.events[e][t] # <<>>
  BY DEF Users
<1>4. e \in V <=> C.events[e][t] # <<>>
  BY DEF Users
<1>5. \A x : x # e => (x \in V <=> x \in U)
  BY DEF Users
<1> HIDE DEF U, V
<1>6. CASE (e \in U) <=> (e \in V)
  <2>1. U = V
    BY <1>5, <1>6
  <2>2. One(B, e, t) = One(C, e, t) /\ One(B, e, t) \in Nat
    BY <1>3, <1>4, <1>6 DEF One
  <2>3. QED
    BY <1>1, <2>1, <2>2 DEF U, V
<1>7. CASE e \in U /\ e \notin V
  <2>1. V = U \ {e}
    BY <1>5, <1>7
  <2>2. One(B, e, t) = 1 /\ One(C, e, t) = 0
    BY <1>3, <1>4, <1>7 DEF One
  <2>3. QED
    BY <1>1, <1>2, <1>7, <2>1, <2>2 DEF U, V
<1>8. CASE e \notin U /\ e \in V
  <2>1. V = U \cup {e}
    BY <1>5, <1>8
  <2>2. One(B, e, t) = 0 /\ One(C, e, t) = 1
    BY <1>3, <1>4, <1>8 DEF One
  <2>3. QED
    BY <1>1, <1>2, <1>8, <2>1, <2>2 DEF U, V
<1>9. QED
  BY <1>6, <1>7, <1>8

\* Handlers are removed of one type: the type they are sought by, special, is
\* that type, or one that no handler on the document is for.
LEMMA RemoveThoseOK ==
  ASSUME NEW B \in BoundRec, NEW exact \in BOOLEAN, NEW e \in Elem, NEW t \in Types,
         NEW special, NEW going, special \in Bubbling => special = t,
         \A x \in Elem : \A u \in Types : ListOK(B, x, u), AttachedOK(B, exact)
  PROVE  LET C == RemoveThose(B, e, t, special, going)
         IN /\ C \in BoundRec /\ C.gone = B.gone /\ Shrinks(C, B)
            /\ \A x \in Elem : \A u \in Types : ListOK(C, x, u)
            /\ AttachedOK(C, exact /\ (t \in Bubbling => special = t))
            /\ \A i \in DOMAIN C.events[e][t] : C.events[e][t][i] \notin going
<1> DEFINE hs == B.events[e][t]
           stay == Staying(hs, going)
           kept == Picked(hs, stay)
           d == B.delegates[e][t]
           few == d - Fewer(hs, stay)
           over == stay = {} /\ hs # <<>>
           C == RemoveThose(B, e, t, special, going)
           after == exact /\ (t \in Bubbling => special = t)
<1>0. ListOK(B, e, t)
  OBVIOUS
<1>1. /\ C \in BoundRec /\ C.gone = B.gone
      /\ \A x \in Elem : \A u \in Types :
            /\ C.events[x][u] = IF x = e /\ u = t THEN kept ELSE B.events[x][u]
            /\ C.delegates[x][u] = IF x = e /\ u = t THEN few ELSE B.delegates[x][u]
      /\ C.listening = IF over /\ special \notin Bubbling THEN B.listening \ {<<e, t>>}
                       ELSE B.listening
      /\ \A u \in Bubbling :
            C.attaches[u] = IF over /\ u = special THEN B.attaches[u] - 1 ELSE B.attaches[u]
  <2>1. Removed(RemoveThose(B, e, t, special, going), B, e, t, special, going)
    BY <1>0, RemoveThoseFields
  <2>2. QED
    BY <2>1 DEF Removed
<1>2. hs \in Seq(HandlerRec) /\ d \in Nat /\ Leads(hs, d) /\ \A i \in DOMAIN hs : hs[i].type = t
  BY BoundFields DEF ListOK
<1>3. stay \in SUBSET (DOMAIN hs) /\ \A i \in stay : hs[i] \notin going
  BY DEF Staying
<1> SUFFICES /\ C \in BoundRec /\ C.gone = B.gone /\ Shrinks(C, B)
             /\ \A x \in Elem : \A u \in Types : ListOK(C, x, u)
             /\ AttachedOK(C, after)
             /\ \A i \in DOMAIN C.events[e][t] : C.events[e][t][i] \notin going
  OBVIOUS
<1> HIDE DEF hs, stay, kept, d, few, C
<1>4. /\ kept \in Seq(HandlerRec) /\ (kept = <<>> <=> stay = {})
      /\ few \in Nat /\ Leads(kept, few)
      /\ \E g \in [DOMAIN kept -> stay] :
            \A i \in DOMAIN kept : /\ kept[i] = hs[g[i]]
                                   /\ \A j \in DOMAIN kept : g[i] = g[j] => i = j
  BY <1>2, <1>3, StayFacts DEF kept, few
<1>5. PICK g \in [DOMAIN kept -> stay] :
         \A i \in DOMAIN kept : /\ kept[i] = hs[g[i]]
                                /\ \A j \in DOMAIN kept : g[i] = g[j] => i = j
  BY <1>4
<1>6. \A i \in DOMAIN kept : kept[i] = hs[g[i]] /\ g[i] \in stay /\ g[i] \in DOMAIN hs
  BY <1>3, <1>5
<1>7. C.events[e][t] = kept
  BY <1>1
<1>8. \A i \in DOMAIN C.events[e][t] : C.events[e][t][i] \notin going
  BY <1>3, <1>6, <1>7
<1>9. ASSUME NEW x \in Elem, NEW u \in Types PROVE ListOK(C, x, u)
  <2>1. CASE x = e /\ u = t
    <3>1. C.delegates[x][u] = few /\ C.events[x][u] = kept
      BY <1>1, <2>1
    <3>2. \A i \in DOMAIN kept : kept[i].type = u
      BY <1>2, <1>6, <2>1
    <3>3. QED
      BY <1>4, <3>1, <3>2 DEF ListOK
  <2>2. CASE ~(x = e /\ u = t)
    <3>1. C.delegates[x][u] = B.delegates[x][u] /\ C.events[x][u] = B.events[x][u]
      BY <1>1, <2>2
    <3>2. ListOK(B, x, u)
      OBVIOUS
    <3>3. QED
      BY <3>1, <3>2 DEF ListOK
  <2>3. QED
    BY <2>1, <2>2
<1>10. Shrinks(C, B)
  <2>1. SUFFICES ASSUME NEW x \in Elem, NEW u \in Types
                 PROVE  \E f \in [DOMAIN C.events[x][u] -> DOMAIN B.events[x][u]] :
                           \A i \in DOMAIN C.events[x][u] :
                              /\ C.events[x][u][i] = B.events[x][u][f[i]]
                              /\ \A j \in DOMAIN C.events[x][u] : f[i] = f[j] => i = j
    BY DEF Shrinks
  <2>2. CASE x = e /\ u = t
    <3>1. C.events[x][u] = kept /\ B.events[x][u] = hs
      BY <1>1, <2>2 DEF hs
    <3>2. g \in [DOMAIN kept -> DOMAIN hs]
      BY <1>3, <1>5
    <3>3. QED
      BY <1>5, <3>1, <3>2
  <2>3. CASE ~(x = e /\ u = t)
    <3> DEFINE f == [i \in DOMAIN B.events[x][u] |-> i]
    <3>1. C.events[x][u] = B.events[x][u]
      BY <1>1, <2>3
    <3>2. f \in [DOMAIN B.events[x][u] -> DOMAIN B.events[x][u]]
      OBVIOUS
    <3>3. \A i \in DOMAIN B.events[x][u] : f[i] = i
      OBVIOUS
    <3> HIDE DEF f
    <3>4. QED
      BY <3>1, <3>2, <3>3
  <2>4. QED
    BY <2>2, <2>3
<1>11. hs = <<>> => kept = <<>>
  <2>1. SUFFICES ASSUME hs = <<>> PROVE stay = {}
    BY <1>4
  <2>2. DOMAIN hs = {}
    BY <2>1
  <2>3. QED
    BY <1>3, <2>2
<1>12. kept = <<>> /\ hs # <<>> <=> over
  BY <1>4
<1> HIDE DEF over
<1>13. ASSUME NEW x \in Elem, NEW u \in Types \ Bubbling
       PROVE  /\ C.events[x][u] # <<>> => <<x, u>> \in C.listening
              /\ after /\ C.events[x][u] = <<>> => <<x, u>> \notin C.listening
  <2>1. /\ B.events[x][u] # <<>> => <<x, u>> \in B.listening
        /\ exact /\ B.events[x][u] = <<>> => <<x, u>> \notin B.listening
    BY DEF AttachedOK
  <2>2. CASE x = e /\ u = t
    <3>1. C.events[x][u] = kept /\ B.events[x][u] = hs /\ special \notin Bubbling
      BY <1>1, <1>13, <2>2 DEF hs
    <3>2. C.listening = IF over THEN B.listening \ {<<x, u>>} ELSE B.listening
      BY <1>1, <2>2, <3>1
    <3>3. QED
      BY <1>11, <1>12, <2>1, <3>1, <3>2
  <2>3. CASE ~(x = e /\ u = t)
    <3>1. C.events[x][u] = B.events[x][u]
      BY <1>1, <2>3
    <3>2. <<x, u>> # <<e, t>>
      BY <2>3
    <3>3. <<x, u>> \in C.listening <=> <<x, u>> \in B.listening
      BY <1>1, <3>2
    <3>4. QED
      BY <2>1, <3>1, <3>3
  <2>4. QED
    BY <2>2, <2>3
<1>14. \A x \in Elem : \A u \in Bubbling : <<x, u>> \notin C.listening
  BY <1>1 DEF AttachedOK
<1>15. ASSUME NEW u \in Bubbling
       PROVE  /\ C.attaches[u] >= Cardinality(Users(C, u))
              /\ after => C.attaches[u] = Cardinality(Users(C, u))
  <2> DEFINE m == Cardinality(Users(B, u))
             n == Cardinality(Users(C, u))
  <2>0. u \in Types
    BY DEF Types, Bubbling
  <2>1. B.attaches[u] >= m /\ (exact => B.attaches[u] = m) /\ B.attaches[u] \in Int
    BY BoundFields DEF AttachedOK
  <2>2. n = m + One(C, e, u) - One(B, e, u) /\ n \in Nat /\ m \in Nat
    BY <1>1, <2>0, UsersOne
  <2> HIDE DEF m, n
  <2>3. CASE u = t /\ over
    <3>1. One(C, e, u) = 0 /\ One(B, e, u) = 1
      BY <1>1, <1>7, <1>12, <2>3 DEF One, hs
    <3>2. C.attaches[u] = IF u = special THEN B.attaches[u] - 1 ELSE B.attaches[u]
      BY <1>1, <2>3
    <3>3. after => exact /\ u = special
      BY <2>3, <1>15
    <3>4. n = m - 1
      BY <2>2, <3>1
    <3>5. QED
      BY <2>1, <2>2, <3>2, <3>3, <3>4 DEF m, n
  <2>4. CASE ~(u = t /\ over)
    <3>1. One(C, e, u) = One(B, e, u) /\ One(B, e, u) \in Nat
      BY <1>1, <1>7, <1>11, <1>12, <2>0, <2>4 DEF One, hs
    <3>2. C.attaches[u] = B.attaches[u]
      BY <1>1, <2>4
    <3>3. n = m
      BY <2>2, <3>1
    <3>4. QED
      BY <2>1, <3>2, <3>3 DEF m, n
  <2>5. QED
    BY <2>3, <2>4
<1>16. AttachedOK(C, after)
  BY <1>13, <1>14, <1>15 DEF AttachedOK
<1>17. QED
  BY <1>1, <1>8, <1>9, <1>10, <1>16

\* What is left of itself, and of what was left.
LEMMA ShrinksFacts ==
  ASSUME NEW B, NEW C, Shrinks(C, B), NEW next, IdsOK(B, next)
  PROVE  /\ IdsOK(C, next)
         /\ \A e \in Elem : \A t \in Types : Bound(C, e, t) \subseteq Bound(B, e, t)
<1>1. ASSUME NEW e \in Elem, NEW t \in Types
      PROVE  \E g \in [DOMAIN C.events[e][t] -> DOMAIN B.events[e][t]] :
                \A i \in DOMAIN C.events[e][t] :
                   /\ C.events[e][t][i] = B.events[e][t][g[i]]
                   /\ \A j \in DOMAIN C.events[e][t] : g[i] = g[j] => i = j
  BY DEF Shrinks
<1>2. ASSUME NEW e \in Elem, NEW t \in Types, NEW i \in DOMAIN C.events[e][t]
      PROVE  \E k \in DOMAIN B.events[e][t] : C.events[e][t][i] = B.events[e][t][k]
  <2>1. PICK g \in [DOMAIN C.events[e][t] -> DOMAIN B.events[e][t]] :
           \A j \in DOMAIN C.events[e][t] : C.events[e][t][j] = B.events[e][t][g[j]]
    BY <1>1
  <2>2. g[i] \in DOMAIN B.events[e][t]
    BY <1>2, <2>1
  <2>3. QED
    BY <1>2, <2>1, <2>2
<1>3. ASSUME NEW e \in Elem, NEW t \in Types, NEW i \in DOMAIN C.events[e][t]
      PROVE  Proper(C.events[e][t][i], next)
  <2>1. PICK k \in DOMAIN B.events[e][t] : C.events[e][t][i] = B.events[e][t][k]
    BY <1>2, <1>3
  <2>2. QED
    BY <2>1 DEF IdsOK
<1>4. ASSUME NEW e1 \in Elem, NEW e2 \in Elem, NEW t1 \in Types, NEW t2 \in Types,
             NEW i1 \in DOMAIN C.events[e1][t1], NEW i2 \in DOMAIN C.events[e2][t2],
             C.events[e1][t1][i1].id = C.events[e2][t2][i2].id
      PROVE  e1 = e2 /\ t1 = t2 /\ i1 = i2
  <2>1. e1 = e2 /\ t1 = t2
    <3>1. PICK k1 \in DOMAIN B.events[e1][t1] : C.events[e1][t1][i1] = B.events[e1][t1][k1]
      BY <1>2, <1>4
    <3>2. PICK k2 \in DOMAIN B.events[e2][t2] : C.events[e2][t2][i2] = B.events[e2][t2][k2]
      BY <1>2, <1>4
    <3>3. QED
      BY <1>4, <3>1, <3>2 DEF IdsOK
  <2>2. PICK g \in [DOMAIN C.events[e1][t1] -> DOMAIN B.events[e1][t1]] :
           \A i \in DOMAIN C.events[e1][t1] :
              /\ C.events[e1][t1][i] = B.events[e1][t1][g[i]]
              /\ \A j \in DOMAIN C.events[e1][t1] : g[i] = g[j] => i = j
    BY <1>1, <1>4
  <2>3. i1 \in DOMAIN C.events[e1][t1] /\ i2 \in DOMAIN C.events[e1][t1]
    BY <1>4, <2>1
  <2>4. /\ C.events[e1][t1][i1] = B.events[e1][t1][g[i1]] /\ g[i1] \in DOMAIN B.events[e1][t1]
        /\ C.events[e1][t1][i2] = B.events[e1][t1][g[i2]] /\ g[i2] \in DOMAIN B.events[e1][t1]
    BY <2>2, <2>3
  <2>5. B.events[e1][t1][g[i1]].id = B.events[e1][t1][g[i2]].id
    BY <1>4, <2>1, <2>4
  <2>6. g[i1] = g[i2]
    BY <1>4, <2>4, <2>5 DEF IdsOK
  <2>7. QED
    BY <2>1, <2>2, <2>3, <2>6
<1>5. IdsOK(C, next)
  BY <1>3, <1>4 DEF IdsOK
<1>6. ASSUME NEW e \in Elem, NEW t \in Types, NEW h \in Bound(C, e, t)
      PROVE  h \in Bound(B, e, t)
  <2>1. PICK i \in DOMAIN C.events[e][t] : h = C.events[e][t][i]
    BY <1>6 DEF Bound, ToSet
  <2>2. PICK k \in DOMAIN B.events[e][t] : C.events[e][t][i] = B.events[e][t][k]
    BY <1>2
  <2>3. QED
    BY <2>1, <2>2 DEF Bound, ToSet
<1>7. QED
  BY <1>5, <1>6

\* off for one type, and a handler for one time that unbinds itself.
LEMMA RemoveTypeOK ==
  ASSUME NEW B, NEW exact \in BOOLEAN, HandlersOK(B, exact), NEW e \in Elem,
         NEW type \in Types \cup {"mouseenter"}, NEW fn, NEW ns, NEW sel
  PROVE  LET t == IF sel = "any" THEN BindType(type) ELSE DelegateType(type)
             C == RemoveType(B, e, type, fn, ns, sel)
         IN /\ HandlersOK(C, exact /\ (t \in Bubbling => type = t))
            /\ C.gone = B.gone /\ Shrinks(C, B) /\ t \in Types
            /\ \A i \in DOMAIN C.events[e][t] :
                  ~(C.events[e][t][i].origType = type /\ Fits(C.events[e][t][i], fn, ns, sel))
<1> DEFINE t == IF sel = "any" THEN BindType(type) ELSE DelegateType(type)
           going == {h \in Bound(B, e, t) : h.origType = type /\ Fits(h, fn, ns, sel)}
           C == RemoveType(B, e, type, fn, ns, sel)
<1>1. t \in Types /\ (type \in Bubbling => type = t)
  BY MapFacts
<1>2. C = RemoveThose(B, e, t, type, going)
  BY DEF RemoveType, RemoveMapped
<1>3. \A h \in Bound(B, e, t) : h \in going <=> h.origType = type /\ Fits(h, fn, ns, sel)
  OBVIOUS
<1> HIDE DEF t, going, C
<1>4. B \in BoundRec /\ (\A x \in Elem : \A u \in Types : ListOK(B, x, u)) /\ AttachedOK(B, exact)
  BY DEF HandlersOK
<1>5. /\ C \in BoundRec /\ C.gone = B.gone /\ Shrinks(C, B)
      /\ \A x \in Elem : \A u \in Types : ListOK(C, x, u)
      /\ AttachedOK(C, exact /\ (t \in Bubbling => type = t))
      /\ \A i \in DOMAIN C.events[e][t] : C.events[e][t][i] \notin going
  BY <1>1, <1>2, <1>4, RemoveThoseOK
<1>6. ASSUME NEW i \in DOMAIN C.events[e][t]
      PROVE  ~(C.events[e][t][i].origType = type /\ Fits(C.events[e][t][i], fn, ns, sel))
  <2>1. PICK g \in [DOMAIN C.events[e][t] -> DOMAIN B.events[e][t]] :
           \A j \in DOMAIN C.events[e][t] : C.events[e][t][j] = B.events[e][t][g[j]]
    BY <1>1, <1>5 DEF Shrinks
  <2>2. g[i] \in DOMAIN B.events[e][t] /\ C.events[e][t][i] = B.events[e][t][g[i]]
    BY <1>6, <2>1
  <2>3. C.events[e][t][i] \in Bound(B, e, t)
    BY <2>2 DEF Bound, ToSet
  <2>4. QED
    BY <1>3, <1>5, <1>6, <2>3
<1>7. HandlersOK(C, exact /\ (t \in Bubbling => type = t))
  BY <1>5 DEF HandlersOK
<1>8. QED
  BY <1>1, <1>5, <1>6, <1>7 DEF t, C

\* An element that has no handlers any more.
LEMMA WithoutFields ==
  ASSUME NEW B \in BoundRec, NEW e \in Elem, NEW counted
  PROVE  LET C == Without(B, e, counted)
         IN /\ C \in BoundRec /\ C.gone = B.gone /\ C.listening = B.listening
            /\ \A x \in Elem : \A u \in Types :
                  /\ C.events[x][u] = IF x = e THEN <<>> ELSE B.events[x][u]
                  /\ C.delegates[x][u] = IF x = e THEN 0 ELSE B.delegates[x][u]
            /\ \A u \in Bubbling :
                  C.attaches[u] = IF counted[u] THEN B.attaches[u] - 1 ELSE B.attaches[u]
<1> DEFINE none == [t \in Types |-> <<>>]
           zero == [t \in Types |-> 0]
           att == [t \in Bubbling |-> IF counted[t] THEN B.attaches[t] - 1 ELSE B.attaches[t]]
           C == Without(B, e, counted)
<1>1. none \in [Types -> Seq(HandlerRec)] /\ zero \in [Types -> Nat]
  OBVIOUS
<1>2. att \in [Bubbling -> Int]
  BY BoundFields
<1>3. \A t \in Types : none[t] = <<>> /\ zero[t] = 0
  OBVIOUS
<1>4. \A u \in Bubbling : att[u] = IF counted[u] THEN B.attaches[u] - 1 ELSE B.attaches[u]
  OBVIOUS
<1>5. C = [B EXCEPT !.events[e] = none, !.delegates[e] = zero, !.attaches = att]
  BY DEF Without
<1> HIDE DEF none, zero, att, C
<1>6. /\ C \in BoundRec /\ C.gone = B.gone /\ C.listening = B.listening /\ C.attaches = att
      /\ C.events = [B.events EXCEPT ![e] = none] /\ C.delegates = [B.delegates EXCEPT ![e] = zero]
  BY <1>1, <1>2, <1>5 DEF BoundRec
<1>7. \A x \in Elem : \A u \in Types :
         /\ C.events[x][u] = IF x = e THEN <<>> ELSE B.events[x][u]
         /\ C.delegates[x][u] = IF x = e THEN 0 ELSE B.delegates[x][u]
  BY <1>3, <1>6, BoundFields
<1>8. QED
  BY <1>4, <1>6, <1>7 DEF C

\* An element that has lost its handlers: the others keep theirs.
Emptied(C, B, e) ==
    /\ C \in BoundRec
    /\ \A x \in Elem : \A u \in Types :
          /\ C.events[x][u] = IF x = e THEN <<>> ELSE B.events[x][u]
          /\ C.delegates[x][u] = IF x = e THEN 0 ELSE B.delegates[x][u]
LEMMA EmptiedOK ==
  ASSUME NEW B, NEW C, NEW e \in Elem, Emptied(C, B, e),
         \A x \in Elem : \A u \in Types : ListOK(B, x, u)
  PROVE  /\ Shrinks(C, B) /\ \A x \in Elem : \A u \in Types : ListOK(C, x, u)
         /\ \A u \in Types : /\ Cardinality(Users(C, u)) = Cardinality(Users(B, u)) - One(B, e, u)
                             /\ Cardinality(Users(C, u)) \in Nat /\ Cardinality(Users(B, u)) \in Nat
<1>1. \A x \in Elem : \A u \in Types :
         /\ C.events[x][u] = IF x = e THEN <<>> ELSE B.events[x][u]
         /\ C.delegates[x][u] = IF x = e THEN 0 ELSE B.delegates[x][u]
  BY DEF Emptied
<1>2. Shrinks(C, B)
  <2>1. SUFFICES ASSUME NEW x \in Elem, NEW u \in Types
                 PROVE  \E f \in [DOMAIN C.events[x][u] -> DOMAIN B.events[x][u]] :
                           \A i \in DOMAIN C.events[x][u] :
                              /\ C.events[x][u][i] = B.events[x][u][f[i]]
                              /\ \A j \in DOMAIN C.events[x][u] : f[i] = f[j] => i = j
    BY DEF Shrinks
  <2> DEFINE f == [i \in DOMAIN C.events[x][u] |-> i]
  <2>2. CASE x = e
    <3>1. DOMAIN C.events[x][u] = {}
      BY <1>1, <2>2
    <3>2. f \in [DOMAIN C.events[x][u] -> DOMAIN B.events[x][u]]
      BY <3>1
    <3>3. QED
      BY <3>1, <3>2
  <2>3. CASE x # e
    <3>1. C.events[x][u] = B.events[x][u]
      BY <1>1, <2>3
    <3>2. f \in [DOMAIN C.events[x][u] -> DOMAIN B.events[x][u]]
      BY <3>1
    <3>3. \A i \in DOMAIN C.events[x][u] : f[i] = i
      OBVIOUS
    <3> HIDE DEF f
    <3>4. QED
      BY <3>1, <3>2, <3>3
  <2>4. QED
    BY <2>2, <2>3
<1>3. ASSUME NEW x \in Elem, NEW u \in Types PROVE ListOK(C, x, u)
  <2>1. CASE x = e
    <3>1. C.events[x][u] = <<>> /\ C.delegates[x][u] = 0
      BY <1>1, <2>1
    <3>2. Leads(<<>>, 0)
      BY DEF Leads
    <3>3. \A i \in DOMAIN C.events[x][u] : C.events[x][u][i].type = u
      BY <3>1
    <3>4. QED
      BY <3>1, <3>2, <3>3 DEF ListOK
  <2>2. CASE x # e
    <3>1. C.events[x][u] = B.events[x][u] /\ C.delegates[x][u] = B.delegates[x][u]
      BY <1>1, <2>2
    <3>2. ListOK(B, x, u)
      OBVIOUS
    <3>3. QED
      BY <3>1, <3>2 DEF ListOK
  <2>3. QED
    BY <2>1, <2>2
<1>4. ASSUME NEW u \in Types
      PROVE  /\ Cardinality(Users(C, u)) = Cardinality(Users(B, u)) - One(B, e, u)
             /\ Cardinality(Users(C, u)) \in Nat /\ Cardinality(Users(B, u)) \in Nat
  <2>1. /\ Cardinality(Users(C, u)) = Cardinality(Users(B, u)) + One(C, e, u) - One(B, e, u)
        /\ Cardinality(Users(C, u)) \in Nat /\ Cardinality(Users(B, u)) \in Nat
    BY <1>1, UsersOne
  <2>2. One(C, e, u) = 0
    BY <1>1 DEF One
  <2>3. One(B, e, u) \in Nat
    BY DEF One
  <2>4. QED
    BY <2>1, <2>2, <2>3
<1>5. QED
  BY <1>2, <1>3, <1>4

\* off for every type.
LEMMA RemoveAllTypesOK ==
  ASSUME NEW B, NEW exact \in BOOLEAN, HandlersOK(B, exact), NEW e \in Elem
  PROVE  LET C == RemoveAllTypes(B, e)
         IN HandlersOK(C, exact) /\ C.gone = B.gone /\ Shrinks(C, B)
<1> DEFINE had == {t \in Types : B.events[e][t] # <<>>}
           counted == [t \in Bubbling |-> t \in had]
           M == Without(B, e, counted)
           C == RemoveAllTypes(B, e)
<1>1. /\ B \in BoundRec /\ (\A x \in Elem : \A u \in Types : ListOK(B, x, u))
      /\ AttachedOK(B, exact)
  BY DEF HandlersOK
<1>2. C = [M EXCEPT !.listening = @ \ ({e} \X had)]
  BY DEF RemoveAllTypes
<1>3. \A t \in Types : t \in had <=> B.events[e][t] # <<>>
  OBVIOUS
<1>4. \A t \in Bubbling : t \in Types /\ (counted[t] <=> t \in had)
  BY DEF Types, Bubbling
<1> SUFFICES HandlersOK(C, exact) /\ C.gone = B.gone /\ Shrinks(C, B)
  OBVIOUS
<1>5. /\ M \in BoundRec /\ M.gone = B.gone /\ M.listening = B.listening
      /\ \A x \in Elem : \A u \in Types :
            /\ M.events[x][u] = IF x = e THEN <<>> ELSE B.events[x][u]
            /\ M.delegates[x][u] = IF x = e THEN 0 ELSE B.delegates[x][u]
      /\ \A u \in Bubbling :
            M.attaches[u] = IF counted[u] THEN B.attaches[u] - 1 ELSE B.attaches[u]
  <2> HIDE DEF counted
  <2>1. QED
    BY <1>1, WithoutFields
<1> HIDE DEF had, counted, M, C
<1>6. /\ C \in BoundRec /\ C.gone = B.gone /\ C.listening = B.listening \ ({e} \X had)
      /\ C.events = M.events /\ C.delegates = M.delegates /\ C.attaches = M.attaches
  BY <1>2, <1>5 DEF BoundRec
<1>7. Emptied(C, B, e)
  BY <1>5, <1>6 DEF Emptied
<1>8. /\ Shrinks(C, B) /\ \A x \in Elem : \A u \in Types : ListOK(C, x, u)
      /\ \A u \in Types : /\ Cardinality(Users(C, u)) = Cardinality(Users(B, u)) - One(B, e, u)
                          /\ Cardinality(Users(C, u)) \in Nat /\ Cardinality(Users(B, u)) \in Nat
  BY <1>1, <1>7, EmptiedOK
<1>9. ASSUME NEW x \in Elem, NEW u \in Types \ Bubbling
      PROVE  /\ C.events[x][u] # <<>> => <<x, u>> \in C.listening
             /\ exact /\ C.events[x][u] = <<>> => <<x, u>> \notin C.listening
  <2>1. /\ B.events[x][u] # <<>> => <<x, u>> \in B.listening
        /\ exact /\ B.events[x][u] = <<>> => <<x, u>> \notin B.listening
    BY <1>1 DEF AttachedOK
  <2>2. <<x, u>> \in C.listening <=> <<x, u>> \in B.listening /\ ~(x = e /\ u \in had)
    BY <1>6
  <2>3. C.events[x][u] = IF x = e THEN <<>> ELSE B.events[x][u]
    BY <1>7 DEF Emptied
  <2>4. x = e => (u \in had <=> B.events[x][u] # <<>>)
    BY <1>3
  <2>5. QED
    BY <2>1, <2>2, <2>3, <2>4
<1>10. \A x \in Elem : \A u \in Bubbling : <<x, u>> \notin C.listening
  BY <1>1, <1>6 DEF AttachedOK
<1>11. ASSUME NEW u \in Bubbling
       PROVE  /\ C.attaches[u] >= Cardinality(Users(C, u))
              /\ exact => C.attaches[u] = Cardinality(Users(C, u))
  <2>1. /\ B.attaches[u] >= Cardinality(Users(B, u)) /\ B.attaches[u] \in Int
        /\ exact => B.attaches[u] = Cardinality(Users(B, u))
    BY <1>1, BoundFields DEF AttachedOK
  <2>2. C.attaches[u] = B.attaches[u] - One(B, e, u) /\ One(B, e, u) \in Nat
    BY <1>3, <1>4, <1>5, <1>6, <2>1 DEF One
  <2>3. /\ Cardinality(Users(C, u)) = Cardinality(Users(B, u)) - One(B, e, u)
        /\ Cardinality(Users(C, u)) \in Nat /\ Cardinality(Users(B, u)) \in Nat
    BY <1>4, <1>8
  <2>4. QED
    BY <2>1, <2>2, <2>3
<1>12. AttachedOK(C, exact)
  BY <1>9, <1>10, <1>11 DEF AttachedOK
<1>13. QED
  BY <1>6, <1>8, <1>12 DEF HandlersOK

\* remove of an element.
LEMMA CleanDataOK ==
  ASSUME NEW B, NEW exact \in BOOLEAN, HandlersOK(B, exact), NEW e \in Elem
  PROVE  LET C == CleanData(B, e)
         IN HandlersOK(C, FALSE) /\ Shrinks(C, B)
<1> DEFINE found == {t \in Bubbling : /\ B.events[e][t] # <<>>
                                      /\ \A h \in Bound(B, e, t) : h.origType = t}
           counted == [t \in Bubbling |-> t \in found]
           M == Without(B, e, counted)
           C == CleanData(B, e)
<1>1. /\ B \in BoundRec /\ (\A x \in Elem : \A u \in Types : ListOK(B, x, u))
      /\ AttachedOK(B, exact)
  BY DEF HandlersOK
<1>2. C = [M EXCEPT !.gone = @ \cup {e}, !.listening = {l \in @ : l[1] # e}]
  BY DEF CleanData
<1>3. \A t \in Bubbling : t \in Types /\ (counted[t] => B.events[e][t] # <<>>)
  BY DEF Types, Bubbling
<1> SUFFICES HandlersOK(C, FALSE) /\ Shrinks(C, B)
  OBVIOUS
<1>4. /\ M \in BoundRec /\ M.gone = B.gone /\ M.listening = B.listening
      /\ \A x \in Elem : \A u \in Types :
            /\ M.events[x][u] = IF x = e THEN <<>> ELSE B.events[x][u]
            /\ M.delegates[x][u] = IF x = e THEN 0 ELSE B.delegates[x][u]
      /\ \A u \in Bubbling :
            M.attaches[u] = IF counted[u] THEN B.attaches[u] - 1 ELSE B.attaches[u]
  <2> HIDE DEF counted
  <2>1. QED
    BY <1>1, WithoutFields
<1> HIDE DEF found, counted, M, C
<1>5. /\ C \in BoundRec /\ C.listening = {l \in B.listening : l[1] # e}
      /\ C.events = M.events /\ C.delegates = M.delegates /\ C.attaches = M.attaches
  BY <1>2, <1>4 DEF BoundRec
<1>6. Emptied(C, B, e)
  BY <1>4, <1>5 DEF Emptied
<1>7. /\ Shrinks(C, B) /\ \A x \in Elem : \A u \in Types : ListOK(C, x, u)
      /\ \A u \in Types : /\ Cardinality(Users(C, u)) = Cardinality(Users(B, u)) - One(B, e, u)
                          /\ Cardinality(Users(C, u)) \in Nat /\ Cardinality(Users(B, u)) \in Nat
  BY <1>1, <1>6, EmptiedOK
<1>8. ASSUME NEW x \in Elem, NEW u \in Types \ Bubbling
      PROVE  C.events[x][u] # <<>> => <<x, u>> \in C.listening
  <2>1. B.events[x][u] # <<>> => <<x, u>> \in B.listening
    BY <1>1 DEF AttachedOK
  <2>2. <<x, u>> \in C.listening <=> <<x, u>> \in B.listening /\ x # e
    BY <1>5
  <2>3. C.events[x][u] = IF x = e THEN <<>> ELSE B.events[x][u]
    BY <1>6 DEF Emptied
  <2>4. QED
    BY <2>1, <2>2, <2>3
<1>9. \A x \in Elem : \A u \in Bubbling : <<x, u>> \notin C.listening
  BY <1>1, <1>5 DEF AttachedOK
<1>10. ASSUME NEW u \in Bubbling
       PROVE  C.attaches[u] >= Cardinality(Users(C, u))
  <2>1. B.attaches[u] >= Cardinality(Users(B, u)) /\ B.attaches[u] \in Int
    BY <1>1, BoundFields DEF AttachedOK
  <2>2. C.attaches[u] >= B.attaches[u] - One(B, e, u) /\ One(B, e, u) \in Nat /\ C.attaches[u] \in Int
    BY <1>3, <1>4, <1>5, <2>1 DEF One
  <2>3. /\ Cardinality(Users(C, u)) = Cardinality(Users(B, u)) - One(B, e, u)
        /\ Cardinality(Users(C, u)) \in Nat /\ Cardinality(Users(B, u)) \in Nat
    BY <1>3, <1>7
  <2>4. QED
    BY <2>1, <2>2, <2>3
<1>11. AttachedOK(C, FALSE)
  BY <1>8, <1>9, <1>10 DEF AttachedOK
<1>12. QED
  BY <1>5, <1>7, <1>11 DEF HandlersOK

\* A handler is put in at one place of a list.
Inserted(t, s, p, h) ==
    /\ Len(t) = Len(s) + 1 /\ t[p] = h
    /\ \A i \in 1..(Len(s) + 1) : /\ i < p => t[i] = s[i]
                                  /\ i > p => t[i] = s[i - 1]
LEMMA InsertFacts ==
  ASSUME NEW S, NEW s \in Seq(S), NEW h \in S
  PROVE  /\ Append(s, h) \in Seq(S) /\ Inserted(Append(s, h), s, Len(s) + 1, h)
         /\ \A p \in 1..(Len(s) + 1) : InsertAt(s, p, h) \in Seq(S) /\ Inserted(InsertAt(s, p, h), s, p, h)
<1>1. Append(s, h) \in Seq(S) /\ Inserted(Append(s, h), s, Len(s) + 1, h)
  BY DEF Inserted
<1>2. ASSUME NEW p \in 1..(Len(s) + 1)
      PROVE  InsertAt(s, p, h) \in Seq(S) /\ Inserted(InsertAt(s, p, h), s, p, h)
  <2> DEFINE a == SubSeq(s, 1, p - 1)
             b == SubSeq(s, p, Len(s))
  <2>1. /\ p \in Nat /\ p > 0 /\ p <= Len(s) + 1 /\ Len(s) \in Nat /\ p - 1 \in Nat
    OBVIOUS
  <2>2. /\ a \in Seq(S) /\ Len(a) = p - 1 /\ DOMAIN a = 1..(p - 1)
        /\ \A i \in 1..(p - 1) : a[i] = s[i]
    <3>1. /\ a \in Seq(S) /\ Len(a) = (p - 1) - 1 + 1 /\ DOMAIN a = 1..((p - 1) - 1 + 1)
          /\ \A i \in 1..((p - 1) - 1 + 1) : a[i] = s[1 + i - 1]
      BY <2>1, SubFacts
    <3>2. (p - 1) - 1 + 1 = p - 1 /\ \A i \in 1..(p - 1) : 1 + i - 1 = i
      BY <2>1
    <3> HIDE DEF a
    <3>3. QED
      BY <3>1, <3>2
  <2>3. /\ b \in Seq(S) /\ Len(b) = Len(s) - p + 1 /\ DOMAIN b = 1..(Len(s) - p + 1)
        /\ \A i \in 1..(Len(s) - p + 1) : b[i] = s[p + i - 1]
    BY <2>1, SubFacts
  <2>4. InsertAt(s, p, h) = a \o <<h>> \o b
    BY DEF InsertAt
  <2> HIDE DEF a, b
  <2> DEFINE t == a \o <<h>> \o b
  <2>5. t \in Seq(S) /\ Len(t) = Len(s) + 1
    <3>1. <<h>> \in Seq(S) /\ Len(<<h>>) = 1
      OBVIOUS
    <3>2. a \o <<h>> \in Seq(S) /\ Len(a \o <<h>>) = p
      BY <2>1, <2>2, <3>1
    <3> DEFINE c == a \o <<h>>
    <3>3. c \in Seq(S) /\ Len(c) = p /\ t = c \o b
      BY <3>2
    <3> HIDE DEF c, t
    <3>4. t \in Seq(S) /\ Len(t) = p + Len(b)
      BY <2>3, <3>3
    <3>5. QED
      BY <2>1, <2>3, <3>4
  <2>6. t[p] = h
    BY <2>1, <2>2, <2>3
  <2>7. ASSUME NEW i \in 1..(Len(s) + 1)
        PROVE  (i < p => t[i] = s[i]) /\ (i > p => t[i] = s[i - 1])
    <3>1. CASE i < p
      <4>1. i \in 1..(p - 1)
        BY <2>1, <3>1
      <4>2. t[i] = a[i]
        BY <2>2, <2>3, <4>1
      <4>3. QED
        BY <2>1, <2>2, <3>1, <4>1, <4>2
    <3>2. CASE i > p
      <4>1. i - p \in 1..(Len(s) - p + 1) /\ p + (i - p) - 1 = i - 1
        BY <2>1, <3>2
      <4> DEFINE c == a \o <<h>>
                 k == i - p
      <4>a. <<h>> \in Seq(S) /\ Len(<<h>>) = 1
        OBVIOUS
      <4>b. c \in Seq(S) /\ Len(c) = p
        BY <2>1, <2>2, <4>a
      <4>c. t = c \o b
        OBVIOUS
      <4>d. b \in Seq(S) /\ k \in 1..Len(b) /\ i = p + k /\ ~(i <= p)
        BY <2>1, <2>3, <3>2, <4>1
      <4> HIDE DEF c, t, k
      <4>e. t[i] = b[i - p]
        BY ONLY <4>b, <4>c, <4>d, <2>1
      <4>2. t[i] = b[k]
        BY <4>e DEF k
      <4> USE DEF k
      <4>3. b[k] = s[p + k - 1]
        BY <2>3, <4>1
      <4>4. p + k - 1 = i - 1
        BY <4>1
      <4> HIDE DEF k
      <4>5. t[i] = s[i - 1]
        BY <4>2, <4>3, <4>4
      <4>6. QED
        BY <2>1, <3>2, <4>5
    <3>3. QED
      BY <2>1, <3>1, <3>2
  <2>8. Inserted(t, s, p, h)
    BY <2>5, <2>6, <2>7 DEF Inserted
  <2>9. QED
    BY <2>4, <2>5, <2>8
<1>3. QED
  BY <1>1, <1>2

\* C is B with h added to what e has.
Added(C, B, e, h) ==
    LET t == h.type
        hs == B.events[e][t]
        d == B.delegates[e][t]
    IN /\ C \in BoundRec /\ C.gone = B.gone
       /\ \A x \in Elem : \A u \in Types : ~(x = e /\ u = t) =>
             C.events[x][u] = B.events[x][u] /\ C.delegates[x][u] = B.delegates[x][u]
       /\ C.events[e][t] \in Seq(HandlerRec) /\ C.delegates[e][t] \in Nat
       /\ IF h.sel = ""
          THEN Inserted(C.events[e][t], hs, Len(hs) + 1, h) /\ C.delegates[e][t] = d
          ELSE Inserted(C.events[e][t], hs, d + 1, h) /\ C.delegates[e][t] = d + 1
       /\ C.listening = IF hs = <<>> /\ t \notin Bubbling THEN B.listening \cup {<<e, t>>} ELSE B.listening
       /\ \A u \in Bubbling :
             C.attaches[u] = IF hs = <<>> /\ u = t THEN B.attaches[u] + 1 ELSE B.attaches[u]
LEMMA AddEventFields ==
  ASSUME NEW B \in BoundRec, NEW e \in Elem, NEW h \in HandlerRec, ListOK(B, e, h.type)
  PROVE  Added(AddEvent(B, e, h), B, e, h)
<1> DEFINE t == h.type
           hs == B.events[e][t]
           d == B.delegates[e][t]
           at == IF h.sel = "" THEN Len(hs) + 1 ELSE d + 1
           M == SetUp(B, e, t)
           C == AddEvent(B, e, h)
           put == IF h.sel = "" THEN Append(hs, h) ELSE InsertAt(hs, d + 1, h)
           few == IF h.sel = "" THEN d ELSE d + 1
<1>1. t \in Types /\ hs \in Seq(HandlerRec) /\ d \in Nat /\ d <= Len(hs) /\ Len(hs) \in Nat
  <2>1. t \in Types
    BY DEF HandlerRec
  <2>2. Leads(hs, d)
    BY DEF ListOK
  <2>3. hs \in Seq(HandlerRec) /\ d \in Nat
    BY <2>1, BoundFields
  <2> HIDE DEF t, hs, d
  <2>4. d <= Len(hs)
    BY ONLY <2>2 DEF Leads
  <2>5. QED
    BY <2>1, <2>3, <2>4
<1>2. put \in Seq(HandlerRec) /\ Inserted(put, hs, at, h) /\ few \in Nat
  <2> HIDE DEF t, hs, d
  <2>1. Append(hs, h) \in Seq(HandlerRec) /\ Inserted(Append(hs, h), hs, Len(hs) + 1, h)
    BY <1>1, InsertFacts
  <2>2. \A p \in 1..(Len(hs) + 1) :
           InsertAt(hs, p, h) \in Seq(HandlerRec) /\ Inserted(InsertAt(hs, p, h), hs, p, h)
    BY <1>1, InsertFacts
  <2>3. d + 1 \in 1..(Len(hs) + 1)
    BY <1>1
  <2>4. InsertAt(hs, d + 1, h) \in Seq(HandlerRec) /\ Inserted(InsertAt(hs, d + 1, h), hs, d + 1, h)
    BY <2>2, <2>3
  <2>5. CASE h.sel = ""
    BY <1>1, <2>1, <2>5
  <2>6. CASE h.sel # ""
    <3>1. at = d + 1 /\ put = InsertAt(hs, d + 1, h) /\ few = d + 1
      BY <2>6
    <3> HIDE DEF at, put, few
    <3>2. QED
      BY <1>1, <2>4, <3>1
  <2>7. QED
    BY <2>5, <2>6
<1>3. /\ M \in BoundRec /\ M.gone = B.gone /\ M.events = B.events /\ M.delegates = B.delegates
      /\ M.listening = IF hs = <<>> /\ t \notin Bubbling THEN B.listening \cup {<<e, t>>} ELSE B.listening
      /\ \A u \in Bubbling :
            M.attaches[u] = IF hs = <<>> /\ u = t THEN B.attaches[u] + 1 ELSE B.attaches[u]
  <2>0. \A u \in Bubbling : B.attaches[u] \in Int
    BY BoundFields
  <2>1. CASE hs # <<>>
    <3>1. M = B
      BY <2>1 DEF SetUp
    <3> HIDE DEF M, t, hs
    <3>2. QED
      BY <2>1, <3>1
  <2>2. CASE hs = <<>> /\ t \in Bubbling
    <3>1. M = [B EXCEPT !.attaches[t] = @ + 1]
      BY <2>2 DEF SetUp
    <3> HIDE DEF M, t, hs
    <3>2. M.attaches = [B.attaches EXCEPT ![t] = @ + 1] /\ M.gone = B.gone /\ M.events = B.events
          /\ M.delegates = B.delegates /\ M.listening = B.listening
      BY <3>1 DEF BoundRec
    <3>3. B.attaches \in [Bubbling -> Int]
      BY BoundFields
    <3>4. M.attaches \in [Bubbling -> Int]
      BY <2>0, <2>2, <3>2, <3>3
    <3>5. M \in BoundRec
      BY <3>1, <3>2, <3>4 DEF BoundRec
    <3>6. \A u \in Bubbling : M.attaches[u] = IF u = t THEN B.attaches[u] + 1 ELSE B.attaches[u]
      BY <2>2, <3>2, <3>3
    <3>7. QED
      BY <2>2, <3>2, <3>5, <3>6
  <2>3. CASE hs = <<>> /\ t \notin Bubbling
    <3>1. M = [B EXCEPT !.listening = @ \cup {<<e, t>>}]
      BY <2>3 DEF SetUp
    <3> HIDE DEF M, t, hs
    <3>2. M.attaches = B.attaches /\ M.gone = B.gone /\ M.events = B.events
          /\ M.delegates = B.delegates /\ M.listening = B.listening \cup {<<e, t>>}
      BY <3>1 DEF BoundRec
    <3>3. M.listening \in SUBSET (Elem \X Types)
      BY <1>1, <3>2, BoundFields
    <3>4. M \in BoundRec
      BY <3>1, <3>2, <3>3 DEF BoundRec
    <3>5. QED
      BY <2>3, <3>2, <3>4
  <2>4. QED
    BY <2>1, <2>2, <2>3
<1>4. C = [M EXCEPT !.events[e][t] = put, !.delegates[e][t] = few]
  <2>1. CASE h.sel = ""
    <3>1. C = [M EXCEPT !.events[e][t] = Append(@, h)]
      BY <2>1 DEF AddEvent
    <3>2. put = Append(M.events[e][t], h) /\ few = M.delegates[e][t]
      BY <1>3, <2>1
    <3>a. M.delegates[e] \in [Types -> Nat] /\ few = M.delegates[e][t]
      BY <1>1, <1>3, <3>2, BoundFields
    <3>3. M.delegates[e] = [M.delegates[e] EXCEPT ![t] = few]
      BY ONLY <3>a
    <3>4. M.delegates = [M.delegates EXCEPT ![e] = [M.delegates[e] EXCEPT ![t] = few]]
      BY <1>3, <3>3, BoundFields
    <3> HIDE DEF M, C, put, few, t
    <3>5. QED
      BY <1>3, <3>1, <3>2, <3>4 DEF BoundRec
  <2>2. CASE h.sel # ""
    <3>1. C = [M EXCEPT !.events[e][t] = InsertAt(@, M.delegates[e][t] + 1, h),
                        !.delegates[e][t] = @ + 1]
      BY <2>2 DEF AddEvent
    <3>2. put = InsertAt(M.events[e][t], M.delegates[e][t] + 1, h) /\ few = M.delegates[e][t] + 1
      BY <1>3, <2>2
    <3> HIDE DEF M, C, put, few, t
    <3>3. QED
      BY <1>3, <3>1, <3>2 DEF BoundRec
  <2>3. QED
    BY <2>1, <2>2
<1> HIDE DEF M, C, put, few, t, at, hs, d
<1>5. /\ C.gone = M.gone /\ C.listening = M.listening /\ C.attaches = M.attaches
      /\ C.events = [M.events EXCEPT ![e] = [M.events[e] EXCEPT ![t] = put]]
      /\ C.delegates = [M.delegates EXCEPT ![e] = [M.delegates[e] EXCEPT ![t] = few]]
  BY <1>3, <1>4 DEF BoundRec
<1>6. /\ C.events \in [Elem -> [Types -> Seq(HandlerRec)]] /\ C.delegates \in [Elem -> [Types -> Nat]]
      /\ C.events[e][t] = put /\ C.delegates[e][t] = few
      /\ \A x \in Elem : \A u \in Types : ~(x = e /\ u = t) =>
            C.events[x][u] = B.events[x][u] /\ C.delegates[x][u] = B.delegates[x][u]
  BY <1>1, <1>2, <1>3, <1>5, BoundFields
<1>7. C \in BoundRec
  BY <1>3, <1>4, <1>5, <1>6 DEF BoundRec
<1>8. QED
  BY <1>2, <1>3, <1>5, <1>6, <1>7 DEF Added, few, t, at, hs, d, C

\* The delegated ones are still the first.
Far(h) == h.sel # ""
Shift(i, p) == IF i < p THEN i ELSE i - 1
Widened(t, s, p, few, h) ==
    /\ Leads(t, few) /\ Len(t) > 0 /\ p \in DOMAIN t /\ t[p] = h
    /\ \A i \in DOMAIN t : i # p => Shift(i, p) \in DOMAIN s /\ t[i] = s[Shift(i, p)]
LEMMA InsertedFacts ==
  ASSUME NEW s \in Seq(HandlerRec), NEW t \in Seq(HandlerRec), NEW h \in HandlerRec, NEW d \in Nat,
         NEW p, NEW few, Leads(s, d), Inserted(t, s, p, h),
         \/ ~Far(h) /\ p = Len(s) + 1 /\ few = d
         \/ Far(h) /\ p = d + 1 /\ few = d + 1
  PROVE  Widened(t, s, p, few, h)
<1> DEFINE n == Len(s)
<1>1. /\ d \in Nat /\ n \in Nat /\ d <= n /\ DOMAIN s = 1..n
      /\ \A i \in 1..n : Far(s[i]) <=> i <= d
  <2>1. \A i \in DOMAIN s : Far(s[i]) <=> i <= d
    BY DEF Leads, Far
  <2>2. d <= Len(s)
    BY DEF Leads
  <2>3. QED
    BY <2>1, <2>2
<1>2. p \in 1..(n + 1) /\ p \in Nat
  BY <1>1
<1>3. /\ Len(t) = n + 1 /\ t[p] = h
      /\ \A i \in 1..(n + 1) : (i < p => t[i] = s[i]) /\ (i > p => t[i] = s[i - 1])
  BY DEF Inserted
<1>4. DOMAIN t = 1..(n + 1)
  BY <1>1, <1>3
<1>5. \/ ~Far(h) /\ p = n + 1 /\ few = d
      \/ Far(h) /\ p = d + 1 /\ few = d + 1
  OBVIOUS
<1> HIDE DEF n
<1>6. few <= n + 1 /\ few \in Nat
  BY <1>1, <1>5
<1>7. ASSUME NEW i \in 1..(n + 1), i # p
      PROVE  Shift(i, p) \in DOMAIN s /\ t[i] = s[Shift(i, p)]
  <2>1. CASE i < p
    BY <1>1, <1>2, <1>3, <2>1 DEF Shift
  <2>2. CASE i > p
    BY <1>1, <1>2, <1>3, <2>2 DEF Shift
  <2>3. QED
    BY <1>2, <1>7, <2>1, <2>2
<1>8. ASSUME NEW i \in 1..(n + 1)
      PROVE  Far(t[i]) <=> i <= few
  <2>1. CASE i = p
    <3>1. i <= few <=> Far(h)
      BY <1>1, <1>5, <2>1
    <3>2. QED
      BY <1>3, <2>1, <3>1
  <2>2. CASE i # p
    <3> DEFINE k == Shift(i, p)
    <3>1. k \in 1..n /\ t[i] = s[k]
      BY <1>1, <1>7, <2>2
    <3>2. Far(s[k]) <=> k <= d
      BY <1>1, <3>1
    <3>3. k <= d <=> i <= few
      BY <1>1, <1>2, <1>5, <2>2 DEF Shift
    <3> HIDE DEF k
    <3>4. QED
      BY <3>1, <3>2, <3>3
  <2>3. QED
    BY <2>1, <2>2
<1>9. Leads(t, few)
  <2>1. \A i \in DOMAIN t : Far(t[i]) <=> i <= few
    BY <1>4, <1>8
  <2>2. few <= Len(t)
    BY <1>3, <1>6
  <2>3. QED
    BY <2>1, <2>2 DEF Leads, Far
<1>10. QED
  BY <1>1, <1>2, <1>3, <1>4, <1>7, <1>9 DEF n, Widened

\* What is bound later has an identity of its own.
Grown(C, B, next) ==
    \A e \in Elem : \A t \in Types : \A h \in Bound(C, e, t) :
        h \in Bound(B, e, t) \/ h.id >= next
LEMMA AddEventOK ==
  ASSUME NEW B, NEW exact \in BOOLEAN, HandlersOK(B, exact), NEW next \in Nat, IdsOK(B, next),
         NEW e \in Elem, NEW h \in HandlerRec, h.id = next, h.type = MappedType(h.origType, h.sel)
  PROVE  LET C == AddEvent(B, e, h)
         IN HandlersOK(C, exact) /\ IdsOK(C, next + 1) /\ C.gone = B.gone /\ Grown(C, B, next)
<1> DEFINE t == h.type
           hs == B.events[e][t]
           d == B.delegates[e][t]
           C == AddEvent(B, e, h)
           new == C.events[e][t]
           few == C.delegates[e][t]
           p == IF h.sel = "" THEN Len(hs) + 1 ELSE d + 1
<1>1. /\ B \in BoundRec /\ (\A x \in Elem : \A u \in Types : ListOK(B, x, u))
      /\ AttachedOK(B, exact) /\ t \in Types
  BY DEF HandlersOK, HandlerRec
<1>2. Added(C, B, e, h)
  BY <1>1, AddEventFields
<1> SUFFICES HandlersOK(C, exact) /\ IdsOK(C, next + 1) /\ C.gone = B.gone /\ Grown(C, B, next)
  OBVIOUS
<1> HIDE DEF C
<1>3. /\ C \in BoundRec /\ C.gone = B.gone
      /\ \A x \in Elem : \A u \in Types : ~(x = e /\ u = t) =>
            C.events[x][u] = B.events[x][u] /\ C.delegates[x][u] = B.delegates[x][u]
      /\ new \in Seq(HandlerRec) /\ few \in Nat
      /\ IF h.sel = "" THEN Inserted(new, hs, Len(hs) + 1, h) /\ few = d
         ELSE Inserted(new, hs, d + 1, h) /\ few = d + 1
      /\ C.listening = IF hs = <<>> /\ t \notin Bubbling THEN B.listening \cup {<<e, t>>} ELSE B.listening
      /\ \A u \in Bubbling :
            C.attaches[u] = IF hs = <<>> /\ u = t THEN B.attaches[u] + 1 ELSE B.attaches[u]
  BY <1>2 DEF Added
<1>4. hs \in Seq(HandlerRec) /\ d \in Nat /\ Leads(hs, d) /\ \A i \in DOMAIN hs : hs[i].type = t
  BY <1>1, BoundFields DEF ListOK
<1>5. /\ Inserted(new, hs, p, h)
      /\ \/ ~Far(h) /\ p = Len(hs) + 1 /\ few = d
         \/ Far(h) /\ p = d + 1 /\ few = d + 1
  <2> HIDE DEF t, hs, d, new, few
  <2>1. CASE h.sel = ""
    <3>1. p = Len(hs) + 1 /\ ~Far(h)
      BY <2>1 DEF Far
    <3> HIDE DEF p
    <3>2. QED
      BY <1>3, <2>1, <3>1
  <2>2. CASE h.sel # ""
    <3>1. p = d + 1 /\ Far(h)
      BY <2>2 DEF Far
    <3> HIDE DEF p
    <3>2. QED
      BY <1>3, <2>2, <3>1
  <2>3. QED
    BY <2>1, <2>2
<1> HIDE DEF p, few, d
<1>a. new \in Seq(HandlerRec)
  BY <1>3
<1>b. \A x \in Elem : \A u \in Types : ~(x = e /\ u = t) =>
         C.events[x][u] = B.events[x][u] /\ C.delegates[x][u] = B.delegates[x][u]
  BY <1>3
<1>6. /\ Leads(new, few) /\ Len(new) > 0 /\ p \in DOMAIN new /\ new[p] = h
      /\ \A i \in DOMAIN new : i # p => Shift(i, p) \in DOMAIN hs /\ new[i] = hs[Shift(i, p)]
  <2> HIDE DEF t, hs, new
  <2>1. hs \in Seq(HandlerRec) /\ d \in Nat /\ Leads(hs, d) /\ new \in Seq(HandlerRec)
    BY <1>4, <1>a
  <2>2. Widened(new, hs, p, few, h)
    BY ONLY <2>1, <1>5, h \in HandlerRec, InsertedFacts
  <2>3. QED
    BY <2>2 DEF Widened
<1>7. ASSUME NEW x \in Elem, NEW u \in Types PROVE ListOK(C, x, u)
  <2>1. CASE x = e /\ u = t
    <3>1. \A i \in DOMAIN new : new[i].type = t
      BY <1>4, <1>6
    <3>2. QED
      BY <1>6, <2>1, <3>1 DEF ListOK, few
  <2>2. CASE ~(x = e /\ u = t)
    <3>1. C.delegates[x][u] = B.delegates[x][u] /\ C.events[x][u] = B.events[x][u]
      BY <1>3, <2>2
    <3>2. ListOK(B, x, u)
      BY <1>1
    <3>3. QED
      BY <3>1, <3>2 DEF ListOK
  <2>3. QED
    BY <2>1, <2>2
<1>8. ASSUME NEW x \in Elem, NEW u \in Types, NEW i \in DOMAIN C.events[x][u]
      PROVE  \/ x = e /\ u = t /\ i = p /\ C.events[x][u][i] = h
             \/ ~(x = e /\ u = t) /\ i \in DOMAIN B.events[x][u] /\ C.events[x][u][i] = B.events[x][u][i]
             \/ /\ x = e /\ u = t /\ i # p /\ Shift(i, p) \in DOMAIN B.events[x][u]
                /\ C.events[x][u][i] = B.events[x][u][Shift(i, p)]
  <2>1. CASE x = e /\ u = t
    <3>1. i \in DOMAIN new /\ C.events[x][u][i] = new[i]
      BY <1>8, <2>1
    <3>2. QED
      BY <1>6, <2>1, <3>1
  <2>2. CASE ~(x = e /\ u = t)
    <3>1. C.events[x][u] = B.events[x][u]
      BY <1>3, <2>2
    <3>2. QED
      BY <1>8, <2>2, <3>1
  <2>3. QED
    BY <2>1, <2>2
<1>9. new # <<>>
  <2>1. Len(new) > 0
    BY <1>6
  <2>2. QED
    BY ONLY <2>1, Len(<<>>) = 0
<1>10. ASSUME NEW x \in Elem, NEW u \in Types \ Bubbling
       PROVE  /\ C.events[x][u] # <<>> => <<x, u>> \in C.listening
              /\ exact /\ C.events[x][u] = <<>> => <<x, u>> \notin C.listening
  <2>1. /\ B.events[x][u] # <<>> => <<x, u>> \in B.listening
        /\ exact /\ B.events[x][u] = <<>> => <<x, u>> \notin B.listening
    BY <1>1 DEF AttachedOK
  <2>2. CASE x = e /\ u = t
    <3>1. C.events[x][u] = new /\ B.events[x][u] = hs /\ t \notin Bubbling
      BY <1>10, <2>2
    <3>2. C.listening = IF hs = <<>> THEN B.listening \cup {<<x, u>>} ELSE B.listening
      BY <1>3, <2>2, <3>1
    <3>3. <<x, u>> \in C.listening
      <4>1. CASE hs = <<>>
        BY ONLY <3>2, <4>1
      <4>2. CASE hs # <<>>
        BY ONLY <2>1, <3>1, <3>2, <4>2
      <4>3. QED
        BY <4>1, <4>2
    <3>4. QED
      BY <1>9, <3>1, <3>3
  <2>3. CASE ~(x = e /\ u = t)
    <3>1. C.events[x][u] = B.events[x][u]
      BY <1>3, <2>3
    <3>2. <<x, u>> # <<e, t>>
      BY <2>3
    <3>a. C.listening = B.listening \/ C.listening = B.listening \cup {<<e, t>>}
      BY <1>3
    <3>3. <<x, u>> \in C.listening <=> <<x, u>> \in B.listening
      BY ONLY <3>2, <3>a
    <3>4. QED
      BY <2>1, <3>1, <3>3
  <2>4. QED
    BY <2>2, <2>3
<1>11. ASSUME NEW x \in Elem, NEW u \in Bubbling PROVE <<x, u>> \notin C.listening
  <2>1. <<x, u>> \notin B.listening
    BY <1>1 DEF AttachedOK
  <2>2. <<x, u>> = <<e, t>> => t \in Bubbling
    OBVIOUS
  <2>3. QED
    BY <1>3, <2>1, <2>2
<1>12. ASSUME NEW u \in Bubbling
       PROVE  /\ C.attaches[u] >= Cardinality(Users(C, u))
              /\ exact => C.attaches[u] = Cardinality(Users(C, u))
  <2> DEFINE m == Cardinality(Users(B, u))
             n == Cardinality(Users(C, u))
  <2>0. u \in Types
    BY DEF Types, Bubbling
  <2>1. B.attaches[u] >= m /\ (exact => B.attaches[u] = m) /\ B.attaches[u] \in Int
    BY <1>1, BoundFields DEF AttachedOK
  <2>2. n = m + One(C, e, u) - One(B, e, u) /\ n \in Nat /\ m \in Nat
    <3>1. \A x \in Elem : x # e => C.events[x][u] = B.events[x][u]
      BY <1>b, <2>0
    <3>2. QED
      BY ONLY <3>1, e \in Elem, UsersOne
  <2> HIDE DEF m, n
  <2>3. CASE u = t /\ hs = <<>>
    <3>1. One(C, e, u) = 1 /\ One(B, e, u) = 0
      BY <1>9, <2>3 DEF One
    <3>2. C.attaches[u] = B.attaches[u] + 1
      BY <1>3, <2>3
    <3>3. n = m + 1
      BY <2>2, <3>1
    <3>4. QED
      BY <2>1, <2>2, <3>2, <3>3 DEF m, n
  <2>4. CASE ~(u = t /\ hs = <<>>)
    <3>1. One(C, e, u) = One(B, e, u) /\ One(B, e, u) \in Nat
      BY <1>3, <1>9, <2>0, <2>4 DEF One
    <3>2. C.attaches[u] = B.attaches[u]
      BY <1>3, <2>4
    <3>3. n = m
      BY <2>2, <3>1
    <3>4. QED
      BY <2>1, <3>2, <3>3 DEF m, n
  <2>5. QED
    BY <2>3, <2>4
<1>13. AttachedOK(C, exact)
  BY <1>10, <1>11, <1>12 DEF AttachedOK
<1>14. ASSUME NEW x \in Elem, NEW u \in Types, NEW i \in DOMAIN C.events[x][u]
       PROVE  Proper(C.events[x][u][i], next + 1)
  <2>1. \A k \in DOMAIN B.events[x][u] : Proper(B.events[x][u][k], next)
    BY DEF IdsOK
  <2>2. Proper(h, next + 1)
    BY DEF Proper
  <2>3. \A k \in DOMAIN B.events[x][u] : Proper(B.events[x][u][k], next + 1)
    <3>1. SUFFICES ASSUME NEW k \in DOMAIN B.events[x][u] PROVE Proper(B.events[x][u][k], next + 1)
      OBVIOUS
    <3>2. B.events[x][u] \in Seq(HandlerRec)
      BY <1>1, BoundFields
    <3> DEFINE b == B.events[x][u][k]
    <3>3. b \in HandlerRec /\ Proper(b, next)
      BY <2>1, <3>2
    <3> HIDE DEF b
    <3>4. b.id \in Nat /\ b.id < next /\ b.type = MappedType(b.origType, b.sel)
      BY <3>3 DEF HandlerRec, Proper
    <3>5. b.id < next + 1
      BY <3>4
    <3>6. QED
      BY <3>4, <3>5 DEF Proper, b
  <2>4. QED
    BY <1>8, <1>14, <2>2, <2>3
<1>15. ASSUME NEW x \in Elem, NEW u \in Types, NEW k \in DOMAIN B.events[x][u]
       PROVE  B.events[x][u][k].id < next /\ B.events[x][u][k].id # next
  <2>1. B.events[x][u] \in Seq(HandlerRec)
    BY <1>1, BoundFields
  <2>2. Proper(B.events[x][u][k], next)
    BY <1>15 DEF IdsOK
  <2> DEFINE b == B.events[x][u][k]
  <2>3. b \in HandlerRec
    BY <1>15, <2>1
  <2> HIDE DEF b
  <2>4. b.id \in Nat /\ b.id < next
    BY <2>2, <2>3 DEF HandlerRec, Proper, b
  <2>5. QED
    BY <2>4 DEF b
<1>16. ASSUME NEW x1 \in Elem, NEW x2 \in Elem, NEW u1 \in Types, NEW u2 \in Types,
              NEW i1 \in DOMAIN C.events[x1][u1], NEW i2 \in DOMAIN C.events[x2][u2],
              C.events[x1][u1][i1].id = C.events[x2][u2][i2].id
       PROVE  x1 = x2 /\ u1 = u2 /\ i1 = i2
  <2>1. \A k1 \in DOMAIN B.events[x1][u1], k2 \in DOMAIN B.events[x2][u2] :
           B.events[x1][u1][k1].id = B.events[x2][u2][k2].id => x1 = x2 /\ u1 = u2 /\ k1 = k2
    BY DEF IdsOK
  <2>2. CASE x1 = e /\ u1 = t /\ i1 = p /\ C.events[x1][u1][i1] = h
    BY <1>8, <1>15, <1>16, <2>2
  <2>3. CASE x2 = e /\ u2 = t /\ i2 = p /\ C.events[x2][u2][i2] = h
    BY <1>8, <1>15, <1>16, <2>3
  <2>4. CASE /\ ~(x1 = e /\ u1 = t /\ i1 = p /\ C.events[x1][u1][i1] = h)
             /\ ~(x2 = e /\ u2 = t /\ i2 = p /\ C.events[x2][u2][i2] = h)
    <3>a. \E k1 \in DOMAIN B.events[x1][u1] : C.events[x1][u1][i1] = B.events[x1][u1][k1]
      BY <1>8, <1>16, <2>4
    <3>b. \E k2 \in DOMAIN B.events[x2][u2] : C.events[x2][u2][i2] = B.events[x2][u2][k2]
      BY <1>8, <1>16, <2>4
    <3>1. x1 = x2 /\ u1 = u2
      BY <1>16, <2>1, <3>a, <3>b
    <3>2. CASE ~(x1 = e /\ u1 = t)
      BY <1>8, <1>16, <2>1, <2>4, <3>1, <3>2
    <3>3. CASE x1 = e /\ u1 = t
      <4>a. /\ i1 # p /\ Shift(i1, p) \in DOMAIN B.events[x1][u1]
            /\ C.events[x1][u1][i1] = B.events[x1][u1][Shift(i1, p)]
        BY <1>8, <1>16, <2>4, <3>3
      <4>b. /\ i2 # p /\ Shift(i2, p) \in DOMAIN B.events[x2][u2]
            /\ C.events[x2][u2][i2] = B.events[x2][u2][Shift(i2, p)]
        BY <1>8, <1>16, <2>4, <3>1, <3>3
      <4>1. Shift(i1, p) = Shift(i2, p) /\ i1 # p /\ i2 # p
        BY ONLY <1>16, <2>1, <4>a, <4>b
      <4>2. i1 \in Nat /\ i2 \in Nat /\ p \in Nat
        <5>1. i1 \in DOMAIN new /\ i2 \in DOMAIN new /\ p \in DOMAIN new
          BY <1>6, <1>16, <3>1, <3>3
        <5>2. DOMAIN new \subseteq Nat
          BY <1>a
        <5>3. QED
          BY <5>1, <5>2
      <4>3. QED
        BY <3>1, <4>1, <4>2 DEF Shift
    <3>4. QED
      BY <3>2, <3>3
  <2>5. QED
    BY <2>2, <2>3, <2>4
<1>17. IdsOK(C, next + 1)
  BY <1>14, <1>16 DEF IdsOK
<1>18. Grown(C, B, next)
  <2>1. SUFFICES ASSUME NEW x \in Elem, NEW u \in Types, NEW k \in Bound(C, x, u)
                 PROVE  k \in Bound(B, x, u) \/ k.id >= next
    BY DEF Grown
  <2>2. PICK i \in DOMAIN C.events[x][u] : k = C.events[x][u][i]
    BY <2>1 DEF Bound, ToSet
  <2>3. CASE k = h
    BY <2>3
  <2>4. CASE \E m \in DOMAIN B.events[x][u] : k = B.events[x][u][m]
    BY <2>4 DEF Bound, ToSet
  <2>5. QED
    BY <1>8, <2>2, <2>3, <2>4
<1>19. QED
  BY <1>1, <1>3, <1>7, <1>13, <1>17, <1>18 DEF HandlersOK

\* Those at D and then those at R.
Split(l, hs, D, R) ==
    /\ l \in Seq(HandlerRec) /\ (l = <<>> <=> D \cup R = {}) /\ Cardinality(D) \in Nat
    /\ Leads(l, Cardinality(D))
    /\ \E g \in [DOMAIN l -> D \cup R] :
          \A i \in DOMAIN l : /\ l[i] = hs[g[i]]
                              /\ \A j \in DOMAIN l : g[i] = g[j] => i = j
LEMMA SplitFacts ==
  ASSUME NEW hs \in Seq(HandlerRec), NEW D \in SUBSET (DOMAIN hs), NEW R \in SUBSET (DOMAIN hs),
         \A i \in D : Far(hs[i]), \A i \in R : ~Far(hs[i])
  PROVE  Split(Picked(hs, D) \o Picked(hs, R), hs, D, R)
<1> DEFINE a == Picked(hs, D)
           b == Picked(hs, R)
           l == a \o b
           d == Cardinality(D)
<1>0. Len(hs) \in Nat /\ DOMAIN hs = 1..Len(hs)
  OBVIOUS
<1>1. /\ a \in Seq(HandlerRec) /\ Len(a) = Cardinality(D)
      /\ \E f \in [DOMAIN a -> D] : \A j \in DOMAIN a : Place(D, f[j]) = j /\ a[j] = hs[f[j]]
  BY ONLY hs \in Seq(HandlerRec), D \in SUBSET (DOMAIN hs), PickedFacts
<1>2. /\ b \in Seq(HandlerRec) /\ Len(b) = Cardinality(R)
      /\ \E f \in [DOMAIN b -> R] : \A j \in DOMAIN b : Place(R, f[j]) = j /\ b[j] = hs[f[j]]
  BY ONLY hs \in Seq(HandlerRec), R \in SUBSET (DOMAIN hs), PickedFacts
<1>3. PICK f \in [DOMAIN a -> D] : \A j \in DOMAIN a : Place(D, f[j]) = j /\ a[j] = hs[f[j]]
  BY <1>1
<1>4. PICK h \in [DOMAIN b -> R] : \A j \in DOMAIN b : Place(R, h[j]) = j /\ b[j] = hs[h[j]]
  BY <1>2
<1>5. /\ Cardinality(D) \in Nat /\ Cardinality(R) \in Nat /\ IsFiniteSet(D) /\ IsFiniteSet(R)
  BY <1>0, PlaceAll
<1> SUFFICES /\ l \in Seq(HandlerRec) /\ (l = <<>> <=> D \cup R = {}) /\ d \in Nat
             /\ Leads(l, d)
             /\ \E g \in [DOMAIN l -> D \cup R] :
                  \A i \in DOMAIN l : /\ l[i] = hs[g[i]]
                                      /\ \A j \in DOMAIN l : g[i] = g[j] => i = j
  BY DEF Split
<1>6. d \in Nat /\ Len(a) = d /\ DOMAIN a = 1..d
  BY <1>1, <1>5
<1> HIDE DEF a, b, d
<1>7. /\ l \in Seq(HandlerRec) /\ Len(l) = d + Len(b) /\ DOMAIN l = 1..(d + Len(b))
      /\ \A i \in 1..(d + Len(b)) : l[i] = IF i <= d THEN a[i] ELSE b[i - d]
  <2>1. a \in Seq(HandlerRec) /\ b \in Seq(HandlerRec)
    BY <1>1, <1>2
  <2>2. QED
    BY ONLY <2>1, <1>6
<1>8. Len(b) \in Nat /\ DOMAIN b = 1..Len(b)
  BY <1>2
<1> DEFINE g == [i \in DOMAIN l |-> IF i <= d THEN f[i] ELSE h[i - d]]
<1> HIDE DEF l
<1>9. ASSUME NEW i \in DOMAIN l
      PROVE  /\ i <= d => i \in DOMAIN a /\ g[i] = f[i] /\ f[i] \in D /\ l[i] = hs[f[i]] /\ Place(D, f[i]) = i
             /\ i > d => /\ i - d \in DOMAIN b /\ g[i] = h[i - d] /\ h[i - d] \in R /\ l[i] = hs[h[i - d]]
                         /\ Place(R, h[i - d]) = i - d
  <2>1. CASE i <= d
    <3>1. i \in DOMAIN a
      BY <1>6, <1>7, <2>1
    <3>2. QED
      BY <1>3, <1>6, <1>7, <2>1, <3>1
  <2>2. CASE i > d
    <3> DEFINE k == i - d
    <3>1. k \in DOMAIN b /\ ~(i <= d)
      BY <1>6, <1>7, <1>8, <2>2
    <3>2. l[i] = b[k] /\ g[i] = h[k]
      BY <1>7, <3>1
    <3> HIDE DEF k, g
    <3>3. h[k] \in R /\ b[k] = hs[h[k]] /\ Place(R, h[k]) = k
      BY <1>4, <3>1
    <3>4. QED
      BY <3>1, <3>2, <3>3 DEF k
  <2>3. QED
    BY <1>6, <1>7, <2>1, <2>2
<1>10. \A i \in DOMAIN l : i \in Nat /\ (i <= d \/ i > d)
  BY <1>6, <1>7, <1>8
<1>11. g \in [DOMAIN l -> D \cup R]
  <2>1. \A i \in DOMAIN l : g[i] \in D \cup R
    BY <1>9, <1>10
  <2>2. QED
    BY <2>1
<1> HIDE DEF g
<1>12. ASSUME NEW i \in DOMAIN l, NEW j \in DOMAIN l, g[i] = g[j] PROVE i = j
  <2>1. CASE i <= d /\ j <= d
    BY <1>9, <1>12, <2>1
  <2>2. CASE i > d /\ j > d
    <3>1. i - d = j - d
      BY <1>9, <1>12, <2>2
    <3>2. QED
      BY <1>6, <1>10, <3>1
  <2>3. CASE i <= d /\ j > d
    BY <1>9, <1>12, <2>3
  <2>4. CASE i > d /\ j <= d
    BY <1>9, <1>12, <2>4
  <2>5. QED
    BY <1>10, <2>1, <2>2, <2>3, <2>4
<1>13. \A i \in DOMAIN l : l[i] = hs[g[i]]
  BY <1>9, <1>10
<1>14. Leads(l, d)
  <2>1. \A i \in DOMAIN l : Far(l[i]) <=> i <= d
    <3>1. SUFFICES ASSUME NEW i \in DOMAIN l PROVE Far(l[i]) <=> i <= d
      OBVIOUS
    <3>2. CASE i <= d
      BY <1>9, <3>2
    <3>3. CASE i > d
      <4>1. ~(i <= d)
        BY <1>6, <1>10, <3>3
      <4>2. QED
        BY <1>9, <3>3, <4>1
    <3>4. QED
      BY <1>10, <3>2, <3>3
  <2>2. d <= Len(l)
    BY <1>6, <1>7, <1>8
  <2>3. QED
    BY <2>1, <2>2 DEF Leads, Far
<1>15. l = <<>> <=> D \cup R = {}
  <2>1. ASSUME l = <<>> PROVE D \cup R = {}
    <3>1. Cardinality(D) = 0 /\ Cardinality(R) = 0
      BY <1>1, <1>2, <1>5, <1>6, <1>7, <1>8, <2>1 DEF b, d
    <3>2. QED
      BY <1>5, <3>1, FS_EmptySet
  <2>2. ASSUME D \cup R = {} PROVE l = <<>>
    <3>1. DOMAIN l = {}
      BY <1>11, <2>2
    <3>2. QED
      BY <1>7, <3>1
  <2>3. QED
    BY <2>1, <2>2
<1>16. \E m \in [DOMAIN l -> D \cup R] :
          \A i \in DOMAIN l : /\ l[i] = hs[m[i]]
                              /\ \A j \in DOMAIN l : m[i] = m[j] => i = j
  BY ONLY <1>11, <1>12, <1>13
<1>17. QED
  BY <1>6, <1>7, <1>14, <1>15, <1>16

\* The page to begin with.
LEMMA PageOK ==
  ASSUME NEW start \in Starts
  PROVE  /\ HandlersOK(Page(start), TRUE) /\ IdsOK(Page(start), Len(start.bindings) + 1)
         /\ Page(start).gone = {} /\ Len(start.bindings) \in Nat
<1> DEFINE bs == start.bindings
           n == Len(bs)
           hs == [i \in DOMAIN bs |-> Handler(bs[i].fn, bs[i].binding, i)]
           on(e, t) == {i \in DOMAIN hs : bs[i].elem = e /\ hs[i].type = t}
           delegated(e, t) == {i \in on(e, t) : hs[i].sel # ""}
           B == Page(start)
<1>1. bs \in Seq([elem : Elem, fn : Handlers, binding : Binding]) /\ n \in Nat /\ DOMAIN bs = 1..n
  <2> DEFINE S == [elem : Elem, fn : Handlers, binding : Binding]
  <2>1. bs \in Seq(S)
    BY EventsAssumption
  <2> HIDE DEF bs, S
  <2>2. n \in Nat /\ DOMAIN bs = 1..n
    BY <2>1
  <2>3. QED
    BY <2>1, <2>2 DEF S
<1>2. ASSUME NEW i \in 1..n
      PROVE  hs[i] \in HandlerRec /\ hs[i].id = i /\ Proper(hs[i], n + 1)
  <2> DEFINE b == bs[i].binding
             h == hs[i]
  <2>1. bs[i] \in [elem : Elem, fn : Handlers, binding : Binding]
    <3> DEFINE S == [elem : Elem, fn : Handlers, binding : Binding]
    <3>1. bs \in Seq(S) /\ i \in DOMAIN bs
      BY <1>1, <1>2
    <3> HIDE DEF bs, S
    <3>2. bs[i] \in S
      BY <3>1
    <3>3. QED
      BY <3>2 DEF S
  <2>2. /\ b.type \in Types \cup {"mouseenter"} /\ b.sel \in {""} \cup DOMAIN Match
        /\ b.ns \in STRING /\ b.one \in BOOLEAN
    BY <2>1 DEF Binding
  <2>3. MappedType(b.type, b.sel) \in Types
    BY <2>2, MapFacts
  <2>4. h = Handler(bs[i].fn, b, i)
    BY <1>1, <1>2
  <2> HIDE DEF b, h, hs
  <2>5. /\ h.id = i /\ h.type = MappedType(b.type, b.sel) /\ h.origType = b.type /\ h.sel = b.sel
        /\ h \in HandlerRec
    <3>1. bs[i].fn \in Handlers /\ i \in Nat
      BY <1>1, <1>2, <2>1
    <3>2. h = [fn |-> bs[i].fn, type |-> MappedType(b.type, b.sel), origType |-> b.type,
               sel |-> b.sel, ns |-> b.ns, one |-> b.one, id |-> i]
      BY <2>4 DEF Handler
    <3> HIDE DEF bs
    <3>3. QED
      BY <2>2, <2>3, <3>1, <3>2 DEF HandlerRec
  <2>6. Proper(h, n + 1)
    BY <1>1, <1>2, <2>5 DEF Proper
  <2>7. QED
    BY <2>5, <2>6 DEF h
<1>3. hs \in Seq(HandlerRec) /\ Len(hs) = n /\ DOMAIN hs = 1..n
  <2>1. hs \in [1..n -> HandlerRec]
    BY <1>1, <1>2
  <2> HIDE DEF hs, n
  <2>2. hs \in Seq(HandlerRec) /\ DOMAIN hs = 1..n
    BY <1>1, <2>1
  <2>3. QED
    BY <1>1, <2>2
<1>4. /\ B.events = [e \in Elem |-> [t \in Types |-> Picked(hs, delegated(e, t))
                                                   \o Picked(hs, on(e, t) \ delegated(e, t))]]
      /\ B.delegates = [e \in Elem |-> [t \in Types |-> Cardinality(delegated(e, t))]]
      /\ B.listening = {l \in Elem \X (Types \ Bubbling) : on(l[1], l[2]) # {}}
      /\ B.attaches = [t \in Bubbling |-> Cardinality({e \in Elem : on(e, t) # {}})]
      /\ B.gone = {}
      /\ B = [events |-> B.events, delegates |-> B.delegates, listening |-> B.listening,
              attaches |-> B.attaches, gone |-> B.gone]
  BY DEF Page
<1>5. /\ \A e, t : on(e, t) \in SUBSET (DOMAIN hs) /\ delegated(e, t) \in SUBSET on(e, t)
      /\ \A e, t : \A i \in on(e, t) : bs[i].elem = e /\ hs[i].type = t
      /\ \A e, t : \A i \in on(e, t) : i \in delegated(e, t) <=> Far(hs[i])
  BY DEF Far
<1> HIDE DEF hs, on, delegated, B, n, bs
<1> DEFINE own(e, t) == B.events[e][t]
           few(e, t) == Cardinality(delegated(e, t))
<1>6. ASSUME NEW e \in Elem, NEW t \in Types
      PROVE  /\ own(e, t) \in Seq(HandlerRec) /\ (own(e, t) = <<>> <=> on(e, t) = {})
             /\ B.delegates[e][t] = few(e, t) /\ few(e, t) \in Nat /\ Leads(own(e, t), few(e, t))
             /\ \E g \in [DOMAIN own(e, t) -> on(e, t)] :
                  \A i \in DOMAIN own(e, t) : /\ own(e, t)[i] = hs[g[i]]
                                              /\ \A j \in DOMAIN own(e, t) : g[i] = g[j] => i = j
  <2> DEFINE D == delegated(e, t)
             R == on(e, t) \ delegated(e, t)
             l == Picked(hs, D) \o Picked(hs, R)
  <2>1. D \in SUBSET (DOMAIN hs) /\ R \in SUBSET (DOMAIN hs) /\ D \cup R = on(e, t)
    BY <1>5
  <2>2. (\A i \in D : Far(hs[i])) /\ (\A i \in R : ~Far(hs[i]))
    BY <1>5
  <2>3. own(e, t) = l /\ B.delegates[e][t] = Cardinality(D)
    BY <1>4
  <2> HIDE DEF D, R
  <2>4. Split(l, hs, D, R)
    BY ONLY <1>3, <2>1, <2>2, SplitFacts
  <2> HIDE DEF l, own
  <2>5. /\ l \in Seq(HandlerRec) /\ (l = <<>> <=> on(e, t) = {}) /\ Cardinality(D) \in Nat
        /\ Leads(l, Cardinality(D))
        /\ \E g \in [DOMAIN l -> on(e, t)] :
              \A i \in DOMAIN l : /\ l[i] = hs[g[i]]
                                  /\ \A j \in DOMAIN l : g[i] = g[j] => i = j
    BY <2>1, <2>4 DEF Split
  <2>6. QED
    BY <2>3, <2>5 DEF D
<1>7. ASSUME NEW e \in Elem, NEW t \in Types, NEW i \in DOMAIN B.events[e][t]
      PROVE  \E k \in on(e, t) : B.events[e][t][i] = hs[k]
  <2>1. PICK g \in [DOMAIN own(e, t) -> on(e, t)] :
           \A j \in DOMAIN own(e, t) : own(e, t)[j] = hs[g[j]]
    BY <1>6
  <2>2. g[i] \in on(e, t) /\ own(e, t)[i] = hs[g[i]]
    BY <1>7, <2>1
  <2>3. QED
    BY <2>2
<1>8. ASSUME NEW e \in Elem, NEW t \in Types PROVE ListOK(B, e, t)
  <2>1. \A i \in DOMAIN B.events[e][t] : B.events[e][t][i].type = t
    BY <1>5, <1>7
  <2>2. Leads(B.events[e][t], B.delegates[e][t])
    BY <1>6
  <2>3. QED
    BY <2>1, <2>2 DEF ListOK
<1>9. B \in BoundRec
  <2>1. B.events \in [Elem -> [Types -> Seq(HandlerRec)]]
    <3>1. \A e \in Elem : B.events[e] \in [Types -> Seq(HandlerRec)]
      <4>1. SUFFICES ASSUME NEW e \in Elem PROVE B.events[e] \in [Types -> Seq(HandlerRec)]
        OBVIOUS
      <4>2. \A t \in Types : B.events[e][t] \in Seq(HandlerRec)
        BY <1>6
      <4>3. B.events[e] = [t \in Types |-> Picked(hs, delegated(e, t))
                                           \o Picked(hs, on(e, t) \ delegated(e, t))]
        BY <1>4
      <4>4. QED
        BY <4>2, <4>3
    <3>2. QED
      BY <1>4, <3>1
  <2>2. B.delegates \in [Elem -> [Types -> Nat]]
    <3>1. \A e \in Elem : \A t \in Types : Cardinality(delegated(e, t)) \in Nat
      BY <1>6
    <3>2. QED
      BY <1>4, <3>1
  <2>3. B.listening \in SUBSET (Elem \X Types)
    BY <1>4
  <2>4. B.attaches \in [Bubbling -> Int]
    <3>1. \A t \in Bubbling : Cardinality({e \in Elem : on(e, t) # {}}) \in Int
      <4>1. SUFFICES ASSUME NEW t \in Bubbling
                     PROVE  Cardinality({e \in Elem : on(e, t) # {}}) \in Int
        OBVIOUS
      <4>2. IsFiniteSet({e \in Elem : on(e, t) # {}})
        BY FS_Subset, EventsAssumption
      <4>3. QED
        BY <4>2, FS_CardinalityType
    <3>2. QED
      BY <1>4, <3>1
  <2>5. QED
    BY <1>4, <2>1, <2>2, <2>3, <2>4 DEF BoundRec
<1>10. ASSUME NEW e \in Elem, NEW t \in Types \ Bubbling
       PROVE  /\ B.events[e][t] # <<>> => <<e, t>> \in B.listening
              /\ B.events[e][t] = <<>> => <<e, t>> \notin B.listening
  <2>1. B.events[e][t] = <<>> <=> on(e, t) = {}
    BY <1>6
  <2>2. <<e, t>> \in B.listening <=> on(e, t) # {}
    BY <1>4
  <2>3. QED
    BY <2>1, <2>2
<1>11. ASSUME NEW e \in Elem, NEW t \in Bubbling PROVE <<e, t>> \notin B.listening
  BY <1>4
<1>12. ASSUME NEW t \in Bubbling
       PROVE  B.attaches[t] = Cardinality(Users(B, t)) /\ B.attaches[t] >= Cardinality(Users(B, t))
  <2>1. Users(B, t) = {e \in Elem : on(e, t) # {}}
    BY <1>6 DEF Users, Types, Bubbling
  <2>2. B.attaches[t] = Cardinality(Users(B, t))
    BY <1>4, <2>1
  <2>3. QED
    BY <2>2, UsersFacts
<1>13. AttachedOK(B, TRUE)
  BY <1>10, <1>11, <1>12 DEF AttachedOK
<1>14. ASSUME NEW e \in Elem, NEW t \in Types, NEW i \in DOMAIN B.events[e][t]
       PROVE  Proper(B.events[e][t][i], n + 1)
  BY <1>2, <1>3, <1>5, <1>7
<1>15. ASSUME NEW e1 \in Elem, NEW e2 \in Elem, NEW t1 \in Types, NEW t2 \in Types,
              NEW i1 \in DOMAIN B.events[e1][t1], NEW i2 \in DOMAIN B.events[e2][t2],
              B.events[e1][t1][i1].id = B.events[e2][t2][i2].id
       PROVE  e1 = e2 /\ t1 = t2 /\ i1 = i2
  <2>1. PICK k1 \in on(e1, t1) : B.events[e1][t1][i1] = hs[k1]
    BY <1>7
  <2>2. PICK k2 \in on(e2, t2) : B.events[e2][t2][i2] = hs[k2]
    BY <1>7
  <2>3. k1 = k2
    BY <1>2, <1>3, <1>5, <1>15, <2>1, <2>2
  <2>4. e1 = e2 /\ t1 = t2
    BY <1>5, <2>3
  <2>5. PICK g \in [DOMAIN own(e1, t1) -> on(e1, t1)] :
           \A i \in DOMAIN own(e1, t1) : /\ own(e1, t1)[i] = hs[g[i]]
                                         /\ \A j \in DOMAIN own(e1, t1) : g[i] = g[j] => i = j
    BY <1>6
  <2>6. i1 \in DOMAIN own(e1, t1) /\ i2 \in DOMAIN own(e1, t1)
    BY <1>15, <2>4
  <2>7. /\ g[i1] \in on(e1, t1) /\ g[i2] \in on(e1, t1)
        /\ own(e1, t1)[i1] = hs[g[i1]] /\ own(e1, t1)[i2] = hs[g[i2]]
    BY <2>5, <2>6
  <2>8. hs[g[i1]].id = hs[g[i2]].id
    BY <1>15, <2>4, <2>7
  <2>9. g[i1] = g[i2]
    BY <1>2, <1>3, <1>5, <2>7, <2>8
  <2>10. QED
    BY <2>4, <2>5, <2>6, <2>9
<1>16. IdsOK(B, n + 1)
  BY <1>14, <1>15 DEF IdsOK
<1>17. HandlersOK(B, TRUE)
  BY <1>8, <1>9, <1>13 DEF HandlersOK
<1>18. QED
  BY <1>1, <1>4, <1>16, <1>17 DEF B, n, bs

\* An event that has not begun.
New(f, kind, type) ==
    /\ f \in Told /\ f.kind = kind /\ f.type = type /\ f.pos = 0 /\ f.queue = <<>>
    /\ f.current = NoHandler /\ f.todo = <<>> /\ f.told = {} /\ ~f.begun /\ Straight(f.path)
    /\ kind = "native" => type \in Types /\ \A p \in DOMAIN f.path : f.path[p][2] = type
    /\ kind = "method" => f.path = <<>>
LEMMA EventFacts ==
  ASSUME NEW kind \in {"trigger", "native", "method"}, NEW type \in Types \cup {"mouseenter"},
         NEW target \in Elem, NEW path \in Seq(Elem \X Types), Straight(path),
         kind = "native" => type \in Types /\ \A p \in DOMAIN path : path[p][2] = type,
         kind = "method" => path = <<>>
  PROVE  New(Event(kind, type, target, path), kind, type)
         /\ Event(kind, type, target, path).path = path
         /\ Event(kind, type, target, path).target = target
<1> DEFINE f == Event(kind, type, target, path)
<1>1. f = [kind |-> kind, type |-> type, target |-> target, path |-> path, pos |-> 0, queue |-> <<>>,
           on |-> target, current |-> NoHandler, ns |-> "", related |-> "none", stopped |-> FALSE,
           prevented |-> FALSE, only |-> FALSE, begun |-> FALSE, todo |-> <<>>, told |-> {}]
  BY DEF Event
<1>2. <<>> \in Seq(GroupRec)
  OBVIOUS
<1>3. "" \in {""} \cup STRING
  OBVIOUS
<1> HIDE DEF f
<1>4. f \in Told
  BY <1>1, <1>2, <1>3 DEF Told, FramesOf
<1>5. /\ f.kind = kind /\ f.type = type /\ f.pos = 0 /\ f.queue = <<>> /\ f.path = path
      /\ f.current = NoHandler /\ f.todo = <<>> /\ f.told = {} /\ f.begun = FALSE /\ f.target = target
  BY <1>1
<1>6. New(f, kind, type)
  BY <1>4, <1>5 DEF New
<1>7. QED
  BY <1>5, <1>6 DEF f

\* What a method tells is an event as any other.
LEMMA ToldIsFrame == Told \subseteq FrameRec
<1>1. {<<>>} \subseteq Seq(Told)
  OBVIOUS
<1>2. \A A, C : A \subseteq C => FramesOf(A) \subseteq FramesOf(C)
  BY DEF FramesOf
<1>3. QED
  BY <1>1, <1>2 DEF Told, FrameRec

LEMMA OneFacts ==
  ASSUME NEW S, NEW x \in S
  PROVE  <<x>> \in Seq(S) /\ DOMAIN <<x>> = {1}
OBVIOUS

LEMMA TriggerPathFacts ==
  ASSUME NEW e \in Elem, NEW type \in Types \cup {"mouseenter"}
  PROVE  TriggerPath(e, type) \in Seq(Elem \X Types) /\ Straight(TriggerPath(e, type))
<1> DEFINE up == Up(e, bound.gone)
           morphs == <<DelegateType(type), type>> \in Morphs
           bubble == IF morphs THEN up ELSE Tail(up)
           a == <<e, BindType(type)>>
           m == [i \in DOMAIN bubble |-> <<bubble[i], DelegateType(type)>>]
           path == <<a>> \o m
<1>1. /\ up \in Seq(Elem) /\ Len(up) \in Nat /\ Len(up) > 0 /\ up[1] = e
      /\ \A i, j \in DOMAIN up : up[i] = up[j] => i = j
  BY UpFacts
<1>2. BindType(type) \in Types /\ DelegateType(type) \in Types
  BY MapFacts
<1>3. morphs => DelegateType(type) # BindType(type)
  BY DEF Morphs, DelegateType, BindType
<1>4. TriggerPath(e, type) = path
  BY DEF TriggerPath
<1> HIDE DEF up, morphs
<1>5. /\ bubble \in Seq(Elem) /\ Len(bubble) \in Nat
      /\ \A i, j \in DOMAIN bubble : bubble[i] = bubble[j] => i = j
      /\ \A i \in DOMAIN bubble : morphs \/ bubble[i] # e
  <2>1. CASE morphs
    BY <1>1, <2>1
  <2>2. CASE ~morphs
    <3>1. bubble = Tail(up)
      BY <2>2
    <3>2. /\ Tail(up) \in Seq(Elem) /\ Len(Tail(up)) = Len(up) - 1
          /\ \A i \in 1..(Len(up) - 1) : Tail(up)[i] = up[i + 1]
      BY <1>1
    <3>3. DOMAIN Tail(up) = 1..(Len(up) - 1) /\ DOMAIN up = 1..Len(up)
      BY <1>1, <3>2
    <3> HIDE DEF bubble
    <3>4. \A i, j \in DOMAIN bubble : bubble[i] = bubble[j] => i = j
      <4>1. SUFFICES ASSUME NEW i \in 1..(Len(up) - 1), NEW j \in 1..(Len(up) - 1),
                            up[i + 1] = up[j + 1]
                     PROVE  i = j
        BY <3>1, <3>2, <3>3
      <4>2. i + 1 \in DOMAIN up /\ j + 1 \in DOMAIN up
        BY <1>1, <3>3
      <4>3. i + 1 = j + 1
        BY <1>1, <4>1, <4>2
      <4>4. QED
        BY <4>3
    <3>5. \A i \in DOMAIN bubble : bubble[i] # e
      <4>1. SUFFICES ASSUME NEW i \in 1..(Len(up) - 1) PROVE up[i + 1] # up[1]
        BY <1>1, <3>1, <3>2, <3>3
      <4>2. i + 1 \in DOMAIN up /\ 1 \in DOMAIN up /\ i + 1 # 1
        BY <1>1, <3>3
      <4>3. QED
        BY <1>1, <4>2
    <3>6. QED
      BY <1>1, <3>1, <3>2, <3>4, <3>5
  <2>3. QED
    BY <2>1, <2>2
<1> HIDE DEF bubble
<1>6. m \in Seq(Elem \X Types) /\ Len(m) = Len(bubble) /\ DOMAIN m = 1..Len(bubble)
      /\ \A i \in DOMAIN m : i \in DOMAIN bubble /\ m[i] = <<bubble[i], DelegateType(type)>>
  <2>1. DOMAIN bubble = 1..Len(bubble)
    BY <1>5
  <2>2. \A i \in DOMAIN bubble : bubble[i] \in Elem
    BY <1>5
  <2>3. QED
    BY <1>2, <1>5, <2>1, <2>2
<1> HIDE DEF m
<1>7. <<a>> \in Seq(Elem \X Types)
  <2>1. a \in Elem \X Types
    BY <1>2
  <2> HIDE DEF a
  <2>2. QED
    BY <2>1, OneFacts
<1>8. path \in Seq(Elem \X Types) /\ DOMAIN path = 1..(Len(bubble) + 1) /\ path[1] = a
      /\ \A i \in 2..(Len(bubble) + 1) : path[i] = m[i - 1]
  <2>1. Len(<<a>>) = 1 /\ <<a>>[1] = a
    OBVIOUS
  <2> DEFINE s == <<a>>
  <2>2. s \in Seq(Elem \X Types) /\ Len(s) = 1 /\ s[1] = a /\ path = s \o m
    BY <1>7, <2>1
  <2> HIDE DEF s, a, path
  <2> DEFINE P == Elem \X Types
  <2>a. s \in Seq(P) /\ m \in Seq(P) /\ Len(s) = 1 /\ path = s \o m
    BY <1>6, <2>2
  <2>b. \A i \in 1..(Len(m) + 1) : i > 1 => i - 1 \in 1..Len(m)
    BY <1>5, <1>6
  <2> HIDE DEF P
  <2>3. path \in Seq(Elem \X Types) /\ Len(path) = Len(m) + 1
    <3>1. path \in Seq(P)
      BY ONLY <2>a
    <3>2. Len(path) = Len(s) + Len(m)
      BY ONLY <2>a, ConcatProperties
    <3>3. QED
      BY <1>5, <1>6, <2>a, <3>1, <3>2 DEF P
  <2>4. \A i \in 1..(Len(m) + 1) : path[i] = IF i <= 1 THEN s[i] ELSE m[i - 1]
    <3>1. \A i \in 1..(Len(s) + Len(m)) : path[i] = IF i <= Len(s) THEN s[i] ELSE m[i - Len(s)]
      BY ONLY <2>a, ConcatProperties
    <3>2. Len(s) + Len(m) = Len(m) + 1
      BY <1>5, <1>6, <2>2
    <3>3. QED
      BY <2>2, <3>1, <3>2
  <2>5. QED
    BY <1>5, <1>6, <2>2, <2>3, <2>4
<1> HIDE DEF path
<1>9. ASSUME NEW i \in 2..(Len(bubble) + 1)
      PROVE  /\ i - 1 \in DOMAIN bubble /\ path[i] = <<bubble[i - 1], DelegateType(type)>>
             /\ path[i] # a
  <2> DEFINE k == i - 1
  <2>1. k \in DOMAIN m
    BY <1>5, <1>6
  <2>2. path[i] = m[k]
    BY <1>8
  <2> HIDE DEF k
  <2>3. k \in DOMAIN bubble /\ path[i] = <<bubble[k], DelegateType(type)>>
    BY <1>6, <2>1, <2>2
  <2>4. path[i] # a
    BY <1>3, <1>5, <2>3
  <2>5. QED
    BY <2>3, <2>4 DEF k
<1>10. ASSUME NEW i \in DOMAIN path, NEW j \in DOMAIN path, path[i] = path[j] PROVE i = j
  <2>1. i \in 1..(Len(bubble) + 1) /\ j \in 1..(Len(bubble) + 1) /\ Len(bubble) \in Nat
    BY <1>5, <1>8, <1>10
  <2>2. CASE i = 1 \/ j = 1
    <3>1. CASE i # 1
      <4>1. i \in 2..(Len(bubble) + 1) /\ j = 1
        BY <2>1, <2>2, <3>1
      <4>2. QED
        BY <1>8, <1>9, <1>10, <4>1
    <3>2. CASE j # 1
      <4>1. j \in 2..(Len(bubble) + 1) /\ i = 1
        BY <2>1, <2>2, <3>2
      <4>2. QED
        BY <1>8, <1>9, <1>10, <4>1
    <3>3. QED
      BY <3>1, <3>2
  <2>3. CASE i # 1 /\ j # 1
    <3>1. i \in 2..(Len(bubble) + 1) /\ j \in 2..(Len(bubble) + 1)
      BY <2>1, <2>3
    <3> DEFINE k == i - 1
               l == j - 1
    <3>2. /\ k \in DOMAIN bubble /\ path[i] = <<bubble[k], DelegateType(type)>>
          /\ l \in DOMAIN bubble /\ path[j] = <<bubble[l], DelegateType(type)>>
      BY <1>9, <3>1
    <3>3. bubble[k] = bubble[l]
      <4> DEFINE x == bubble[k]
                 y == bubble[l]
                 t == DelegateType(type)
      <4>1. <<x, t>> = <<y, t>>
        BY <1>10, <3>2
      <4> HIDE DEF x, y, t
      <4>2. x = y
        BY <4>1
      <4>3. QED
        BY <4>2 DEF x, y
    <3>4. k = l
      BY <1>5, <3>2, <3>3
    <3>5. QED
      BY <3>1, <3>4
  <2>4. QED
    BY <2>2, <2>3
<1>11. QED
  BY <1>4, <1>8, <1>10 DEF Straight

LEMMA TriggerEventFacts ==
  ASSUME NEW e \in Elem, NEW type \in Types \cup {"mouseenter"}, NEW ns \in {""} \cup STRING,
         NEW only \in BOOLEAN
  PROVE  New(TriggerEvent(e, type, ns, only), "trigger", type)
         /\ TriggerEvent(e, type, ns, only).only = only
<1> DEFINE at == <<e, BindType(type)>>
           path == IF only THEN <<at>> ELSE TriggerPath(e, type)
           g == Event("trigger", type, e, path)
           f == TriggerEvent(e, type, ns, only)
<1>1. path \in Seq(Elem \X Types) /\ Straight(path)
  <2>1. at \in Elem \X Types
    BY MapFacts
  <2> HIDE DEF at
  <2>2. <<at>> \in Seq(Elem \X Types) /\ DOMAIN <<at>> = {1}
    BY <2>1, OneFacts
  <2>3. Straight(<<at>>)
    BY <2>2 DEF Straight
  <2>4. QED
    BY <2>2, <2>3, TriggerPathFacts
<1> HIDE DEF path
<1>2. New(g, "trigger", type)
  BY <1>1, EventFacts
<1>3. f = [g EXCEPT !.ns = ns, !.only = only]
  BY DEF TriggerEvent, path
<1> HIDE DEF f, g
<1>4. g \in Told
  BY <1>2 DEF New
<1>5. f \in Told /\ f.only = only
  BY <1>3, <1>4 DEF Told, FramesOf
<1>6. f.kind = g.kind /\ f.type = g.type /\ f.pos = g.pos /\ f.queue = g.queue
      /\ f.current = g.current /\ f.todo = g.todo /\ f.told = g.told /\ f.begun = g.begun
      /\ f.path = g.path
  BY <1>3, <1>4 DEF Told, FramesOf
<1>7. New(f, "trigger", type)
  BY <1>2, <1>5, <1>6 DEF New
<1>8. QED
  BY <1>5, <1>7 DEF f

LEMMA NativeEventFacts ==
  ASSUME NEW e \in Elem, NEW type \in Types
  PROVE  New(NativeEvent(e, type), "native", type)
<1> DEFINE up == IF type \in {"focus", "blur"} THEN <<e>> ELSE Up(e, bound.gone)
           path == [i \in DOMAIN up |-> <<up[i], type>>]
<1>1. up \in Seq(Elem) /\ \A i, j \in DOMAIN up : up[i] = up[j] => i = j
  <2>1. <<e>> \in Seq(Elem) /\ \A i, j \in DOMAIN <<e>> : i = j
    OBVIOUS
  <2>2. QED
    BY <2>1, UpFacts
<1> HIDE DEF up
<1>2. Len(up) \in Nat /\ DOMAIN up = 1..Len(up) /\ \A i \in DOMAIN up : up[i] \in Elem
  BY <1>1
<1>3. /\ path \in Seq(Elem \X Types) /\ DOMAIN path = DOMAIN up
      /\ \A i \in DOMAIN path : path[i] = <<up[i], type>>
  BY <1>2
<1> HIDE DEF path
<1>4. Straight(path)
  BY <1>1, <1>3 DEF Straight
<1>5. \A p \in DOMAIN path : path[p][2] = type
  BY <1>3
<1>6. NativeEvent(e, type) = Event("native", type, e, path)
  BY DEF NativeEvent, path, up
<1>7. QED
  BY <1>3, <1>4, <1>5, <1>6, EventFacts

\* A list takes its handlers, each once, from the places in K of another.
Taken(l, hs, K) ==
    \E g \in [DOMAIN l -> K] :
        \A i \in DOMAIN l : l[i] = hs[g[i]] /\ \A j \in DOMAIN l : g[i] = g[j] => i = j
LEMMA QueueFrom ==
  ASSUME NEW q \in Seq(GroupRec), NEW hs \in Seq(HandlerRec), NEW K,
         \A i, j \in DOMAIN hs : hs[i].id = hs[j].id => i = j,
         \A a \in DOMAIN q : q[a].hs # <<>> /\ K[a] \subseteq DOMAIN hs /\ Taken(q[a].hs, hs, K[a]),
         \A a, b \in DOMAIN q : q[a].on = q[b].on => a = b,
         \A a, b \in DOMAIN q : a # b => \A k \in K[a] : k \in K[b] => Twice(hs[k])
  PROVE  QueueOK(q) /\ \A c \in Calls(q) : c[1] \in Elem /\ c[2] \in ToSet(hs)
<1>1. ASSUME NEW a \in DOMAIN q, NEW i \in DOMAIN q[a].hs
      PROVE  \E k \in K[a] : k \in DOMAIN hs /\ q[a].hs[i] = hs[k]
  <2>1. PICK g \in [DOMAIN q[a].hs -> K[a]] : \A j \in DOMAIN q[a].hs : q[a].hs[j] = hs[g[j]]
    BY DEF Taken
  <2>2. g[i] \in K[a] /\ q[a].hs[i] = hs[g[i]]
    BY <1>1, <2>1
  <2>3. QED
    BY <2>2
<1>2. ASSUME NEW a \in DOMAIN q, NEW b \in DOMAIN q, NEW i \in DOMAIN q[a].hs, NEW j \in DOMAIN q[b].hs,
             q[a].hs[i].id = q[b].hs[j].id
      PROVE  q[a].hs[i] = q[b].hs[j] /\ (a = b => i = j) /\ (a # b => Twice(q[a].hs[i]))
  <2>1. CASE a = b
    <3>1. PICK g \in [DOMAIN q[a].hs -> K[a]] :
             \A m \in DOMAIN q[a].hs : q[a].hs[m] = hs[g[m]] /\ \A n \in DOMAIN q[a].hs : g[m] = g[n] => m = n
      BY DEF Taken
    <3>2. i \in DOMAIN q[a].hs /\ j \in DOMAIN q[a].hs
      BY <1>2, <2>1
    <3>3. /\ g[i] \in K[a] /\ q[a].hs[i] = hs[g[i]] /\ g[j] \in K[a] /\ q[a].hs[j] = hs[g[j]]
      BY <3>1, <3>2
    <3>4. hs[g[i]].id = hs[g[j]].id
      BY <1>2, <2>1, <3>3
    <3>5. g[i] = g[j]
      BY <3>3, <3>4
    <3>6. i = j
      BY <3>1, <3>2, <3>5
    <3>7. QED
      BY <2>1, <3>6
  <2>2. CASE a # b
    <3>1. PICK k \in K[a] : k \in DOMAIN hs /\ q[a].hs[i] = hs[k]
      BY <1>1, <1>2
    <3>2. PICK m \in K[b] : m \in DOMAIN hs /\ q[b].hs[j] = hs[m]
      BY <1>1, <1>2
    <3>3. k = m
      BY <1>2, <3>1, <3>2
    <3>4. QED
      BY <2>2, <3>1, <3>2, <3>3
  <2>3. QED
    BY <2>1, <2>2
<1>3. QueueOK(q)
  <2>1. \A a \in DOMAIN q : q[a].hs # <<>>
    OBVIOUS
  <2>2. QED
    BY <1>2, <2>1 DEF QueueOK
<1>4. ASSUME NEW c \in Calls(q) PROVE c[1] \in Elem /\ c[2] \in ToSet(hs)
  <2>1. PICK a \in DOMAIN q : \E i \in DOMAIN q[a].hs : c = <<q[a].on, q[a].hs[i]>>
    BY <1>4 DEF Calls
  <2>2. PICK i \in DOMAIN q[a].hs : c = <<q[a].on, q[a].hs[i]>>
    BY <2>1
  <2>3. q[a] \in GroupRec
    OBVIOUS
  <2>4. q[a].on \in Elem
    BY <2>3 DEF GroupRec
  <2>5. \E k \in DOMAIN hs : q[a].hs[i] = hs[k]
    BY <1>1
  <2>6. QED
    BY <2>2, <2>4, <2>5 DEF ToSet
<1>5. QED
  BY <1>3, <1>4

\* What an element dispatches to.
LEMMA GroupsFacts ==
  ASSUME NEW e \in Elem, NEW t \in Types, NEW target \in Elem, NEW next,
         HandlersOK(bound, FALSE), IdsOK(bound, next)
  PROVE  LET q == Groups(e, t, target)
         IN /\ q \in Seq(GroupRec) /\ QueueOK(q)
            /\ \A c \in Calls(q) : c[1] \in Elem /\ c[2] \in Bound(bound, e, t)
<1> DEFINE hs == bound.events[e][t]
           d == bound.delegates[e][t]
           up == Up(target, bound.gone)
           fitting(c) == {i \in 1..d : c \in Match[hs[i].sel]}
           I == {i \in DOMAIN up : /\ up[i] # e /\ Within(up[i], e) /\ fitting(up[i]) # {}}
           inside == Picked(up, I)
           del == Delegated(e, t, target)
           direct == SubSeq(hs, d + 1, Len(hs))
           last == [on |-> e, hs |-> direct]
           tail == IF direct = <<>> THEN <<>> ELSE <<last>>
           q == del \o tail
<1>1. hs \in Seq(HandlerRec) /\ d \in Nat /\ d <= Len(hs) /\ Len(hs) \in Nat /\ DOMAIN hs = 1..Len(hs)
  <2>1. bound \in BoundRec /\ ListOK(bound, e, t)
    BY DEF HandlersOK
  <2>2. hs \in Seq(HandlerRec) /\ d \in Nat
    BY <2>1, BoundFields
  <2>3. d <= Len(hs)
    BY <2>1 DEF ListOK, Leads
  <2>4. QED
    BY <2>2, <2>3
<1>2. \A i \in DOMAIN hs : Far(hs[i]) <=> i <= d
  BY DEF HandlersOK, ListOK, Leads, Far
<1>3. \A i, j \in DOMAIN hs : hs[i].id = hs[j].id => i = j
  BY DEF IdsOK
<1>4. /\ up \in Seq(Elem) /\ Len(up) \in Nat
      /\ \A i, j \in DOMAIN up : up[i] = up[j] => i = j
      /\ \A i, j \in DOMAIN up : Within(up[i], up[j]) \/ Within(up[j], up[i])
  BY UpFacts
<1>5. Groups(e, t, target) = q
  BY DEF Groups
<1>6. del = [i \in DOMAIN inside |-> [on |-> inside[i], hs |-> Picked(hs, fitting(inside[i]))]]
  BY DEF Delegated
<1>7. \A c : fitting(c) \subseteq 1..d /\ \A i \in fitting(c) : c \in Match[hs[i].sel]
  OBVIOUS
<1>8. I \in SUBSET (DOMAIN up) /\ \A i \in I : up[i] # e /\ fitting(up[i]) # {}
  OBVIOUS
<1> HIDE DEF hs, d, up, fitting, I, del, direct, q
<1>9. /\ inside \in Seq(Elem)
      /\ \E g \in [DOMAIN inside -> I] : \A j \in DOMAIN inside : Place(I, g[j]) = j /\ inside[j] = up[g[j]]
  <2> HIDE DEF inside
  <2>1. QED
    BY <1>4, <1>8, PickedFacts DEF inside
<1> HIDE DEF inside
<1>10. PICK g \in [DOMAIN inside -> I] : \A j \in DOMAIN inside : Place(I, g[j]) = j /\ inside[j] = up[g[j]]
  BY <1>9
<1>11. ASSUME NEW i \in DOMAIN inside
       PROVE  /\ inside[i] \in Elem /\ inside[i] # e /\ fitting(inside[i]) # {}
              /\ g[i] \in DOMAIN up /\ inside[i] = up[g[i]]
  <2> DEFINE k == g[i]
  <2>1. k \in I /\ inside[i] = up[k]
    BY <1>10, <1>11
  <2> HIDE DEF k
  <2>2. inside[i] \in Elem
    BY <1>9, <1>11
  <2>3. QED
    BY <1>8, <2>1, <2>2 DEF k
<1>12. ASSUME NEW i \in DOMAIN inside, NEW j \in DOMAIN inside
       PROVE  /\ inside[i] = inside[j] => i = j
              /\ Within(inside[i], inside[j]) \/ Within(inside[j], inside[i])
  <2>1. inside[i] = inside[j] => g[i] = g[j]
    BY <1>4, <1>11
  <2>2. g[i] = g[j] => i = j
    BY <1>10
  <2>3. QED
    BY <1>4, <1>11, <2>1, <2>2
<1>13. ASSUME NEW c \in Elem
       PROVE  /\ Picked(hs, fitting(c)) \in Seq(HandlerRec)
              /\ fitting(c) # {} => Picked(hs, fitting(c)) # <<>>
              /\ fitting(c) \subseteq DOMAIN hs /\ Taken(Picked(hs, fitting(c)), hs, fitting(c))
  <2> DEFINE F == fitting(c)
             l == Picked(hs, F)
  <2>1. hs \in Seq(HandlerRec) /\ F \in SUBSET (DOMAIN hs)
    BY <1>1, <1>7
  <2> HIDE DEF F
  <2>a. l \in Seq(HandlerRec)
    BY ONLY <2>1, PickedFacts
  <2>b. \E f \in [DOMAIN l -> F] : \A j \in DOMAIN l : Place(F, f[j]) = j /\ l[j] = hs[f[j]]
    BY ONLY <2>1, PickedFacts
  <2>2. /\ l \in Seq(HandlerRec)
        /\ \E f \in [DOMAIN l -> F] : \A j \in DOMAIN l : Place(F, f[j]) = j /\ l[j] = hs[f[j]]
    BY <2>a, <2>b
  <2>3. Taken(l, hs, F)
    BY <2>2 DEF Taken
  <2>4. F # {} => l # <<>>
    <3>1. \A i \in F : Place(F, i) \in DOMAIN l
      BY ONLY <2>1, PickedFacts
    <3> HIDE DEF l
    <3>2. QED
      BY <3>1
  <2>5. QED
    BY <2>1, <2>2, <2>3, <2>4 DEF F, l
<1>14. /\ del \in Seq(GroupRec) /\ Len(del) = Len(inside) /\ DOMAIN del = DOMAIN inside
       /\ Len(del) \in Nat /\ DOMAIN del = 1..Len(del)
       /\ \A i \in DOMAIN del : del[i].on = inside[i] /\ del[i].hs = Picked(hs, fitting(inside[i]))
  <2>1. \A i \in DOMAIN inside : [on |-> inside[i], hs |-> Picked(hs, fitting(inside[i]))] \in GroupRec
    BY <1>11, <1>13 DEF GroupRec
  <2>2. Len(inside) \in Nat /\ DOMAIN inside = 1..Len(inside)
    BY <1>9
  <2>3. del \in Seq(GroupRec) /\ Len(del) = Len(inside) /\ DOMAIN del = DOMAIN inside
    BY <1>6, <2>1, <2>2
  <2>4. QED
    BY <1>6, <2>2, <2>3
<1>15. /\ direct \in Seq(HandlerRec)
       /\ Taken(direct, hs, (d + 1)..Len(hs))
  <2>1. /\ direct \in Seq(HandlerRec) /\ DOMAIN direct = 1..(Len(hs) - (d + 1) + 1)
        /\ \A i \in 1..(Len(hs) - (d + 1) + 1) : direct[i] = hs[(d + 1) + i - 1]
    <3>1. d + 1 \in Nat /\ d + 1 > 0 /\ Len(hs) \in Nat /\ Len(hs) <= Len(hs) /\ d + 1 <= Len(hs) + 1
      BY <1>1
    <3>2. QED
      BY <1>1, <3>1, SubFacts DEF direct
  <2> DEFINE f == [i \in DOMAIN direct |-> d + i]
  <2>2. f \in [DOMAIN direct -> (d + 1)..Len(hs)]
    BY <1>1, <2>1
  <2>3. \A i \in DOMAIN direct : f[i] = d + i /\ direct[i] = hs[d + i]
    <3>1. SUFFICES ASSUME NEW i \in DOMAIN direct PROVE direct[i] = hs[d + i]
      OBVIOUS
    <3>2. (d + 1) + i - 1 = d + i
      BY <1>1, <2>1
    <3>3. QED
      BY <2>1, <3>2
  <2>4. \A i, j \in DOMAIN direct : d + i = d + j => i = j
    BY <1>1, <2>1
  <2> HIDE DEF f
  <2>5. \A i \in DOMAIN direct : direct[i] = hs[f[i]] /\ \A j \in DOMAIN direct : f[i] = f[j] => i = j
    BY <2>3, <2>4
  <2>6. QED
    BY <2>1, <2>2, <2>5 DEF Taken
<1> DEFINE n == Len(del)
           K == [a \in 1..(n + 1) |-> IF a <= n THEN fitting(inside[a]) ELSE (d + 1)..Len(hs)]
<1>16. /\ tail \in Seq(GroupRec) /\ Len(tail) \in {0, 1}
       /\ Len(tail) = 1 => direct # <<>> /\ tail[1] = last
  <2>1. last \in GroupRec
    BY <1>15 DEF GroupRec
  <2> HIDE DEF last
  <2>2. QED
    BY <2>1
<1> HIDE DEF tail, n
<1>17. /\ q \in Seq(GroupRec) /\ Len(q) = n + Len(tail) /\ DOMAIN q = 1..(n + Len(tail))
       /\ \A a \in 1..(n + Len(tail)) : q[a] = IF a <= n THEN del[a] ELSE tail[a - n]
  <2>a. del \in Seq(GroupRec) /\ tail \in Seq(GroupRec) /\ q = del \o tail
    BY <1>14, <1>16 DEF q
  <2>1. /\ q \in Seq(GroupRec) /\ Len(q) = Len(del) + Len(tail)
        /\ \A a \in 1..(Len(del) + Len(tail)) : q[a] = IF a <= Len(del) THEN del[a] ELSE tail[a - Len(del)]
    BY ONLY <2>a, ConcatProperties
  <2>2. DOMAIN q = 1..Len(q)
    BY <2>1
  <2>3. QED
    BY <2>1, <2>2 DEF n
<1>18. ASSUME NEW a \in DOMAIN q
       PROVE  \/ /\ a <= n /\ a \in DOMAIN inside /\ K[a] = fitting(inside[a])
                 /\ q[a].on = inside[a] /\ q[a].hs = Picked(hs, fitting(inside[a]))
              \/ /\ a = n + 1 /\ K[a] = (d + 1)..Len(hs)
                 /\ q[a].on = e /\ q[a].hs = direct /\ direct # <<>>
  <2>1. n \in Nat /\ a \in 1..(n + Len(tail)) /\ DOMAIN del = 1..n /\ DOMAIN del = DOMAIN inside
    BY <1>14, <1>17, <1>18 DEF n
  <2>2. CASE a <= n
    <3>1. a \in DOMAIN del /\ q[a] = del[a] /\ K[a] = fitting(inside[a])
      BY <1>16, <1>17, <2>1, <2>2
    <3> HIDE DEF K
    <3>2. QED
      BY <1>14, <2>1, <2>2, <3>1
  <2>3. CASE a > n
    <3>1. Len(tail) = 1 /\ a = n + 1
      <4>1. Len(tail) = 0 \/ Len(tail) = 1
        BY <1>16
      <4>2. a \in Nat /\ a <= n + Len(tail)
        BY <2>1, <4>1
      <4>3. Len(tail) # 0
        BY <2>1, <2>3, <4>2
      <4>4. a <= n + 1
        BY <2>1, <4>1, <4>2, <4>3
      <4>5. a = n + 1
        BY <2>1, <2>3, <4>2, <4>4
      <4>6. QED
        BY <4>1, <4>3, <4>5
    <3>2. q[a] = tail[1]
      BY <1>17, <2>1, <3>1
    <3>3. K[a] = (d + 1)..Len(hs)
      BY <2>1, <3>1
    <3>4. tail[1].on = e /\ tail[1].hs = direct /\ direct # <<>>
      BY <1>16, <3>1
    <3>5. QED
      BY <3>1, <3>2, <3>3, <3>4
  <2>4. QED
    BY <2>1, <2>2, <2>3
<1> HIDE DEF K, last
<1>19. ASSUME NEW a \in DOMAIN q
       PROVE  q[a].hs # <<>> /\ K[a] \subseteq DOMAIN hs /\ Taken(q[a].hs, hs, K[a])
  <2>1. (d + 1)..Len(hs) \subseteq DOMAIN hs
    BY <1>1
  <2>2. QED
    BY <1>11, <1>13, <1>15, <1>18, <2>1
<1>20. ASSUME NEW a \in DOMAIN q, NEW b \in DOMAIN q, q[a].on = q[b].on PROVE a = b
  BY <1>11, <1>12, <1>18, <1>20
<1>21. ASSUME NEW a \in DOMAIN q, NEW b \in DOMAIN q, a # b, NEW k \in K[a], k \in K[b]
       PROVE  Twice(hs[k])
  <2>1. a \in DOMAIN inside /\ b \in DOMAIN inside /\ k \in fitting(inside[a]) /\ k \in fitting(inside[b])
    <3>1. \A c : \A i \in fitting(c) : i \in Nat /\ i <= d
      BY <1>1, <1>7
    <3>2. \A i \in (d + 1)..Len(hs) : ~(i <= d)
      BY <1>1
    <3>3. QED
      BY <1>18, <1>21, <3>1, <3>2
  <2> DEFINE sel == hs[k].sel
  <2>2. inside[a] \in Match[sel] /\ inside[b] \in Match[sel] /\ inside[a] # inside[b]
    BY <1>7, <1>12, <1>21, <2>1
  <2>3. Nests(sel)
    <3>1. Within(inside[a], inside[b]) \/ Within(inside[b], inside[a])
      BY <1>12, <2>1
    <3> HIDE DEF sel
    <3>2. QED
      BY <2>2, <3>1 DEF Nests
  <2>4. Far(hs[k])
    <3>1. k \in DOMAIN hs /\ k <= d
      BY <1>1, <1>7, <2>1
    <3>2. QED
      BY <1>2, <3>1
  <2>5. QED
    BY <2>3, <2>4 DEF Twice, Far
<1>22. QueueOK(q) /\ \A c \in Calls(q) : c[1] \in Elem /\ c[2] \in ToSet(hs)
  <2>1. q \in Seq(GroupRec) /\ hs \in Seq(HandlerRec)
    BY <1>1, <1>17
  <2>2. QED
    BY ONLY <2>1, <1>3, <1>19, <1>20, <1>21, QueueFrom
<1>23. QED
  BY <1>5, <1>17, <1>22 DEF hs, Bound

\* r calls in its order a part of what q does: its group a is the group m[a] of
\* q but for the first s[a] handlers.
Part(r, q, m, s) ==
    \A a \in DOMAIN r :
        /\ m[a] \in DOMAIN q /\ s[a] \in Nat /\ r[a].on = q[m[a]].on /\ r[a].hs # <<>>
        /\ \A b \in DOMAIN r : m[a] = m[b] => a = b
        /\ \A i \in DOMAIN r[a].hs : /\ i + s[a] \in DOMAIN q[m[a]].hs
                                     /\ r[a].hs[i] = q[m[a]].hs[i + s[a]]
LEMMA PartFacts ==
  ASSUME NEW q \in Seq(GroupRec), NEW r \in Seq(GroupRec), NEW m, NEW s, Part(r, q, m, s), QueueOK(q)
  PROVE  /\ QueueOK(r) /\ Calls(r) \subseteq Calls(q)
         /\ \A c \in Calls(r) : \E a \in DOMAIN r : \E i \in DOMAIN r[a].hs :
               c = <<q[m[a]].on, q[m[a]].hs[i + s[a]]>>
<1>1. ASSUME NEW a \in DOMAIN r
      PROVE  /\ m[a] \in DOMAIN q /\ s[a] \in Nat /\ r[a].on = q[m[a]].on /\ r[a].hs # <<>>
             /\ \A b \in DOMAIN r : m[a] = m[b] => a = b
             /\ \A i \in DOMAIN r[a].hs : /\ i + s[a] \in DOMAIN q[m[a]].hs /\ i \in Nat
                                          /\ r[a].hs[i] = q[m[a]].hs[i + s[a]]
  <2>0. r[a] \in GroupRec
    OBVIOUS
  <2>1. r[a].hs \in Seq(HandlerRec)
    BY <2>0 DEF GroupRec
  <2>2. DOMAIN r[a].hs \subseteq Nat
    BY <2>1
  <2>3. QED
    BY <2>2 DEF Part
<1>2. ASSUME NEW a \in DOMAIN r, NEW b \in DOMAIN r, r[a].on = r[b].on PROVE a = b
  <2>1. q[m[a]].on = q[m[b]].on /\ m[a] \in DOMAIN q /\ m[b] \in DOMAIN q
    BY <1>1, <1>2
  <2>2. m[a] = m[b]
    BY <2>1 DEF QueueOK
  <2>3. QED
    BY <1>1, <2>2
<1>3. ASSUME NEW a \in DOMAIN r, NEW b \in DOMAIN r, NEW i \in DOMAIN r[a].hs, NEW j \in DOMAIN r[b].hs,
             r[a].hs[i].id = r[b].hs[j].id
      PROVE  r[a].hs[i] = r[b].hs[j] /\ (a = b => i = j) /\ (a # b => Twice(r[a].hs[i]))
  <2> DEFINE x == m[a]
             y == m[b]
             k == i + s[a]
             l == j + s[b]
  <2>1. /\ x \in DOMAIN q /\ y \in DOMAIN q /\ k \in DOMAIN q[x].hs /\ l \in DOMAIN q[y].hs
        /\ r[a].hs[i] = q[x].hs[k] /\ r[b].hs[j] = q[y].hs[l]
    BY <1>1, <1>3
  <2>2. (x = y <=> a = b) /\ (a = b /\ k = l => i = j)
    BY <1>1, <1>3
  <2> HIDE DEF x, y, k, l
  <2>3. q[x].hs[k] = q[y].hs[l] /\ (x = y => k = l) /\ (x # y => Twice(q[x].hs[k]))
    BY <1>3, <2>1 DEF QueueOK
  <2>4. QED
    BY <2>1, <2>2, <2>3
<1>4. \A a \in DOMAIN r : r[a].hs # <<>>
  BY <1>1
<1>5. QueueOK(r)
  BY <1>2, <1>3, <1>4 DEF QueueOK
<1>6. ASSUME NEW c \in Calls(r)
      PROVE  \E a \in DOMAIN r : \E i \in DOMAIN r[a].hs : c = <<q[m[a]].on, q[m[a]].hs[i + s[a]]>>
  <2>1. PICK a \in DOMAIN r : \E i \in DOMAIN r[a].hs : c = <<r[a].on, r[a].hs[i]>>
    BY <1>6 DEF Calls
  <2>2. PICK i \in DOMAIN r[a].hs : c = <<r[a].on, r[a].hs[i]>>
    BY <2>1
  <2>3. QED
    BY <1>1, <2>2
<1>7. Calls(r) \subseteq Calls(q)
  <2>1. SUFFICES ASSUME NEW c \in Calls(r) PROVE c \in Calls(q)
    OBVIOUS
  <2>2. PICK a \in DOMAIN r : \E i \in DOMAIN r[a].hs : c = <<q[m[a]].on, q[m[a]].hs[i + s[a]]>>
    BY <1>6
  <2>3. PICK i \in DOMAIN r[a].hs : c = <<q[m[a]].on, q[m[a]].hs[i + s[a]]>>
    BY <2>2
  <2> DEFINE x == m[a]
             k == i + s[a]
  <2>4. x \in DOMAIN q /\ k \in DOMAIN q[x].hs /\ c = <<q[x].on, q[x].hs[k]>>
    BY <1>1, <2>3
  <2> HIDE DEF x, k
  <2>5. QED
    BY <2>4 DEF Calls
<1>8. QED
  BY <1>5, <1>6, <1>7

\* The call of the first handler, and what is left then.
Left(q) ==
    IF Len(q[1].hs) = 1 THEN Tail(q) ELSE <<[q[1] EXCEPT !.hs = Tail(@)]>> \o Tail(q)
LEMMA LeftFacts ==
  ASSUME NEW q \in Seq(GroupRec), QueueOK(q), q # <<>>
  PROVE  LET h == q[1].hs[1]
             r == Left(q)
         IN /\ q[1] \in GroupRec /\ q[1].on \in Elem /\ h \in HandlerRec /\ <<q[1].on, h>> \in Calls(q)
            /\ r \in Seq(GroupRec) /\ QueueOK(r) /\ Calls(r) \subseteq Calls(q)
            /\ \A c \in Calls(r) : c[2].id = h.id => c[2] = h /\ c[1] # q[1].on /\ Twice(h)
<1> DEFINE g == q[1]
           h == g.hs[1]
           r == Left(q)
           n == Len(q)
           short == Len(g.hs) = 1
           m == [a \in 1..n |-> IF short THEN a + 1 ELSE a]
           s == [a \in 1..n |-> IF ~short /\ a = 1 THEN 1 ELSE 0]
<1>1. n \in Nat /\ n > 0 /\ DOMAIN q = 1..n /\ \A a \in 1..n : q[a] \in GroupRec
  OBVIOUS
<1>2. \A a \in 1..n : q[a].on \in Elem /\ q[a].hs \in Seq(HandlerRec) /\ q[a].hs # <<>>
  BY <1>1 DEF GroupRec, QueueOK
<1>3. 1 \in DOMAIN q /\ g \in GroupRec /\ g.on \in Elem /\ g.hs \in Seq(HandlerRec) /\ g.hs # <<>>
  BY <1>1, <1>2
<1>4. 1 \in DOMAIN g.hs /\ h \in HandlerRec /\ Len(g.hs) \in Nat /\ Len(g.hs) > 0
  <2> HIDE DEF g
  <2>1. QED
    BY <1>3
<1>5. <<g.on, h>> \in Calls(q)
  BY <1>3, <1>4 DEF Calls
<1>6. /\ Tail(q) \in Seq(GroupRec) /\ Len(Tail(q)) = n - 1 /\ DOMAIN Tail(q) = 1..(n - 1)
      /\ \A a \in 1..(n - 1) : Tail(q)[a] = q[a + 1]
  BY <1>1
<1> DEFINE t == [g EXCEPT !.hs = Tail(@)]
<1>7. /\ t.on = g.on /\ t \in GroupRec /\ t.hs = Tail(g.hs)
  <2>1. Tail(g.hs) \in Seq(HandlerRec)
    BY <1>3
  <2> HIDE DEF g
  <2>2. QED
    BY <1>3, <2>1 DEF GroupRec
<1>8. r = IF short THEN Tail(q) ELSE <<t>> \o Tail(q)
  BY DEF Left
<1> HIDE DEF t, r, short
<1>9. /\ r \in Seq(GroupRec)
      /\ short => DOMAIN r = 1..(n - 1) /\ \A a \in 1..(n - 1) : r[a] = q[a + 1]
      /\ ~short => /\ DOMAIN r = 1..n /\ r[1] = t /\ \A a \in 2..n : r[a] = q[a]
  <2>1. CASE short
    BY <1>6, <1>8, <2>1
  <2>2. CASE ~short
    <3> DEFINE u == <<t>>
    <3>1. u \in Seq(GroupRec) /\ Len(u) = 1 /\ u[1] = t
      BY <1>7
    <3>2. r = u \o Tail(q)
      BY <1>8, <2>2
    <3> DEFINE v == Tail(q)
    <3>3. v \in Seq(GroupRec) /\ Len(v) = n - 1 /\ \A a \in 1..(n - 1) : v[a] = q[a + 1]
      BY <1>6
    <3> HIDE DEF u, v
    <3>a. u \in Seq(GroupRec) /\ v \in Seq(GroupRec)
      BY <3>1, <3>3
    <3>4. /\ u \o v \in Seq(GroupRec) /\ Len(u \o v) = Len(u) + Len(v)
          /\ \A i \in 1..(Len(u) + Len(v)) : (u \o v)[i] = IF i <= Len(u) THEN u[i] ELSE v[i - Len(u)]
      BY ONLY <3>a, ConcatProperties
    <3>5. r = u \o v
      BY <3>2 DEF v
    <3>6. Len(u) + Len(v) = n
      BY <1>1, <3>1, <3>3
    <3>7. r \in Seq(GroupRec) /\ DOMAIN r = 1..n
      BY <3>4, <3>5, <3>6
    <3>8. r[1] = t
      BY <1>1, <3>1, <3>4, <3>5, <3>6
    <3>9. ASSUME NEW a \in 2..n PROVE r[a] = q[a]
      <4> DEFINE b == a - 1
      <4>1. b \in 1..(n - 1) /\ b + 1 = a /\ ~(a <= 1) /\ a \in 1..n
        BY <1>1
      <4>2. r[a] = v[b]
        BY <3>1, <3>4, <3>5, <3>6, <4>1
      <4> HIDE DEF b
      <4>3. QED
        BY <3>3, <4>1, <4>2
    <3>10. QED
      BY <2>2, <3>7, <3>8, <3>9
  <2>3. QED
    BY <2>1, <2>2
<1>10. ASSUME NEW a \in DOMAIN r
       PROVE  /\ m[a] \in DOMAIN q /\ s[a] \in Nat /\ r[a].on = q[m[a]].on /\ r[a].hs # <<>>
              /\ \A b \in DOMAIN r : m[a] = m[b] => a = b
              /\ \A i \in DOMAIN r[a].hs : /\ i + s[a] \in DOMAIN q[m[a]].hs /\ i \in Nat /\ i > 0
                                           /\ r[a].hs[i] = q[m[a]].hs[i + s[a]]
              /\ m[a] = 1 => s[a] = 1
  <2>1. CASE short
    <3>1. a \in 1..(n - 1) /\ a \in 1..n /\ a + 1 \in 1..n /\ a + 1 # 1
      BY <1>1, <1>9, <1>10, <2>1
    <3>2. m[a] = a + 1 /\ s[a] = 0 /\ r[a] = q[a + 1]
      BY <1>9, <2>1, <3>1
    <3>3. \A b \in DOMAIN r : b \in Nat /\ m[b] = b + 1
      BY <1>1, <1>9, <2>1
    <3> DEFINE k == a + 1
    <3>4. k \in DOMAIN q /\ k # 1 /\ q[k].on \in Elem /\ q[k].hs \in Seq(HandlerRec) /\ q[k].hs # <<>>
      BY <1>1, <1>2, <3>1
    <3>5. \A b \in DOMAIN r : m[a] = m[b] => a = b
      BY <3>1, <3>2, <3>3
    <3> HIDE DEF k, m, s
    <3>6. m[a] = k /\ s[a] = 0 /\ r[a] = q[k]
      BY <3>2 DEF k
    <3>7. \A i \in DOMAIN q[k].hs : i \in Nat /\ i > 0 /\ i + 0 = i
      BY <3>4
    <3>8. QED
      BY <3>4, <3>5, <3>6, <3>7
  <2>2. CASE ~short
    <3>1. a \in 1..n /\ m[a] = a /\ \A b \in DOMAIN r : m[b] = b
      BY <1>9, <1>10, <2>2
    <3>2. CASE a = 1
      <4>1. s[a] = 1 /\ r[a] = t
        BY <1>9, <2>2, <3>1, <3>2
      <4>2. Tail(g.hs) # <<>> /\ \A i \in DOMAIN Tail(g.hs) :
               i \in Nat /\ i > 0 /\ i + 1 \in DOMAIN g.hs /\ Tail(g.hs)[i] = g.hs[i + 1]
        <5> DEFINE l == g.hs
        <5>a. l \in Seq(HandlerRec) /\ Len(l) \in Nat /\ Len(l) > 0
          BY <1>3, <1>4
        <5>b. Len(l) # 1
          BY <2>2 DEF short
        <5> HIDE DEF l
        <5>1. l \in Seq(HandlerRec) /\ Len(l) > 1
          <6>1. \A x \in Nat : x > 0 /\ x # 1 => x > 1
            OBVIOUS
          <6>2. QED
            BY ONLY <5>a, <5>b, <6>1
        <5>2. Len(Tail(l)) = Len(l) - 1 /\ DOMAIN Tail(l) = 1..(Len(l) - 1)
              /\ \A i \in 1..(Len(l) - 1) : Tail(l)[i] = l[i + 1]
          BY <5>1
        <5>c. 1 \in DOMAIN Tail(l)
          BY <5>a, <5>1, <5>2
        <5>3. Tail(l) # <<>>
          BY ONLY <5>c, DOMAIN <<>> = {}
        <5>4. QED
          BY <5>1, <5>2, <5>3 DEF l
      <4> HIDE DEF m, s
      <4>3. m[a] = 1 /\ q[m[a]] = g /\ r[a].on = g.on /\ r[a].hs = Tail(g.hs) /\ s[a] \in Nat
        BY <1>7, <3>1, <3>2, <4>1
      <4>4. \A b \in DOMAIN r : m[a] = m[b] => a = b
        BY <3>1
      <4>5. m[a] \in DOMAIN q
        BY <1>3, <4>3
      <4> HIDE DEF g
      <4>6. QED
        BY <4>1, <4>2, <4>3, <4>4, <4>5
    <3>3. CASE a # 1
      <4>a. a \in 2..n
        BY <1>1, <3>1, <3>3
      <4>b. s[a] = 0
        BY <3>1, <3>3
      <4>1. s[a] = 0 /\ r[a] = q[a]
        BY <1>9, <2>2, <4>a, <4>b
      <4>2. \A i \in DOMAIN q[a].hs : i \in Nat /\ i > 0 /\ i + 0 = i
        <5>1. q[a].hs \in Seq(HandlerRec)
          BY <1>2, <3>1
        <5>2. QED
          BY <5>1
      <4> HIDE DEF m, s
      <4>3. QED
        BY <1>1, <1>2, <3>1, <3>3, <4>1, <4>2
    <3>4. QED
      BY <3>2, <3>3
  <2>3. QED
    BY <2>1, <2>2
<1> HIDE DEF m, s, n
<1>11. Part(r, q, m, s)
  BY <1>10 DEF Part
<1>12. /\ QueueOK(r) /\ Calls(r) \subseteq Calls(q)
       /\ \A c \in Calls(r) : \E a \in DOMAIN r : \E i \in DOMAIN r[a].hs :
             c = <<q[m[a]].on, q[m[a]].hs[i + s[a]]>>
  BY <1>9, <1>11, PartFacts
<1>13. ASSUME NEW c \in Calls(r), c[2].id = h.id
       PROVE  c[2] = h /\ c[1] # g.on /\ Twice(h)
  <2>1. PICK a \in DOMAIN r : \E i \in DOMAIN r[a].hs : c = <<q[m[a]].on, q[m[a]].hs[i + s[a]]>>
    BY <1>12
  <2>2. PICK i \in DOMAIN r[a].hs : c = <<q[m[a]].on, q[m[a]].hs[i + s[a]]>>
    BY <2>1
  <2> DEFINE x == m[a]
             k == i + s[a]
  <2>3. x \in DOMAIN q /\ k \in DOMAIN q[x].hs /\ c = <<q[x].on, q[x].hs[k]>> /\ (x = 1 => k # 1)
    BY <1>10, <2>2
  <2> HIDE DEF x, k
  <2>4. q[x].hs[k].id = q[1].hs[1].id
    BY <1>13, <2>3
  <2>5. q[x].hs[k] = q[1].hs[1] /\ (x = 1 => k = 1) /\ (x # 1 => Twice(q[x].hs[k]))
    BY <1>3, <1>4, <2>3, <2>4 DEF QueueOK
  <2>6. x # 1 /\ q[x].on # q[1].on
    BY <1>3, <2>3, <2>5 DEF QueueOK
  <2>7. QED
    BY <2>3, <2>5, <2>6
<1>14. QED
  BY <1>3, <1>4, <1>5, <1>9, <1>12, <1>13 DEF r

LEMMA FrameFields ==
  ASSUME NEW f \in FrameRec
  PROVE  /\ f.kind \in {"trigger", "native", "method"} /\ f.type \in Types \cup {"mouseenter"}
         /\ f.target \in Elem /\ f.path \in Seq(Elem \X Types) /\ f.pos \in Nat
         /\ f.queue \in Seq(GroupRec) /\ f.on \in Elem /\ f.current \in HandlerRec \cup {NoHandler}
         /\ f.stopped \in BOOLEAN /\ f.prevented \in BOOLEAN /\ f.only \in BOOLEAN
         /\ f.begun \in BOOLEAN /\ f.todo \in Seq(Told) /\ f.told \in SUBSET (Nat \X Elem)
BY DEF FrameRec, FramesOf

LEMMA CallsFields ==
  ASSUME NEW q \in Seq(GroupRec), NEW c \in Calls(q)
  PROVE  c[1] \in Elem /\ c[2] \in HandlerRec /\ c[2].id \in Nat /\ c = <<c[1], c[2]>>
<1>1. PICK a \in DOMAIN q : \E i \in DOMAIN q[a].hs : c = <<q[a].on, q[a].hs[i]>>
  BY DEF Calls
<1>2. PICK i \in DOMAIN q[a].hs : c = <<q[a].on, q[a].hs[i]>>
  BY <1>1
<1>3. q[a] \in GroupRec
  OBVIOUS
<1>4. q[a].on \in Elem /\ q[a].hs \in Seq(HandlerRec)
  BY <1>3 DEF GroupRec
<1>5. q[a].hs[i] \in HandlerRec
  BY <1>4
<1>6. q[a].hs[i].id \in Nat
  BY <1>5 DEF HandlerRec
<1>7. QED
  BY <1>2, <1>4, <1>5, <1>6

LEMMA BoundHandlers ==
  ASSUME NEW B \in BoundRec, NEW e \in Elem, NEW t \in Types, NEW h \in Bound(B, e, t)
  PROVE  h \in HandlerRec /\ h.id \in Nat
<1>1. B.events[e][t] \in Seq(HandlerRec)
  BY BoundFields
<1>2. PICK i \in DOMAIN B.events[e][t] : h = B.events[e][t][i]
  BY DEF Bound, ToSet
<1>3. h \in HandlerRec
  BY <1>1, <1>2
<1>4. QED
  BY <1>3 DEF HandlerRec

\* What the program binds and unbinds leaves the events under way in order.
LEMMA KeepFrame ==
  ASSUME NEW f \in FrameRec, NEW B \in BoundRec, NEW C \in BoundRec, NEW next \in Nat,
         NEW later \in Nat, next <= later, FrameOK(f, B, next), Grown(C, B, next)
  PROVE  FrameOK(f, C, later) /\ (Fresh(f, B) => Fresh(f, C))
<1>1. f.queue \in Seq(GroupRec) /\ f.told \in SUBSET (Nat \X Elem) /\ f.path \in Seq(Elem \X Types)
      /\ f.pos \in Nat
  BY FrameFields
<1>2. ASSUME NEW c \in Calls(f.queue)
      PROVE  CallOK(c[2], f.path[f.pos], C, later) /\ c[2].id < next
  <2> DEFINE h == c[2]
             at == f.path[f.pos]
  <2>1. h \in HandlerRec /\ h.id \in Nat
    BY <1>1, CallsFields
  <2>2. CallOK(h, at, B, next)
    BY DEF FrameOK
  <2> HIDE DEF h, at
  <2>3. h.id < next /\ h.type = MappedType(h.origType, h.sel) /\ h.type = at[2]
    BY <2>2 DEF CallOK, Proper
  <2>4. Proper(h, later)
    BY <2>1, <2>3 DEF Proper
  <2>5. ASSUME NEW e \in Elem, NEW t \in Types, NEW k \in Bound(C, e, t), k.id = h.id
        PROVE  k = h /\ <<e, t>> = at
    <3>1. k \in Bound(B, e, t)
      <4>1. k \in Bound(B, e, t) \/ k.id >= next
        BY DEF Grown
      <4>2. ~(k.id >= next)
        BY <2>1, <2>3, <2>5
      <4>3. QED
        BY <4>1, <4>2
    <3>2. QED
      BY <2>2, <2>5, <3>1 DEF CallOK
  <2>6. CallOK(h, at, C, later)
    BY <2>3, <2>4, <2>5 DEF CallOK
  <2>7. QED
    BY <2>3, <2>6 DEF h, at
<1>3. \A x \in f.told : x[1] < next /\ x[1] < later /\ x[1] \in Nat
  <2>1. \A x \in f.told : x[1] < next /\ x[1] \in Nat
    BY <1>1 DEF FrameOK
  <2>2. QED
    BY <2>1
<1>4. FrameOK(f, C, later)
  BY <1>2, <1>3 DEF FrameOK
<1>5. ASSUME Fresh(f, B) PROVE Fresh(f, C)
  <2>1. ASSUME NEW p \in DOMAIN f.path, p > f.pos,
               NEW h \in Bound(C, f.path[p][1], f.path[p][2])
        PROVE  (\A x \in f.told : x[1] # h.id) /\ \A c \in Calls(f.queue) : c[2].id # h.id
    <3> DEFINE e == f.path[p][1]
               t == f.path[p][2]
    <3>1. f.path[p] \in Elem \X Types
      BY <1>1
    <3>2. e \in Elem /\ t \in Types
      BY <3>1
    <3>3. h \in Bound(C, e, t)
      BY <2>1
    <3>4. (\A k \in Bound(B, e, t) : (\A x \in f.told : x[1] # k.id) /\ \A c \in Calls(f.queue) : c[2].id # k.id)
      BY <1>5, <2>1 DEF Fresh
    <3> HIDE DEF e, t
    <3>5. h \in Bound(B, e, t) \/ h.id >= next
      BY <3>2, <3>3 DEF Grown
    <3>6. h.id \in Nat
      BY <3>2, <3>3, BoundHandlers
    <3>7. CASE h \in Bound(B, e, t)
      BY <3>4, <3>7
    <3>8. CASE h.id >= next
      <4>1. \A c \in Calls(f.queue) : c[2].id \in Nat /\ c[2].id < next
        BY <1>1, <1>2, CallsFields
      <4>2. QED
        BY <1>3, <3>6, <3>8, <4>1
    <3>9. QED
      BY <3>5, <3>7, <3>8
  <2>2. QED
    BY <1>5, <2>1 DEF Fresh
<1>6. QED
  BY <1>4, <1>5

LEMMA KeepStack ==
  ASSUME NEW st, NEW B \in BoundRec, NEW C \in BoundRec, NEW next \in Nat,
         NEW later \in Nat, next <= later, StackOK(st, B, next), Grown(C, B, next), NEW tr
  PROVE  StackOK(st, C, later) /\ (ToldOK(st, B, tr) => ToldOK(st, C, tr))
<1>1. st \in Seq(FrameRec)
  BY DEF StackOK
<1>2. ASSUME NEW i \in DOMAIN st
      PROVE  FrameOK(st[i], C, later) /\ (Fresh(st[i], B) => Fresh(st[i], C))
  <2>1. st[i] \in FrameRec /\ FrameOK(st[i], B, next)
    BY <1>1, <1>2 DEF StackOK
  <2>2. QED
    BY <2>1, KeepFrame
<1>3. ASSUME NEW i \in DOMAIN st, NEW j \in DOMAIN st[i].todo
      PROVE  TodoOK(st[i].todo[j], later)
  <2> DEFINE n == st[i].todo[j]
  <2>1. st[i] \in FrameRec
    BY <1>1, <1>3
  <2>2. st[i].todo \in Seq(Told)
    BY <2>1, FrameFields
  <2>3. n \in Told
    BY <1>3, <2>2
  <2>4. TodoOK(n, next)
    BY <1>3 DEF StackOK
  <2> HIDE DEF n
  <2>5. n.told \in SUBSET (Nat \X Elem)
    BY <2>3 DEF Told, FramesOf
  <2>6. \A x \in n.told : x[1] < next /\ x[1] \in Nat
    BY <2>4, <2>5 DEF TodoOK
  <2>7. \A x \in n.told : x[1] < later
    BY <2>6
  <2>8. TodoOK(n, later)
    BY <2>4, <2>7 DEF TodoOK
  <2>9. QED
    BY <2>8 DEF n
<1>4. StackOK(st, C, later)
  BY <1>1, <1>2, <1>3 DEF StackOK
<1>5. ASSUME ToldOK(st, B, tr) PROVE ToldOK(st, C, tr)
  <2>1. \A i \in DOMAIN st : Fresh(st[i], C) \/ (tr # "none" /\ Hushed(st[i], tr))
    BY <1>2, <1>5 DEF ToldOK
  <2>2. ASSUME tr # "none"
        PROVE  \E m \in DOMAIN st :
                  /\ st[m].kind = "method" /\ \A k \in 1..(m - 1) : Fresh(st[k], C)
                  /\ \A k \in DOMAIN st : k > m => st[k].kind # "method" /\ ~Acting(st[k])
    <3>1. PICK m \in DOMAIN st :
             /\ st[m].kind = "method" /\ \A k \in 1..(m - 1) : Fresh(st[k], B)
             /\ \A k \in DOMAIN st : k > m => st[k].kind # "method" /\ ~Acting(st[k])
      BY <1>5, <2>2 DEF ToldOK
    <3>2. 1..(m - 1) \subseteq DOMAIN st
      BY <1>1
    <3>3. \A k \in 1..(m - 1) : Fresh(st[k], C)
      BY <1>2, <3>1, <3>2
    <3>4. QED
      BY <3>1, <3>3
  <2>3. QED
    BY <2>1, <2>2 DEF ToldOK
<1>6. QED
  BY <1>4, <1>5

LEMMA KeepOnes ==
  ASSUME NEW st, NEW B \in BoundRec, NEW C \in BoundRec, NEW s \in SeenRec, NEW z \in SeenRec,
         s.next <= z.next, z.ones = s.ones, z.onesAgain = s.onesAgain,
         OnesOK(st, B, s), Grown(C, B, s.next)
  PROVE  OnesOK(st, C, z)
<1>1. s.next \in Nat /\ z.next \in Nat /\ s.ones \in SUBSET Nat
  BY DEF SeenRec
<1>2. \A id \in s.ones : id \in Nat /\ id < s.next
  BY <1>1 DEF OnesOK
<1>3. \A id \in z.ones : id < z.next
  BY <1>1, <1>2
<1>4. ASSUME NEW e \in Elem, NEW t \in Types, NEW h \in Bound(C, e, t), h.id \in z.ones
      PROVE  h.type # h.origType
  <2>1. h \in Bound(B, e, t) \/ h.id >= s.next
    BY DEF Grown
  <2>2. h.id \in s.ones /\ ~(h.id >= s.next)
    BY <1>1, <1>2, <1>4
  <2>3. QED
    BY <2>1, <2>2 DEF OnesOK
<1>5. QED
  BY <1>3, <1>4 DEF OnesOK

\* Counting on.
LEMMA Later == \A n \in Nat : n <= n /\ n <= n + 1 /\ n + 1 \in Nat
OBVIOUS

\* What holds of the handlers holds with fewer claims.
LEMMA WeakerHandlers ==
  ASSUME NEW B, NEW exact \in BOOLEAN, NEW after \in BOOLEAN, HandlersOK(B, exact), after => exact
  PROVE  HandlersOK(B, after)
BY DEF HandlersOK, AttachedOK

\* The fields of what history records.
LEMMA SeenFields ==
  ASSUME NEW s \in SeenRec
  PROVE  /\ s.next \in Nat /\ s.again \in BOOLEAN /\ s.ones \in SUBSET Nat
         /\ s.onesAgain \in SUBSET HandlerRec /\ s.odd \in SUBSET {"mapped off", "nested", "in a method"}
         /\ \A what \in {"mapped off", "nested", "in a method"} :
               LET z == [s EXCEPT !.odd = @ \cup {what}]
               IN /\ z \in SeenRec /\ z.next = s.next /\ z.again = s.again /\ z.ones = s.ones
                  /\ z.onesAgain = s.onesAgain /\ z.odd = s.odd \cup {what}
         /\ LET z == [s EXCEPT !.next = @ + 1]
            IN /\ z \in SeenRec /\ z.next = s.next + 1 /\ z.again = s.again /\ z.ones = s.ones
               /\ z.onesAgain = s.onesAgain /\ z.odd = s.odd
<1>1. /\ s.next \in Nat /\ s.again \in BOOLEAN /\ s.ones \in SUBSET Nat
      /\ s.onesAgain \in SUBSET HandlerRec /\ s.odd \in SUBSET {"mapped off", "nested", "in a method"}
  BY DEF SeenRec
<1>2. ASSUME NEW what \in {"mapped off", "nested", "in a method"}
      PROVE  LET z == [s EXCEPT !.odd = @ \cup {what}]
             IN /\ z \in SeenRec /\ z.next = s.next /\ z.again = s.again /\ z.ones = s.ones
                /\ z.onesAgain = s.onesAgain /\ z.odd = s.odd \cup {what}
  BY DEF SeenRec
<1>3. LET z == [s EXCEPT !.next = @ + 1]
      IN /\ z \in SeenRec /\ z.next = s.next + 1 /\ z.again = s.again /\ z.ones = s.ones
         /\ z.onesAgain = s.onesAgain /\ z.odd = s.odd
  <2> DEFINE n == s.next + 1
             z == [s EXCEPT !.next = n]
  <2>1. n \in Nat
    BY <1>1, Later
  <2> HIDE DEF n
  <2>2. /\ z \in SeenRec /\ z.next = n /\ z.again = s.again /\ z.ones = s.ones
        /\ z.onesAgain = s.onesAgain /\ z.odd = s.odd
    BY <2>1 DEF SeenRec
  <2>3. QED
    BY <2>2 DEF n
<1>4. QED
  BY <1>1, <1>2, <1>3

\* A step that changes what is bound, and no event under way.
LEMMA KeepSafe ==
  ASSUME EvSafe, seen' \in SeenRec, seen.next <= seen'.next, seen'.again = seen.again,
         seen'.ones = seen.ones, seen'.onesAgain = seen.onesAgain, seen.odd \subseteq seen'.odd,
         BoundOK(bound', seen'), bound'.gone \in SUBSET Elem, Grown(bound', bound, seen.next),
         stack' = stack, triggered' = triggered, focused' = focused, evCalls' \in 0..MaxEvents
  PROVE  EvSafe'
<1>1. /\ EvTypeOK /\ seen \in SeenRec /\ BoundOK(bound, seen) /\ StackOK(stack, bound, seen.next)
      /\ "in a method" \notin seen.odd => ToldOK(stack, bound, triggered) /\ ~seen.again
      /\ "nested" \notin seen.odd => OnesOK(stack, bound, seen)
  BY DEF EvSafe
<1>2. bound \in BoundRec /\ bound' \in BoundRec /\ seen.next \in Nat /\ seen'.next \in Nat
  BY <1>1, SeenFields DEF BoundOK, HandlersOK
<1>3. /\ StackOK(stack, bound', seen'.next)
      /\ ToldOK(stack, bound, triggered) => ToldOK(stack, bound', triggered)
  BY <1>1, <1>2, KeepStack
<1>4. EvTypeOK'
  BY <1>1 DEF EvTypeOK
<1>5. "in a method" \notin seen'.odd => ToldOK(stack', bound', triggered') /\ ~seen'.again
  BY <1>1, <1>3
<1>6. "nested" \notin seen'.odd => OnesOK(stack', bound', seen')
  <2>1. SUFFICES ASSUME "nested" \notin seen'.odd PROVE OnesOK(stack, bound', seen')
    OBVIOUS
  <2>2. OnesOK(stack, bound, seen)
    BY <1>1, <2>1
  <2>3. QED
    BY <1>1, <1>2, <2>2, KeepOnes
<1>7. StackOK(stack', bound', seen'.next)
  BY <1>3
<1>8. QED
  BY <1>4, <1>5, <1>6, <1>7 DEF EvSafe

LEMMA ProgramCalls ==
  ASSUME EvSafe, evCalls < MaxEvents, evCalls' = evCalls + 1
  PROVE  evCalls' \in 0..MaxEvents
<1>1. evCalls \in 0..MaxEvents
  BY DEF EvSafe, EvTypeOK
<1>2. MaxEvents \in Nat
  BY EventsAssumption
<1>3. QED
  BY <1>1, <1>2

\* What is bound is one of the types.
LEMMA BindingFields ==
  ASSUME NEW b \in Bindings
  PROVE  /\ b.type \in Types \cup {"mouseenter"} /\ b.sel \in {""} \cup DOMAIN Match /\ b.sel # "any"
         /\ b.ns \in STRING /\ b.one \in BOOLEAN
<1>1. b \in Binding
  BY EventsAssumption
<1>2. "any" \notin DOMAIN Match /\ "any" # ""
  BY EventsAssumption
<1>3. QED
  BY <1>1, <1>2 DEF Binding

LEMMA OnKeeps == ASSUME EvSafe, On PROVE EvSafe'
<1>1. /\ evCalls < MaxEvents /\ evCalls' = evCalls + 1 /\ stack' = stack /\ triggered' = triggered
      /\ focused' = focused /\ seen' = [seen EXCEPT !.next = @ + 1]
  BY DEF On, Program
<1>2. PICK e \in Live : \E b \in Bindings, fn \in Handlers :
         bound' = AddEvent(bound, e, Handler(fn, b, seen.next))
  BY DEF On
<1>3. PICK b \in Bindings : \E fn \in Handlers : bound' = AddEvent(bound, e, Handler(fn, b, seen.next))
  BY <1>2
<1>4. PICK fn \in Handlers : bound' = AddEvent(bound, e, Handler(fn, b, seen.next))
  BY <1>3
<1> DEFINE h == Handler(fn, b, seen.next)
           exact == "mapped off" \notin seen.odd
<1>5. seen \in SeenRec /\ seen.next \in Nat /\ HandlersOK(bound, exact) /\ IdsOK(bound, seen.next)
  BY SeenFields DEF EvSafe, BoundOK
<1>6. h \in HandlerRec /\ h.id = seen.next /\ h.type = MappedType(h.origType, h.sel)
  <2>1. MappedType(b.type, b.sel) \in Types
    BY BindingFields, MapFacts
  <2>2. h = [fn |-> fn, type |-> MappedType(b.type, b.sel), origType |-> b.type, sel |-> b.sel,
             ns |-> b.ns, one |-> b.one, id |-> seen.next]
    BY DEF Handler
  <2> HIDE DEF h
  <2>3. /\ h.id = seen.next /\ h.type = MappedType(b.type, b.sel) /\ h.origType = b.type /\ h.sel = b.sel
    BY <2>2
  <2>4. h \in HandlerRec
    BY <1>5, <2>1, <2>2, BindingFields DEF HandlerRec
  <2>5. QED
    BY <2>3, <2>4
<1>7. e \in Elem
  BY DEF Live
<1> HIDE DEF h
<1>8. HandlersOK(bound', exact) /\ IdsOK(bound', seen.next + 1) /\ bound'.gone = bound.gone
      /\ Grown(bound', bound, seen.next)
  <2>1. bound' = AddEvent(bound, e, h)
    BY <1>4 DEF h
  <2>2. QED
    BY <1>5, <1>6, <1>7, <2>1, AddEventOK
<1>9. /\ seen' \in SeenRec /\ seen'.next = seen.next + 1 /\ seen'.again = seen.again
      /\ seen'.ones = seen.ones /\ seen'.onesAgain = seen.onesAgain /\ seen'.odd = seen.odd
  BY <1>1, <1>5, SeenFields
<1>10. BoundOK(bound', seen')
  BY <1>8, <1>9 DEF BoundOK
<1>11. bound'.gone \in SUBSET Elem /\ seen.next <= seen'.next
  <2>1. bound.gone \in SUBSET Elem
    BY DEF EvSafe, EvTypeOK
  <2>2. seen.next <= seen'.next
    BY <1>5, <1>9, Later
  <2>3. QED
    BY <1>8, <2>1, <2>2
<1>12. evCalls' \in 0..MaxEvents
  BY <1>1, ProgramCalls
<1>13. seen.odd \subseteq seen'.odd
  BY <1>9
<1>14. QED
  BY <1>1, <1>8, <1>9, <1>10, <1>11, <1>12, <1>13, KeepSafe

\* The same for what is left of what is bound.
LEMMA ShrunkSafe ==
  ASSUME EvSafe, evCalls < MaxEvents, evCalls' = evCalls + 1, stack' = stack,
         triggered' = triggered, focused' = focused,
         NEW exact \in BOOLEAN, HandlersOK(bound', exact), Shrinks(bound', bound),
         \/ seen' = seen
         \/ seen' = [seen EXCEPT !.odd = @ \cup {"mapped off"}],
         "mapped off" \notin seen'.odd => exact
  PROVE  EvSafe'
<1>1. seen \in SeenRec /\ IdsOK(bound, seen.next)
  BY DEF EvSafe, BoundOK
<1>2. /\ seen' \in SeenRec /\ seen'.next = seen.next /\ seen'.again = seen.again
      /\ seen'.ones = seen.ones /\ seen'.onesAgain = seen.onesAgain /\ seen.odd \subseteq seen'.odd
      /\ seen.next <= seen'.next
  <2>0. seen.next \in Nat /\ seen.next <= seen.next
    BY <1>1, SeenFields, Later
  <2>1. CASE seen' = seen
    BY <1>1, <2>0, <2>1
  <2>2. CASE seen' = [seen EXCEPT !.odd = @ \cup {"mapped off"}]
    <3> DEFINE z == [seen EXCEPT !.odd = @ \cup {"mapped off"}]
    <3>1. /\ z \in SeenRec /\ z.next = seen.next /\ z.again = seen.again /\ z.ones = seen.ones
          /\ z.onesAgain = seen.onesAgain /\ z.odd = seen.odd \cup {"mapped off"}
      BY <1>1, SeenFields
    <3>2. seen' = z
      BY <2>2
    <3> HIDE DEF z
    <3>3. seen.next <= seen'.next
      BY <2>0, <3>1, <3>2
    <3>4. QED
      BY <3>1, <3>2, <3>3
  <2>3. QED
    BY <2>1, <2>2
<1>3. /\ IdsOK(bound', seen.next)
      /\ \A e \in Elem : \A t \in Types : Bound(bound', e, t) \subseteq Bound(bound, e, t)
  BY <1>1, ShrinksFacts
<1>4. Grown(bound', bound, seen.next)
  BY <1>3 DEF Grown
<1>5. HandlersOK(bound', "mapped off" \notin seen'.odd)
  BY WeakerHandlers
<1>6. BoundOK(bound', seen')
  BY <1>2, <1>3, <1>5 DEF BoundOK
<1>7. bound'.gone \in SUBSET Elem
  BY BoundFields DEF HandlersOK
<1>8. evCalls' \in 0..MaxEvents
  BY ProgramCalls
<1>9. QED
  BY <1>2, <1>4, <1>6, <1>7, <1>8, KeepSafe

LEMMA OffKeeps == ASSUME EvSafe, Off PROVE EvSafe'
<1>1. /\ evCalls < MaxEvents /\ evCalls' = evCalls + 1 /\ stack' = stack /\ triggered' = triggered
      /\ focused' = focused
  BY DEF Off, Program
<1> DEFINE exact == "mapped off" \notin seen.odd
<1>2. seen \in SeenRec /\ HandlersOK(bound, exact) /\ exact \in BOOLEAN
  BY DEF EvSafe, BoundOK
<1>3. PICK e \in Live :
        \/ \E b \in Bindings, fn \in Handlers \cup {"any"} :
              /\ bound' = RemoveType(bound, e, b.type, fn, Given(b.ns), Given(b.sel))
              /\ IF MappedType(b.type, b.sel) # b.type THEN Odd("mapped off") ELSE UNCHANGED seen
        \/ bound' = RemoveAllTypes(bound, e) /\ UNCHANGED seen
  BY DEF Off
<1>4. e \in Elem
  BY DEF Live
<1>5. CASE bound' = RemoveAllTypes(bound, e) /\ UNCHANGED seen
  <2> HIDE DEF exact
  <2>1. HandlersOK(bound', exact) /\ Shrinks(bound', bound)
    BY <1>2, <1>4, <1>5, RemoveAllTypesOK
  <2>2. "mapped off" \notin seen'.odd => exact
    BY <1>5 DEF exact
  <2>3. QED
    BY <1>1, <1>2, <1>5, <2>1, <2>2, ShrunkSafe
<1>6. ASSUME NEW b \in Bindings, NEW fn \in Handlers \cup {"any"},
             bound' = RemoveType(bound, e, b.type, fn, Given(b.ns), Given(b.sel)),
             IF MappedType(b.type, b.sel) # b.type THEN Odd("mapped off") ELSE UNCHANGED seen
      PROVE  EvSafe'
  <2> DEFINE t == IF Given(b.sel) = "any" THEN BindType(b.type) ELSE DelegateType(b.type)
             after == exact /\ (t \in Bubbling => b.type = t)
  <2>1. b.type \in Types \cup {"mouseenter"} /\ b.sel # "any"
    BY BindingFields
  <2>2. t = MappedType(b.type, b.sel)
    BY <2>1 DEF MappedType, Given
  <2>3. HandlersOK(bound', after) /\ Shrinks(bound', bound)
    <3> HIDE DEF exact
    <3>1. QED
      BY <1>2, <1>4, <1>6, <2>1, RemoveTypeOK
  <2>4. /\ seen' = seen \/ seen' = [seen EXCEPT !.odd = @ \cup {"mapped off"}]
        /\ t # b.type => seen' = [seen EXCEPT !.odd = @ \cup {"mapped off"}]
    BY <1>6, <2>2 DEF Odd
  <2> HIDE DEF t
  <2>5. "mapped off" \notin seen'.odd => after
    <3>1. CASE t # b.type
      BY <1>2, <2>4, <3>1, SeenFields
    <3>2. CASE t = b.type
      BY <1>2, <2>4, <3>2, SeenFields
    <3>3. QED
      BY <3>1, <3>2
  <2>6. after \in BOOLEAN
    OBVIOUS
  <2> HIDE DEF after
  <2>7. QED
    BY <1>1, <2>3, <2>4, <2>5, <2>6, ShrunkSafe
<1>7. QED
  BY <1>3, <1>5, <1>6

LEMMA RemoveElemKeeps == ASSUME EvSafe, RemoveElem PROVE EvSafe'
<1>1. /\ evCalls < MaxEvents /\ evCalls' = evCalls + 1 /\ stack' = stack /\ triggered' = triggered
      /\ focused' = focused /\ seen' = [seen EXCEPT !.odd = @ \cup {"mapped off"}]
  BY DEF RemoveElem, Program, Odd
<1> DEFINE exact == "mapped off" \notin seen.odd
<1>2. seen \in SeenRec /\ HandlersOK(bound, exact) /\ exact \in BOOLEAN
  BY DEF EvSafe, BoundOK
<1>3. PICK e \in Live : bound' = CleanData(bound, e)
  BY DEF RemoveElem
<1>4. e \in Elem
  BY DEF Live
<1> HIDE DEF exact
<1>5. HandlersOK(bound', FALSE) /\ Shrinks(bound', bound)
  BY <1>2, <1>3, <1>4, CleanDataOK
<1>6. "mapped off" \in seen'.odd
  BY <1>1, <1>2, SeenFields
<1>7. QED
  BY <1>1, <1>5, <1>6, ShrunkSafe

\* The stack with one more event, and with one less.
LEMMA PushFacts ==
  ASSUME NEW S, NEW st \in Seq(S), NEW f \in S
  PROVE  LET w == Append(st, f)
         IN /\ w \in Seq(S) /\ w # <<>> /\ Len(w) = Len(st) + 1 /\ w[Len(st) + 1] = f /\ Len(st) \in Nat
            /\ \A i \in DOMAIN st : i \in DOMAIN w /\ w[i] = st[i] /\ i \in Nat /\ i <= Len(st)
            /\ \A i \in DOMAIN w : i \in DOMAIN st \/ i = Len(st) + 1
            /\ Len(st) + 1 \in DOMAIN w
OBVIOUS
LEMMA PopFacts ==
  ASSUME NEW S, NEW st \in Seq(S), st # <<>>
  PROVE  LET w == Front(st)
         IN /\ w \in Seq(S) /\ Len(w) = Len(st) - 1 /\ Len(st) \in Nat /\ Len(st) > 0
            /\ Len(st) \in DOMAIN st /\ st[Len(st)] \in S
            /\ \A i \in DOMAIN w : i \in DOMAIN st /\ w[i] = st[i] /\ i \in Nat /\ i < Len(st)
            /\ \A i \in DOMAIN st : i \in DOMAIN w \/ i = Len(st)
<1> DEFINE n == Len(st)
           w == [i \in 1..(n - 1) |-> st[i]]
<1>1. n \in Nat /\ n > 0 /\ DOMAIN st = 1..n /\ n - 1 \in Nat
  OBVIOUS
<1>2. n \in DOMAIN st /\ \A i \in 1..n : st[i] \in S
  BY <1>1
<1>3. Front(st) = w
  BY DEF Front
<1> HIDE DEF n
<1>4. w \in Seq(S) /\ Len(w) = n - 1 /\ DOMAIN w = 1..(n - 1)
  BY <1>1, <1>2
<1>5. \A i \in DOMAIN w : i \in DOMAIN st /\ w[i] = st[i] /\ i \in Nat /\ i < n
  BY <1>1
<1>6. \A i \in DOMAIN st : i \in DOMAIN w \/ i = n
  BY <1>1
<1>7. st[n] \in S
  BY <1>2
<1> HIDE DEF w
<1>8. QED
  BY <1>1, <1>2, <1>3, <1>4, <1>5, <1>6, <1>7 DEF n

\* What may be on top of what.
Silent(f, B, tr) == Fresh(f, B) \/ (tr # "none" /\ Hushed(f, tr))
Spent(f, s) == \A c \in Calls(f.queue) : c[2].id \in s.ones => c[2].type # c[2].origType \/ Twice(c[2])
Idle(st) == \A i \in DOMAIN st : st[i].queue = <<>>
LEMMA PushKeeps ==
  ASSUME NEW st, NEW B, NEW next, StackOK(st, B, next), NEW f \in FrameRec, FrameOK(f, B, next),
         \A j \in DOMAIN f.todo : TodoOK(f.todo[j], next)
  PROVE  LET w == Append(st, f)
         IN /\ StackOK(w, B, next)
            /\ \A tr : /\ ToldOK(st, B, tr) /\ Silent(f, B, tr)
                       /\ tr # "none" => f.kind # "method" /\ ~Acting(f)
                       => ToldOK(w, B, tr)
            /\ \A tr : ToldOK(st, B, "none") /\ Silent(f, B, tr) /\ f.kind = "method" => ToldOK(w, B, tr)
            /\ \A s : OnesOK(st, B, s) /\ Idle(st) /\ Spent(f, s) => OnesOK(w, B, s)
<1> DEFINE w == Append(st, f)
           n == Len(st)
<1>1. st \in Seq(FrameRec)
  BY DEF StackOK
<1>2. /\ w \in Seq(FrameRec) /\ Len(w) = n + 1 /\ w[n + 1] = f /\ n \in Nat
      /\ \A i \in DOMAIN st : i \in DOMAIN w /\ w[i] = st[i] /\ i \in Nat /\ i <= n
      /\ \A i \in DOMAIN w : i \in DOMAIN st \/ i = n + 1
      /\ n + 1 \in DOMAIN w
  BY <1>1, PushFacts
<1> SUFFICES /\ StackOK(w, B, next)
             /\ \A tr : /\ ToldOK(st, B, tr) /\ Silent(f, B, tr)
                        /\ tr # "none" => f.kind # "method" /\ ~Acting(f)
                        => ToldOK(w, B, tr)
             /\ \A tr : ToldOK(st, B, "none") /\ Silent(f, B, tr) /\ f.kind = "method" => ToldOK(w, B, tr)
             /\ \A s : OnesOK(st, B, s) /\ Idle(st) /\ Spent(f, s) => OnesOK(w, B, s)
  OBVIOUS
<1> HIDE DEF w, n
<1>3. StackOK(w, B, next)
  <2>1. ASSUME NEW i \in DOMAIN w
        PROVE  FrameOK(w[i], B, next) /\ \A j \in DOMAIN w[i].todo : TodoOK(w[i].todo[j], next)
    <3>1. CASE i \in DOMAIN st
      BY <1>2, <3>1 DEF StackOK
    <3>2. CASE i = n + 1
      BY <1>2, <3>2
    <3>3. QED
      BY <1>2, <3>1, <3>2
  <2>2. QED
    BY <1>2, <2>1 DEF StackOK
<1>4. ASSUME NEW tr, ToldOK(st, B, tr), Silent(f, B, tr), tr # "none" => f.kind # "method" /\ ~Acting(f)
      PROVE  ToldOK(w, B, tr)
  <2>1. \A i \in DOMAIN w : Fresh(w[i], B) \/ (tr # "none" /\ Hushed(w[i], tr))
    BY <1>2, <1>4 DEF ToldOK, Silent
  <2>2. ASSUME tr # "none"
        PROVE  \E m \in DOMAIN w :
                  /\ w[m].kind = "method" /\ \A k \in 1..(m - 1) : Fresh(w[k], B)
                  /\ \A k \in DOMAIN w : k > m => w[k].kind # "method" /\ ~Acting(w[k])
    <3>1. PICK m \in DOMAIN st :
             /\ st[m].kind = "method" /\ \A k \in 1..(m - 1) : Fresh(st[k], B)
             /\ \A k \in DOMAIN st : k > m => st[k].kind # "method" /\ ~Acting(st[k])
      BY <1>4, <2>2 DEF ToldOK
    <3>2. \A k \in 1..(m - 1) : k \in DOMAIN st
      BY <1>1
    <3>3. \A k \in 1..(m - 1) : Fresh(w[k], B)
      BY <1>2, <3>1, <3>2
    <3>4. \A k \in DOMAIN w : k > m => w[k].kind # "method" /\ ~Acting(w[k])
      BY <1>2, <1>4, <2>2, <3>1
    <3>5. m \in DOMAIN w /\ w[m].kind = "method"
      BY <1>2, <3>1
    <3>6. QED
      BY <3>3, <3>4, <3>5
  <2>3. QED
    BY <2>1, <2>2 DEF ToldOK
<1>5. ASSUME NEW tr, ToldOK(st, B, "none"), Silent(f, B, tr), f.kind = "method"
      PROVE  ToldOK(w, B, tr)
  <2>1. \A i \in DOMAIN st : Fresh(st[i], B)
    BY <1>5 DEF ToldOK
  <2>2. \A i \in DOMAIN w : Fresh(w[i], B) \/ (tr # "none" /\ Hushed(w[i], tr))
    BY <1>2, <1>5, <2>1 DEF Silent
  <2>3. \A k \in 1..((n + 1) - 1) : Fresh(w[k], B)
    <3>1. \A k \in 1..((n + 1) - 1) : k \in DOMAIN st
      BY <1>1, <1>2 DEF n
    <3>2. QED
      BY <1>2, <2>1, <3>1
  <2>4. \A k \in DOMAIN w : ~(k > n + 1)
    BY <1>2
  <2>5. w[n + 1].kind = "method" /\ n + 1 \in DOMAIN w
    BY <1>2, <1>5
  <2> HIDE DEF n
  <2> DEFINE m == n + 1
  <2>6. /\ m \in DOMAIN w /\ w[m].kind = "method" /\ \A k \in 1..(m - 1) : Fresh(w[k], B)
        /\ \A k \in DOMAIN w : k > m => w[k].kind # "method" /\ ~Acting(w[k])
    BY <2>3, <2>4, <2>5
  <2> HIDE DEF m
  <2>7. QED
    BY <2>2, <2>6 DEF ToldOK
<1>6. ASSUME NEW s, OnesOK(st, B, s), Idle(st), Spent(f, s) PROVE OnesOK(w, B, s)
  <2>1. \A i \in DOMAIN w : i < Len(w) => w[i].queue = <<>>
    BY <1>2, <1>6 DEF Idle
  <2>2. ASSUME NEW i \in DOMAIN w, NEW c \in Calls(w[i].queue), c[2].id \in s.ones
        PROVE  c[2].type # c[2].origType \/ Twice(c[2])
    <3>1. CASE i \in DOMAIN st
      BY <1>2, <1>6, <2>2, <3>1 DEF OnesOK
    <3>2. CASE i = n + 1
      BY <1>2, <1>6, <2>2, <3>2 DEF Spent
    <3>3. QED
      BY <1>2, <3>1, <3>2
  <2>3. QED
    BY <1>6, <2>1, <2>2 DEF OnesOK
<1>7. QED
  BY <1>3, <1>4, <1>5, <1>6

LEMMA PopKeeps ==
  ASSUME NEW st, NEW B, NEW next, StackOK(st, B, next), st # <<>>
  PROVE  LET w == Front(st)
             f == st[Len(st)]
         IN /\ StackOK(w, B, next) /\ f \in FrameRec /\ FrameOK(f, B, next)
            /\ \A j \in DOMAIN f.todo : TodoOK(f.todo[j], next)
            /\ \A tr : ToldOK(st, B, tr) =>
                  /\ Silent(f, B, tr) /\ (tr # "none" => ~Acting(f))
                  /\ IF f.kind = "method" THEN ToldOK(w, B, "none") ELSE ToldOK(w, B, tr)
            /\ \A s : OnesOK(st, B, s) => OnesOK(w, B, s) /\ Idle(w) /\ Spent(f, s)
<1> DEFINE w == Front(st)
           n == Len(st)
           f == st[n]
<1>1. st \in Seq(FrameRec)
  BY DEF StackOK
<1>2. /\ w \in Seq(FrameRec) /\ Len(w) = n - 1 /\ n \in Nat /\ n > 0 /\ n \in DOMAIN st /\ f \in FrameRec
      /\ \A i \in DOMAIN w : i \in DOMAIN st /\ w[i] = st[i] /\ i \in Nat /\ i < n
      /\ \A i \in DOMAIN st : i \in DOMAIN w \/ i = n
  BY <1>1, PopFacts
<1> SUFFICES /\ StackOK(w, B, next) /\ f \in FrameRec /\ FrameOK(f, B, next)
             /\ \A j \in DOMAIN f.todo : TodoOK(f.todo[j], next)
             /\ \A tr : ToldOK(st, B, tr) =>
                  /\ Silent(f, B, tr) /\ (tr # "none" => ~Acting(f))
                  /\ IF f.kind = "method" THEN ToldOK(w, B, "none") ELSE ToldOK(w, B, tr)
             /\ \A s : OnesOK(st, B, s) => OnesOK(w, B, s) /\ Idle(w) /\ Spent(f, s)
  OBVIOUS
<1> HIDE DEF w, n
<1>3. StackOK(w, B, next)
  BY <1>2 DEF StackOK
<1>4. FrameOK(f, B, next) /\ \A j \in DOMAIN f.todo : TodoOK(f.todo[j], next)
  BY <1>2 DEF StackOK
<1>5. ASSUME NEW tr, ToldOK(st, B, tr)
      PROVE  /\ Silent(f, B, tr) /\ (tr # "none" => ~Acting(f))
             /\ IF f.kind = "method" THEN ToldOK(w, B, "none") ELSE ToldOK(w, B, tr)
  <2>1. Silent(f, B, tr)
    BY <1>2, <1>5 DEF ToldOK, Silent
  <2>2. CASE tr = "none"
    <3>1. \A i \in DOMAIN st : Fresh(st[i], B)
      BY <1>5, <2>2 DEF ToldOK
    <3>2. ToldOK(w, B, "none")
      BY <1>2, <3>1 DEF ToldOK
    <3>3. QED
      BY <2>1, <2>2, <3>2
  <2>3. CASE tr # "none"
    <3>1. PICK m \in DOMAIN st :
             /\ st[m].kind = "method" /\ \A k \in 1..(m - 1) : Fresh(st[k], B)
             /\ \A k \in DOMAIN st : k > m => st[k].kind # "method" /\ ~Acting(st[k])
      BY <1>5, <2>3 DEF ToldOK
    <3>2. m \in Nat /\ m > 0 /\ m <= n /\ DOMAIN w = 1..(n - 1)
      BY <1>1, <1>2 DEF n
    <3>3. ~Acting(f)
      <4>1. CASE m = n
        BY <3>1, <4>1 DEF Acting
      <4>2. CASE m # n
        <5>1. n > m
          BY <1>2, <3>2, <4>2
        <5>2. QED
          BY <1>2, <3>1, <5>1
      <4>3. QED
        BY <4>1, <4>2
    <3>4. CASE f.kind = "method"
      <4>1. m = n
        <5>1. ~(n > m)
          BY <1>2, <3>1, <3>4
        <5>2. QED
          BY <1>2, <3>2, <5>1
      <4>2. \A i \in DOMAIN w : Fresh(w[i], B)
        BY <1>2, <3>1, <3>2, <4>1
      <4>3. ToldOK(w, B, "none")
        BY <4>2 DEF ToldOK
      <4>4. QED
        BY <2>1, <3>3, <3>4, <4>3
    <3>5. CASE f.kind # "method"
      <4>1. m # n
        BY <3>1, <3>5
      <4>2. m \in DOMAIN w
        BY <1>2, <4>1
      <4>3. \A k \in 1..(m - 1) : k \in DOMAIN w
        BY <1>2, <3>2
      <4>4. /\ w[m].kind = "method" /\ \A k \in 1..(m - 1) : Fresh(w[k], B)
            /\ \A k \in DOMAIN w : k > m => w[k].kind # "method" /\ ~Acting(w[k])
        BY <1>2, <3>1, <4>2, <4>3
      <4>5. \A i \in DOMAIN w : Fresh(w[i], B) \/ (tr # "none" /\ Hushed(w[i], tr))
        BY <1>2, <1>5 DEF ToldOK
      <4>6. ToldOK(w, B, tr)
        BY <4>2, <4>4, <4>5 DEF ToldOK
      <4>7. QED
        BY <2>1, <3>3, <3>5, <4>6
    <3>6. QED
      BY <3>4, <3>5
  <2>4. QED
    BY <2>2, <2>3
<1>6. ASSUME NEW s, OnesOK(st, B, s) PROVE OnesOK(w, B, s) /\ Idle(w) /\ Spent(f, s)
  <2>1. \A i \in DOMAIN st : i < Len(st) => st[i].queue = <<>>
    BY <1>6 DEF OnesOK
  <2>2. Idle(w)
    BY <1>2, <2>1 DEF Idle, n
  <2>3. Spent(f, s)
    BY <1>2, <1>6 DEF OnesOK, Spent
  <2>4. OnesOK(w, B, s)
    BY <1>2, <1>6, <2>2 DEF OnesOK, Idle
  <2>5. QED
    BY <2>2, <2>3, <2>4
<1>7. QED
  BY <1>3, <1>2, <1>4, <1>5, <1>6

LEMMA NewFrame ==
  ASSUME NEW f, NEW kind \in {"trigger", "native", "method"}, NEW type, New(f, kind, type),
         NEW B, NEW next
  PROVE  /\ f \in FrameRec /\ FrameOK(f, B, next) /\ Fresh(f, B) /\ \A s : Spent(f, s)
         /\ f.kind = kind /\ f.type = type /\ f.todo = <<>> /\ f.queue = <<>>
<1>1. f \in Told /\ f.kind = kind /\ f.type = type /\ f.pos = 0 /\ f.queue = <<>>
      /\ f.current = NoHandler /\ f.todo = <<>> /\ f.told = {} /\ ~f.begun /\ Straight(f.path)
      /\ (kind = "native" => type \in Types /\ \A p \in DOMAIN f.path : f.path[p][2] = type)
      /\ (kind = "method" => f.path = <<>>)
  BY DEF New
<1>2. f \in FrameRec
  BY <1>1, ToldIsFrame
<1>3. Calls(f.queue) = {} /\ DOMAIN f.queue = {} /\ DOMAIN f.todo = {}
  <2>1. DOMAIN f.queue = {} /\ DOMAIN f.todo = {}
    BY <1>1
  <2>2. QED
    BY <2>1 DEF Calls
<1>4. f.path \in Seq(Elem \X Types)
  BY <1>2, FrameFields
<1>5. f.pos <= Len(f.path)
  BY <1>1, <1>4
<1>6. QueueOK(f.queue)
  BY <1>3 DEF QueueOK
<1>7. KindOK(f)
  BY <1>1 DEF KindOK
<1>8. FrameOK(f, B, next)
  BY <1>1, <1>3, <1>5, <1>6, <1>7 DEF FrameOK
<1>9. Fresh(f, B)
  BY <1>1, <1>3 DEF Fresh
<1>10. \A s : Spent(f, s)
  BY <1>3 DEF Spent
<1>11. QED
  BY <1>1, <1>2, <1>8, <1>9, <1>10

\* A step that changes the events under way only.
LEMMA StackSafe ==
  ASSUME EvSafe, bound' = bound, seen' = seen, evCalls' \in 0..MaxEvents,
         focused' \in Elem \cup {"none"}, triggered' \in {"none", "click", "focus", "blur"},
         StackOK(stack', bound, seen.next),
         ToldOK(stack, bound, triggered) => ToldOK(stack', bound, triggered'),
         OnesOK(stack, bound, seen) => OnesOK(stack', bound, seen)
  PROVE  EvSafe'
<1>1. /\ EvTypeOK /\ seen \in SeenRec /\ BoundOK(bound, seen) /\ StackOK(stack, bound, seen.next)
      /\ "in a method" \notin seen.odd => ToldOK(stack, bound, triggered) /\ ~seen.again
      /\ "nested" \notin seen.odd => OnesOK(stack, bound, seen)
  BY DEF EvSafe
<1>2. EvTypeOK'
  BY <1>1 DEF EvTypeOK
<1>3. BoundOK(bound', seen') /\ StackOK(stack', bound', seen'.next)
  BY <1>1
<1>4. "in a method" \notin seen'.odd => ToldOK(stack', bound', triggered') /\ ~seen'.again
  BY <1>1
<1>5. "nested" \notin seen'.odd => OnesOK(stack', bound', seen')
  BY <1>1
<1>6. QED
  BY <1>1, <1>2, <1>3, <1>4, <1>5 DEF EvSafe

LEMMA SameCalls == ASSUME EvSafe, evCalls' = evCalls PROVE evCalls' \in 0..MaxEvents
BY DEF EvSafe, EvTypeOK

LEMMA OddFields ==
  ASSUME NEW s \in SeenRec, NEW D \in SUBSET {"mapped off", "nested", "in a method"}
  PROVE  LET z == [s EXCEPT !.odd = @ \cup D]
         IN /\ z \in SeenRec /\ z.next = s.next /\ z.again = s.again /\ z.ones = s.ones
            /\ z.onesAgain = s.onesAgain /\ z.odd = s.odd \cup D
BY DEF SeenRec

LEMMA TriggerKeeps == ASSUME EvSafe, Trigger PROVE EvSafe'
<1>1. /\ evCalls < MaxEvents /\ evCalls' = evCalls + 1 /\ bound' = bound /\ focused' = focused
      /\ triggered' = triggered
  BY DEF Trigger, Program
<1>2. /\ EvTypeOK /\ seen \in SeenRec /\ BoundOK(bound, seen) /\ StackOK(stack, bound, seen.next)
      /\ "in a method" \notin seen.odd => ToldOK(stack, bound, triggered) /\ ~seen.again
      /\ "nested" \notin seen.odd => OnesOK(stack, bound, seen)
  BY DEF EvSafe
<1> DEFINE N == IF \E i \in DOMAIN stack : stack[i].kind # "method" THEN {"nested"} ELSE {}
           M(b, only) == IF triggered # "none" /\ HasMethod(b.type) /\ ~only THEN {"in a method"} ELSE {}
<1>3. PICK e \in Live, b \in Bindings, only \in BOOLEAN :
         /\ stack' = Append(stack, TriggerEvent(e, b.type, b.ns, only))
         /\ seen' = [seen EXCEPT !.odd = @ \cup N \cup M(b, only)]
  BY DEF Trigger
<1> DEFINE f == TriggerEvent(e, b.type, b.ns, only)
           D == N \cup M(b, only)
<1>4. e \in Elem /\ b.type \in Types \cup {"mouseenter"} /\ b.ns \in STRING
  BY BindingFields DEF Live
<1>5. New(f, "trigger", b.type) /\ f.only = only
  BY <1>4, TriggerEventFacts
<1> HIDE DEF f
<1>6. /\ f \in FrameRec /\ FrameOK(f, bound, seen.next) /\ Fresh(f, bound) /\ \A s : Spent(f, s)
      /\ f.kind = "trigger" /\ f.type = b.type /\ f.todo = <<>>
  BY <1>5, NewFrame
<1>7. /\ seen' \in SeenRec /\ seen'.next = seen.next /\ seen'.again = seen.again
      /\ seen'.ones = seen.ones /\ seen'.onesAgain = seen.onesAgain /\ seen'.odd = seen.odd \cup D
  <2>1. D \in SUBSET {"mapped off", "nested", "in a method"}
    OBVIOUS
  <2>2. seen' = [seen EXCEPT !.odd = @ \cup D]
    BY <1>3
  <2> HIDE DEF D
  <2>3. QED
    BY <1>2, <2>1, <2>2, OddFields
<1>8. /\ StackOK(stack', bound, seen.next)
      /\ /\ ToldOK(stack, bound, triggered)
         /\ triggered # "none" => f.kind # "method" /\ ~Acting(f)
         => ToldOK(stack', bound, triggered)
      /\ \A s : OnesOK(stack, bound, s) /\ Idle(stack) => OnesOK(stack', bound, s)
  <2>1. stack' = Append(stack, f)
    BY <1>3 DEF f
  <2>2. \A j \in DOMAIN f.todo : TodoOK(f.todo[j], seen.next)
    BY <1>6
  <2>3. Silent(f, bound, triggered)
    BY <1>6 DEF Silent
  <2>4. QED
    BY <1>2, <1>6, <2>1, <2>2, <2>3, PushKeeps
<1>9. "in a method" \notin seen'.odd => ToldOK(stack', bound', triggered') /\ ~seen'.again
  <2>1. SUFFICES ASSUME "in a method" \notin seen'.odd
                 PROVE  ToldOK(stack', bound, triggered) /\ ~seen.again
    BY <1>1, <1>7
  <2>2. "in a method" \notin seen.odd /\ ~(triggered # "none" /\ HasMethod(b.type) /\ ~only)
    BY <1>7, <2>1
  <2>3. triggered # "none" => f.kind # "method" /\ ~Acting(f)
    BY <1>5, <1>6, <2>2 DEF Acting
  <2>4. QED
    BY <1>2, <1>8, <2>2, <2>3
<1>10. "nested" \notin seen'.odd => OnesOK(stack', bound', seen')
  <2>1. SUFFICES ASSUME "nested" \notin seen'.odd PROVE OnesOK(stack', bound, seen')
    BY <1>1
  <2>2. "nested" \notin seen.odd /\ \A i \in DOMAIN stack : stack[i].kind = "method"
    BY <1>7, <2>1
  <2>3. Idle(stack)
    BY <1>2, <2>2 DEF StackOK, FrameOK, KindOK, Idle
  <2>4. OnesOK(stack', bound, seen)
    BY <1>2, <1>8, <2>2, <2>3
  <2>5. QED
    BY <1>7, <2>4 DEF OnesOK
<1>11. BoundOK(bound', seen')
  <2>1. "mapped off" \notin seen'.odd <=> "mapped off" \notin seen.odd
    BY <1>7
  <2>2. HandlersOK(bound, "mapped off" \notin seen.odd) /\ IdsOK(bound, seen.next)
    BY <1>2 DEF BoundOK
  <2>3. HandlersOK(bound, "mapped off" \notin seen'.odd)
    BY <2>1, <2>2, WeakerHandlers
  <2>4. QED
    BY <1>1, <1>7, <2>2, <2>3 DEF BoundOK
<1>12. EvTypeOK'
  BY <1>1, <1>2, ProgramCalls DEF EvTypeOK
<1>13. QED
  BY <1>1, <1>7, <1>8, <1>9, <1>10, <1>11, <1>12 DEF EvSafe

\* What the browser tells when a method is called.
LEMMA NativeOfFacts ==
  ASSUME NEW f, f.type \in {"click", "focus", "blur"}, f.target \in Elem,
         focused \in Elem \cup {"none"}
  PROVE  /\ NativeOf(f) \in Seq(Told)
         /\ \A i \in DOMAIN NativeOf(f) : New(NativeOf(f)[i], "native", NativeOf(f)[i].type)
<1> DEFINE Told1(s) == s \in Seq(Told) /\ \A i \in DOMAIN s : New(s[i], "native", s[i].type)
<1>1. ASSUME NEW e \in Elem, NEW type \in {"click", "focus", "blur"}
      PROVE  NativeEvent(e, type) \in Told /\ New(NativeEvent(e, type), "native", NativeEvent(e, type).type)
  <2>1. type \in Types
    BY DEF Types
  <2>2. New(NativeEvent(e, type), "native", type)
    BY <2>1, NativeEventFacts
  <2>3. NativeEvent(e, type).type = type /\ NativeEvent(e, type) \in Told
    BY <2>2 DEF New
  <2>4. QED
    BY <2>2, <2>3
<1>2. Told1(<<>>)
  OBVIOUS
<1>3. ASSUME NEW x \in Told, New(x, "native", x.type) PROVE Told1(<<x>>)
  <2>1. <<x>> \in Seq(Told) /\ \A i \in DOMAIN <<x>> : <<x>>[i] = x
    OBVIOUS
  <2>2. QED
    BY <1>3, <2>1
<1>4. ASSUME NEW x \in Told, New(x, "native", x.type), NEW y \in Told, New(y, "native", y.type)
      PROVE  Told1(<<x>> \o <<y>>)
  <2> DEFINE u == <<x>>
             v == <<y>>
             s == u \o v
  <2>1. u \in Seq(Told) /\ v \in Seq(Told) /\ Len(u) = 1 /\ Len(v) = 1 /\ u[1] = x /\ v[1] = y
    OBVIOUS
  <2>2. Told1(s) <=> Told1(<<x>> \o <<y>>)
    OBVIOUS
  <2> HIDE DEF u, v
  <2>3. /\ s \in Seq(Told) /\ Len(s) = Len(u) + Len(v)
        /\ \A i \in 1..(Len(u) + Len(v)) : s[i] = IF i <= Len(u) THEN u[i] ELSE v[i - Len(u)]
    BY ONLY <2>1, ConcatProperties
  <2> HIDE DEF s
  <2>4. DOMAIN s = 1..2 /\ s[1] = x /\ s[2] = y
    BY <2>1, <2>3
  <2>5. \A i \in DOMAIN s : i = 1 \/ i = 2
    BY <2>4
  <2>6. \A i \in DOMAIN s : New(s[i], "native", s[i].type)
    BY <1>4, <2>4, <2>5
  <2>7. Told1(s)
    BY <2>3, <2>6
  <2> HIDE DEF Told1
  <2>8. QED
    BY <2>2, <2>7
<1>5. ASSUME NEW y \in Told, New(y, "native", y.type) PROVE Told1(<<>> \o <<y>>)
  <2>1. <<>> \o <<y>> = <<y>>
    OBVIOUS
  <2>2. QED
    BY <1>3, <1>5, <2>1
<1> HIDE DEF Told1
<1>6. CASE f.type = "click"
  <2>1. NativeOf(f) = <<NativeEvent(f.target, "click")>>
    BY <1>6 DEF NativeOf
  <2>2. Told1(NativeOf(f))
    BY <1>1, <1>3, <2>1
  <2>3. QED
    BY <2>2 DEF Told1
<1>7. CASE f.type = "focus"
  <2>1. NativeOf(f) = IF focused = f.target THEN <<>>
                      ELSE (IF focused = "none" THEN <<>> ELSE <<NativeEvent(focused, "blur")>>)
                           \o <<NativeEvent(f.target, "focus")>>
    BY <1>7 DEF NativeOf
  <2>2. CASE focused = f.target
    BY <1>2, <2>1, <2>2 DEF Told1
  <2>3. CASE focused # f.target /\ focused = "none"
    <3>1. NativeOf(f) = <<>> \o <<NativeEvent(f.target, "focus")>>
      BY <2>1, <2>3
    <3>2. Told1(NativeOf(f))
      BY <1>1, <1>5, <3>1
    <3>3. QED
      BY <3>2 DEF Told1
  <2>4. CASE focused # f.target /\ focused # "none"
    <3>1. NativeOf(f) = <<NativeEvent(focused, "blur")>> \o <<NativeEvent(f.target, "focus")>>
      BY <2>1, <2>4
    <3>2. Told1(NativeOf(f))
      BY <1>1, <1>4, <2>4, <3>1
    <3>3. QED
      BY <3>2 DEF Told1
  <2>5. QED
    BY <2>2, <2>3, <2>4
<1>8. CASE f.type = "blur"
  <2>1. NativeOf(f) = IF focused = f.target THEN <<NativeEvent(f.target, "blur")>> ELSE <<>>
    BY <1>8 DEF NativeOf
  <2>2. Told1(NativeOf(f))
    BY <1>1, <1>2, <1>3, <2>1
  <2>3. QED
    BY <2>2 DEF Told1
<1>9. QED
  BY <1>6, <1>7, <1>8

LEMMA NewTodo ==
  ASSUME NEW n, NEW type, New(n, "native", type), NEW next
  PROVE  n \in Told /\ n.told = {} /\ n.type = type /\ TodoOK(n, next)
BY DEF New, TodoOK

\* A method that is to tell some events.
Calling(type, target, todo) == [Event("method", type, target, <<>>) EXCEPT !.todo = todo]
LEMMA MethodFrame ==
  ASSUME NEW f, NEW type \in {"click", "focus", "blur"}, NEW target \in Elem, NEW todo \in Seq(Told),
         f = Calling(type, target, todo)
  PROVE  /\ f \in FrameRec /\ f.todo = todo /\ f.kind = "method" /\ f.type = type
         /\ f.target = target /\ f.path = <<>> /\ f.pos = 0 /\ f.queue = <<>>
         /\ f.current = NoHandler /\ f.told = {}
<1> DEFINE g == Event("method", type, target, <<>>)
<1>1. New(g, "method", type) /\ g.path = <<>> /\ g.target = target
  <2>1. type \in Types \cup {"mouseenter"}
    BY DEF Types
  <2>2. <<>> \in Seq(Elem \X Types) /\ Straight(<<>>)
    BY DEF Straight
  <2> DEFINE kind == "method"
             path == <<>>
  <2>3. /\ kind \in {"trigger", "native", "method"} /\ path \in Seq(Elem \X Types) /\ Straight(path)
        /\ kind = "native" => type \in Types /\ \A p \in DOMAIN path : path[p][2] = type
        /\ kind = "method" => path = <<>>
    BY <2>2
  <2> HIDE DEF kind, path
  <2>4. /\ New(Event(kind, type, target, path), kind, type)
        /\ Event(kind, type, target, path).path = path
        /\ Event(kind, type, target, path).target = target
    BY <2>1, <2>3, EventFacts
  <2>5. QED
    BY <2>4 DEF kind, path
<1> HIDE DEF g
<1>2. g \in FrameRec
  BY <1>1, ToldIsFrame DEF New
<1>3. f = [g EXCEPT !.todo = todo]
  BY DEF g, Calling
<1>4. f \in FrameRec /\ f.todo = todo
  BY <1>2, <1>3 DEF FrameRec, FramesOf
<1>5. /\ f.kind = g.kind /\ f.type = g.type /\ f.target = g.target /\ f.path = g.path
      /\ f.pos = g.pos /\ f.queue = g.queue /\ f.current = g.current /\ f.told = g.told
  BY <1>2, <1>3 DEF FrameRec, FramesOf
<1>6. /\ f.kind = "method" /\ f.type = type /\ f.target = target /\ f.path = <<>> /\ f.pos = 0
      /\ f.queue = <<>> /\ f.current = NoHandler /\ f.told = {}
  BY <1>1, <1>5 DEF New
<1>7. QED
  BY <1>4, <1>5, <1>6
LEMMA MethodOK ==
  ASSUME NEW f \in FrameRec, f.kind = "method", f.path = <<>>, f.pos = 0, f.queue = <<>>,
         f.current = NoHandler, f.told = {}, NEW B, NEW next
  PROVE  /\ FrameOK(f, B, next) /\ \A s : Spent(f, s)
         /\ (\A j \in DOMAIN f.todo : f.todo[j].told = {}) => Fresh(f, B)
<1>1. Calls(f.queue) = {} /\ QueueOK(f.queue)
  <2>1. DOMAIN f.queue = {}
    OBVIOUS
  <2>2. QED
    BY <2>1 DEF Calls, QueueOK
<1>2. FrameOK(f, B, next)
  <2>1. Straight(f.path) /\ f.pos <= Len(f.path)
    BY DEF Straight
  <2>2. KindOK(f)
    BY DEF KindOK
  <2>3. QED
    BY <1>1, <2>1, <2>2 DEF FrameOK
<1>3. ASSUME \A j \in DOMAIN f.todo : f.todo[j].told = {} PROVE Fresh(f, B)
  <2>1. DOMAIN f.path = {}
    OBVIOUS
  <2>2. QED
    BY <1>1, <1>3, <2>1 DEF Fresh
<1>4. \A s : Spent(f, s)
  BY <1>1 DEF Spent
<1>5. QED
  BY <1>2, <1>3, <1>4

\* An empty stack.
LEMMA EmptyStack ==
  ASSUME NEW B, NEW next
  PROVE  StackOK(<<>>, B, next) /\ \A tr : ToldOK(<<>>, B, "none") /\ Idle(<<>>)
<1>1. DOMAIN <<>> = {} /\ <<>> \in Seq(FrameRec)
  OBVIOUS
<1>2. QED
  BY <1>1 DEF StackOK, ToldOK, Idle

LEMMA UserKeeps == ASSUME EvSafe, User PROVE EvSafe'
<1>1. /\ stack = <<>> /\ evCalls < MaxEvents /\ evCalls' = evCalls + 1 /\ bound' = bound
      /\ triggered' = triggered /\ seen' = seen
  BY DEF User, Quiet
<1>2. /\ EvTypeOK /\ StackOK(stack, bound, seen.next)
  BY DEF EvSafe
<1>3. ToldOK(stack, bound, triggered) => triggered = "none"
  BY <1>1 DEF ToldOK
<1>4. ASSUME NEW f \in FrameRec, FrameOK(f, bound, seen.next), Fresh(f, bound), \A s : Spent(f, s),
             \A j \in DOMAIN f.todo : TodoOK(f.todo[j], seen.next), stack' = <<f>>,
             focused' \in Elem \cup {"none"}
      PROVE  EvSafe'
  <2>1. stack' = Append(stack, f)
    BY <1>1, <1>4
  <2>2. /\ StackOK(stack', bound, seen.next)
        /\ \A tr : /\ ToldOK(stack, bound, tr) /\ Silent(f, bound, tr)
                   /\ tr # "none" => f.kind # "method" /\ ~Acting(f)
                   => ToldOK(stack', bound, tr)
        /\ \A s : OnesOK(stack, bound, s) /\ Idle(stack) /\ Spent(f, s) => OnesOK(stack', bound, s)
    BY <1>2, <1>4, <2>1, PushKeeps
  <2>3. ToldOK(stack, bound, triggered) => ToldOK(stack', bound, triggered)
    BY <1>3, <1>4, <2>2 DEF Silent
  <2>4. OnesOK(stack, bound, seen) => OnesOK(stack', bound, seen)
    BY <1>1, <1>4, <2>2 DEF Idle
  <2>5. evCalls' \in 0..MaxEvents
    BY <1>1, ProgramCalls
  <2>6. triggered' \in {"none", "click", "focus", "blur"}
    BY <1>1, <1>2 DEF EvTypeOK
  <2>7. QED
    BY <1>1, <1>4, <2>2, <2>3, <2>4, <2>5, <2>6, StackSafe
<1>5. focused \in Elem \cup {"none"}
  BY <1>2 DEF EvTypeOK
<1>6. PICK e \in Live :
        \/ stack' = <<NativeEvent(e, "click")>> /\ UNCHANGED focused
        \/ \E from \in (Live \ {e}) \cup {"none"} :
              stack' = <<[NativeEvent(e, "mouseover") EXCEPT !.related = from]>> /\ UNCHANGED focused
        \/ /\ focused # e /\ focused' = e
           /\ stack' = <<[Event("method", "focus", e, <<>>) EXCEPT
                            !.todo = NativeOf(Event("method", "focus", e, <<>>))]>>
  BY DEF User
<1>7. e \in Elem
  BY DEF Live
<1>8. CASE stack' = <<NativeEvent(e, "click")>> /\ UNCHANGED focused
  <2>1. New(NativeEvent(e, "click"), "native", "click")
    BY <1>7, NativeEventFacts DEF Types
  <2> DEFINE f == NativeEvent(e, "click")
  <2> HIDE DEF f
  <2>2. New(f, "native", "click") /\ stack' = <<f>> /\ focused' = focused
    BY <1>8, <2>1 DEF f
  <2>3. /\ f \in FrameRec /\ FrameOK(f, bound, seen.next) /\ Fresh(f, bound) /\ (\A s : Spent(f, s))
        /\ f.todo = <<>>
    BY <2>2, NewFrame
  <2>4. \A j \in DOMAIN f.todo : TodoOK(f.todo[j], seen.next)
    BY <2>3
  <2>5. QED
    BY <1>4, <1>5, <2>2, <2>3, <2>4
<1>9. ASSUME NEW from \in (Live \ {e}) \cup {"none"},
             stack' = <<[NativeEvent(e, "mouseover") EXCEPT !.related = from]>>, UNCHANGED focused
      PROVE  EvSafe'
  <2> DEFINE g == NativeEvent(e, "mouseover")
             f == [g EXCEPT !.related = from]
  <2>1. New(g, "native", "mouseover")
    BY <1>7, NativeEventFacts DEF Types
  <2>2. from \in Elem \cup {"none"}
    BY DEF Live
  <2> HIDE DEF g
  <2>3. g \in Told
    BY <2>1 DEF New
  <2>4. f \in Told
    BY <2>2, <2>3 DEF Told, FramesOf
  <2>5. f.kind = g.kind /\ f.type = g.type /\ f.pos = g.pos /\ f.queue = g.queue
        /\ f.current = g.current /\ f.todo = g.todo /\ f.told = g.told /\ f.begun = g.begun
        /\ f.path = g.path
    BY <2>3 DEF Told, FramesOf
  <2>a. stack' = <<f>>
    BY <1>9 DEF g
  <2> HIDE DEF f
  <2>6. New(f, "native", "mouseover")
    BY <2>1, <2>4, <2>5 DEF New
  <2>7. /\ f \in FrameRec /\ FrameOK(f, bound, seen.next) /\ Fresh(f, bound) /\ (\A s : Spent(f, s))
        /\ f.todo = <<>>
    BY <2>6, NewFrame
  <2>8. \A j \in DOMAIN f.todo : TodoOK(f.todo[j], seen.next)
    BY <2>7
  <2>9. QED
    BY <1>4, <1>5, <1>9, <2>a, <2>7, <2>8
<1>10. ASSUME focused' = e,
              stack' = <<[Event("method", "focus", e, <<>>) EXCEPT
                            !.todo = NativeOf(Event("method", "focus", e, <<>>))]>>
       PROVE  EvSafe'
  <2> DEFINE g == Event("method", "focus", e, <<>>)
             todo == NativeOf(g)
             f == [g EXCEPT !.todo = todo]
  <2>1. g.type = "focus" /\ g.target = e
    BY DEF Event
  <2> HIDE DEF g
  <2>2. todo \in Seq(Told) /\ \A i \in DOMAIN todo : New(todo[i], "native", todo[i].type)
    BY <1>5, <1>7, <2>1, NativeOfFacts
  <2> HIDE DEF todo
  <2>3. \A i \in DOMAIN todo : todo[i].told = {} /\ TodoOK(todo[i], seen.next)
    BY <2>2, NewTodo
  <2>4. f = Calling("focus", e, todo) /\ stack' = <<f>>
    BY <1>10 DEF g, todo, Calling
  <2> HIDE DEF f
  <2>a. /\ f \in FrameRec /\ f.todo = todo /\ f.kind = "method" /\ f.path = <<>> /\ f.pos = 0
        /\ f.queue = <<>> /\ f.current = NoHandler /\ f.told = {}
    BY <1>7, <2>2, <2>4, MethodFrame
  <2>5. /\ FrameOK(f, bound, seen.next) /\ \A s : Spent(f, s)
        /\ (\A j \in DOMAIN f.todo : f.todo[j].told = {}) => Fresh(f, bound)
    BY <2>a, MethodOK
  <2>6. Fresh(f, bound) /\ \A j \in DOMAIN f.todo : TodoOK(f.todo[j], seen.next)
    BY <2>a, <2>3, <2>5
  <2>7. focused' \in Elem \cup {"none"}
    BY <1>7, <1>10
  <2>8. QED
    BY <1>4, <2>a, <2>4, <2>5, <2>6, <2>7
<1>11. QED
  BY <1>6, <1>8, <1>9, <1>10

\* The innermost event has changed.
LEMMA SwapTop ==
  ASSUME EvSafe, stack # <<>>, NEW f \in FrameRec, FrameOK(f, bound, seen.next),
         \A j \in DOMAIN f.todo : TodoOK(f.todo[j], seen.next),
         f.kind = "method" <=> Top.kind = "method", Acting(f) => Acting(Top),
         Silent(Top, bound, triggered) => Silent(f, bound, triggered),
         OnesOK(stack, bound, seen) /\ Spent(Top, seen) => Spent(f, seen)
  PROVE  /\ StackOK(Put(f), bound, seen.next)
         /\ ToldOK(stack, bound, triggered) => ToldOK(Put(f), bound, triggered)
         /\ OnesOK(stack, bound, seen) =>
               OnesOK(Put(f), bound, seen) /\ (f.queue = <<>> => Idle(Put(f)))
<1>1. StackOK(stack, bound, seen.next)
  BY DEF EvSafe
<1>2. /\ StackOK(Rest, bound, seen.next)
      /\ \A tr : ToldOK(stack, bound, tr) =>
            /\ Silent(Top, bound, tr) /\ (tr # "none" => ~Acting(Top))
            /\ IF Top.kind = "method" THEN ToldOK(Rest, bound, "none") ELSE ToldOK(Rest, bound, tr)
      /\ \A s : OnesOK(stack, bound, s) => OnesOK(Rest, bound, s) /\ Idle(Rest) /\ Spent(Top, s)
  BY <1>1, PopKeeps DEF Rest, Top
<1> DEFINE w == Append(Rest, f)
<1>3. /\ StackOK(w, bound, seen.next)
      /\ \A tr : /\ ToldOK(Rest, bound, tr) /\ Silent(f, bound, tr)
                 /\ tr # "none" => f.kind # "method" /\ ~Acting(f)
                 => ToldOK(w, bound, tr)
      /\ \A tr : ToldOK(Rest, bound, "none") /\ Silent(f, bound, tr) /\ f.kind = "method" => ToldOK(w, bound, tr)
      /\ \A s : OnesOK(Rest, bound, s) /\ Idle(Rest) /\ Spent(f, s) => OnesOK(w, bound, s)
  <2> HIDE DEF Rest
  <2>1. QED
    BY <1>2, PushKeeps
<1>4. Rest \in Seq(FrameRec)
  BY <1>2 DEF StackOK
<1>5. Idle(Rest) /\ f.queue = <<>> => Idle(w)
  <2>1. /\ \A i \in DOMAIN Rest : i \in DOMAIN w /\ w[i] = Rest[i]
        /\ \A i \in DOMAIN w : i \in DOMAIN Rest \/ i = Len(Rest) + 1
        /\ w[Len(Rest) + 1] = f
    <3> HIDE DEF Rest
    <3>1. QED
      BY <1>4, PushFacts
  <2> HIDE DEF w
  <2>2. QED
    BY <2>1 DEF Idle
<1> HIDE DEF w
<1>6. Put(f) = w
  BY DEF Put, w
<1>7. ToldOK(stack, bound, triggered) => ToldOK(w, bound, triggered)
  <2>1. CASE f.kind = "method"
    BY <1>2, <1>3, <2>1
  <2>2. CASE f.kind # "method"
    BY <1>2, <1>3, <2>2
  <2>3. QED
    BY <2>1, <2>2
<1>8. OnesOK(stack, bound, seen) => OnesOK(w, bound, seen) /\ (f.queue = <<>> => Idle(w))
  BY <1>2, <1>3, <1>5
<1>9. QED
  BY <1>3, <1>6, <1>7, <1>8

\* And it is not a method.
LEMMA PutKeeps ==
  ASSUME EvSafe, stack # <<>>, Top.kind # "method", NEW f \in FrameRec,
         FrameOK(f, bound, seen.next), f.todo = <<>>, f.kind # "method", Acting(f) => Acting(Top),
         Silent(Top, bound, triggered) => Silent(f, bound, triggered),
         OnesOK(stack, bound, seen) /\ Spent(Top, seen) => Spent(f, seen),
         stack' = Put(f), UNCHANGED <<bound, triggered, focused, evCalls, seen>>
  PROVE  EvSafe'
<1>1. EvTypeOK
  BY DEF EvSafe
<1>2. \A j \in DOMAIN f.todo : TodoOK(f.todo[j], seen.next)
  OBVIOUS
<1>3. /\ StackOK(stack', bound, seen.next)
      /\ ToldOK(stack, bound, triggered) => ToldOK(stack', bound, triggered)
      /\ OnesOK(stack, bound, seen) => OnesOK(stack', bound, seen)
  <2>1. /\ StackOK(Put(f), bound, seen.next)
        /\ ToldOK(stack, bound, triggered) => ToldOK(Put(f), bound, triggered)
        /\ OnesOK(stack, bound, seen) =>
               OnesOK(Put(f), bound, seen) /\ (f.queue = <<>> => Idle(Put(f)))
    BY <1>2, SwapTop
  <2>2. QED
    BY <2>1
<1>4. evCalls' \in 0..MaxEvents /\ focused' \in Elem \cup {"none"}
      /\ triggered' \in {"none", "click", "focus", "blur"}
  BY <1>1 DEF EvTypeOK
<1>5. bound' = bound /\ seen' = seen /\ triggered' = triggered
  OBVIOUS
<1>6. QED
  BY <1>3, <1>4, <1>5, StackSafe

\* The innermost event.
LEMMA TopFacts ==
  ASSUME EvSafe, stack # <<>>
  PROVE  /\ Top \in FrameRec /\ FrameOK(Top, bound, seen.next)
         /\ \A j \in DOMAIN Top.todo : TodoOK(Top.todo[j], seen.next)
<1>1. StackOK(stack, bound, seen.next)
  BY DEF EvSafe
<1>2. QED
  BY <1>1, PopKeeps DEF Top

\* An event that has less to call.
LEMMA ShorterFrame ==
  ASSUME NEW f \in FrameRec, NEW g \in FrameRec, NEW B, NEW next, FrameOK(f, B, next),
         g.kind = f.kind, g.type = f.type, g.path = f.path, g.pos = f.pos, g.told = f.told,
         g.begun = f.begun, g.todo = f.todo, g.only = f.only, f.kind # "method",
         QueueOK(g.queue), Calls(g.queue) \subseteq Calls(f.queue), f.queue = <<>> => g.queue = <<>>
  PROVE  /\ FrameOK(g, B, next) /\ (Acting(g) => Acting(f))
         /\ \A tr : Silent(f, B, tr) => Silent(g, B, tr)
         /\ \A s : Spent(f, s) => Spent(g, s)
<1>1. KindOK(g)
  BY DEF FrameOK, KindOK
<1>2. FrameOK(g, B, next)
  BY <1>1 DEF FrameOK
<1>3. Fresh(f, B) => Fresh(g, B)
  BY DEF Fresh
<1>4. \A tr : Hushed(f, tr) => Hushed(g, tr)
  BY DEF Hushed
<1>5. QED
  BY <1>2, <1>3, <1>4 DEF Silent, Spent, Acting

LEMMA ReturnKeeps == ASSUME EvSafe, Return PROVE EvSafe'
<1>1. Top.current # NoHandler /\ stack # <<>> /\ UNCHANGED <<bound, triggered, focused, evCalls, seen>>
  BY DEF Return, Running
<1> DEFINE f == Top
           same == IF f.queue # <<>> /\ f.queue[1].on = f.on THEN <<f.queue[1]>> ELSE <<>>
<1>2. PICK stops \in BOOLEAN, how \in {"undefined", "false", "stop", "immediate", "prevent"} :
         stack' = Put([f EXCEPT !.current = NoHandler, !.stopped = stops,
                                    !.prevented = @ \/ how \in {"false", "prevent"},
                                    !.queue = IF how = "immediate" THEN <<>>
                                              ELSE IF stops THEN same ELSE @])
  BY DEF Return
<1> DEFINE q == IF how = "immediate" THEN <<>> ELSE IF stops THEN same ELSE f.queue
           p == f.prevented \/ how \in {"false", "prevent"}
           g == [f EXCEPT !.current = NoHandler, !.stopped = stops, !.prevented = p, !.queue = q]
<1>3. stack' = Put(g)
  BY <1>2
<1>4. f \in FrameRec /\ FrameOK(f, bound, seen.next)
  BY <1>1, TopFacts
<1> HIDE DEF f
<1>5. f.kind # "method" /\ f.todo = <<>>
  BY <1>1, <1>4 DEF FrameOK, KindOK, f
<1>6. f.queue \in Seq(GroupRec) /\ QueueOK(f.queue) /\ f.prevented \in BOOLEAN
  BY <1>4, FrameFields DEF FrameOK
<1>7. q = <<>> \/ (f.queue # <<>> /\ q = <<f.queue[1]>>) \/ q = f.queue
  OBVIOUS
<1>8. p \in BOOLEAN
  BY <1>6
<1> HIDE DEF q, p, same
<1>9. /\ q \in Seq(GroupRec) /\ QueueOK(q) /\ Calls(q) \subseteq Calls(f.queue)
      /\ f.queue = <<>> => q = <<>>
  <2>1. CASE q = <<>>
    <3>1. DOMAIN q = {} /\ q \in Seq(GroupRec)
      BY <2>1
    <3>2. QED
      BY <2>1, <3>1 DEF QueueOK, Calls
  <2>2. CASE f.queue # <<>> /\ q = <<f.queue[1]>>
    <3> DEFINE z == f.queue
               m == [a \in {1} |-> 1]
               s == [a \in {1} |-> 0]
    <3>1. z \in Seq(GroupRec) /\ QueueOK(z) /\ z # <<>>
      BY <1>6, <2>2
    <3> HIDE DEF z
    <3>2. 1 \in DOMAIN z /\ z[1] \in GroupRec
      BY <3>1
    <3>3. q = <<z[1]>>
      BY <2>2 DEF z
    <3>4. q \in Seq(GroupRec) /\ DOMAIN q = {1} /\ q[1] = z[1]
      BY <3>2, <3>3
    <3>5. z[1].hs # <<>> /\ \A i \in DOMAIN z[1].hs : i + 0 = i
      <4>1. z[1].hs \in Seq(HandlerRec)
        BY <3>2 DEF GroupRec
      <4>2. \A i \in DOMAIN z[1].hs : i + 0 = i
        BY <4>1
      <4>3. QED
        BY <3>1, <3>2, <4>2 DEF QueueOK
    <3>6. m[1] = 1 /\ s[1] = 0 /\ 0 \in Nat
      OBVIOUS
    <3> HIDE DEF m, s
    <3>7. Part(q, z, m, s)
      BY <3>2, <3>4, <3>5, <3>6 DEF Part
    <3>8. QueueOK(q) /\ Calls(q) \subseteq Calls(z)
      BY <3>1, <3>4, <3>7, PartFacts
    <3>9. QED
      BY <2>2, <3>4, <3>8 DEF z
  <2>3. CASE q = f.queue
    BY <1>6, <2>3
  <2>4. QED
    BY <1>7, <2>1, <2>2, <2>3
<1>10. /\ g \in FrameRec /\ g.queue = q /\ g.kind = f.kind /\ g.type = f.type /\ g.path = f.path
       /\ g.pos = f.pos /\ g.told = f.told /\ g.begun = f.begun /\ g.todo = f.todo /\ g.only = f.only
  BY <1>4, <1>8, <1>9 DEF FrameRec, FramesOf
<1> HIDE DEF g
<1>11. /\ FrameOK(g, bound, seen.next) /\ (Acting(g) => Acting(f))
       /\ \A tr : Silent(f, bound, tr) => Silent(g, bound, tr)
       /\ \A s : Spent(f, s) => Spent(g, s)
  BY <1>4, <1>5, <1>9, <1>10, ShorterFrame
<1>12. QED
  BY <1>1, <1>3, <1>5, <1>10, <1>11, PutKeeps DEF f

\* The next element of the path.
LEMMA AdvanceKeeps == ASSUME EvSafe, Advance PROVE EvSafe'
<1> DEFINE f == Top
           at == f.path[f.pos + 1]
           silent == triggered = at[2] \/ (f.kind = "native" /\ at \notin bound.listening)
           q == IF silent THEN <<>> ELSE Groups(at[1], at[2], f.target)
           g == [f EXCEPT !.pos = @ + 1, !.queue = q]
           next == seen.next
<1>1. /\ stack # <<>> /\ f.kind # "method" /\ (f.kind = "native" => f.begun) /\ f.queue = <<>>
      /\ f.pos < Len(f.path) /\ stack' = Put(g) /\ UNCHANGED <<bound, triggered, focused, evCalls, seen>>
  BY DEF Advance, Quiet
<1>2. f \in FrameRec /\ FrameOK(f, bound, next)
  BY <1>1, TopFacts
<1> HIDE DEF f
<1>3. /\ f.path \in Seq(Elem \X Types) /\ f.pos \in Nat /\ f.target \in Elem /\ f.told \in SUBSET (Nat \X Elem)
      /\ Straight(f.path) /\ f.todo = <<>>
  BY <1>1, <1>2, FrameFields DEF FrameOK, KindOK
<1> DEFINE n == f.pos + 1
<1>4. n \in DOMAIN f.path /\ n \in Nat /\ n > 0 /\ n <= Len(f.path) /\ n > f.pos
  BY <1>1, <1>3
<1>5. f.path[n] \in Elem \X Types
  BY <1>3, <1>4
<1>6. at[1] \in Elem /\ at[2] \in Types /\ at = <<at[1], at[2]>>
  BY <1>5
<1>7. /\ bound \in BoundRec /\ HandlersOK(bound, FALSE) /\ IdsOK(bound, next) /\ next \in Nat
      /\ ListOK(bound, at[1], at[2])
  <2>1. HandlersOK(bound, "mapped off" \notin seen.odd) /\ IdsOK(bound, next) /\ seen \in SeenRec
    BY DEF EvSafe, BoundOK
  <2>2. HandlersOK(bound, FALSE)
    BY <2>1, WeakerHandlers
  <2>3. QED
    BY <1>6, <2>1, <2>2, SeenFields DEF HandlersOK
<1>8. f.kind = "native" => at[2] = f.type
  BY <1>2, <1>4 DEF FrameOK, KindOK
<1> HIDE DEF at, n, next
<1>9. /\ q \in Seq(GroupRec) /\ QueueOK(q)
      /\ \A c \in Calls(q) : c[1] \in Elem /\ c[2] \in Bound(bound, at[1], at[2])
  <2>1. CASE silent
    <3>1. q = <<>> /\ DOMAIN q = {} /\ q \in Seq(GroupRec)
      BY <2>1
    <3>2. QED
      BY <3>1 DEF QueueOK, Calls
  <2>2. CASE ~silent
    <3>1. q = Groups(at[1], at[2], f.target)
      BY <2>2
    <3> HIDE DEF q
    <3>2. QED
      BY <1>3, <1>6, <1>7, <3>1, GroupsFacts
  <2>3. QED
    BY <2>1, <2>2
<1>10. f.kind = "native" /\ f.type = triggered => q = <<>>
  BY <1>8
<1> HIDE DEF q
<1>11. /\ g \in FrameRec /\ g.queue = q /\ g.pos = n /\ g.kind = f.kind /\ g.type = f.type
       /\ g.path = f.path /\ g.told = f.told /\ g.begun = f.begun /\ g.todo = f.todo
       /\ g.only = f.only /\ g.current = f.current
  <2>1. n \in Nat /\ n = f.pos + 1
    BY <1>4 DEF n
  <2>2. QED
    BY <1>2, <1>9, <2>1 DEF FrameRec, FramesOf
<1> HIDE DEF g
<1>12. ASSUME NEW c \in Calls(q)
       PROVE  /\ CallOK(c[2], at, bound, next)
              /\ \A e \in Elem : \A t \in Types : \A k \in Bound(bound, e, t) :
                    k.id = c[2].id => <<e, t>> = at
  <2> DEFINE h == c[2]
  <2>1. h \in Bound(bound, at[1], at[2])
    BY <1>9
  <2> HIDE DEF h
  <2>2. PICK i \in DOMAIN bound.events[at[1]][at[2]] : h = bound.events[at[1]][at[2]][i]
    BY <2>1 DEF Bound, ToSet
  <2>3. Proper(h, next)
    BY <1>6, <1>7, <2>2 DEF IdsOK
  <2>4. h.type = at[2]
    BY <1>7, <2>2 DEF ListOK
  <2>5. ASSUME NEW e \in Elem, NEW t \in Types, NEW k \in Bound(bound, e, t), k.id = h.id
        PROVE  k = h /\ <<e, t>> = at
    <3>1. PICK j \in DOMAIN bound.events[e][t] : k = bound.events[e][t][j]
      BY DEF Bound, ToSet
    <3>2. bound.events[e][t][j].id = bound.events[at[1]][at[2]][i].id
      BY <2>2, <2>5, <3>1
    <3>3. e = at[1] /\ t = at[2] /\ j = i
      BY <1>6, <1>7, <2>2, <2>5, <3>1, <3>2 DEF IdsOK
    <3>4. QED
      BY <1>6, <2>2, <3>1, <3>3
  <2>6. QED
    BY <2>3, <2>4, <2>5 DEF CallOK, h
<1>13. f.path[n] = at
  BY DEF at, n
<1>14. FrameOK(g, bound, next)
  <2>1. KindOK(g)
    BY <1>1, <1>2, <1>11 DEF FrameOK, KindOK
  <2>2. \A x \in g.told : x[1] < next
    BY <1>2, <1>11 DEF FrameOK
  <2>3. \A c \in Calls(g.queue) : CallOK(c[2], g.path[g.pos], bound, next)
    BY <1>11, <1>12, <1>13
  <2>4. g.pos <= Len(g.path) /\ g.pos > 0
    BY <1>4, <1>11
  <2>5. QED
    BY <1>3, <1>9, <1>11, <2>1, <2>2, <2>3, <2>4 DEF FrameOK
<1>15. ASSUME Fresh(f, bound) PROVE Fresh(g, bound)
  <2>1. \A h \in Bound(bound, at[1], at[2]) : \A x \in f.told : x[1] # h.id
    BY <1>4, <1>13, <1>15 DEF Fresh
  <2>2. ASSUME NEW c \in Calls(g.queue) PROVE <<c[2].id, c[1]>> \notin g.told
    <3>1. c[2] \in Bound(bound, at[1], at[2])
      BY <1>9, <1>11
    <3>2. \A x \in g.told : x[1] # c[2].id
      BY <1>11, <2>1, <3>1
    <3> DEFINE x == <<c[2].id, c[1]>>
    <3>3. x[1] = c[2].id
      OBVIOUS
    <3> HIDE DEF x
    <3>4. x \notin g.told
      BY <3>2, <3>3
    <3>5. QED
      BY <3>4 DEF x
  <2>3. ASSUME NEW p \in DOMAIN g.path, p > g.pos,
               NEW h \in Bound(bound, g.path[p][1], g.path[p][2])
        PROVE  (\A x \in g.told : x[1] # h.id) /\ \A c \in Calls(g.queue) : c[2].id # h.id
    <3>1. p \in DOMAIN f.path /\ p > n /\ h \in Bound(bound, f.path[p][1], f.path[p][2])
      BY <1>11, <2>3
    <3>2. p \in Nat /\ p > f.pos /\ p # n
      <4>1. p \in Nat
        BY <1>3, <3>1
      <4>2. QED
        BY <1>3, <1>4, <3>1, <4>1
    <3>3. \A x \in g.told : x[1] # h.id
      BY <1>11, <1>15, <3>1, <3>2 DEF Fresh
    <3>4. ASSUME NEW c \in Calls(g.queue), c[2].id = h.id PROVE FALSE
      <4>1. f.path[p] \in Elem \X Types
        BY <1>3, <3>1
      <4>2. f.path[p][1] \in Elem /\ f.path[p][2] \in Types /\ f.path[p] = <<f.path[p][1], f.path[p][2]>>
        BY <4>1
      <4>3. <<f.path[p][1], f.path[p][2]>> = at
        BY <1>11, <1>12, <3>1, <3>4, <4>2
      <4>4. f.path[p] = f.path[n]
        BY <1>13, <4>2, <4>3
      <4>5. QED
        BY <1>3, <1>4, <3>1, <3>2, <4>4 DEF Straight
    <3>5. QED
      BY <3>3, <3>4
  <2>4. ~(g.kind = "native" /\ ~g.begun) /\ DOMAIN g.todo = {}
    BY <1>1, <1>3, <1>11
  <2>5. QED
    BY <2>2, <2>3, <2>4 DEF Fresh
<1>16. Silent(f, bound, triggered) => Silent(g, bound, triggered)
  <2>1. Hushed(f, triggered) => Hushed(g, triggered)
    BY <1>1, <1>10, <1>11 DEF Hushed
  <2>2. QED
    BY <1>15, <2>1 DEF Silent
<1>17. ASSUME OnesOK(stack, bound, seen) PROVE Spent(g, seen)
  <2>1. ASSUME NEW c \in Calls(g.queue), c[2].id \in seen.ones PROVE c[2].type # c[2].origType
    <3>1. c[2] \in Bound(bound, at[1], at[2])
      BY <1>9, <1>11
    <3>2. QED
      BY <1>6, <1>17, <2>1, <3>1 DEF OnesOK
  <2>2. QED
    BY <2>1 DEF Spent
<1>18. Acting(g) => Acting(f)
  BY <1>11 DEF Acting
<1>19. QED
  BY <1>1, <1>3, <1>11, <1>14, <1>16, <1>17, <1>18, PutKeeps DEF f, next

\* The handler on the document, before an event of the browser.
LEMMA CaptureKeeps == ASSUME EvSafe, Capture PROVE EvSafe'
<1> DEFINE f == Top
           g == [f EXCEPT !.begun = TRUE]
           k == TriggerEvent(f.target, Fix(f.type), "", FALSE)
           h == [k EXCEPT !.told = f.told]
           heard == /\ f.type \in {"focus", "blur"} /\ bound.attaches[Fix(f.type)] > 0
                    /\ <<Fix(f.type), triggered>> \notin Morphs
           next == seen.next
<1>1. /\ stack # <<>> /\ f.kind = "native" /\ ~f.begun
      /\ stack' = IF heard THEN Append(Put(g), h) ELSE Put(g)
      /\ UNCHANGED <<bound, triggered, focused, evCalls, seen>>
  BY DEF Capture, Quiet
<1>2. f \in FrameRec /\ FrameOK(f, bound, next)
  BY <1>1, TopFacts
<1> HIDE DEF f
<1>3. f.queue = <<>> /\ f.pos = 0 /\ f.todo = <<>> /\ f.target \in Elem /\ f.type \in Types
      /\ f.told \in SUBSET (Nat \X Elem) /\ \A x \in f.told : x[1] < next
  BY <1>1, <1>2, FrameFields DEF FrameOK, KindOK
<1>4. /\ g \in FrameRec /\ g.queue = <<>> /\ g.pos = f.pos /\ g.kind = f.kind /\ g.type = f.type
      /\ g.path = f.path /\ g.told = f.told /\ g.begun = TRUE /\ g.todo = f.todo
      /\ g.only = f.only /\ g.current = f.current
  BY <1>2, <1>3 DEF FrameRec, FramesOf
<1> HIDE DEF g
<1>5. FrameOK(g, bound, next)
  <2>1. KindOK(g)
    BY <1>1, <1>2, <1>4 DEF FrameOK, KindOK
  <2>2. QED
    BY <1>2, <1>3, <1>4, <2>1 DEF FrameOK
<1>6. Silent(f, bound, triggered) => Silent(g, bound, triggered)
  <2>1. Fresh(f, bound) => Fresh(g, bound)
    BY <1>3, <1>4 DEF Fresh
  <2>2. Hushed(f, triggered) => Hushed(g, triggered)
    BY <1>3, <1>4 DEF Hushed
  <2>3. QED
    BY <2>1, <2>2 DEF Silent
<1>7. \A s : Spent(g, s)
  <2>1. Calls(g.queue) = {}
    <3>1. DOMAIN g.queue = {}
      BY <1>4
    <3>2. QED
      BY <3>1 DEF Calls
  <2>2. QED
    BY <2>1 DEF Spent
<1>8. /\ g.kind # "method" /\ f.kind # "method" /\ ~Acting(g) /\ \A j \in DOMAIN g.todo : TodoOK(g.todo[j], next)
  <2>1. DOMAIN g.todo = {}
    BY <1>3, <1>4
  <2>2. g.kind = "native" /\ f.kind = "native"
    BY <1>1, <1>4
  <2>3. QED
    BY <2>1, <2>2 DEF Acting
<1>9. CASE ~heard
  <2>1. stack' = Put(g) /\ g.todo = <<>>
    BY <1>1, <1>3, <1>4, <1>9
  <2> HIDE DEF heard
  <2>2. QED
    BY <1>1, <1>4, <1>5, <1>6, <1>7, <1>8, <2>1, PutKeeps DEF f, next
<1>10. CASE heard
  <2> DEFINE w == Put(g)
  <2>1. /\ StackOK(w, bound, next)
        /\ ToldOK(stack, bound, triggered) => ToldOK(w, bound, triggered)
        /\ OnesOK(stack, bound, seen) => OnesOK(w, bound, seen) /\ Idle(w)
    <3>1. /\ StackOK(Put(g), bound, seen.next)
          /\ ToldOK(stack, bound, triggered) => ToldOK(Put(g), bound, triggered)
          /\ OnesOK(stack, bound, seen) =>
                OnesOK(Put(g), bound, seen) /\ (g.queue = <<>> => Idle(Put(g)))
      <4> HIDE DEF heard
      <4>1. QED
        BY <1>1, <1>4, <1>5, <1>6, <1>7, <1>8, SwapTop DEF f, next
    <3>2. QED
      BY <1>4, <3>1 DEF next
  <2> HIDE DEF w
  <2>2. stack' = Append(w, h)
    BY <1>1, <1>10 DEF w
  <2>3. f.type \in {"focus", "blur"} /\ Fix(f.type) \in {"focusin", "focusout"}
        /\ Fix(f.type) \in Types \cup {"mouseenter"} /\ ~HasMethod(Fix(f.type))
    BY <1>10 DEF Fix, HasMethod, Types
  <2>4. f.type # triggered
    <3>1. <<Fix(f.type), f.type>> \in Morphs
      BY <2>3 DEF Fix, Morphs
    <3>2. <<Fix(f.type), triggered>> \notin Morphs
      BY <1>10
    <3>3. QED
      BY <3>1, <3>2
  <2> HIDE DEF heard
  <2>5. New(k, "trigger", Fix(f.type))
    BY <1>3, <2>3, TriggerEventFacts
  <2> HIDE DEF k
  <2>6. k \in FrameRec
    BY <2>5, ToldIsFrame DEF New
  <2>7. h \in FrameRec /\ h.told = f.told
    BY <1>3, <2>6 DEF FrameRec, FramesOf
  <2>8. /\ h.kind = k.kind /\ h.type = k.type /\ h.pos = k.pos /\ h.queue = k.queue
        /\ h.current = k.current /\ h.todo = k.todo /\ h.begun = k.begun /\ h.path = k.path
    BY <2>6 DEF FrameRec, FramesOf
  <2>9. /\ h.kind = "trigger" /\ h.type = Fix(f.type) /\ h.pos = 0 /\ h.queue = <<>>
        /\ h.todo = <<>> /\ Straight(h.path) /\ h.path \in Seq(Elem \X Types)
    BY <2>5, <2>7, <2>8, FrameFields DEF New
  <2> HIDE DEF h
  <2>10. Calls(h.queue) = {} /\ QueueOK(h.queue)
    <3>1. DOMAIN h.queue = {}
      BY <2>9
    <3>2. QED
      BY <3>1 DEF Calls, QueueOK
  <2>11. FrameOK(h, bound, next)
    <3>1. KindOK(h)
      BY <2>9 DEF KindOK
    <3>2. h.pos <= Len(h.path)
      BY <2>9
    <3>3. QED
      BY <1>3, <2>7, <2>9, <2>10, <3>1, <3>2 DEF FrameOK
  <2>12. Fresh(f, bound) => Fresh(h, bound)
    <3>1. SUFFICES ASSUME Fresh(f, bound) PROVE Fresh(h, bound)
      OBVIOUS
    <3>2. f.told = {}
      BY <1>1, <3>1 DEF Fresh
    <3>3. DOMAIN h.todo = {}
      BY <2>9
    <3>4. QED
      BY <2>7, <2>9, <2>10, <3>2, <3>3 DEF Fresh
  <2>13. ~Hushed(f, triggered)
    BY <1>1, <2>4 DEF Hushed
  <2>14. ~Acting(h) /\ h.kind # "method"
    BY <2>3, <2>9 DEF Acting
  <2>15. /\ StackOK(stack', bound, next)
         /\ ToldOK(w, bound, triggered) /\ Fresh(h, bound) => ToldOK(stack', bound, triggered)
         /\ OnesOK(w, bound, seen) /\ Idle(w) => OnesOK(stack', bound, seen)
    <3>1. Spent(h, seen)
      BY <2>10 DEF Spent
    <3>2. \A j \in DOMAIN h.todo : TodoOK(h.todo[j], next)
      BY <2>9
    <3>3. Fresh(h, bound) => Silent(h, bound, triggered)
      BY DEF Silent
    <3>4. QED
      BY <2>1, <2>2, <2>7, <2>11, <2>14, <3>1, <3>2, <3>3, PushKeeps
  <2>16. ToldOK(stack, bound, triggered) => Fresh(f, bound)
    <3>1. SUFFICES ASSUME ToldOK(stack, bound, triggered) PROVE Silent(f, bound, triggered)
      BY <2>13 DEF Silent
    <3>2. StackOK(stack, bound, next)
      BY DEF EvSafe, next
    <3>3. QED
      BY <1>1, <3>1, <3>2, PopKeeps DEF f, Top
  <2>17. /\ ToldOK(stack, bound, triggered) => ToldOK(stack', bound, triggered')
         /\ OnesOK(stack, bound, seen) => OnesOK(stack', bound, seen)
    BY <1>1, <2>1, <2>12, <2>15, <2>16
  <2>18. evCalls' \in 0..MaxEvents /\ focused' \in Elem \cup {"none"}
         /\ triggered' \in {"none", "click", "focus", "blur"} /\ bound' = bound /\ seen' = seen
    BY <1>1 DEF EvSafe, EvTypeOK
  <2>19. StackOK(stack', bound, seen.next)
    BY <2>15 DEF next
  <2>20. QED
    BY <2>17, <2>18, <2>19, StackSafe
<1>11. QED
  BY <1>9, <1>10

\* The end of an event, and its default action.
LEMMA FinishKeeps == ASSUME EvSafe, Finish PROVE EvSafe'
<1> DEFINE f == Top
           events == NativeOf(f)
           Heir(n) == IF n.type = f.type THEN [n EXCEPT !.told = f.told] ELSE n
           todo == [i \in DOMAIN events |-> Heir(events[i])]
           m == [Event("method", f.type, f.target, <<>>) EXCEPT !.todo = todo]
           next == seen.next
<1>1. /\ stack # <<>> /\ f.kind # "method" /\ f.queue = <<>> /\ UNCHANGED <<bound, evCalls, seen>>
      /\ IF Acts(f)
         THEN /\ triggered' = f.type /\ stack' = Put(m) /\ focused' = FocusAfter(f)
         ELSE stack' = Rest /\ UNCHANGED <<triggered, focused>>
  BY DEF Finish, Quiet, Over
<1>2. f \in FrameRec /\ FrameOK(f, bound, next)
  BY <1>1, TopFacts
<1>3. EvTypeOK /\ StackOK(stack, bound, next) /\ evCalls' \in 0..MaxEvents /\ bound' = bound /\ seen' = seen
  BY <1>1, SameCalls DEF EvSafe
<1>4. /\ StackOK(Rest, bound, next)
      /\ \A tr : ToldOK(stack, bound, tr) =>
            /\ Silent(f, bound, tr) /\ (tr # "none" => ~Acting(f))
            /\ IF f.kind = "method" THEN ToldOK(Rest, bound, "none") ELSE ToldOK(Rest, bound, tr)
      /\ \A s : OnesOK(stack, bound, s) => OnesOK(Rest, bound, s) /\ Idle(Rest) /\ Spent(f, s)
  BY <1>1, <1>3, PopKeeps DEF Rest, Top
<1> HIDE DEF f
<1>5. CASE ~Acts(f)
  <2>1. stack' = Rest /\ triggered' = triggered /\ focused' = focused
    BY <1>1, <1>5
  <2>2. /\ ToldOK(stack, bound, triggered) => ToldOK(stack', bound, triggered')
        /\ OnesOK(stack, bound, seen) => OnesOK(stack', bound, seen)
    BY <1>1, <1>4, <2>1
  <2>3. focused' \in Elem \cup {"none"} /\ triggered' \in {"none", "click", "focus", "blur"}
    BY <1>3, <2>1 DEF EvTypeOK
  <2>4. StackOK(stack', bound, seen.next)
    BY <1>4, <2>1 DEF next
  <2>5. QED
    BY <1>3, <2>2, <2>3, <2>4, StackSafe
<1>6. CASE Acts(f)
  <2>1. stack' = Put(m) /\ triggered' = f.type /\ focused' = FocusAfter(f)
    BY <1>1, <1>6
  <2>2. f.type \in {"click", "focus", "blur"} /\ Acting(f)
    BY <1>6 DEF Acts, Acting, HasMethod
  <2>3. f.target \in Elem /\ f.told \in SUBSET (Nat \X Elem) /\ \A x \in f.told : x[1] < next
    BY <1>2, FrameFields DEF FrameOK
  <2>4. focused \in Elem \cup {"none"}
    BY <1>3 DEF EvTypeOK
  <2>5. events \in Seq(Told) /\ \A i \in DOMAIN events : New(events[i], "native", events[i].type)
    BY <2>2, <2>3, <2>4, NativeOfFacts
  <2> HIDE DEF events
  <2>6. ASSUME NEW i \in DOMAIN events
        PROVE  /\ Heir(events[i]) \in Told /\ TodoOK(Heir(events[i]), next)
               /\ Heir(events[i]).told = {} \/ Heir(events[i]).type = f.type
    <3> DEFINE n == events[i]
               p == [n EXCEPT !.told = f.told]
    <3>1. New(n, "native", n.type)
      BY <2>5
    <3>2. n \in Told /\ n.told = {} /\ TodoOK(n, next)
      BY <3>1, NewTodo
    <3> HIDE DEF n
    <3>3. p \in Told /\ p.told = f.told
      BY <2>3, <3>2 DEF Told, FramesOf
    <3>4. p.kind = n.kind /\ p.type = n.type /\ p.begun = n.begun /\ p.queue = n.queue
          /\ p.pos = n.pos /\ p.path = n.path
      BY <3>2 DEF Told, FramesOf
    <3> HIDE DEF p
    <3>5. TodoOK(p, next)
      BY <2>3, <3>2, <3>3, <3>4 DEF TodoOK
    <3>6. Heir(n) = IF n.type = f.type THEN p ELSE n
      BY DEF p
    <3> HIDE DEF Heir
    <3>7. Heir(n) \in Told /\ TodoOK(Heir(n), next) /\ (Heir(n).told = {} \/ Heir(n).type = f.type)
      BY <3>2, <3>3, <3>4, <3>5, <3>6
    <3>8. QED
      BY <3>7 DEF n
  <2> HIDE DEF Heir
  <2>7. /\ todo \in Seq(Told) /\ DOMAIN todo = DOMAIN events
        /\ \A i \in DOMAIN todo : /\ TodoOK(todo[i], next)
                                  /\ todo[i].told = {} \/ todo[i].type = f.type
    <3>1. Len(events) \in Nat /\ DOMAIN events = 1..Len(events)
      BY <2>5
    <3>2. DOMAIN todo = DOMAIN events /\ \A i \in DOMAIN events : todo[i] = Heir(events[i])
      OBVIOUS
    <3>3. todo \in Seq(Told)
      BY <2>6, <3>1
    <3> HIDE DEF todo
    <3>4. QED
      BY <2>6, <3>2, <3>3
  <2> HIDE DEF todo
  <2>8. /\ m \in FrameRec /\ FrameOK(m, bound, next) /\ m.todo = todo /\ m.kind = "method"
        /\ (\A s : Spent(m, s)) /\ Hushed(m, f.type)
    <3>1. m = Calling(f.type, f.target, todo)
      BY DEF Calling
    <3> DEFINE type == f.type
               target == f.target
    <3>2. type \in {"click", "focus", "blur"} /\ target \in Elem /\ todo \in Seq(Told)
      BY <2>2, <2>3, <2>7
    <3> HIDE DEF m, type, target
    <3>3. m = Calling(type, target, todo)
      BY <3>1 DEF type, target
    <3>4. /\ m \in FrameRec /\ m.todo = todo /\ m.kind = "method" /\ m.path = <<>> /\ m.pos = 0
          /\ m.queue = <<>> /\ m.current = NoHandler /\ m.told = {}
      BY ONLY <3>2, <3>3, MethodFrame
    <3>5. FrameOK(m, bound, next) /\ \A s : Spent(m, s)
      BY <3>4, MethodOK
    <3>6. Hushed(m, f.type)
      BY <2>7, <3>4 DEF Hushed
    <3>7. QED
      BY <3>4, <3>5, <3>6
  <2> HIDE DEF m
  <2>9. Silent(m, bound, f.type)
    BY <2>2, <2>8 DEF Silent
  <2>10. /\ StackOK(stack', bound, next)
         /\ ToldOK(Rest, bound, "none") => ToldOK(stack', bound, f.type)
         /\ OnesOK(Rest, bound, seen) /\ Idle(Rest) => OnesOK(stack', bound, seen)
    <3>1. \A j \in DOMAIN m.todo : TodoOK(m.todo[j], next)
      BY <2>7, <2>8
    <3>2. stack' = Append(Rest, m)
      BY <2>1 DEF Put
    <3> HIDE DEF Rest
    <3>3. QED
      BY <1>4, <2>8, <2>9, <3>1, <3>2, PushKeeps
  <2>11. ToldOK(stack, bound, triggered) => ToldOK(stack', bound, triggered')
    <3>1. SUFFICES ASSUME ToldOK(stack, bound, triggered) PROVE ToldOK(Rest, bound, "none")
      BY <2>1, <2>10
    <3>2. triggered = "none"
      BY <1>4, <2>2, <3>1
    <3>3. QED
      BY <1>1, <1>4, <3>1, <3>2
  <2>12. OnesOK(stack, bound, seen) => OnesOK(stack', bound, seen)
    BY <1>4, <2>10
  <2>13. focused' \in Elem \cup {"none"} /\ triggered' \in {"none", "click", "focus", "blur"}
    BY <2>1, <2>2, <2>3, <2>4 DEF FocusAfter
  <2>14. StackOK(stack', bound, seen.next)
    BY <2>10 DEF next
  <2>15. QED
    BY <1>3, <2>11, <2>12, <2>13, <2>14, StackSafe
<1>7. QED
  BY <1>5, <1>6

\* A method tells its next event, or is over.
LEMMA MethodKeeps == ASSUME EvSafe, Method PROVE EvSafe'
<1> DEFINE f == Top
           e == f.todo[1]
           left == Tail(f.todo)
           g == [f EXCEPT !.todo = left]
           next == seen.next
<1>1. /\ stack # <<>> /\ f.kind = "method" /\ UNCHANGED <<bound, focused, evCalls, seen>>
      /\ IF f.todo = <<>> THEN stack' = Rest /\ triggered' = "none"
         ELSE /\ stack' = Append(Put(g), e) /\ UNCHANGED triggered
  BY DEF Method, Quiet
<1>2. f \in FrameRec /\ FrameOK(f, bound, next) /\ \A j \in DOMAIN f.todo : TodoOK(f.todo[j], next)
  BY <1>1, TopFacts
<1>3. EvTypeOK /\ StackOK(stack, bound, next) /\ evCalls' \in 0..MaxEvents /\ bound' = bound
      /\ seen' = seen /\ focused' \in Elem \cup {"none"}
  BY <1>1, SameCalls DEF EvSafe, EvTypeOK
<1>4. /\ StackOK(Rest, bound, next)
      /\ \A tr : ToldOK(stack, bound, tr) =>
            /\ Silent(f, bound, tr) /\ (tr # "none" => ~Acting(f))
            /\ IF f.kind = "method" THEN ToldOK(Rest, bound, "none") ELSE ToldOK(Rest, bound, tr)
      /\ \A s : OnesOK(stack, bound, s) => OnesOK(Rest, bound, s) /\ Idle(Rest) /\ Spent(f, s)
  BY <1>1, <1>3, PopKeeps DEF Rest, Top
<1> HIDE DEF f
<1>5. CASE f.todo = <<>>
  <2>1. stack' = Rest /\ triggered' = "none"
    BY <1>1, <1>5
  <2>2. /\ ToldOK(stack, bound, triggered) => ToldOK(stack', bound, triggered')
        /\ OnesOK(stack, bound, seen) => OnesOK(stack', bound, seen)
    BY <1>1, <1>4, <2>1
  <2>3. StackOK(stack', bound, seen.next)
    BY <1>4, <2>1 DEF next
  <2>4. QED
    BY <1>3, <2>1, <2>2, <2>3, StackSafe
<1>6. CASE f.todo # <<>>
  <2>1. stack' = Append(Put(g), e) /\ triggered' = triggered
    BY <1>1, <1>6
  <2>2. f.todo \in Seq(Told)
    BY <1>2, FrameFields
  <2>3. /\ left \in Seq(Told) /\ 1 \in DOMAIN f.todo /\ e \in Told
        /\ \A j \in DOMAIN left : \E i \in DOMAIN f.todo : left[j] = f.todo[i]
    <3> DEFINE s == f.todo
    <3>1. s \in Seq(Told) /\ s # <<>>
      BY <1>6, <2>2
    <3> HIDE DEF s
    <3>2. /\ Tail(s) \in Seq(Told) /\ 1 \in DOMAIN s /\ s[1] \in Told
          /\ \A j \in DOMAIN Tail(s) : j + 1 \in DOMAIN s /\ Tail(s)[j] = s[j + 1]
      BY <3>1
    <3>3. \A j \in DOMAIN Tail(s) : \E i \in DOMAIN s : Tail(s)[j] = s[i]
      BY <3>2
    <3>4. QED
      BY <3>2, <3>3 DEF s
  <2>4. TodoOK(e, next)
    BY <1>2, <2>3
  <2> HIDE DEF left, e
  <2>5. /\ g \in FrameRec /\ g.todo = left /\ g.kind = f.kind /\ g.type = f.type /\ g.path = f.path
        /\ g.pos = f.pos /\ g.queue = f.queue /\ g.current = f.current /\ g.told = f.told
        /\ g.only = f.only /\ g.begun = f.begun
    BY <1>2, <2>3 DEF FrameRec, FramesOf
  <2> HIDE DEF g
  <2>6. f.queue = <<>> /\ KindOK(f)
    BY <1>1, <1>2 DEF FrameOK, KindOK
  <2>7. FrameOK(g, bound, next)
    <3>1. KindOK(g)
      BY <1>1, <2>5, <2>6 DEF KindOK
    <3>2. QED
      BY <1>2, <2>5, <3>1 DEF FrameOK
  <2>8. \A j \in DOMAIN g.todo : TodoOK(g.todo[j], next)
    BY <1>2, <2>3, <2>5
  <2>9. Fresh(f, bound) => Fresh(g, bound) /\ e.told = {}
    BY <2>3, <2>5 DEF Fresh, e
  <2>10. Hushed(f, triggered) => Hushed(g, triggered) /\ (e.told = {} \/ e.type = triggered)
    BY <1>1, <2>3, <2>5 DEF Hushed, e
  <2>11. Silent(f, bound, triggered) => Silent(g, bound, triggered)
    BY <2>9, <2>10 DEF Silent
  <2>12. Spent(f, seen) => Spent(g, seen)
    BY <2>5 DEF Spent
  <2> DEFINE w == Put(g)
  <2>13. /\ StackOK(w, bound, next)
         /\ ToldOK(stack, bound, triggered) => ToldOK(w, bound, triggered)
         /\ OnesOK(stack, bound, seen) => OnesOK(w, bound, seen) /\ Idle(w)
    <3>1. /\ StackOK(Put(g), bound, seen.next)
          /\ ToldOK(stack, bound, triggered) => ToldOK(Put(g), bound, triggered)
          /\ OnesOK(stack, bound, seen) =>
                OnesOK(Put(g), bound, seen) /\ (g.queue = <<>> => Idle(Put(g)))
      <4>1. (g.kind = "method" <=> f.kind = "method") /\ (Acting(g) => Acting(f))
        BY <2>5 DEF Acting
      <4>2. QED
        BY <1>1, <2>5, <2>7, <2>8, <2>11, <2>12, <4>1, SwapTop DEF f, next
    <3>2. QED
      BY <2>5, <2>6, <3>1 DEF next
  <2> HIDE DEF w
  <2>14. /\ e \in FrameRec /\ e.kind = "native" /\ e.queue = <<>> /\ e.pos = 0 /\ e.todo = <<>>
         /\ e.type \in Types /\ ~e.begun /\ Straight(e.path) /\ e.path \in Seq(Elem \X Types)
         /\ (\A p \in DOMAIN e.path : e.path[p][2] = e.type) /\ \A x \in e.told : x[1] < next
    <3>1. e \in FrameRec /\ e.todo = <<>>
      BY <2>3, ToldIsFrame DEF Told, FramesOf
    <3>2. QED
      BY <2>4, <3>1, FrameFields DEF TodoOK
  <2>15. Calls(e.queue) = {} /\ QueueOK(e.queue) /\ DOMAIN e.todo = {}
    <3>1. DOMAIN e.queue = {} /\ DOMAIN e.todo = {}
      BY <2>14
    <3>2. QED
      BY <3>1 DEF Calls, QueueOK
  <2>16. FrameOK(e, bound, next)
    <3>1. KindOK(e)
      BY <2>14 DEF KindOK
    <3>2. e.pos <= Len(e.path)
      BY <2>14
    <3>3. QED
      BY <2>14, <2>15, <3>1, <3>2 DEF FrameOK
  <2>17. e.told = {} => Fresh(e, bound)
    BY <2>14, <2>15 DEF Fresh
  <2>18. e.type = triggered => Hushed(e, triggered)
    BY <2>14 DEF Hushed
  <2>19. ToldOK(stack, bound, triggered) => Silent(e, bound, triggered)
    BY <1>4, <2>9, <2>10, <2>17, <2>18 DEF Silent
  <2>20. /\ StackOK(stack', bound, next)
         /\ ToldOK(w, bound, triggered) /\ Silent(e, bound, triggered) => ToldOK(stack', bound, triggered)
         /\ OnesOK(w, bound, seen) /\ Idle(w) => OnesOK(stack', bound, seen)
    <3>1. Spent(e, seen)
      BY <2>15 DEF Spent
    <3>2. \A j \in DOMAIN e.todo : TodoOK(e.todo[j], next)
      BY <2>15
    <3>3. e.kind # "method" /\ ~Acting(e)
      BY <2>14 DEF Acting
    <3>4. stack' = Append(w, e)
      BY <2>1 DEF w
    <3>5. QED
      BY <2>13, <2>14, <2>16, <3>1, <3>2, <3>3, <3>4, PushKeeps
  <2>21. /\ ToldOK(stack, bound, triggered) => ToldOK(stack', bound, triggered')
         /\ OnesOK(stack, bound, seen) => OnesOK(stack', bound, seen)
    BY <2>1, <2>13, <2>19, <2>20
  <2>22. triggered' \in {"none", "click", "focus", "blur"}
    BY <1>3, <2>1 DEF EvTypeOK
  <2>23. StackOK(stack', bound, seen.next)
    BY <2>20 DEF next
  <2>24. QED
    BY <1>3, <2>21, <2>22, <2>23, StackSafe
<1>7. QED
  BY <1>5, <1>6

\* A one-time handler that unbinds itself: it is not bound any more where it
\* was, but for a type that is mapped to another.
LEMMA CalledGoes ==
  ASSUME NEW B, NEW exact \in BOOLEAN, HandlersOK(B, exact), NEW next, IdsOK(B, next),
         NEW h \in HandlerRec, NEW at \in Elem \X Types, CallOK(h, at, B, next)
  PROVE  LET C == RemoveType(B, at[1], h.type, h.fn, Given(h.ns), Given(h.sel))
         IN /\ HandlersOK(C, exact) /\ Shrinks(C, B)
            /\ \A e \in Elem : \A t \in Types : \A k \in Bound(C, e, t) :
                  k.id = h.id => k.type # k.origType
<1> DEFINE sel == Given(h.sel)
           ns == Given(h.ns)
           t == IF sel = "any" THEN BindType(h.type) ELSE DelegateType(h.type)
           C == RemoveType(B, at[1], h.type, h.fn, ns, sel)
<1>1. /\ h.type = MappedType(h.origType, h.sel) /\ h.type = at[2]
      /\ \A e \in Elem : \A u \in Types : \A k \in Bound(B, e, u) : k.id = h.id => k = h /\ <<e, u>> = at
  BY DEF CallOK, Proper
<1>2. h.type \in Types /\ h.origType \in Types \cup {"mouseenter"} /\ h.sel \in {""} \cup DOMAIN Match
  BY DEF HandlerRec
<1>3. h.sel # "any"
  BY <1>2, EventsAssumption
<1>4. sel = "any" <=> h.sel = ""
  BY <1>3 DEF Given
<1>5. t = h.type
  <2>1. CASE h.sel = ""
    <3>1. h.type = BindType(h.origType) /\ t = BindType(h.type)
      BY <1>1, <1>4, <2>1 DEF MappedType
    <3>2. BindType(BindType(h.origType)) = BindType(h.origType)
      BY <1>2, MapFacts
    <3> HIDE DEF t
    <3>3. QED
      BY <3>1, <3>2
  <2>2. CASE h.sel # ""
    <3>1. h.type = DelegateType(h.origType) /\ t = DelegateType(h.type)
      BY <1>1, <1>4, <2>2 DEF MappedType
    <3>2. DelegateType(DelegateType(h.origType)) = DelegateType(h.origType)
      BY <1>2, MapFacts
    <3> HIDE DEF t
    <3>3. QED
      BY <3>1, <3>2
  <2>3. QED
    BY <2>1, <2>2
<1>6. at[1] \in Elem /\ at = <<at[1], at[2]>>
  OBVIOUS
<1>7. Fits(h, h.fn, ns, sel)
  BY DEF Fits, Given
<1> HIDE DEF C, sel, ns
<1>8. /\ HandlersOK(C, exact /\ (t \in Bubbling => h.type = t)) /\ Shrinks(C, B)
      /\ \A i \in DOMAIN C.events[at[1]][t] :
            ~(C.events[at[1]][t][i].origType = h.type /\ Fits(C.events[at[1]][t][i], h.fn, ns, sel))
  <2>1. h.type \in Types \cup {"mouseenter"}
    BY <1>2
  <2> DEFINE e == at[1]
             type == h.type
             fn == h.fn
  <2>2. e \in Elem /\ type \in Types \cup {"mouseenter"} /\ C = RemoveType(B, e, type, fn, ns, sel)
    BY <1>6, <2>1 DEF C
  <2>3. t = IF sel = "any" THEN BindType(type) ELSE DelegateType(type)
    OBVIOUS
  <2> HIDE DEF e, type, fn, t
  <2>4. /\ HandlersOK(C, exact /\ (t \in Bubbling => type = t)) /\ Shrinks(C, B)
        /\ \A i \in DOMAIN C.events[e][t] :
              ~(C.events[e][t][i].origType = type /\ Fits(C.events[e][t][i], fn, ns, sel))
    BY <2>2, <2>3, RemoveTypeOK
  <2>5. QED
    BY <2>4 DEF e, type, fn
<1>9. HandlersOK(C, exact)
  <2>1. exact /\ (t \in Bubbling => h.type = t) <=> exact
    BY <1>5
  <2> HIDE DEF t
  <2>2. exact => exact /\ (t \in Bubbling => h.type = t)
    BY <2>1
  <2>3. (exact /\ (t \in Bubbling => h.type = t)) \in BOOLEAN
    OBVIOUS
  <2>4. QED
    BY <1>8, <2>2, <2>3, WeakerHandlers
<1>10. \A e \in Elem : \A u \in Types : Bound(C, e, u) \subseteq Bound(B, e, u)
  BY <1>8, ShrinksFacts
<1>11. ASSUME NEW e \in Elem, NEW u \in Types, NEW k \in Bound(C, e, u), k.id = h.id
       PROVE  k.type # k.origType
  <2>1. k = h /\ <<e, u>> = at
    BY <1>1, <1>10, <1>11
  <2>2. e = at[1] /\ u = t
    BY <1>1, <1>5, <2>1
  <2>3. PICK i \in DOMAIN C.events[e][u] : k = C.events[e][u][i]
    BY DEF Bound, ToSet
  <2>4. ~(k.origType = h.type /\ Fits(k, h.fn, ns, sel))
    BY <1>8, <2>2, <2>3
  <2>5. QED
    BY <1>7, <2>1, <2>4
<1>12. QED
  BY <1>8, <1>9, <1>11 DEF C, sel, ns

\* The event that calls a handler.
Called(f, on, h) ==
    [f EXCEPT !.queue = Left(f.queue), !.on = on, !.current = h, !.told = @ \cup {<<h.id, on>>}]
LEMMA CallFields ==
  ASSUME NEW f \in FrameRec, NEW on \in Elem, NEW h \in HandlerRec, Left(f.queue) \in Seq(GroupRec),
         NEW g, g = Called(f, on, h)
  PROVE  /\ g \in FrameRec /\ g.queue = Left(f.queue) /\ g.told = f.told \cup {<<h.id, on>>}
         /\ g.kind = f.kind /\ g.type = f.type /\ g.path = f.path /\ g.pos = f.pos
         /\ g.begun = f.begun /\ g.todo = f.todo /\ g.only = f.only
<1> DEFINE q == Left(f.queue)
           told == f.told \cup {<<h.id, on>>}
<1>1. h.id \in Nat /\ f.told \in SUBSET (Nat \X Elem)
  BY FrameFields DEF HandlerRec
<1>2. told \in SUBSET (Nat \X Elem)
  BY <1>1
<1>3. q \in Seq(GroupRec)
  OBVIOUS
<1>4. g = [f EXCEPT !.queue = q, !.on = on, !.current = h, !.told = told]
  BY DEF Called
<1> HIDE DEF q, told
<1>5. /\ g \in FrameRec /\ g.queue = q /\ g.told = told
      /\ g.kind = f.kind /\ g.type = f.type /\ g.path = f.path /\ g.pos = f.pos
      /\ g.begun = f.begun /\ g.todo = f.todo /\ g.only = f.only
  BY <1>2, <1>3, <1>4 DEF FrameRec, FramesOf
<1>6. QED
  BY <1>5 DEF q, told
LEMMA CallFrame ==
  ASSUME NEW f \in FrameRec, NEW g \in FrameRec, NEW B, NEW next, FrameOK(f, B, next),
         f.queue \in Seq(GroupRec), f.queue # <<>>, f.kind # "method", NEW on, NEW h,
         <<on, h>> \in Calls(f.queue), QueueOK(g.queue), Calls(g.queue) \subseteq Calls(f.queue),
         \A c \in Calls(g.queue) : c[2].id = h.id => c[1] # on,
         g.told = f.told \cup {<<h.id, on>>}, g.kind = f.kind, g.type = f.type, g.path = f.path,
         g.pos = f.pos, g.begun = f.begun, g.todo = f.todo
  PROVE  /\ FrameOK(g, B, next)
         /\ Fresh(f, B) => Fresh(g, B) /\ <<h.id, on>> \notin f.told
<1> DEFINE c0 == <<on, h>>
<1>1. c0 \in Calls(f.queue) /\ c0[1] = on /\ c0[2] = h
  OBVIOUS
<1>2. f.kind = "native" => f.begun
  BY DEF FrameOK, KindOK
<1>3. f.kind \in {"trigger", "native"} /\ f.todo = <<>>
  BY FrameFields DEF FrameOK, KindOK
<1>4. \A x \in g.told : x \in f.told \/ x[1] = h.id
  OBVIOUS
<1>5. \A x : x \in g.told <=> x \in f.told \/ x = <<h.id, on>>
  OBVIOUS
<1> HIDE DEF c0
<1>6. CallOK(h, f.path[f.pos], B, next)
  BY <1>1 DEF FrameOK
<1>7. FrameOK(g, B, next)
  <2>1. KindOK(g)
    BY <1>2, <1>3 DEF KindOK, FrameOK
  <2>2. \A x \in g.told : x[1] < next
    BY <1>4, <1>6 DEF FrameOK, CallOK, Proper
  <2>3. \A c \in Calls(g.queue) : CallOK(c[2], g.path[g.pos], B, next)
    BY DEF FrameOK
  <2>4. g.queue # <<>> => g.pos > 0
    BY DEF FrameOK
  <2>5. QED
    BY <2>1, <2>2, <2>3, <2>4 DEF FrameOK
<1>8. ASSUME Fresh(f, B) PROVE Fresh(g, B) /\ <<h.id, on>> \notin f.told
  <2>1. \A c \in Calls(f.queue) : <<c[2].id, c[1]>> \notin f.told
    BY <1>8 DEF Fresh
  <2>2. <<h.id, on>> \notin f.told
    BY <1>1, <2>1
  <2>3. ASSUME NEW c \in Calls(g.queue) PROVE <<c[2].id, c[1]>> \notin g.told
    <3>1. <<c[2].id, c[1]>> \notin f.told
      BY <2>1
    <3>2. <<c[2].id, c[1]>> # <<h.id, on>>
      OBVIOUS
    <3>3. QED
      BY <1>5, <3>1, <3>2
  <2>4. ASSUME NEW p \in DOMAIN g.path, p > g.pos,
               NEW k \in Bound(B, g.path[p][1], g.path[p][2])
        PROVE  (\A x \in g.told : x[1] # k.id) /\ \A c \in Calls(g.queue) : c[2].id # k.id
    <3>1. (\A x \in f.told : x[1] # k.id) /\ \A c \in Calls(f.queue) : c[2].id # k.id
      BY <1>8, <2>4 DEF Fresh
    <3>2. h.id # k.id
      BY <1>1, <3>1
    <3>3. QED
      BY <1>4, <3>1, <3>2
  <2>5. ~(g.kind = "native" /\ ~g.begun) /\ DOMAIN g.todo = {}
    BY <1>2, <1>3
  <2>6. Fresh(g, B)
    BY <2>3, <2>4, <2>5 DEF Fresh
  <2>7. QED
    BY <2>2, <2>6
<1>9. QED
  BY <1>7, <1>8

LEMMA CallHandlerKeeps == ASSUME EvSafe, CallHandler PROVE EvSafe'
<1> DEFINE f == Top
           on == f.queue[1].on
           h == f.queue[1].hs[1]
           rest == Left(f.queue)
           at == f.path[f.pos][1]
           next == seen.next
           exact == "mapped off" \notin seen.odd
<1>1. /\ stack # <<>> /\ f.kind # "method" /\ f.queue # <<>> /\ UNCHANGED <<triggered, focused, evCalls>>
      /\ IF ~CalledFor(f, on, h)
         THEN stack' = Put([f EXCEPT !.queue = rest]) /\ UNCHANGED <<bound, seen>>
         ELSE /\ stack' = Put([f EXCEPT !.queue = rest, !.on = on, !.current = h,
                                        !.told = @ \cup {<<h.id, on>>}])
              /\ bound' = IF h.one THEN RemoveType(bound, at, h.type, h.fn, Given(h.ns), Given(h.sel))
                          ELSE bound
              /\ seen' = [seen EXCEPT
                    !.again = @ \/ <<h.id, on>> \in f.told,
                    !.ones = IF h.one THEN @ \cup {h.id} ELSE @,
                    !.onesAgain = IF h.id \in seen.ones THEN @ \cup {h} ELSE @]
  BY DEF CallHandler, Quiet, Left
<1>2. f \in FrameRec /\ FrameOK(f, bound, next)
  BY <1>1, TopFacts
<1>3. /\ EvTypeOK /\ seen \in SeenRec /\ BoundOK(bound, seen) /\ StackOK(stack, bound, next)
      /\ "in a method" \notin seen.odd => ToldOK(stack, bound, triggered) /\ ~seen.again
      /\ "nested" \notin seen.odd => OnesOK(stack, bound, seen)
      /\ evCalls' \in 0..MaxEvents /\ next \in Nat
  BY <1>1, SameCalls, SeenFields DEF EvSafe
<1>4. /\ StackOK(Rest, bound, next)
      /\ \A tr : ToldOK(stack, bound, tr) =>
            /\ Silent(f, bound, tr) /\ (tr # "none" => ~Acting(f))
            /\ IF f.kind = "method" THEN ToldOK(Rest, bound, "none") ELSE ToldOK(Rest, bound, tr)
      /\ \A s : OnesOK(stack, bound, s) => OnesOK(Rest, bound, s) /\ Idle(Rest) /\ Spent(f, s)
  BY <1>1, <1>3, PopKeeps DEF Rest, Top
<1> HIDE DEF f
<1>5. /\ f.queue \in Seq(GroupRec) /\ QueueOK(f.queue) /\ f.path \in Seq(Elem \X Types) /\ f.pos \in Nat
      /\ f.pos > 0 /\ f.pos <= Len(f.path) /\ f.todo = <<>>
  BY <1>1, <1>2, FrameFields DEF FrameOK, KindOK
<1>6. /\ h \in HandlerRec /\ on \in Elem /\ <<on, h>> \in Calls(f.queue) /\ rest \in Seq(GroupRec)
      /\ QueueOK(rest) /\ Calls(rest) \subseteq Calls(f.queue)
      /\ \A c \in Calls(rest) : c[2].id = h.id => c[2] = h /\ c[1] # on /\ Twice(h)
  <2> DEFINE q == f.queue
  <2>1. q \in Seq(GroupRec) /\ QueueOK(q) /\ q # <<>>
    BY <1>1, <1>5
  <2> HIDE DEF q
  <2>2. /\ q[1].hs[1] \in HandlerRec /\ q[1].on \in Elem /\ <<q[1].on, q[1].hs[1]>> \in Calls(q)
        /\ Left(q) \in Seq(GroupRec) /\ QueueOK(Left(q)) /\ Calls(Left(q)) \subseteq Calls(q)
        /\ \A c \in Calls(Left(q)) : c[2].id = q[1].hs[1].id =>
              c[2] = q[1].hs[1] /\ c[1] # q[1].on /\ Twice(q[1].hs[1])
    BY <2>1, LeftFacts
  <2>3. QED
    BY <2>2 DEF q
<1>7. f.path[f.pos] \in Elem \X Types
  <2>1. f.pos \in DOMAIN f.path
    BY <1>5
  <2>2. QED
    BY <1>5, <2>1
<1>8. CallOK(h, f.path[f.pos], bound, next)
  <2> DEFINE c == <<on, h>>
  <2>1. c \in Calls(f.queue) /\ c[2] = h
    BY <1>6
  <2> HIDE DEF c, h
  <2>2. QED
    BY <1>2, <2>1 DEF FrameOK
<1> HIDE DEF on, h, rest
<1>9. CASE ~CalledFor(f, on, h)
  <2> DEFINE g == [f EXCEPT !.queue = rest]
  <2>1. stack' = Put(g) /\ UNCHANGED <<bound, seen>>
    BY <1>1, <1>9
  <2>2. /\ g \in FrameRec /\ g.queue = rest /\ g.kind = f.kind /\ g.type = f.type /\ g.path = f.path
        /\ g.pos = f.pos /\ g.told = f.told /\ g.begun = f.begun /\ g.todo = f.todo /\ g.only = f.only
    BY <1>2, <1>6 DEF FrameRec, FramesOf
  <2> HIDE DEF g
  <2>3. /\ FrameOK(g, bound, next) /\ (Acting(g) => Acting(f))
        /\ \A tr : Silent(f, bound, tr) => Silent(g, bound, tr)
        /\ \A s : Spent(f, s) => Spent(g, s)
    BY <1>1, <1>2, <1>6, <2>2, ShorterFrame
  <2>4. QED
    BY <1>1, <1>5, <2>1, <2>2, <2>3, PutKeeps DEF f, next
<1>10. CASE CalledFor(f, on, h)
  <2> DEFINE g == [f EXCEPT !.queue = rest, !.on = on, !.current = h, !.told = @ \cup {<<h.id, on>>}]
             C == RemoveType(bound, at, h.type, h.fn, Given(h.ns), Given(h.sel))
             again == <<h.id, on>> \in f.told
  <2>1. /\ stack' = Put(g) /\ bound' = IF h.one THEN C ELSE bound
        /\ seen' = [seen EXCEPT !.again = @ \/ again, !.ones = IF h.one THEN @ \cup {h.id} ELSE @,
                                !.onesAgain = IF h.id \in seen.ones THEN @ \cup {h} ELSE @]
    BY <1>1, <1>10
  <2>2. g = Called(f, on, h)
    BY DEF rest, Called
  <2> HIDE DEF again
  <2>3. /\ seen' \in SeenRec /\ seen'.next = seen.next /\ seen'.odd = seen.odd
        /\ seen'.again = (seen.again \/ again)
        /\ seen'.ones = IF h.one THEN seen.ones \cup {h.id} ELSE seen.ones
        /\ seen'.onesAgain = IF h.id \in seen.ones THEN seen.onesAgain \cup {h} ELSE seen.onesAgain
    <3> DEFINE a == seen.again \/ again
               o == IF h.one THEN seen.ones \cup {h.id} ELSE seen.ones
               p == IF h.id \in seen.ones THEN seen.onesAgain \cup {h} ELSE seen.onesAgain
    <3>1. h.id \in Nat
      BY <1>6 DEF HandlerRec
    <3>2. a \in BOOLEAN /\ o \in SUBSET Nat /\ p \in SUBSET HandlerRec
      BY <1>3, <1>6, <3>1, SeenFields DEF again
    <3>3. seen' = [seen EXCEPT !.again = a, !.ones = o, !.onesAgain = p]
      BY <2>1
    <3> HIDE DEF a, o, p
    <3>4. /\ seen' \in SeenRec /\ seen'.next = seen.next /\ seen'.odd = seen.odd /\ seen'.again = a
          /\ seen'.ones = o /\ seen'.onesAgain = p
      BY <1>3, <3>2, <3>3 DEF SeenRec
    <3>5. QED
      BY <3>4 DEF a, o, p
  <2> HIDE DEF g
  <2>a. /\ g \in FrameRec /\ g.queue = Left(f.queue) /\ g.told = f.told \cup {<<h.id, on>>}
        /\ g.kind = f.kind /\ g.type = f.type /\ g.path = f.path /\ g.pos = f.pos
        /\ g.begun = f.begun /\ g.todo = f.todo /\ g.only = f.only
    <3>1. Left(f.queue) \in Seq(GroupRec)
      BY <1>6 DEF rest
    <3>2. QED
      BY <1>2, <1>6, <2>2, <3>1, CallFields
  <2>4. /\ g \in FrameRec /\ FrameOK(g, bound, next) /\ (Acting(g) <=> Acting(f)) /\ g.kind # "method"
        /\ g.todo = <<>> /\ Calls(g.queue) \subseteq Calls(f.queue)
        /\ (\A tr : Silent(f, bound, tr) => Fresh(g, bound) /\ <<h.id, on>> \notin f.told)
        /\ \A c \in Calls(g.queue) : c[2].id = h.id => c[2] = h /\ Twice(h)
    <3>1. g.queue = rest
      BY <2>a DEF rest
    <3>2. /\ QueueOK(g.queue) /\ Calls(g.queue) \subseteq Calls(f.queue)
          /\ \A c \in Calls(g.queue) : c[2].id = h.id => c[2] = h /\ c[1] # on /\ Twice(h)
      BY <1>6, <3>1
    <3>3. /\ FrameOK(g, bound, next)
          /\ Fresh(f, bound) => Fresh(g, bound) /\ <<h.id, on>> \notin f.told
      BY <1>1, <1>2, <1>5, <1>6, <2>a, <3>2, CallFrame
    <3>4. \A tr : ~Hushed(f, tr)
      BY <1>1 DEF Hushed
    <3>5. (Acting(g) <=> Acting(f)) /\ g.kind # "method" /\ g.todo = <<>>
      BY <1>1, <1>5, <2>a DEF Acting
    <3>6. QED
      BY <2>a, <3>2, <3>3, <3>4, <3>5 DEF Silent
  <2>5. HandlersOK(bound, exact) /\ IdsOK(bound, next) /\ exact \in BOOLEAN /\ bound \in BoundRec
    BY <1>3 DEF BoundOK, HandlersOK
  <2> HIDE DEF exact
  <2>6. /\ HandlersOK(C, exact) /\ Shrinks(C, bound)
        /\ \A e \in Elem : \A t \in Types : \A k \in Bound(C, e, t) : k.id = h.id => k.type # k.origType
    <3> DEFINE place == f.path[f.pos]
    <3>1. place \in Elem \X Types /\ CallOK(h, place, bound, next) /\ at = place[1]
      BY <1>7, <1>8
    <3> HIDE DEF place, at, C
    <3>2. C = RemoveType(bound, place[1], h.type, h.fn, Given(h.ns), Given(h.sel))
      BY <3>1 DEF C
    <3>3. QED
      BY <1>6, <2>5, <3>1, <3>2, CalledGoes
  <2> HIDE DEF C
  <2>7. /\ HandlersOK(bound', exact) /\ IdsOK(bound', next)
        /\ \A e \in Elem : \A t \in Types : Bound(bound', e, t) \subseteq Bound(bound, e, t)
        /\ h.one => \A e \in Elem : \A t \in Types : \A k \in Bound(bound', e, t) :
                       k.id = h.id => k.type # k.origType
    <3>1. CASE h.one
      <4>1. bound' = C
        BY <2>1, <3>1
      <4>2. IdsOK(C, next) /\ \A e \in Elem : \A t \in Types : Bound(C, e, t) \subseteq Bound(bound, e, t)
        BY <2>5, <2>6, ShrinksFacts
      <4>3. QED
        BY <2>6, <4>1, <4>2
    <3>2. CASE ~h.one
      <4>1. bound' = bound
        BY <2>1, <3>2
      <4>2. QED
        BY <2>5, <3>2, <4>1
    <3>3. QED
      BY <3>1, <3>2
  <2>8. bound' \in BoundRec /\ Grown(bound', bound, next)
    BY <2>7 DEF HandlersOK, Grown
  <2>9. /\ StackOK(Rest, bound', next)
        /\ \A tr : ToldOK(Rest, bound, tr) => ToldOK(Rest, bound', tr)
        /\ FrameOK(g, bound', next) /\ (Fresh(g, bound) => Fresh(g, bound'))
    <3>1. next <= next
      BY <1>3, Later
    <3>2. FrameOK(g, bound', next) /\ (Fresh(g, bound) => Fresh(g, bound'))
      BY <1>3, <2>4, <2>5, <2>8, <3>1, KeepFrame
    <3>3. StackOK(Rest, bound', next) /\ \A tr : ToldOK(Rest, bound, tr) => ToldOK(Rest, bound', tr)
      <4> HIDE DEF Rest
      <4>1. QED
        BY <1>3, <1>4, <2>5, <2>8, <3>1, KeepStack
    <3>4. QED
      BY <3>2, <3>3
  <2>10. /\ StackOK(stack', bound', next)
         /\ \A tr : /\ ToldOK(Rest, bound', tr) /\ Silent(g, bound', tr)
                    /\ tr # "none" => g.kind # "method" /\ ~Acting(g)
                    => ToldOK(stack', bound', tr)
         /\ \A s : OnesOK(Rest, bound', s) /\ Idle(Rest) /\ Spent(g, s) => OnesOK(stack', bound', s)
    <3>1. \A j \in DOMAIN g.todo : TodoOK(g.todo[j], next)
      BY <2>4
    <3>2. stack' = Append(Rest, g)
      BY <2>1 DEF Put
    <3> HIDE DEF Rest
    <3>3. QED
      BY <2>4, <2>9, <3>1, <3>2, PushKeeps
  <2>11. ASSUME "in a method" \notin seen'.odd
         PROVE  ToldOK(stack', bound', triggered') /\ ~seen'.again
    <3>1. ToldOK(stack, bound, triggered) /\ ~seen.again /\ triggered' = triggered
      BY <1>1, <1>3, <2>3, <2>11
    <3>2. Silent(f, bound, triggered) /\ (triggered # "none" => ~Acting(f)) /\ ToldOK(Rest, bound, triggered)
      BY <1>1, <1>4, <3>1
    <3>3. Fresh(g, bound') /\ ~again
      BY <2>4, <2>9, <3>2 DEF again
    <3>4. Silent(g, bound', triggered)
      BY <3>3 DEF Silent
    <3>5. QED
      BY <2>3, <2>4, <2>9, <2>10, <3>1, <3>2, <3>3, <3>4
  <2>12. ASSUME "nested" \notin seen'.odd
         PROVE  OnesOK(stack', bound', seen')
    <3>1. OnesOK(stack, bound, seen)
      BY <1>3, <2>3, <2>12
    <3>2. OnesOK(Rest, bound, seen) /\ Idle(Rest) /\ Spent(f, seen)
      BY <1>4, <3>1
    <3>3. \A id \in seen'.ones : id \in seen.ones \/ (h.one /\ id = h.id)
      BY <2>3
    <3>4. h.id < next
      BY <1>8 DEF CallOK, Proper
    <3>5. \A id \in seen'.ones : id < seen'.next
      BY <2>3, <3>2, <3>3, <3>4 DEF OnesOK, next
    <3>6. ASSUME NEW e \in Elem, NEW t \in Types, NEW k \in Bound(bound', e, t), k.id \in seen'.ones
          PROVE  k.type # k.origType
      <4>1. k \in Bound(bound, e, t)
        BY <2>7
      <4>2. CASE k.id \in seen.ones
        BY <3>2, <4>1, <4>2 DEF OnesOK
      <4>3. CASE h.one /\ k.id = h.id
        BY <2>7, <4>3
      <4>4. QED
        BY <3>3, <3>6, <4>2, <4>3
    <3>7. ASSUME NEW k \in seen'.onesAgain PROVE k.type # k.origType \/ Twice(k)
      <4>1. CASE k \in seen.onesAgain
        BY <3>2, <4>1 DEF OnesOK
      <4>2. CASE h.id \in seen.ones /\ k = h
        <5> DEFINE c == <<on, h>>
        <5>1. c \in Calls(f.queue) /\ c[2] = h
          BY <1>6
        <5> HIDE DEF c
        <5>2. QED
          BY <3>2, <4>2, <5>1 DEF Spent
      <4>3. QED
        BY <2>3, <3>7, <4>1, <4>2
    <3>8. OnesOK(Rest, bound', seen')
      <4>1. \A i \in DOMAIN Rest : Rest[i].queue = <<>>
        BY <3>2 DEF Idle
      <4> HIDE DEF Rest
      <4>2. ASSUME NEW i \in DOMAIN Rest PROVE Calls(Rest[i].queue) = {}
        <5>1. DOMAIN Rest[i].queue = {}
          BY <4>1
        <5>2. QED
          BY <5>1 DEF Calls
      <4>3. QED
        BY <3>5, <3>6, <3>7, <4>1, <4>2 DEF OnesOK
    <3>9. Spent(g, seen')
      <4>1. ASSUME NEW c \in Calls(g.queue), c[2].id \in seen'.ones
            PROVE  c[2].type # c[2].origType \/ Twice(c[2])
        <5>1. CASE c[2].id \in seen.ones
          BY <2>4, <3>2, <4>1, <5>1 DEF Spent
        <5>2. CASE c[2].id = h.id
          BY <2>4, <4>1, <5>2
        <5>3. QED
          BY <3>3, <4>1, <5>1, <5>2
      <4>2. QED
        BY <4>1 DEF Spent
    <3>10. QED
      BY <2>10, <3>2, <3>8, <3>9
  <2>13. BoundOK(bound', seen')
    BY <2>3, <2>7 DEF BoundOK, exact, next
  <2>14. EvTypeOK'
    <3>1. bound'.gone \in SUBSET Elem
      BY <2>8, BoundFields
    <3>2. QED
      BY <1>1, <1>3, <3>1 DEF EvTypeOK
  <2>15. StackOK(stack', bound', seen'.next)
    BY <2>3, <2>10 DEF next
  <2>16. QED
    BY <2>3, <2>11, <2>12, <2>13, <2>14, <2>15 DEF EvSafe
<1>11. QED
  BY <1>9, <1>10

\* No event is under way in the page as it begins.
LEMMA EvSafeInit == EvInit => EvSafe
<1> SUFFICES ASSUME EvInit PROVE EvSafe
  OBVIOUS
<1>1. stack = <<>> /\ triggered = "none" /\ evCalls = 0
  BY DEF EvInit
<1>2. PICK start \in Starts :
         /\ bound = Page(start) /\ focused = start.focus
         /\ seen = [NoHistory EXCEPT !.next = Len(start.bindings) + 1]
  BY DEF EvInit
<1> DEFINE n == Len(start.bindings)
<1>3. /\ HandlersOK(Page(start), TRUE) /\ IdsOK(Page(start), n + 1)
      /\ Page(start).gone = {} /\ n \in Nat
  BY PageOK
<1> HIDE DEF n
<1>4. /\ seen.next = n + 1 /\ seen.again = FALSE /\ seen.ones = {} /\ seen.onesAgain = {}
      /\ seen.odd = {} /\ seen \in SeenRec
  <2>1. seen = [next |-> n + 1, again |-> FALSE, ones |-> {}, onesAgain |-> {}, odd |-> {}]
    BY <1>2 DEF NoHistory, n
  <2>2. n + 1 \in Nat
    BY <1>3
  <2>3. QED
    BY <2>1, <2>2 DEF SeenRec
<1>5. EvTypeOK
  <2>1. start.focus \in Elem \cup {"none"} /\ MaxEvents \in Nat
    BY EventsAssumption
  <2>2. evCalls \in 0..MaxEvents
    BY <1>1, <2>1
  <2>3. QED
    BY <1>1, <1>2, <1>3, <2>1, <2>2 DEF EvTypeOK
<1>6. BoundOK(bound, seen)
  <2>1. HandlersOK(bound, TRUE) /\ IdsOK(bound, seen.next)
    BY <1>2, <1>3, <1>4
  <2>2. ("mapped off" \notin seen.odd) = TRUE
    BY <1>4
  <2>3. QED
    BY <2>1, <2>2 DEF BoundOK
<1>7. StackOK(stack, bound, seen.next) /\ ToldOK(stack, bound, triggered)
  BY <1>1, EmptyStack
<1>8. OnesOK(stack, bound, seen)
  <2>1. DOMAIN stack = {}
    BY <1>1
  <2>2. QED
    BY <1>4, <2>1 DEF OnesOK
<1>9. QED
  BY <1>4, <1>5, <1>6, <1>7, <1>8 DEF EvSafe

LEMMA EvSafeStep == EvSafe /\ [EvNext]_evVars => EvSafe'
<1> SUFFICES ASSUME EvSafe, [EvNext]_evVars PROVE EvSafe'
  OBVIOUS
<1>1. CASE On
  BY <1>1, OnKeeps
<1>2. CASE Off
  BY <1>2, OffKeeps
<1>3. CASE RemoveElem
  BY <1>3, RemoveElemKeeps
<1>4. CASE Trigger
  BY <1>4, TriggerKeeps
<1>5. CASE User
  BY <1>5, UserKeeps
<1>6. CASE Advance
  BY <1>6, AdvanceKeeps
<1>7. CASE CallHandler
  BY <1>7, CallHandlerKeeps
<1>8. CASE Return
  BY <1>8, ReturnKeeps
<1>9. CASE Capture
  BY <1>9, CaptureKeeps
<1>10. CASE Finish
  BY <1>10, FinishKeeps
<1>11. CASE Method
  BY <1>11, MethodKeeps
<1>12. CASE UNCHANGED evVars
  <2>1. /\ bound' = bound /\ stack' = stack /\ triggered' = triggered /\ focused' = focused
        /\ evCalls' = evCalls /\ seen' = seen
    BY <1>12 DEF evVars
  <2>2. /\ EvTypeOK' /\ (seen \in SeenRec)' /\ BoundOK(bound, seen)'
        /\ StackOK(stack, bound, seen.next)'
    BY <2>1 DEF EvSafe, EvTypeOK
  <2>3. ("in a method" \notin seen.odd => ToldOK(stack, bound, triggered) /\ ~seen.again)'
    BY <2>1 DEF EvSafe
  <2>4. ("nested" \notin seen.odd => OnesOK(stack, bound, seen))'
    BY <2>1 DEF EvSafe
  <2>5. QED
    BY <2>2, <2>3, <2>4 DEF EvSafe
<1>13. QED
  BY <1>1, <1>2, <1>3, <1>4, <1>5, <1>6, <1>7, <1>8, <1>9, <1>10, <1>11, <1>12 DEF EvNext

\* The invariant of the module: handlers and what is attached for them fit,
\* what an event has still to call it has not told, and a handler for one time
\* that was called is unbound.
THEOREM EventsAlwaysSafe == EvSpec => []EvSafe
<1>1. EvInit => EvSafe
  BY EvSafeInit
<1>2. EvSafe /\ [EvNext]_evVars => EvSafe'
  BY EvSafeStep
<1>3. QED
  BY <1>1, <1>2, PTL DEF EvSpec

\* What the invariant says of the page.
LEMMA EvSafeShows == EvSafe => EventsSound
<1> SUFFICES ASSUME EvSafe PROVE EventsSound
  OBVIOUS
<1>1. /\ EvTypeOK /\ seen \in SeenRec
      /\ "in a method" \notin seen.odd => ~seen.again
      /\ "nested" \notin seen.odd => OnesOK(stack, bound, seen)
      /\ BoundOK(bound, seen)
  BY DEF EvSafe
<1>2. HandlersOK(bound, "mapped off" \notin seen.odd)
  BY <1>1 DEF BoundOK
<1> DEFINE exact == "mapped off" \notin seen.odd
<1>3. /\ \A e \in Elem : \A t \in Types : ListOK(bound, e, t)
      /\ AttachedOK(bound, exact)
  BY <1>2 DEF HandlersOK
<1>4. ListsFit
  <2>1. SUFFICES ASSUME NEW e \in Elem, NEW t \in Types
        PROVE LET hs == bound.events[e][t]
              IN /\ \A i \in DOMAIN hs : hs[i].sel # "" <=> i <= bound.delegates[e][t]
                 /\ hs # <<>> /\ t \notin Bubbling => <<e, t>> \in bound.listening
                 /\ hs = <<>> /\ "mapped off" \notin seen.odd => <<e, t>> \notin bound.listening
    BY DEF ListsFit
  <2> DEFINE hs == bound.events[e][t]
  <2>2. \A i \in DOMAIN hs : hs[i].sel # "" <=> i <= bound.delegates[e][t]
    BY <1>3 DEF ListOK, Leads
  <2>3. hs # <<>> /\ t \notin Bubbling => <<e, t>> \in bound.listening
    BY <1>3 DEF AttachedOK
  <2>4. hs = <<>> /\ exact => <<e, t>> \notin bound.listening
    BY <1>3 DEF AttachedOK
  <2>5. QED
    BY <2>2, <2>3, <2>4
<1>5. FocusHeard
  <2>1. \A t \in Bubbling : Users(bound, t) = {e \in Elem : bound.events[e][t] # <<>>}
    BY DEF Users
  <2>2. \A t \in Bubbling : /\ bound.attaches[t] >= Cardinality(Users(bound, t))
                            /\ exact => bound.attaches[t] = Cardinality(Users(bound, t))
    BY <1>3 DEF AttachedOK
  <2>3. QED
    BY <2>1, <2>2 DEF FocusHeard
<1>6. ToldOnce
  BY <1>1 DEF ToldOnce
<1>7. OneOnce
  <2>1. SUFFICES ASSUME "nested" \notin seen.odd, NEW h \in seen.onesAgain
                 PROVE  h.type # h.origType \/ (h.sel # "" /\ Nests(h.sel))
    BY DEF OneOnce
  <2>2. OnesOK(stack, bound, seen)
    BY <1>1, <2>1
  <2>3. h.type # h.origType \/ Twice(h)
    BY <2>2 DEF OnesOK
  <2>4. QED
    BY <2>3 DEF Twice
<1>8. QED
  BY <1>1, <1>4, <1>5, <1>6, <1>7 DEF EventsSound

\* What is bound is what is attached, an event is told once to each handler it
\* is meant for, and a handler for one time is called once.
THEOREM EventsAlwaysSound == EvSpec => []EventsSound
<1>1. EvSafe => EventsSound
  BY EvSafeShows
<1>2. QED
  BY <1>1, EventsAlwaysSafe, PTL

=============================================================================
