----------------------------- MODULE Ajax_proofs -----------------------------
(***************************************************************************)
(* Proofs about Ajax: a request ends once, with one outcome, one complete  *)
(* and its own answer, for any requests, any number of them, and whatever  *)
(* their callbacks do.                                                     *)
(*                                                                         *)
(* Each operator that changes the page is shown to keep it safe (Safe), or *)
(* safe but for the request at hand (SafeBut), and each action is made of  *)
(* these.  What is known of a request depends on its state alone (Rest),   *)
(* and calls are under way only for requests that have ended, but in       *)
(* ajaxSend.                                                               *)
(***************************************************************************)
EXTENDS Ajax, SequenceTheorems, FiniteSetTheorems, WellFoundedInduction, TLAPS

\* A request at any time.
Common(q) ==
    /\ q.successes + q.errors = IF q.settled /\ q.installed THEN 1 ELSE 0
    /\ q.completes <= q.successes + q.errors
    /\ q.outcome = "success" /\ Last(q.o.types) # "*" => q.reached = Wanted(q.o)
    /\ Last(q.types) = Wanted(q.o)
    /\ q.jsonp => q.name \in Names
\* A request between two steps, by its state: not sent yet, sent, and ended.
Rest(q) ==
    /\ q.state = 0 => /\ ~q.settled /\ q.wire = "none" /\ ~q.callback /\ ~q.timer
                      /\ q.transport # "none" => q.installed
    /\ q.state = 1 => /\ ~q.settled /\ q.wire = "sent" /\ q.callback /\ q.installed
                      /\ q.transport # "none" /\ (q.o.async \/ q.transport = "script")
    /\ q.state = 2 => q.settled /\ q.wire # "sent" /\ ~q.callback /\ ~q.timer /\ q.transport = "none"

\* complete was called, or is still to be.
Completes(S, r) ==
    LET q == S.requests[r]
    IN "thrown" \notin S.odd /\ q.settled /\ q.installed /\ q.completes = 0 =>
          \E i \in DOMAIN S.calls : S.calls[i].r = r /\ S.calls[i].at \in {"tell", "complete"}

\* Callbacks are told of a request that is settled.
Frames(S) ==
    \A i \in DOMAIN S.calls :
        S.calls[i].at \in {"tell", "complete"} =>
            S.requests[S.calls[i].r].settled /\ S.requests[S.calls[i].r].installed

\* The requests that active counts.
EndingIn(S) == {S.calls[i].r : i \in DOMAIN S.calls}
Counted(S) ==
    {r \in DOMAIN S.requests : S.requests[r].fire /\ (S.requests[r].state < 2 \/ r \in EndingIn(S))}
CountOK(S) ==
    S.odd \cap {"thrown", "abort in ajaxSend"} = {} =>
        /\ S.active = Cardinality(Counted(S))
        /\ S.started = IF S.active > 0 THEN 1 ELSE 0
        /\ \A i \in DOMAIN S.calls : S.calls[i].at # "send" /\ S.requests[S.calls[i].r].state = 2
        /\ \A i, j \in DOMAIN S.calls : S.calls[i].r = S.calls[j].r => i = j

\* The callbacks of jsonp in window are those of the requests that are not
\* settled, and only they are called.
WindowOK(S) ==
    \A n \in Names : S.window[n] > 0 =>
        /\ S.window[n] \in DOMAIN S.requests
        /\ LET q == S.requests[S.window[n]] IN q.jsonp /\ q.name = n /\ ~q.settled
OwnWindow(S, r) ==
    LET q == S.requests[r]
    IN /\ q.previous <= 0
       /\ q.jsonp /\ ~q.settled => S.window[q.name] = r
       /\ q.jsonp /\ q.settled /\ q.wire = "late" => S.window[q.name] <= 0
       /\ q.container \in {NoFn, r}
       /\ q.outcome = "success" => q.value = r
NamesOK(S) ==
    "name shared" \notin S.odd => WindowOK(S) /\ \A r \in DOMAIN S.requests : OwnWindow(S, r)

Typed(S) ==
    /\ S \in NetRec /\ Len(S.requests) <= MaxRequests
    /\ \A i \in DOMAIN S.calls : S.calls[i].r \in DOMAIN S.requests

\* All but r are between two steps.
SafeBut(S, r) ==
    /\ Typed(S) /\ Frames(S) /\ CountOK(S) /\ NamesOK(S)
    /\ \A i \in DOMAIN S.requests :
          Common(S.requests[i]) /\ Completes(S, i) /\ (i # r => Rest(S.requests[i]))
Safe(S) == SafeBut(S, 0)
-----------------------------------------------------------------------------
(* One request is changed.                                                  *)

\* What does not change when a request does.
LikeOf(S, T) ==
    /\ T \in NetRec /\ DOMAIN T.requests = DOMAIN S.requests /\ Len(T.requests) = Len(S.requests)
    /\ T.active = S.active /\ T.started = S.started /\ T.odd = S.odd /\ T.calls = S.calls
\* Only r does.
OnlyAt(S, T, r) ==
    LikeOf(S, T) /\ \A i \in DOMAIN S.requests : i # r => T.requests[i] = S.requests[i]

\* The requests of the page are a sequence of records.
LEMMA RequestsOf ==
  ASSUME NEW S \in NetRec
  PROVE  /\ S.requests \in Seq(RequestRec) /\ Len(S.requests) \in Nat
         /\ S.requests \in [1..Len(S.requests) -> RequestRec]
         /\ DOMAIN S.requests = 1..Len(S.requests)
         /\ \A i \in DOMAIN S.requests : S.requests[i] \in RequestRec
<1>1. S.requests \in Seq(RequestRec)
  BY DEF NetRec
<1>2. QED
  BY <1>1, ElementOfSeq, LenProperties

\* A request is replaced by another; the rest of the page stays.
LEMMA UpdateFacts ==
  ASSUME NEW S \in NetRec, NEW r \in DOMAIN S.requests, NEW q \in RequestRec
  PROVE  /\ OnlyAt(S, Update(S, r, q), r)
         /\ Update(S, r, q).requests[r] = q /\ Update(S, r, q).window = S.window
<1> DEFINE T == Update(S, r, q)
<1>1. T = [S EXCEPT !.requests = [S.requests EXCEPT ![r] = q]]
  BY DEF Update, NetRec
<1>2. S.requests \in Seq(RequestRec) /\ S.requests \in [1..Len(S.requests) -> RequestRec]
  BY RequestsOf
<1>3. [S.requests EXCEPT ![r] = q] \in [1..Len(S.requests) -> RequestRec]
  BY <1>2
<1>4. /\ [S.requests EXCEPT ![r] = q] \in Seq(RequestRec)
      /\ Len([S.requests EXCEPT ![r] = q]) = Len(S.requests)
      /\ DOMAIN [S.requests EXCEPT ![r] = q] = DOMAIN S.requests
  BY <1>2, <1>3
<1>5. T \in NetRec
  BY <1>1, <1>4 DEF NetRec
<1>6. T.requests = [S.requests EXCEPT ![r] = q]
  BY <1>1 DEF NetRec
<1>7. /\ T.active = S.active /\ T.started = S.started /\ T.odd = S.odd /\ T.calls = S.calls
      /\ T.window = S.window
  BY <1>1 DEF NetRec
<1>8. T.requests[r] = q /\ \A i \in DOMAIN S.requests : i # r => T.requests[i] = S.requests[i]
  BY <1>6
<1> HIDE DEF T
<1>9. LikeOf(S, T)
  BY <1>4, <1>5, <1>6, <1>7 DEF LikeOf
<1>10. OnlyAt(S, T, r)
  BY <1>8, <1>9 DEF OnlyAt
<1>11. QED
  BY <1>7, <1>8, <1>10 DEF T

\* The fields of a request that its callback in window does not change.
SameReq(p, q) ==
    /\ q.o = p.o /\ q.sync = p.sync /\ q.types = p.types /\ q.state = p.state
    /\ q.transport = p.transport /\ q.timer = p.timer /\ q.fire = p.fire /\ q.global = p.global
    /\ q.jsonp = p.jsonp /\ q.name = p.name /\ q.previous = p.previous /\ q.wire = p.wire
    /\ q.callback = p.callback /\ q.installed = p.installed /\ q.completes = p.completes
SameEnd(p, q) ==
    /\ q.settled = p.settled /\ q.outcome = p.outcome /\ q.value = p.value /\ q.reached = p.reached
    /\ q.successes = p.successes /\ q.errors = p.errors

\* A function of jsonp that is called changes what its own request keeps, and
\* no more.
LEMMA CallWindowFacts ==
  ASSUME NEW S \in NetRec, NEW name \in Names, NEW value \in 0..MaxRequests
  PROVE  LET T == CallWindow(S, name, value)
         IN /\ LikeOf(S, T) /\ T.window = S.window
            /\ \A i \in DOMAIN S.requests :
                  /\ SameReq(S.requests[i], T.requests[i]) /\ SameEnd(S.requests[i], T.requests[i])
                  /\ i # S.window[name] => T.requests[i] = S.requests[i]
                  /\ i = S.window[name] => T.requests[i].container = value
<1> DEFINE T == CallWindow(S, name, value)
           w == S.window[name]
<1>1. CASE w \in DOMAIN S.requests
  <2> DEFINE q == [S.requests[w] EXCEPT !.container = value]
  <2>1. T = Update(S, w, q)
    BY <1>1 DEF CallWindow
  <2>2. S.requests[w] \in RequestRec
    BY <1>1, RequestsOf
  <2>3. q \in RequestRec /\ q.container = value /\ SameReq(S.requests[w], q) /\ SameEnd(S.requests[w], q)
    BY <2>2 DEF RequestRec, SameReq, SameEnd
  <2> HIDE DEF q
  <2>4. OnlyAt(S, T, w) /\ T.requests[w] = q /\ T.window = S.window
    BY <1>1, <2>1, <2>3, UpdateFacts
  <2> HIDE DEF T, w
  <2>5. LikeOf(S, T) /\ \A i \in DOMAIN S.requests : i # w => T.requests[i] = S.requests[i]
    BY <2>4 DEF OnlyAt
  <2>6. \A i \in DOMAIN S.requests :
                  /\ SameReq(S.requests[i], T.requests[i]) /\ SameEnd(S.requests[i], T.requests[i])
                  /\ i # w => T.requests[i] = S.requests[i]
                  /\ i = w => T.requests[i].container = value
    BY <2>3, <2>4, <2>5 DEF SameReq, SameEnd
  <2>7. QED
    BY <2>4, <2>5, <2>6 DEF T, w
<1>2. CASE w \notin DOMAIN S.requests
  <2>1. T = S
    BY <1>2 DEF CallWindow
  <2>2. QED
    BY <1>2, <2>1 DEF LikeOf, SameReq, SameEnd
<1>3. QED
  BY <1>1, <1>2

-----------------------------------------------------------------------------
(* A request is settled.                                                    *)

\* A name in window is given a value, and nothing else changes.
LEMMA WindowFacts ==
  ASSUME NEW S \in NetRec, NEW n \in Names, NEW v \in -1..MaxRequests
  PROVE  LET T == [S EXCEPT !.window[n] = v]
         IN /\ LikeOf(S, T) /\ T.requests = S.requests /\ T.window[n] = v
            /\ \A m \in Names : m # n => T.window[m] = S.window[m]
<1> DEFINE T == [S EXCEPT !.window[n] = v]
<1>1. S.window \in [Names -> -1..MaxRequests]
  BY DEF NetRec
<1>2. T = [S EXCEPT !.window = [S.window EXCEPT ![n] = v]]
  BY DEF NetRec
<1>3. [S.window EXCEPT ![n] = v] \in [Names -> -1..MaxRequests]
  BY <1>1
<1>4. T \in NetRec
  BY <1>2, <1>3 DEF NetRec
<1>5. /\ T.active = S.active /\ T.started = S.started /\ T.odd = S.odd /\ T.calls = S.calls
      /\ T.requests = S.requests /\ T.window = [S.window EXCEPT ![n] = v]
  BY <1>2 DEF NetRec
<1> HIDE DEF T
<1>6. LikeOf(S, T)
  BY <1>4, <1>5 DEF LikeOf
<1>7. QED
  BY <1>1, <1>5, <1>6 DEF T

\* The clean-up of jsonp sets its name back to what was there before, and
\* concerns no request that is not behind that name.
LEMMA CleanUpFacts ==
  ASSUME NEW S \in NetRec, NEW r \in DOMAIN S.requests,
         S.requests[r].jsonp => S.requests[r].name \in Names
  PROVE  LET T == JsonpCleanUp(S, r)
             q == S.requests[r]
         IN /\ LikeOf(S, T)
            /\ \A i \in DOMAIN S.requests :
                  /\ SameReq(S.requests[i], T.requests[i]) /\ SameEnd(S.requests[i], T.requests[i])
                  /\ q.previous <= 0 => T.requests[i] = S.requests[i]
            /\ ~q.jsonp => T.window = S.window
            /\ q.jsonp => /\ T.window[q.name] = q.previous
                          /\ \A m \in Names : m # q.name => T.window[m] = S.window[m]
<1> DEFINE T == JsonpCleanUp(S, r)
           q == S.requests[r]
           W == [S EXCEPT !.window[q.name] = q.previous]
<1>1. q \in RequestRec
  BY RequestsOf
<1>2. /\ q.previous \in -1..MaxRequests /\ q.container \in 0..MaxRequests /\ q.jsonp \in BOOLEAN
  BY <1>1 DEF RequestRec
<1>3. CASE ~q.jsonp
  <2>1. T = S
    BY <1>3 DEF JsonpCleanUp
  <2>2. QED
    BY <1>3, <2>1 DEF LikeOf, SameReq, SameEnd
<1>4. CASE q.jsonp
  <2>1. q.name \in Names
    BY <1>4
  <2>2. /\ LikeOf(S, W) /\ W.requests = S.requests /\ W.window[q.name] = q.previous
        /\ \A m \in Names : m # q.name => W.window[m] = S.window[m]
    BY <1>2, <2>1, WindowFacts
  <2>3. T = W \/ T = CallWindow(W, q.name, q.container)
    BY <1>4 DEF JsonpCleanUp
  <2> HIDE DEF T, W
  <2>4. W \in NetRec
    BY <2>2 DEF LikeOf
  <2>5. CASE T = W
    BY <1>4, <2>2, <2>5 DEF LikeOf, SameReq, SameEnd, T
  <2>6. CASE T = CallWindow(W, q.name, q.container)
    <3>1. /\ LikeOf(W, T) /\ T.window = W.window
          /\ \A i \in DOMAIN W.requests :
                /\ SameReq(W.requests[i], T.requests[i]) /\ SameEnd(W.requests[i], T.requests[i])
                /\ i # W.window[q.name] => T.requests[i] = W.requests[i]
      BY <1>2, <2>1, <2>4, <2>6, CallWindowFacts
    <3>2. LikeOf(S, T)
      BY <2>2, <3>1 DEF LikeOf
    <3>3. \A i \in DOMAIN S.requests : q.previous <= 0 => i # q.previous
      BY <1>2, RequestsOf
    <3>4. QED
      BY <1>4, <2>2, <3>1, <3>2, <3>3 DEF T
  <2>7. QED
    BY <2>3, <2>5, <2>6
<1>5. QED
  BY <1>2, <1>3, <1>4

EndRec == [good : BOOLEAN, text : Outcomes, value : 0..MaxRequests, type : DataTypes \cup {"none"}]
\* q is p after an end.
Settled(p, q, end) ==
    /\ q.settled /\ q.outcome = end.text /\ q.value = end.value /\ q.reached = end.type
    /\ q.successes + q.errors = p.successes + p.errors + IF p.installed THEN 1 ELSE 0

\* What the callbacks are told is an end, counted once.
LEMMA ToldFacts ==
  ASSUME NEW q \in RequestRec, NEW end \in EndRec
  PROVE  /\ Told(q, end) \in RequestRec /\ SameReq(q, Told(q, end))
         /\ Told(q, end).container = q.container /\ Settled(q, Told(q, end), end)
<1>1. /\ end.good \in BOOLEAN /\ end.text \in Outcomes /\ end.value \in 0..MaxRequests
      /\ end.type \in DataTypes \cup {"none"}
  BY DEF EndRec
<1>2. q.successes \in Nat /\ q.errors \in Nat /\ q.installed \in BOOLEAN
  BY DEF RequestRec
<1>3. PICK s \in Nat, e \in Nat :
        /\ Told(q, end) = [q EXCEPT !.settled = TRUE, !.outcome = end.text, !.value = end.value,
                                    !.reached = end.type, !.successes = s, !.errors = e]
        /\ s + e = q.successes + q.errors + IF q.installed THEN 1 ELSE 0
  <2> DEFINE s == IF end.good /\ q.installed THEN q.successes + 1 ELSE q.successes
             e == IF ~end.good /\ q.installed THEN q.errors + 1 ELSE q.errors
  <2>1. Told(q, end) = [q EXCEPT !.settled = TRUE, !.outcome = end.text, !.value = end.value,
                                 !.reached = end.type, !.successes = s, !.errors = e]
    BY DEF Told, RequestRec
  <2>2. s \in Nat /\ e \in Nat /\ s + e = q.successes + q.errors + IF q.installed THEN 1 ELSE 0
    BY <1>1, <1>2
  <2>3. QED
    BY <2>1, <2>2
<1> DEFINE p == [q EXCEPT !.settled = TRUE, !.outcome = end.text, !.value = end.value,
                          !.reached = end.type, !.successes = s, !.errors = e]
<1>4. p \in RequestRec /\ SameReq(q, p) /\ p.container = q.container
  BY <1>1 DEF RequestRec, SameReq
<1>5. Settled(q, p, end)
  BY <1>1, <1>3 DEF RequestRec, Settled
<1>6. QED
  BY <1>3, <1>4, <1>5

\* A request is settled with an end; the others keep theirs.
LEMMA SettleFacts ==
  ASSUME NEW S \in NetRec, NEW r \in DOMAIN S.requests, NEW end \in EndRec,
         S.requests[r].jsonp => S.requests[r].name \in Names, ~S.requests[r].settled
  PROVE  LET T == Settle(S, r, end)
             q == S.requests[r]
         IN /\ LikeOf(S, T)
            /\ \A i \in DOMAIN S.requests :
                  /\ SameReq(S.requests[i], T.requests[i])
                  /\ i # r => SameEnd(S.requests[i], T.requests[i])
                  /\ q.previous <= 0 => T.requests[i].container = S.requests[i].container
            /\ Settled(q, T.requests[r], end)
            /\ ~q.jsonp => T.window = S.window
            /\ q.jsonp => /\ T.window[q.name] = q.previous
                          /\ \A m \in Names : m # q.name => T.window[m] = S.window[m]
<1> DEFINE U == JsonpCleanUp(S, r)
           T == Settle(S, r, end)
           q == S.requests[r]
           p == Told(U.requests[r], end)
<1>1. T = Update(U, r, p)
  BY DEF Settle
<1>2. /\ LikeOf(S, U)
      /\ \A i \in DOMAIN S.requests :
            /\ SameReq(S.requests[i], U.requests[i]) /\ SameEnd(S.requests[i], U.requests[i])
            /\ q.previous <= 0 => U.requests[i] = S.requests[i]
      /\ ~q.jsonp => U.window = S.window
      /\ q.jsonp => /\ U.window[q.name] = q.previous
                    /\ \A m \in Names : m # q.name => U.window[m] = S.window[m]
  BY CleanUpFacts
<1> HIDE DEF U
<1>3. U \in NetRec /\ r \in DOMAIN U.requests /\ DOMAIN U.requests = DOMAIN S.requests
  BY <1>2 DEF LikeOf
<1>4. U.requests[r] \in RequestRec
  BY <1>3, RequestsOf
<1>5. /\ p \in RequestRec /\ SameReq(U.requests[r], p)
      /\ p.container = U.requests[r].container /\ Settled(U.requests[r], p, end)
  BY <1>4, ToldFacts
<1> HIDE DEF p, T
<1>6. OnlyAt(U, T, r) /\ T.requests[r] = p /\ T.window = U.window
  BY <1>1, <1>3, <1>5, UpdateFacts
<1>7. LikeOf(S, T)
  BY <1>2, <1>6 DEF LikeOf, OnlyAt
<1>8. \A i \in DOMAIN S.requests : i # r => T.requests[i] = U.requests[i]
  BY <1>3, <1>6 DEF OnlyAt
<1>9. SameReq(q, p)
  BY <1>2, <1>5 DEF SameReq
<1>10. Settled(q, p, end)
  BY <1>2, <1>5 DEF SameReq, SameEnd, Settled
<1>11. ASSUME NEW i \in DOMAIN S.requests
       PROVE  /\ SameReq(S.requests[i], T.requests[i])
              /\ i # r => SameEnd(S.requests[i], T.requests[i])
              /\ q.previous <= 0 => T.requests[i].container = S.requests[i].container
  BY <1>2, <1>5, <1>6, <1>8, <1>9
<1>12. QED
  BY <1>2, <1>6, <1>7, <1>10, <1>11 DEF T

-----------------------------------------------------------------------------
(* What an answer is converted to.                                          *)

\* A set of numbers that is not empty has a least one.
LEMMA Least ==
  ASSUME NEW T \in SUBSET Nat, T # {}
  PROVE  \E x \in T : \A y \in T : x <= y
<1>1. PICK x \in T : \A y \in T : ~(<<y, x>> \in OpToRel(<, Nat))
  BY WFMin, NatLessThanWellFounded
<1>2. ASSUME NEW y \in T PROVE x <= y
  <2>1. <<y, x>> \notin OpToRel(<, Nat)
    BY <1>1
  <2>2. x \in Nat /\ y \in Nat
    OBVIOUS
  <2>3. ~(y < x)
    <3>1. SUFFICES ASSUME y < x PROVE FALSE
      OBVIOUS
    <3>2. <<y, x>> \in OpToRel(<, Nat)
      BY <2>2, <3>1 DEF OpToRel
    <3>3. QED
      BY <2>1, <3>2
  <2>4. QED
    BY <2>2, <2>3
<1>3. QED
  BY <1>2

\* One with a bound has a greatest.
LEMMA Greatest ==
  ASSUME NEW n \in Nat, NEW T, T \subseteq 1..n, T # {}
  PROVE  \E x \in T : \A y \in T : y <= x
<1> DEFINE U == {n - x : x \in T}
<1>1. U \in SUBSET Nat /\ U # {}
  <2>1. \A x \in T : x \in 1..n /\ n - x \in Nat
    OBVIOUS
  <2>2. QED
    BY <2>1
<1>2. PICK u \in U : \A v \in U : u <= v
  BY <1>1, Least
<1>3. PICK x \in T : u = n - x
  BY <1>2
<1>4. ASSUME NEW y \in T PROVE y <= x
  <2>1. n - y \in U
    OBVIOUS
  <2>2. n - x <= n - y /\ x \in 1..n /\ y \in 1..n
    BY <1>2, <1>3, <2>1
  <2>3. QED
    BY <2>2
<1>5. QED
  BY <1>4

Chains == Seq(DataTypes) \ {<<>>}
\* A chain of types is not empty, and ends in one of the types.
LEMMA ChainsOf ==
  ASSUME NEW s \in Chains
  PROVE  /\ s \in Seq(DataTypes) /\ Len(s) \in Nat \ {0} /\ DOMAIN s = 1..Len(s)
         /\ s \in [1..Len(s) -> DataTypes]
         /\ Last(s) = s[Len(s)] /\ Last(s) \in DataTypes /\ s[1] \in DataTypes
<1>1. s \in Seq(DataTypes) /\ s # <<>>
  BY DEF Chains
<1>2. Len(s) \in Nat /\ Len(s) # 0
  BY <1>1, EmptySeq, LenProperties
<1>3. s[Len(s)] \in DataTypes /\ s[1] \in DataTypes
  BY <1>1, <1>2, ElementOfSeq
<1>4. QED
  BY <1>1, <1>2, <1>3, LenProperties DEF Last

\* The type a chain has come to.
LEMMA CurrentFacts ==
  ASSUME NEW s \in Chains
  PROVE  /\ Current(s, Len(s)) \in DataTypes
         /\ Last(s) # "*" => Current(s, Len(s)) = Last(s)
<1> DEFINE n == Len(s)
           named == {j \in 1..n : s[j] # "*"}
           top == CHOOSE j \in named : \A k \in named : k <= j
<1>1. n \in Nat \ {0} /\ s \in [1..n -> DataTypes] /\ Last(s) = s[n] /\ "*" \in DataTypes
  BY ChainsOf DEF DataTypes
<1>2. Current(s, n) = IF named = {} THEN "*" ELSE s[top]
  BY DEF Current
<1>3. CASE named = {}
  <2>1. n \notin named /\ n \in 1..n
    BY <1>1, <1>3
  <2>2. s[n] = "*"
    BY <2>1
  <2>3. QED
    BY <1>1, <1>2, <1>3, <2>2
<1>4. CASE named # {}
  <2>1. \E j \in named : \A k \in named : k <= j
    BY <1>1, <1>4, Greatest
  <2>2. top \in named /\ \A k \in named : k <= top
    BY <2>1
  <2>3. s[top] \in DataTypes /\ top \in 1..n
    BY <1>1, <2>2
  <2>4. ASSUME s[n] # "*" PROVE top = n
    <3>1. n \in named
      BY <1>1, <2>4
    <3>2. n <= top
      BY <2>2, <3>1
    <3>3. QED
      BY <1>1, <2>3, <3>2
  <2>5. QED
    BY <1>1, <1>2, <1>4, <2>3, <2>4
<1>5. QED
  BY <1>3, <1>4

\* The types asked for, without the first that are "*".
LEMMA StarsFacts ==
  ASSUME NEW s \in Chains
  PROVE  LET k == Cardinality(Stars(s))
         IN k \in 0..Len(s) /\ (Last(s) # "*" => k < Len(s))
<1> DEFINE n == Len(s)
<1>1. n \in Nat \ {0} /\ DOMAIN s = 1..n /\ Last(s) = s[n]
  BY ChainsOf
<1>2. Stars(s) \subseteq 1..n
  BY <1>1 DEF Stars
<1>3. ASSUME NEW m \in 0..n, Stars(s) \subseteq 1..m
      PROVE  Cardinality(Stars(s)) \in 0..m
  <2>1. IsFiniteSet(1..m) /\ Cardinality(1..m) = m
    BY <1>1, FS_Interval
  <2>2. IsFiniteSet(Stars(s)) /\ Cardinality(Stars(s)) <= m
    BY <1>3, <2>1, FS_Subset
  <2>3. Cardinality(Stars(s)) \in Nat
    BY <2>2, FS_CardinalityType
  <2>4. QED
    BY <2>2, <2>3
<1>4. Cardinality(Stars(s)) \in 0..n
  BY <1>1, <1>2, <1>3
<1>5. ASSUME Last(s) # "*" PROVE Cardinality(Stars(s)) < n
  <2>1. n \notin Stars(s)
    <3>1. n \in 1..n
      BY <1>1
    <3>2. QED
      BY <1>1, <1>5, <3>1 DEF Stars
  <2>2. Stars(s) \subseteq 1..(n - 1)
    BY <1>1, <1>2, <2>1
  <2>3. Cardinality(Stars(s)) \in 0..(n - 1)
    BY <1>1, <1>3, <2>2
  <2>4. QED
    BY <1>1, <2>3
<1>6. QED
  BY <1>4, <1>5

\* A type is put before the others.
LEMMA Before ==
  ASSUME NEW s \in Seq(DataTypes), NEW t \in DataTypes
  PROVE  /\ <<t>> \o s \in Chains /\ (s # <<>> => Last(<<t>> \o s) = Last(s))
<1>1. <<t>> \in Seq(DataTypes) /\ Len(<<t>>) = 1
  OBVIOUS
<1>2. /\ <<t>> \o s \in Seq(DataTypes) /\ Len(<<t>> \o s) = 1 + Len(s) /\ Len(s) \in Nat
      /\ \A i \in 1..(1 + Len(s)) : (<<t>> \o s)[i] = IF i <= 1 THEN <<t>>[i] ELSE s[i - 1]
  BY <1>1, ConcatProperties, LenProperties
<1>3. <<t>> \o s # <<>>
  BY <1>2, EmptySeq
<1>4. ASSUME s # <<>> PROVE Last(<<t>> \o s) = Last(s)
  <2>1. Len(s) # 0
    BY <1>4, EmptySeq
  <2>2. (<<t>> \o s)[1 + Len(s)] = s[Len(s)]
    BY <1>2, <2>1
  <2>3. QED
    BY <1>2, <2>2 DEF Last
<1>5. QED
  BY <1>2, <1>3, <1>4 DEF Chains

\* What is left of a chain from some place ends as the chain does.
LEMMA RestOfChain ==
  ASSUME NEW s \in Chains, NEW k \in 0..Len(s)
  PROVE  LET rest == SubSeq(s, k + 1, Len(s))
         IN /\ rest \in Seq(DataTypes)
            /\ k < Len(s) => rest # <<>> /\ Last(rest) = Last(s)
<1> DEFINE n == Len(s)
           rest == SubSeq(s, k + 1, n)
<1>1. n \in Nat \ {0} /\ s \in [1..n -> DataTypes] /\ Last(s) = s[n]
  BY ChainsOf
<1>2. k \in 0..n
  OBVIOUS
<1> HIDE DEF n
<1>3. k + 1 \in Int /\ n \in Int /\ \A i \in (k + 1)..n : s[i] \in DataTypes
  BY <1>1, <1>2
<1>4. /\ rest \in Seq(DataTypes)
      /\ Len(rest) = IF k + 1 <= n THEN n - (k + 1) + 1 ELSE 0
      /\ \A i \in 1..(n - (k + 1) + 1) : rest[i] = s[k + 1 + i - 1]
  BY <1>3, SubSeqProperties
<1> HIDE DEF rest
<1>5. ASSUME k < n PROVE rest # <<>> /\ Last(rest) = Last(s)
  <2>1. Len(rest) = n - k /\ n - k \in Nat \ {0}
    BY <1>1, <1>2, <1>4, <1>5
  <2>2. rest # <<>>
    BY <2>1, EmptySeq
  <2>3. rest[n - k] = s[k + 1 + (n - k) - 1]
    BY <1>1, <1>2, <1>4, <2>1
  <2>4. k + 1 + (n - k) - 1 = n
    BY <1>1, <1>2
  <2>5. QED
    BY <1>1, <2>1, <2>2, <2>3, <2>4 DEF Last
<1>6. QED
  BY <1>4, <1>5 DEF rest, n

\* The types asked for end in the last one given, if that is not "*".
LEMMA AskedFacts ==
  ASSUME NEW q, q.types \in Chains, NEW content \in {"", "json", "xml"}
  PROVE  /\ Asked(q, content) \in Seq(DataTypes)
         /\ Last(q.types) # "*" => Asked(q, content) # <<>> /\ Last(Asked(q, content)) = Last(q.types)
<1> DEFINE k == Cardinality(Stars(q.types))
           asked == SubSeq(q.types, k + 1, Len(q.types))
<1>1. k \in 0..Len(q.types) /\ (Last(q.types) # "*" => k < Len(q.types))
  BY StarsFacts
<1>2. asked = SubSeq(q.types, k + 1, Len(q.types))
  OBVIOUS
<1>3. Asked(q, content) = asked \/ (content \in DataTypes /\ Asked(q, content) = <<content>> \o asked)
  BY DEF Asked, KnownType, DataTypes
<1> HIDE DEF k, asked
<1>4. asked \in Seq(DataTypes) /\ (k < Len(q.types) => asked # <<>> /\ Last(asked) = Last(q.types))
  BY <1>1, <1>2, RestOfChain
<1>5. content \in DataTypes => /\ <<content>> \o asked \in Chains
                               /\ asked # <<>> => Last(<<content>> \o asked) = Last(asked)
  BY <1>4, Before
<1>6. <<content>> \o asked \in Chains => /\ <<content>> \o asked # <<>>
                                          /\ <<content>> \o asked \in Seq(DataTypes)
  BY DEF Chains
<1>7. QED
  BY <1>1, <1>3, <1>4, <1>5, <1>6

\* The chain from the answer to the types asked for ends in the last of these,
\* if that is not "*".
LEMMA ChainOfFacts ==
  ASSUME NEW q, q.types \in Chains, NEW answer \in Answers \cup {NoAnswer}
  PROVE  /\ ChainOf(q, answer) \in Chains
         /\ Last(q.types) # "*" => Last(ChainOf(q, answer)) = Last(q.types)
<1>1. \/ answer.types = <<>>
      \/ /\ answer.content \in {"", "json", "xml"}
         /\ answer.types \in {<<"text">>, <<"xml", "text">>}
  <2>1. CASE answer = NoAnswer
    BY <2>1 DEF NoAnswer
  <2>2. CASE answer \in Answers
    BY <2>2 DEF Answers
  <2>3. QED
    BY <2>1, <2>2
<1>2. CASE answer.types = <<>>
  BY <1>2 DEF ChainOf
<1>3. CASE /\ answer.content \in {"", "json", "xml"}
           /\ answer.types \in {<<"text">>, <<"xml", "text">>}
  <2> DEFINE s == Asked(q, answer.content)
             final == Final(q, s, answer.types)
  <2>1. s \in Seq(DataTypes) /\ (Last(q.types) # "*" => s # <<>> /\ Last(s) = Last(q.types))
    BY <1>3, AskedFacts
  <2>2. final \in DataTypes
    <3> HIDE DEF s
    <3> DEFINE resp == answer.types
               fits == {i \in DOMAIN resp :
                          \/ s = <<>> \/ s[1] \in {resp[j] : j \in DOMAIN resp}
                          \/ <<resp[i], s[1]>> \in Converters(q)}
               first == CHOOSE i \in fits : \A j \in fits : i <= j
    <3>1. /\ DOMAIN resp \subseteq 1..2 /\ resp[1] \in DataTypes
          /\ \A i \in DOMAIN resp : resp[i] \in DataTypes
      <4>1. "text" \in DataTypes /\ "xml" \in DataTypes
        BY DEF DataTypes
      <4>2. CASE answer.types = <<"text">>
        BY <4>1, <4>2
      <4>3. CASE answer.types = <<"xml", "text">>
        BY <4>1, <4>3
      <4>4. QED
        BY <1>3, <4>2, <4>3
    <3>2. s # <<>> => s[1] \in DataTypes
      <4>1. s # <<>> => s \in Chains
        BY <2>1 DEF Chains
      <4>2. QED
        BY <4>1, ChainsOf
    <3>3. \/ s # <<>> /\ final = s[1]
          \/ fits # {} /\ final = resp[first]
          \/ final = resp[1]
      BY DEF Final
    <3>4. fits \subseteq DOMAIN resp
      OBVIOUS
    <3> HIDE DEF resp, fits, final
    <3>5. fits # {} => first \in fits
      <4>1. SUFFICES ASSUME fits # {} PROVE \E i \in fits : \A j \in fits : i <= j
        BY DEF first
      <4>2. fits \in SUBSET Nat
        BY <3>1, <3>4
      <4>3. QED
        BY <4>1, <4>2, Least
    <3>6. QED
      BY <3>1, <3>2, <3>3, <3>4, <3>5
  <2>3. ChainOf(q, answer) = From(final, s)
    <3>1. answer.types # <<>>
      <4>1. CASE answer.types = <<"text">>
        BY <4>1
      <4>2. CASE answer.types = <<"xml", "text">>
        BY <4>2
      <4>3. QED
        BY <1>3, <4>1, <4>2
    <3>2. QED
      BY <3>1 DEF ChainOf, Chain, ChainFrom
  <2> HIDE DEF s, final
  <2>4. (From(final, s) = s /\ s # <<>>) \/ From(final, s) = <<final>> \o s
    BY DEF From
  <2>5. /\ <<final>> \o s \in Chains /\ (s # <<>> => Last(<<final>> \o s) = Last(s))
    BY <2>1, <2>2, Before
  <2>6. s # <<>> => s \in Chains
    BY <2>1 DEF Chains
  <2>7. QED
    BY <2>1, <2>3, <2>4, <2>5, <2>6
<1>4. QED
  BY <1>1, <1>2, <1>3

-----------------------------------------------------------------------------
(* The outcome of a request.                                                *)

\* A conversion that succeeds gives the type asked for, and the request's own
\* answer but where jsonp takes what its function was called with.
LEMMA ConvertedFacts ==
  ASSUME NEW q \in RequestRec, NEW r \in 1..MaxRequests, NEW answer \in Answers \cup {NoAnswer}
  PROVE  LET end == Converted(q, r, answer)
         IN /\ end \in EndRec
            /\ end.text = "success" =>
                  /\ Last(q.types) # "*" => end.type = Last(q.types)
                  /\ end.value = (IF q.jsonp THEN q.container ELSE r) /\ (q.jsonp => q.container # NoFn)
<1> DEFINE end == Converted(q, r, answer)
           chain == ChainOf(q, answer)
           type == Current(chain, Len(chain))
           value == IF q.jsonp THEN q.container ELSE r
<1>1. /\ q.types \in Chains /\ q.container \in 0..MaxRequests /\ MaxRequests \in Nat
      /\ q.jsonp \in BOOLEAN
  BY AjaxAssumption DEF RequestRec, Chains
<1>2. chain \in Chains /\ (Last(q.types) # "*" => Last(chain) = Last(q.types))
  BY <1>1, ChainOfFacts
<1> HIDE DEF chain
<1>3. type \in DataTypes /\ (Last(chain) # "*" => type = Last(chain))
  BY <1>2, CurrentFacts
<1>4. value \in 0..MaxRequests
  BY <1>1
<1>5. \/ end = Ended(TRUE, "success", value, type) /\ (q.jsonp => q.container # NoFn)
      \/ end = Failed("parsererror")
  BY DEF Converted, chain
<1> HIDE DEF end, type, value
<1>6. CASE end = Ended(TRUE, "success", value, type) /\ (q.jsonp => q.container # NoFn)
  <2>1. end = [good |-> TRUE, text |-> "success", value |-> value, type |-> type]
    BY <1>6 DEF Ended
  <2>2. end \in EndRec /\ end.type = type /\ end.value = value
    BY <1>3, <1>4, <2>1 DEF EndRec, Outcomes
  <2>3. QED
    BY <1>2, <1>3, <1>6, <2>2 DEF end, value
<1>7. CASE end = Failed("parsererror")
  <2>1. end = [good |-> FALSE, text |-> "parsererror", value |-> 0, type |-> "none"]
    BY <1>7 DEF Failed, Ended, NoFn
  <2>2. end \in EndRec /\ end.text # "success"
    BY <1>1, <2>1 DEF EndRec, Outcomes
  <2>3. QED
    BY <2>2 DEF end
<1>8. QED
  BY <1>5, <1>6, <1>7

\* What an end tells a request of its own.
Right(q, r, end) ==
    end.text = "success" =>
        /\ Last(q.types) # "*" => end.type = Last(q.types)
        /\ q.container \in {NoFn, r} => end.value = r

\* A text says success of an answer only.
Texts == Outcomes \cup {""}
Honest(status, text) == status = 0 => text # "success"

\* A request that ends meets an end, after its callback was called or not.
LEMMA OutcomeEnds ==
  ASSUME NEW S \in NetRec, Len(S.requests) <= MaxRequests, NEW r \in DOMAIN S.requests,
         S.requests[r].jsonp => S.requests[r].name \in Names, ~S.requests[r].settled,
         NEW status \in Int, NEW text \in Texts, NEW answer \in Answers \cup {NoAnswer},
         Honest(status, text)
  PROVE  \E U \in {S, Ran(S, r, answer)}, end \in EndRec :
            Outcome(S, r, status, text, answer) = Settle(U, r, end) /\ Right(U.requests[r], r, end)
<1> DEFINE U == Ran(S, r, answer)
<1>1. r \in 1..MaxRequests /\ MaxRequests \in Nat
  BY AjaxAssumption, RequestsOf
<1>2. U \in NetRec /\ DOMAIN U.requests = DOMAIN S.requests
  <2>1. U = S \/ (S.requests[r].jsonp /\ U = CallWindow(S, S.requests[r].name, r))
    BY DEF Ran
  <2>2. CASE S.requests[r].jsonp /\ U = CallWindow(S, S.requests[r].name, r)
    <3>1. r \in 0..MaxRequests
      BY <1>1
    <3>2. LikeOf(S, U)
      BY <2>2, <3>1, CallWindowFacts
    <3>3. QED
      BY <3>2 DEF LikeOf
  <2>3. QED
    BY <2>1, <2>2
<1>3. CASE status \in 200..299
  <2> DEFINE end == Converted(U.requests[r], r, answer)
  <2>1. Outcome(S, r, status, text, answer) = Settle(U, r, end)
    BY <1>3 DEF Outcome
  <2>2. U.requests[r] \in RequestRec
    BY <1>2, RequestsOf
  <2> HIDE DEF U
  <2>3. /\ end \in EndRec
        /\ end.text = "success" =>
              /\ Last(U.requests[r].types) # "*" => end.type = Last(U.requests[r].types)
              /\ end.value = (IF U.requests[r].jsonp THEN U.requests[r].container ELSE r)
              /\ (U.requests[r].jsonp => U.requests[r].container # NoFn)
    BY <1>1, <2>2, ConvertedFacts
  <2> HIDE DEF end
  <2>4. Right(U.requests[r], r, end)
    BY <2>3 DEF Right
  <2>5. QED
    BY <2>1, <2>3, <2>4 DEF U
<1>4. CASE status \notin 200..299
  <2> DEFINE end == IF status = 304 THEN Ended(TRUE, "notmodified", NoFn, "none")
                    ELSE Failed(IF status = 0 /\ text # "" THEN text ELSE "error")
  <2>1. Outcome(S, r, status, text, answer) = Settle(S, r, end)
    BY <1>4 DEF Outcome
  <2>2. \E good \in BOOLEAN, t \in Outcomes :
           t # "success" /\ end = [good |-> good, text |-> t, value |-> 0, type |-> "none"]
    <3>1. PICK t \in Outcomes \ {"success"} :
             end = Ended(TRUE, t, NoFn, "none") \/ end = Failed(t)
      <4>1. {"notmodified", "error"} \subseteq Outcomes \ {"success"}
        BY DEF Outcomes
      <4>2. status = 0 /\ text # "" => text \in Outcomes \ {"success"}
        BY DEF Texts, Honest
      <4>3. QED
        BY <4>1, <4>2
    <3>2. end = [good |-> TRUE, text |-> t, value |-> 0, type |-> "none"] \/
          end = [good |-> FALSE, text |-> t, value |-> 0, type |-> "none"]
      BY <3>1 DEF Ended, Failed, NoFn
    <3> HIDE DEF end
    <3>3. QED
      BY <3>2
  <2> HIDE DEF end
  <2>3. end \in EndRec /\ end.text # "success"
    BY <1>1, <2>2 DEF EndRec
  <2>4. Right(S.requests[r], r, end)
    BY <2>3 DEF Right
  <2>5. QED
    BY <2>1, <2>3, <2>4
<1>5. QED
  BY <1>3, <1>4

\* T is S after the end of r.
EndOf(S, T, r) ==
    LET q == S.requests[r]
    IN /\ LikeOf(S, T)
       /\ \A i \in DOMAIN S.requests :
             SameReq(S.requests[i], T.requests[i]) /\ (i # r => SameEnd(S.requests[i], T.requests[i]))
       /\ T.requests[r].settled
       /\ T.requests[r].successes + T.requests[r].errors
             = q.successes + q.errors + IF q.installed THEN 1 ELSE 0
       /\ T.requests[r].outcome = "success" /\ Last(q.types) # "*" =>
             T.requests[r].reached = Last(q.types)
       /\ ~q.jsonp => T.window = S.window
       /\ q.jsonp => /\ T.window[q.name] = q.previous
                     /\ \A m \in Names : m # q.name => T.window[m] = S.window[m]
\* And the containers.
OwnEnd(S, T, r) ==
    LET q == S.requests[r]
    IN q.previous <= 0 /\ (q.jsonp => S.window[q.name] = r) =>
          /\ \A i \in DOMAIN S.requests : i # r => T.requests[i].container = S.requests[i].container
          /\ q.container \in {NoFn, r} =>
                /\ T.requests[r].container \in {NoFn, r}
                /\ T.requests[r].outcome = "success" => T.requests[r].value = r

\* done settles the request with an end of its own, whatever the status.
LEMMA OutcomeFacts ==
  ASSUME NEW S \in NetRec, Len(S.requests) <= MaxRequests, NEW r \in DOMAIN S.requests,
         S.requests[r].jsonp => S.requests[r].name \in Names, ~S.requests[r].settled,
         NEW status \in Int, NEW text \in Texts, NEW answer \in Answers \cup {NoAnswer},
         Honest(status, text)
  PROVE  LET T == Outcome(S, r, status, text, answer)
         IN EndOf(S, T, r) /\ OwnEnd(S, T, r)
<1> DEFINE T == Outcome(S, r, status, text, answer)
           q == S.requests[r]
<1>1. PICK U \in {S, Ran(S, r, answer)}, end \in EndRec :
         T = Settle(U, r, end) /\ Right(U.requests[r], r, end)
  BY OutcomeEnds
<1>2. r \in 1..MaxRequests /\ r \in 0..MaxRequests
  BY AjaxAssumption, RequestsOf
<1>3. /\ LikeOf(S, U) /\ U.window = S.window
      /\ \A i \in DOMAIN S.requests :
            SameReq(S.requests[i], U.requests[i]) /\ SameEnd(S.requests[i], U.requests[i])
      /\ (q.jsonp /\ S.window[q.name] = r) \/ ~q.jsonp =>
            \A i \in DOMAIN S.requests : i # r => U.requests[i].container = S.requests[i].container
      /\ (q.jsonp /\ S.window[q.name] = r) \/ ~q.jsonp =>
            U.requests[r].container \in {S.requests[r].container, r}
  <2>1. U = S \/ (q.jsonp /\ U = CallWindow(S, q.name, r))
    BY DEF Ran
  <2>2. CASE U = S
    BY <2>2 DEF LikeOf, SameReq, SameEnd
  <2>3. CASE q.jsonp /\ U = CallWindow(S, q.name, r)
    <3>1. /\ LikeOf(S, U) /\ U.window = S.window
          /\ \A i \in DOMAIN S.requests :
                /\ SameReq(S.requests[i], U.requests[i]) /\ SameEnd(S.requests[i], U.requests[i])
                /\ i # S.window[q.name] => U.requests[i] = S.requests[i]
                /\ i = S.window[q.name] => U.requests[i].container = r
      BY <1>2, <2>3, CallWindowFacts
    <3>2. \A i \in DOMAIN S.requests :
             U.requests[i].container \in {S.requests[i].container, r} /\
             (i # S.window[q.name] => U.requests[i].container = S.requests[i].container)
      BY <3>1
    <3>3. QED
      BY <2>3, <3>1, <3>2
  <2>4. QED
    BY <2>1, <2>2, <2>3
<1>4. U \in NetRec /\ DOMAIN U.requests = DOMAIN S.requests
  BY <1>3 DEF LikeOf
<1>5. /\ SameReq(q, U.requests[r]) /\ SameEnd(q, U.requests[r])
  BY <1>3
<1>6. /\ U.requests[r].jsonp = q.jsonp /\ U.requests[r].name = q.name /\ ~U.requests[r].settled
      /\ U.requests[r].previous = q.previous /\ U.requests[r].types = q.types
      /\ U.requests[r].installed = q.installed
      /\ U.requests[r].successes = q.successes /\ U.requests[r].errors = q.errors
  BY <1>5 DEF SameReq, SameEnd
<1> HIDE DEF T
<1>7. /\ LikeOf(U, T)
      /\ \A i \in DOMAIN U.requests :
            /\ SameReq(U.requests[i], T.requests[i])
            /\ i # r => SameEnd(U.requests[i], T.requests[i])
            /\ q.previous <= 0 => T.requests[i].container = U.requests[i].container
      /\ Settled(U.requests[r], T.requests[r], end)
      /\ ~q.jsonp => T.window = U.window
      /\ q.jsonp => /\ T.window[q.name] = q.previous
                    /\ \A m \in Names : m # q.name => T.window[m] = U.window[m]
  BY <1>1, <1>4, <1>6, SettleFacts
<1>8. LikeOf(S, T)
  BY <1>3, <1>7 DEF LikeOf
<1>9. ASSUME NEW i \in DOMAIN S.requests
      PROVE  SameReq(S.requests[i], T.requests[i]) /\ (i # r => SameEnd(S.requests[i], T.requests[i]))
  <2>1. /\ SameReq(S.requests[i], U.requests[i]) /\ SameEnd(S.requests[i], U.requests[i])
        /\ SameReq(U.requests[i], T.requests[i]) /\ (i # r => SameEnd(U.requests[i], T.requests[i]))
    BY <1>3, <1>4, <1>7
  <2>2. QED
    BY <2>1 DEF SameReq, SameEnd
<1>10. /\ T.requests[r].settled /\ T.requests[r].outcome = end.text
       /\ T.requests[r].value = end.value /\ T.requests[r].reached = end.type
       /\ T.requests[r].successes + T.requests[r].errors
             = q.successes + q.errors + IF q.installed THEN 1 ELSE 0
  BY <1>6, <1>7 DEF Settled
<1>11. /\ end.text = "success" /\ Last(q.types) # "*" => end.type = Last(q.types)
       /\ end.text = "success" /\ U.requests[r].container \in {NoFn, r} => end.value = r
  BY <1>1, <1>6 DEF Right
<1>12. EndOf(S, T, r)
  BY <1>3, <1>7, <1>8, <1>9, <1>10, <1>11 DEF EndOf
<1>13. OwnEnd(S, T, r)
  BY <1>3, <1>4, <1>7, <1>10, <1>11 DEF OwnEnd
<1>14. QED
  BY <1>12, <1>13 DEF T

-----------------------------------------------------------------------------
(* What a step keeps of a safe page.                                        *)

Clean(S) == S.odd \cap {"thrown", "abort in ajaxSend"} = {}

\* A request is like another in what its callbacks and its jsonp depend on.
Alike(p, q) ==
    /\ q.o = p.o /\ q.types = p.types /\ q.fire = p.fire /\ q.jsonp = p.jsonp /\ q.name = p.name
    /\ q.previous = p.previous /\ q.installed = p.installed /\ q.completes = p.completes
Kept(p, q) == Alike(p, q) /\ SameEnd(p, q) /\ q.container = p.container

\* What a safe page is made of.
LEMMA SafeOpen ==
  ASSUME NEW S, NEW r, Safe(S) \/ SafeBut(S, r)
  PROVE  /\ S \in NetRec /\ Len(S.requests) <= MaxRequests
         /\ Typed(S) /\ Frames(S) /\ CountOK(S) /\ NamesOK(S)
         /\ \A i \in DOMAIN S.requests :
               /\ S.requests[i] \in RequestRec /\ Common(S.requests[i]) /\ Completes(S, i)
               /\ i # r => Rest(S.requests[i])
         /\ Safe(S) => \A i \in DOMAIN S.requests : Rest(S.requests[i])
         /\ SafeBut(S, r)
<1>1. S \in NetRec
  BY DEF Safe, SafeBut, Typed
<1>2. DOMAIN S.requests = 1..Len(S.requests) /\ Len(S.requests) \in Nat
      /\ \A i \in DOMAIN S.requests : S.requests[i] \in RequestRec
  BY <1>1, RequestsOf
<1>3. 0 \notin DOMAIN S.requests
  BY <1>2
<1>4. QED
  BY <1>1, <1>2, <1>3 DEF Safe, SafeBut, Typed

\* A page that is safe but for a request at rest is safe.
LEMMA SafeClose ==
  ASSUME NEW S, NEW r \in DOMAIN S.requests, SafeBut(S, r), Rest(S.requests[r])
  PROVE  Safe(S)
BY DEF Safe, SafeBut

\* The other requests do not notice what r does.
LEMMA OthersKept ==
  ASSUME NEW S, NEW T, NEW r, LikeOf(S, T), Typed(S), Frames(S),
         \A i \in DOMAIN S.requests :
            /\ Common(S.requests[i]) /\ Completes(S, i)
            /\ i # r => SameReq(S.requests[i], T.requests[i]) /\ SameEnd(S.requests[i], T.requests[i])
            /\ i = r => /\ T.requests[i].installed = S.requests[i].installed
                        /\ S.requests[i].settled => T.requests[i].settled
  PROVE  /\ Typed(T) /\ Frames(T)
         /\ \A i \in DOMAIN T.requests : i # r =>
               /\ Common(T.requests[i]) /\ Completes(T, i)
               /\ Rest(S.requests[i]) => Rest(T.requests[i])
<1>1. /\ T \in NetRec /\ DOMAIN T.requests = DOMAIN S.requests /\ Len(T.requests) = Len(S.requests)
      /\ T.odd = S.odd /\ T.calls = S.calls
  BY DEF LikeOf
<1>2. Typed(T)
  BY <1>1 DEF Typed
<1>3. Frames(T)
  <2>1. \A i \in DOMAIN S.requests :
           /\ T.requests[i].installed = S.requests[i].installed
           /\ S.requests[i].settled => T.requests[i].settled
    BY DEF SameReq, SameEnd
  <2>2. \A i \in DOMAIN S.calls : S.calls[i].r \in DOMAIN S.requests
    BY DEF Typed
  <2>3. QED
    BY <1>1, <2>1, <2>2 DEF Frames
<1>4. ASSUME NEW i \in DOMAIN S.requests, i # r
      PROVE  /\ Common(T.requests[i]) /\ Completes(T, i)
             /\ Rest(S.requests[i]) => Rest(T.requests[i])
  <2>1. /\ Common(S.requests[i]) /\ Completes(S, i)
        /\ SameReq(S.requests[i], T.requests[i]) /\ SameEnd(S.requests[i], T.requests[i])
    BY <1>4
  <2>2. Common(T.requests[i])
    BY <2>1 DEF Common, SameReq, SameEnd
  <2>3. Completes(T, i)
    BY <1>1, <2>1 DEF Completes, SameReq, SameEnd
  <2>4. Rest(S.requests[i]) => Rest(T.requests[i])
    BY <2>1 DEF Rest, SameReq, SameEnd
  <2>5. QED
    BY <2>2, <2>3, <2>4
<1>5. QED
  BY <1>1, <1>2, <1>3, <1>4

\* The names do not notice it either, as long as no request is settled.
LEMMA NamesKept ==
  ASSUME NEW S, NEW T, LikeOf(S, T), NamesOK(S), T.window = S.window,
         \A i \in DOMAIN S.requests :
            LET p == S.requests[i] q == T.requests[i]
            IN /\ q.jsonp = p.jsonp /\ q.name = p.name /\ q.previous = p.previous
               /\ SameEnd(p, q) /\ q.container = p.container
               /\ q.wire = "late" => p.wire = "late" \/ ~p.settled
  PROVE  NamesOK(T)
<1>1. T.odd = S.odd /\ DOMAIN T.requests = DOMAIN S.requests
  BY DEF LikeOf
<1>2. SUFFICES ASSUME "name shared" \notin S.odd
               PROVE  WindowOK(T) /\ \A i \in DOMAIN S.requests : OwnWindow(T, i)
  BY <1>1 DEF NamesOK
<1>3. WindowOK(S) /\ \A i \in DOMAIN S.requests : OwnWindow(S, i)
  BY <1>2 DEF NamesOK
<1>4. WindowOK(T)
  BY <1>1, <1>3 DEF WindowOK, SameEnd
<1>5. ASSUME NEW i \in DOMAIN S.requests PROVE OwnWindow(T, i)
  <2>1. OwnWindow(S, i)
    BY <1>3
  <2>2. LET p == S.requests[i] q == T.requests[i]
        IN /\ q.jsonp = p.jsonp /\ q.name = p.name /\ q.previous = p.previous
           /\ SameEnd(p, q) /\ q.container = p.container
           /\ q.wire = "late" => p.wire = "late" \/ ~p.settled
    OBVIOUS
  <2>3. QED
    BY <2>1, <2>2 DEF OwnWindow, SameEnd
<1>6. QED
  BY <1>4, <1>5

\* What is under way is counted as before.
LEMMA CountKept ==
  ASSUME NEW S, NEW T, LikeOf(S, T), Typed(S), CountOK(S),
         Clean(S) => \A i \in DOMAIN S.requests :
                        /\ T.requests[i].fire = S.requests[i].fire
                        /\ T.requests[i].state < 2 <=> S.requests[i].state < 2
                        /\ S.requests[i].state = 2 => T.requests[i].state = 2
  PROVE  CountOK(T)
<1>1. /\ T.active = S.active /\ T.started = S.started /\ T.odd = S.odd /\ T.calls = S.calls
      /\ DOMAIN T.requests = DOMAIN S.requests
  BY DEF LikeOf
<1>2. SUFFICES ASSUME Clean(S)
               PROVE  /\ T.active = Cardinality(Counted(T))
                      /\ T.started = IF T.active > 0 THEN 1 ELSE 0
                      /\ \A i \in DOMAIN T.calls :
                            T.calls[i].at # "send" /\ T.requests[T.calls[i].r].state = 2
                      /\ \A i, j \in DOMAIN T.calls : T.calls[i].r = T.calls[j].r => i = j
  BY <1>1 DEF Clean, CountOK
<1>3. /\ S.active = Cardinality(Counted(S))
      /\ S.started = IF S.active > 0 THEN 1 ELSE 0
      /\ \A i \in DOMAIN S.calls : S.calls[i].at # "send" /\ S.requests[S.calls[i].r].state = 2
      /\ \A i, j \in DOMAIN S.calls : S.calls[i].r = S.calls[j].r => i = j
  BY <1>2 DEF Clean, CountOK
<1>4. Counted(T) = Counted(S)
  BY <1>1, <1>2 DEF Counted, EndingIn
<1>5. \A i \in DOMAIN S.calls : S.calls[i].r \in DOMAIN S.requests
  BY DEF Typed
<1>6. \A i \in DOMAIN S.calls : T.requests[S.calls[i].r].state = 2
  BY <1>2, <1>3, <1>5
<1>7. QED
  BY <1>1, <1>3, <1>4, <1>6

\* A request changes, but for its end.
LEMMA Retouch ==
  ASSUME NEW S, NEW r \in DOMAIN S.requests, NEW q \in RequestRec,
         SafeBut(S, r), Kept(S.requests[r], q),
         q.wire = "late" => S.requests[r].wire = "late" \/ ~S.requests[r].settled,
         (q.state = 2 <=> S.requests[r].state = 2) \/ ~Clean(S)
  PROVE  LET T == Update(S, r, q)
         IN /\ SafeBut(T, r) /\ (Rest(q) => Safe(T))
            /\ OnlyAt(S, T, r) /\ T.requests[r] = q /\ T.window = S.window
<1> DEFINE T == Update(S, r, q)
           p == S.requests[r]
<1>1. /\ S \in NetRec /\ Typed(S) /\ Frames(S) /\ CountOK(S) /\ NamesOK(S)
      /\ \A i \in DOMAIN S.requests :
            /\ S.requests[i] \in RequestRec /\ Common(S.requests[i]) /\ Completes(S, i)
            /\ i # r => Rest(S.requests[i])
  BY SafeOpen
<1>2. OnlyAt(S, T, r) /\ T.requests[r] = q /\ T.window = S.window
  BY <1>1, UpdateFacts
<1> HIDE DEF T
<1>3. LikeOf(S, T) /\ \A i \in DOMAIN S.requests : i # r => T.requests[i] = S.requests[i]
  BY <1>2 DEF OnlyAt
<1>4. /\ SameEnd(p, q) /\ q.container = p.container /\ q.fire = p.fire /\ q.jsonp = p.jsonp
      /\ q.name = p.name /\ q.previous = p.previous /\ q.installed = p.installed
      /\ q.completes = p.completes /\ q.o = p.o /\ q.types = p.types /\ q.settled = p.settled
  BY DEF Kept, Alike, SameEnd
<1>5. ASSUME NEW i \in DOMAIN S.requests
      PROVE  /\ i # r => SameReq(S.requests[i], T.requests[i]) /\ SameEnd(S.requests[i], T.requests[i])
             /\ i = r => /\ T.requests[i].installed = S.requests[i].installed
                         /\ S.requests[i].settled => T.requests[i].settled
  BY <1>2, <1>3, <1>4 DEF SameReq, SameEnd
<1>6. /\ Typed(T) /\ Frames(T)
      /\ \A i \in DOMAIN T.requests : i # r =>
            /\ Common(T.requests[i]) /\ Completes(T, i)
            /\ Rest(S.requests[i]) => Rest(T.requests[i])
  BY <1>1, <1>3, <1>5, OthersKept
<1>7. CountOK(T)
  <2>1. S.requests[r].state \in 0..2 /\ q.state \in 0..2
    BY <1>1 DEF RequestRec
  <2>2. Clean(S) => \A i \in DOMAIN S.requests :
                        /\ T.requests[i].fire = S.requests[i].fire
                        /\ T.requests[i].state < 2 <=> S.requests[i].state < 2
                        /\ S.requests[i].state = 2 => T.requests[i].state = 2
    BY <1>2, <1>3, <1>4, <2>1
  <2>3. QED
    BY <1>1, <1>3, <2>2, CountKept
<1>8. NamesOK(T)
  <2>1. ASSUME NEW i \in DOMAIN S.requests
        PROVE  LET p0 == S.requests[i] q0 == T.requests[i]
               IN /\ q0.jsonp = p0.jsonp /\ q0.name = p0.name /\ q0.previous = p0.previous
                  /\ SameEnd(p0, q0) /\ q0.container = p0.container
                  /\ q0.wire = "late" => p0.wire = "late" \/ ~p0.settled
    BY <1>2, <1>3, <1>4 DEF SameEnd
  <2>2. QED
    BY <1>1, <1>2, <1>3, <2>1, NamesKept
<1>9. Common(q) /\ Completes(T, r)
  <2>1. Common(p) /\ Completes(S, r)
    BY <1>1
  <2>2. Common(q)
    BY <1>4, <2>1 DEF Common, SameEnd
  <2>3. T.odd = S.odd /\ T.calls = S.calls
    BY <1>3 DEF LikeOf
  <2>4. Completes(T, r)
    BY <1>2, <1>4, <2>1, <2>3 DEF Completes
  <2>5. QED
    BY <2>2, <2>4
<1>10. DOMAIN T.requests = DOMAIN S.requests
  BY <1>3 DEF LikeOf
<1>11. SafeBut(T, r)
  BY <1>1, <1>2, <1>6, <1>7, <1>8, <1>9, <1>10 DEF SafeBut
<1>12. QED
  BY <1>2, <1>10, <1>11, SafeClose DEF T

\* A call is added, or the last one goes on.
AddedCall(S, T, r, at) ==
    /\ T \in NetRec /\ T.requests = S.requests /\ T.window = S.window
    /\ T.active = S.active /\ T.started = S.started /\ T.odd = S.odd
    /\ DOMAIN T.calls = 1..(Len(S.calls) + 1) /\ DOMAIN S.calls = 1..Len(S.calls)
    /\ Len(S.calls) \in Nat
    /\ \A i \in DOMAIN S.calls : T.calls[i] = S.calls[i]
    /\ T.calls[Len(S.calls) + 1].r = r /\ T.calls[Len(S.calls) + 1].at = at

\* A call is put on top of those under way.
LEMMA CallFacts ==
  ASSUME NEW S \in NetRec, NEW r \in 1..MaxRequests, NEW at \in {"send", "tell", "complete", "count"}
  PROVE  AddedCall(S, Call(S, r, at), r, at)
<1> DEFINE T == Call(S, r, at)
           c == [r |-> r, at |-> at]
<1>1. S.calls \in Seq(CallRec)
  BY DEF NetRec
<1>2. c \in CallRec /\ c.r = r /\ c.at = at
  BY DEF CallRec
<1>3. T = [S EXCEPT !.calls = Append(S.calls, c)]
  BY DEF Call
<1> HIDE DEF T, c
<1>4. /\ Append(S.calls, c) \in Seq(CallRec) /\ Len(Append(S.calls, c)) = Len(S.calls) + 1
      /\ \A i \in 1..Len(S.calls) : Append(S.calls, c)[i] = S.calls[i]
      /\ Append(S.calls, c)[Len(S.calls) + 1] = c
      /\ Len(S.calls) \in Nat /\ DOMAIN S.calls = 1..Len(S.calls)
  BY <1>1, <1>2, AppendProperties, LenProperties
<1>5. DOMAIN Append(S.calls, c) = 1..(Len(S.calls) + 1)
  BY <1>4, LenProperties
<1>6. T \in NetRec
  BY <1>3, <1>4 DEF NetRec
<1>7. /\ T.requests = S.requests /\ T.window = S.window /\ T.active = S.active
      /\ T.started = S.started /\ T.odd = S.odd /\ T.calls = Append(S.calls, c)
  BY <1>3 DEF NetRec
<1>8. QED
  BY <1>2, <1>4, <1>5, <1>6, <1>7 DEF AddedCall, T

\* A call on top keeps what is known of the calls below.
LEMMA AddedKeeps ==
  ASSUME NEW S, NEW T, NEW r \in DOMAIN S.requests, NEW at, AddedCall(S, T, r, at),
         Typed(S), Frames(S), NamesOK(S),
         at \in {"tell", "complete"} => S.requests[r].settled /\ S.requests[r].installed
  PROVE  /\ Typed(T) /\ Frames(T) /\ NamesOK(T)
         /\ \A i \in DOMAIN S.requests : Completes(S, i) => Completes(T, i)
         /\ at \in {"tell", "complete"} => Completes(T, r)
<1>1. /\ T \in NetRec /\ T.requests = S.requests /\ T.window = S.window /\ T.odd = S.odd
      /\ DOMAIN T.calls = 1..(Len(S.calls) + 1) /\ DOMAIN S.calls = 1..Len(S.calls)
      /\ Len(S.calls) \in Nat
      /\ \A i \in DOMAIN S.calls : T.calls[i] = S.calls[i]
      /\ T.calls[Len(S.calls) + 1].r = r /\ T.calls[Len(S.calls) + 1].at = at
  BY DEF AddedCall
<1>2. /\ DOMAIN S.calls \subseteq DOMAIN T.calls /\ Len(S.calls) + 1 \in DOMAIN T.calls
      /\ \A i \in DOMAIN T.calls : i \in DOMAIN S.calls \/ i = Len(S.calls) + 1
  BY <1>1
<1>3. Typed(T)
  BY <1>1, <1>2 DEF Typed
<1>4. Frames(T)
  <2>1. ASSUME NEW i \in DOMAIN T.calls, T.calls[i].at \in {"tell", "complete"}
        PROVE  T.requests[T.calls[i].r].settled /\ T.requests[T.calls[i].r].installed
    <3>1. CASE i \in DOMAIN S.calls
      BY <1>1, <2>1, <3>1 DEF Frames
    <3>2. CASE i = Len(S.calls) + 1
      BY <1>1, <2>1, <3>2
    <3>3. QED
      BY <1>2, <3>1, <3>2
  <2>2. QED
    BY <2>1 DEF Frames
<1>5. NamesOK(T)
  <2>1. WindowOK(S) => WindowOK(T)
    BY <1>1 DEF WindowOK
  <2>2. \A i : OwnWindow(S, i) => OwnWindow(T, i)
    BY <1>1 DEF OwnWindow
  <2>3. QED
    BY <1>1, <2>1, <2>2 DEF NamesOK
<1>6. ASSUME NEW i \in DOMAIN S.requests, Completes(S, i)
      PROVE  Completes(T, i)
  BY <1>1, <1>2, <1>6 DEF Completes
<1>7. at \in {"tell", "complete"} => Completes(T, r)
  BY <1>1, <1>2 DEF Completes
<1>8. QED
  BY <1>3, <1>4, <1>5, <1>6, <1>7

-----------------------------------------------------------------------------
(* done                                                                     *)

\* A request may end.
CanEnd(S, r, status, text) ==
    LET q == S.requests[r]
    IN /\ q.state # 2 /\ ~q.callback /\ q.wire # "sent"
       /\ q.settled => ~Clean(S) /\ status = -1
       /\ Honest(status, text)

\* T is S with r at its end.
AtEnd(S, T, r) ==
    LET p == S.requests[r] q == T.requests[r]
    IN /\ LikeOf(S, T)
       /\ \A i \in DOMAIN S.requests : i # r =>
             SameReq(S.requests[i], T.requests[i]) /\ SameEnd(S.requests[i], T.requests[i])
       /\ Alike(p, q) /\ Common(q) /\ Rest(q) /\ q.settled /\ q.state = 2
       /\ NamesOK(T)

\* A request that is finished has no timer and no transport.
LEMMA FinishedFacts ==
  ASSUME NEW q \in RequestRec
  PROVE  LET p == Finished(q)
         IN /\ p \in RequestRec /\ Kept(q, p) /\ p.state = 2 /\ ~p.timer /\ p.transport = "none"
            /\ p.wire = q.wire /\ p.callback = q.callback
<1> DEFINE p == [q EXCEPT !.state = 2, !.timer = FALSE, !.transport = "none"]
<1>1. p \in RequestRec
  <2>1. 2 \in 0..2 /\ FALSE \in BOOLEAN /\ "none" \in {"none", "xhr", "script"}
    OBVIOUS
  <2>2. QED
    BY <2>1 DEF RequestRec
<1>2. /\ p.state = 2 /\ ~p.timer /\ p.transport = "none"
      /\ p.wire = q.wire /\ p.callback = q.callback
  BY DEF RequestRec
<1>3. Kept(q, p)
  BY DEF RequestRec, Kept, Alike, SameEnd
<1>4. QED
  BY <1>1, <1>2, <1>3 DEF Finished

\* The names after a request of jsonp, or another, is settled.
LEMMA NamesSettled ==
  ASSUME NEW S, NEW T, NEW r \in DOMAIN S.requests, S \in NetRec, NamesOK(S), ~S.requests[r].settled,
         \A i \in DOMAIN S.requests : S.requests[i].jsonp => S.requests[i].name \in Names,
         EndOf(S, T, r), OwnEnd(S, T, r)
  PROVE  NamesOK(T)
<1> DEFINE q == S.requests[r]
<1>1. /\ T.odd = S.odd /\ DOMAIN T.requests = DOMAIN S.requests
      /\ \A i \in DOMAIN S.requests :
            SameReq(S.requests[i], T.requests[i]) /\ (i # r => SameEnd(S.requests[i], T.requests[i]))
      /\ T.requests[r].settled
      /\ ~q.jsonp => T.window = S.window
      /\ q.jsonp => /\ T.window[q.name] = q.previous
                    /\ \A m \in Names : m # q.name => T.window[m] = S.window[m]
  BY DEF EndOf, LikeOf
<1>2. SUFFICES ASSUME "name shared" \notin S.odd
               PROVE  WindowOK(T) /\ \A i \in DOMAIN S.requests : OwnWindow(T, i)
  BY <1>1 DEF NamesOK
<1>3. WindowOK(S) /\ \A i \in DOMAIN S.requests : OwnWindow(S, i)
  BY <1>2 DEF NamesOK
<1>4. q.previous <= 0 /\ (q.jsonp => S.window[q.name] = r) /\ q.container \in {NoFn, r}
  BY <1>3 DEF OwnWindow
<1>5. /\ \A i \in DOMAIN S.requests : i # r => T.requests[i].container = S.requests[i].container
      /\ T.requests[r].container \in {NoFn, r}
      /\ T.requests[r].outcome = "success" => T.requests[r].value = r
  BY <1>4 DEF OwnEnd
<1>6. q \in RequestRec /\ r \in Nat \ {0} /\ q.previous \in Int
  <2>1. q \in RequestRec /\ r \in Nat \ {0}
    BY RequestsOf
  <2>2. q.previous \in -1..MaxRequests
    BY <2>1 DEF RequestRec
  <2>3. QED
    BY <2>1, <2>2, AjaxAssumption
<1>7. ASSUME NEW n \in Names, T.window[n] > 0
      PROVE  /\ T.window[n] \in DOMAIN T.requests
             /\ LET p == T.requests[T.window[n]] IN p.jsonp /\ p.name = n /\ ~p.settled
  <2>1. T.window[n] = S.window[n] /\ (q.jsonp => n # q.name)
    BY <1>1, <1>4, <1>6, <1>7
  <2>2. /\ S.window[n] \in DOMAIN S.requests
        /\ LET p == S.requests[S.window[n]] IN p.jsonp /\ p.name = n /\ ~p.settled
    BY <1>3, <1>7, <2>1 DEF WindowOK
  <2>3. S.window[n] # r
    BY <2>1, <2>2
  <2>4. QED
    BY <1>1, <2>1, <2>2, <2>3 DEF SameReq, SameEnd
<1>8. WindowOK(T)
  BY <1>7 DEF WindowOK
<1>9. ASSUME NEW i \in DOMAIN S.requests PROVE OwnWindow(T, i)
  <2>1. OwnWindow(S, i) /\ SameReq(S.requests[i], T.requests[i])
    BY <1>1, <1>3
  <2>2. CASE i = r
    BY <1>1, <1>4, <1>5, <2>1, <2>2 DEF OwnWindow, SameReq
  <2>3. CASE i # r
    <3>1. SameEnd(S.requests[i], T.requests[i]) /\ T.requests[i].container = S.requests[i].container
      BY <1>1, <1>5, <2>3
    <3>2. S.requests[i].jsonp /\ ~S.requests[i].settled =>
             S.requests[i].name # q.name \/ ~q.jsonp
      BY <1>4, <2>1, <2>3 DEF OwnWindow
    <3>3. S.requests[i].jsonp /\ S.requests[i].settled /\ S.requests[i].wire = "late" =>
             S.requests[i].name # q.name \/ ~q.jsonp
      BY <1>4, <1>6, <2>1, <2>3 DEF OwnWindow
    <3>4. LET p == S.requests[i] s == T.requests[i]
          IN /\ s.previous = p.previous /\ s.jsonp = p.jsonp /\ s.name = p.name /\ s.wire = p.wire
             /\ s.settled = p.settled /\ s.outcome = p.outcome /\ s.value = p.value
             /\ s.container = p.container
      BY <2>1, <3>1 DEF SameReq, SameEnd
    <3>5. S.requests[i].jsonp /\ (S.requests[i].name # q.name \/ ~q.jsonp) =>
             T.window[S.requests[i].name] = S.window[S.requests[i].name]
      BY <1>1
    <3>6. QED
      BY <2>1, <3>2, <3>3, <3>4, <3>5 DEF OwnWindow
  <2>4. QED
    BY <2>2, <2>3
<1>10. QED
  BY <1>8, <1>9

\* After its outcome a request has ended, and the page is as before otherwise.
LEMMA EndFacts ==
  ASSUME NEW S, NEW r \in DOMAIN S.requests, SafeBut(S, r),
         NEW status \in Int, NEW text \in Texts, NEW answer \in Answers \cup {NoAnswer},
         CanEnd(S, r, status, text)
  PROVE  AtEnd(S, Outcome(Update(S, r, Finished(S.requests[r])), r, status, text, answer), r)
<1> DEFINE p == S.requests[r]
           f == Finished(p)
           U == Update(S, r, f)
           T == Outcome(U, r, status, text, answer)
           q == T.requests[r]
<1>1. /\ S \in NetRec /\ Len(S.requests) <= MaxRequests
      /\ Typed(S) /\ Frames(S) /\ NamesOK(S)
      /\ \A i \in DOMAIN S.requests :
            /\ S.requests[i] \in RequestRec /\ Common(S.requests[i]) /\ Completes(S, i)
            /\ i # r => Rest(S.requests[i])
  BY SafeOpen
<1>2. /\ f \in RequestRec /\ Kept(p, f) /\ f.state = 2 /\ ~f.timer /\ f.transport = "none"
      /\ f.wire = p.wire /\ f.callback = p.callback
  BY <1>1, FinishedFacts
<1> HIDE DEF f
<1>3. OnlyAt(S, U, r) /\ U.requests[r] = f /\ U.window = S.window
  BY <1>1, <1>2, UpdateFacts
<1> HIDE DEF U
<1>4. /\ LikeOf(S, U) /\ \A i \in DOMAIN S.requests : i # r => U.requests[i] = S.requests[i]
  BY <1>3 DEF OnlyAt
<1>5. /\ U \in NetRec /\ DOMAIN U.requests = DOMAIN S.requests /\ Len(U.requests) = Len(S.requests)
  BY <1>4 DEF LikeOf
<1>6. /\ f.o = p.o /\ f.types = p.types /\ f.fire = p.fire /\ f.jsonp = p.jsonp /\ f.name = p.name
      /\ f.previous = p.previous /\ f.installed = p.installed /\ f.completes = p.completes
      /\ SameEnd(p, f) /\ f.container = p.container /\ f.settled = p.settled
  BY <1>2 DEF Kept, Alike, SameEnd
<1>7. ASSUME NEW i \in DOMAIN S.requests
      PROVE  LET p0 == S.requests[i] q0 == U.requests[i]
             IN /\ q0.jsonp = p0.jsonp /\ q0.name = p0.name /\ q0.previous = p0.previous
                /\ SameEnd(p0, q0) /\ q0.container = p0.container
                /\ q0.wire = "late" => p0.wire = "late" \/ ~p0.settled
  BY <1>2, <1>3, <1>4, <1>6 DEF SameEnd
<1>8. NamesOK(U)
  BY <1>1, <1>3, <1>4, <1>7, NamesKept
<1>9. /\ p.wire # "sent" /\ ~p.callback /\ Honest(status, text)
      /\ p.settled => ~Clean(S) /\ status = -1
  BY DEF CanEnd
<1>10. CASE p.settled
  <2>1. T = U
    <3>1. status = -1 /\ U.requests[r].settled
      BY <1>3, <1>6, <1>9, <1>10
    <3>2. status \notin 200..299 /\ status # 304
      BY <3>1
    <3>3. QED
      BY <3>1, <3>2 DEF Outcome, Settle
  <2>2. LikeOf(S, T) /\ NamesOK(T) /\ q = f
    BY <1>3, <1>4, <1>8, <2>1
  <2>3. \A i \in DOMAIN S.requests : i # r =>
            SameReq(S.requests[i], T.requests[i]) /\ SameEnd(S.requests[i], T.requests[i])
    BY <1>4, <2>1 DEF SameReq, SameEnd
  <2>4. Common(f)
    BY <1>1, <1>6 DEF Common, SameEnd
  <2>5. Rest(f)
    BY <1>2, <1>6, <1>9, <1>10 DEF Rest
  <2>6. Alike(p, f)
    BY <1>2 DEF Kept
  <2> HIDE DEF T
  <2>7. AtEnd(S, T, r)
    BY <1>2, <1>6, <1>10, <2>2, <2>3, <2>4, <2>5, <2>6 DEF AtEnd
  <2>8. QED
    BY <2>7 DEF T, U, f
<1>11. CASE ~p.settled
  <2>1. \A i \in DOMAIN S.requests : U.requests[i].jsonp => U.requests[i].name \in Names
    BY <1>1, <1>7 DEF Common
  <2>2. EndOf(U, T, r) /\ OwnEnd(U, T, r)
    BY <1>1, <1>3, <1>5, <1>6, <1>9, <1>11, <2>1, OutcomeFacts
  <2> HIDE DEF T
  <2>3. NamesOK(T)
    BY <1>3, <1>5, <1>6, <1>8, <1>11, <2>1, <2>2, NamesSettled
  <2>4. /\ LikeOf(U, T)
        /\ \A i \in DOMAIN U.requests :
              SameReq(U.requests[i], T.requests[i]) /\ (i # r => SameEnd(U.requests[i], T.requests[i]))
        /\ q.settled
        /\ q.successes + q.errors = f.successes + f.errors + IF f.installed THEN 1 ELSE 0
        /\ q.outcome = "success" /\ Last(f.types) # "*" => q.reached = Last(f.types)
    BY <1>3, <2>2 DEF EndOf
  <2>5. LikeOf(S, T)
    BY <1>4, <2>4 DEF LikeOf
  <2>6. SameReq(f, q)
    BY <1>3, <1>5, <2>4
  <2>7. \A i \in DOMAIN S.requests : i # r =>
            SameReq(S.requests[i], T.requests[i]) /\ SameEnd(S.requests[i], T.requests[i])
    BY <1>4, <1>5, <2>4
  <2>8. Alike(p, q)
    BY <1>6, <2>6 DEF Alike, SameReq
  <2>9. Rest(q) /\ q.state = 2
    BY <1>2, <1>9, <2>4, <2>6 DEF Rest, SameReq
  <2>10. Common(q)
    <3>1. Common(p)
      BY <1>1
    <3>2. p.successes + p.errors = 0 /\ p.completes <= 0 /\ Last(p.types) = Wanted(p.o)
      BY <1>11, <3>1 DEF Common
    <3>3. f.successes + f.errors = 0
      BY <1>6, <3>2 DEF SameEnd
    <3>4. q.successes + q.errors = IF q.settled /\ q.installed THEN 1 ELSE 0
      BY <2>4, <2>6, <3>3 DEF SameReq
    <3>5. q.completes <= q.successes + q.errors
      <4>1. q.completes = p.completes /\ p.completes \in Nat
        BY <1>1, <2>8 DEF Alike, RequestRec
      <4>2. QED
        BY <3>2, <3>4, <4>1
    <3>6. q.o = p.o /\ q.types = p.types /\ f.types = p.types /\ (q.jsonp => q.name \in Names)
      BY <1>6, <2>8, <3>1 DEF Alike, Common
    <3>7. Last(p.o.types) # "*" => Wanted(p.o) # "*"
      BY DEF Wanted
    <3>8. QED
      BY <2>4, <3>2, <3>4, <3>5, <3>6, <3>7 DEF Common
  <2>11. AtEnd(S, T, r)
    BY <2>3, <2>4, <2>5, <2>7, <2>8, <2>9, <2>10 DEF AtEnd
  <2>12. QED
    BY <2>11 DEF T, U, f
<1>12. QED
  BY <1>10, <1>11

\* A request ends, and what is left to do is called.
LEMMA DoneSafe ==
  ASSUME NEW S, NEW r \in DOMAIN S.requests, SafeBut(S, r),
         NEW status \in Int, NEW text \in Texts, NEW answer \in Answers \cup {NoAnswer},
         CanEnd(S, r, status, text)
  PROVE  Safe(Done(S, r, status, text, answer))
<1> DEFINE p == S.requests[r]
           T == Outcome(Update(S, r, Finished(p)), r, status, text, answer)
           at == EndFrom(p)
           V == Call(T, r, at)
           q == T.requests[r]
<1>1. /\ S \in NetRec /\ Len(S.requests) <= MaxRequests
      /\ Typed(S) /\ Frames(S) /\ CountOK(S)
      /\ \A i \in DOMAIN S.requests :
            /\ S.requests[i] \in RequestRec /\ Common(S.requests[i]) /\ Completes(S, i)
            /\ i # r => Rest(S.requests[i])
  BY SafeOpen
<1>2. p.state # 2 /\ (p.settled => ~Clean(S))
  BY DEF CanEnd
<1>3. Done(S, r, status, text, answer) = V
  BY <1>2 DEF Done
<1>4. AtEnd(S, T, r)
  BY EndFacts
<1> HIDE DEF T
<1>5. /\ LikeOf(S, T)
      /\ \A i \in DOMAIN S.requests : i # r =>
             SameReq(S.requests[i], T.requests[i]) /\ SameEnd(S.requests[i], T.requests[i])
      /\ Alike(p, q) /\ Common(q) /\ Rest(q) /\ q.settled /\ q.state = 2
      /\ NamesOK(T)
  BY <1>4 DEF AtEnd
<1>6. /\ T \in NetRec /\ T.odd = S.odd /\ T.calls = S.calls /\ T.active = S.active
      /\ T.started = S.started /\ DOMAIN T.requests = DOMAIN S.requests
      /\ Len(T.requests) = Len(S.requests)
  BY <1>5 DEF LikeOf
<1>7. \A i \in DOMAIN S.requests :
            /\ i # r => SameReq(S.requests[i], T.requests[i]) /\ SameEnd(S.requests[i], T.requests[i])
            /\ i = r => /\ T.requests[i].installed = S.requests[i].installed
                        /\ S.requests[i].settled => T.requests[i].settled
  BY <1>5 DEF Alike
<1>8. /\ Typed(T) /\ Frames(T)
      /\ \A i \in DOMAIN T.requests : i # r =>
            /\ Common(T.requests[i]) /\ Completes(T, i)
            /\ Rest(S.requests[i]) => Rest(T.requests[i])
  <2> HIDE DEF at, V
  <2>1. LikeOf(S, T) /\ Typed(S) /\ Frames(S)
    BY <1>1, <1>5
  <2>2. \A i \in DOMAIN S.requests :
           /\ Common(S.requests[i]) /\ Completes(S, i)
           /\ i # r => SameReq(S.requests[i], T.requests[i]) /\ SameEnd(S.requests[i], T.requests[i])
           /\ i = r => /\ T.requests[i].installed = S.requests[i].installed
                       /\ S.requests[i].settled => T.requests[i].settled
    BY <1>1, <1>7
  <2>3. QED
    BY ONLY <2>1, <2>2, OthersKept
<1>9. r \in 1..MaxRequests
  BY <1>1, RequestsOf, AjaxAssumption
<1>10. /\ at \in {"send", "tell", "complete", "count"} /\ at # "send"
       /\ p.installed <=> at \in {"tell", "complete"}
  BY DEF EndFrom
<1>11. AddedCall(T, V, r, at)
  BY <1>6, <1>9, <1>10, CallFacts
<1> HIDE DEF at, V
<1>12. r \in DOMAIN T.requests /\ (at \in {"tell", "complete"} => q.settled /\ q.installed)
  BY <1>5, <1>6, <1>10 DEF Alike
<1>13. /\ Typed(V) /\ Frames(V) /\ NamesOK(V)
       /\ \A i \in DOMAIN T.requests : Completes(T, i) => Completes(V, i)
       /\ at \in {"tell", "complete"} => Completes(V, r)
  BY <1>5, <1>8, <1>11, <1>12, AddedKeeps
<1>14. /\ V.requests = T.requests /\ V.odd = T.odd /\ V.active = T.active /\ V.started = T.started
       /\ DOMAIN V.calls = 1..(Len(T.calls) + 1) /\ DOMAIN T.calls = 1..Len(T.calls)
       /\ Len(T.calls) \in Nat
       /\ \A i \in DOMAIN T.calls : V.calls[i] = T.calls[i]
       /\ V.calls[Len(T.calls) + 1].r = r /\ V.calls[Len(T.calls) + 1].at = at
  BY <1>11 DEF AddedCall
<1>15. Completes(V, r)
  <2>1. at \notin {"tell", "complete"} => ~q.installed
    BY <1>5, <1>10 DEF Alike
  <2>2. QED
    BY <1>13, <1>14, <2>1 DEF Completes
<1>16. CountOK(V)
  <2>1. SUFFICES ASSUME Clean(S)
                 PROVE  /\ V.active = Cardinality(Counted(V))
                        /\ V.started = IF V.active > 0 THEN 1 ELSE 0
                        /\ \A i \in DOMAIN V.calls :
                              V.calls[i].at # "send" /\ V.requests[V.calls[i].r].state = 2
                        /\ \A i, j \in DOMAIN V.calls : V.calls[i].r = V.calls[j].r => i = j
    BY <1>6, <1>14 DEF Clean, CountOK
  <2>2. /\ S.active = Cardinality(Counted(S))
        /\ S.started = IF S.active > 0 THEN 1 ELSE 0
        /\ \A i \in DOMAIN S.calls : S.calls[i].at # "send" /\ S.requests[S.calls[i].r].state = 2
        /\ \A i, j \in DOMAIN S.calls : S.calls[i].r = S.calls[j].r => i = j
    BY <1>1, <2>1 DEF Clean, CountOK
  <2>3. \A i \in DOMAIN S.calls : S.calls[i].r \in DOMAIN S.requests /\ S.calls[i].r # r
    BY <1>1, <1>2, <2>2 DEF Typed
  <2>4. \A i \in DOMAIN V.calls : i \in DOMAIN S.calls \/ i = Len(S.calls) + 1
    BY <1>6, <1>14
  <2>5. \A i \in DOMAIN V.calls :
            V.calls[i].at # "send" /\ V.requests[V.calls[i].r].state = 2
    <3>1. \A i \in DOMAIN S.requests : S.requests[i].state = 2 => T.requests[i].state = 2
      BY <1>5 DEF SameReq
    <3>2. \A i \in DOMAIN S.calls : V.calls[i] = S.calls[i] /\ T.requests[S.calls[i].r].state = 2
      BY <1>6, <1>14, <2>2, <2>3, <3>1
    <3>3. ASSUME NEW i \in DOMAIN V.calls
          PROVE  V.calls[i].at # "send" /\ T.requests[V.calls[i].r].state = 2
      <4>1. CASE i \in DOMAIN S.calls
        BY <2>2, <3>2, <4>1
      <4>2. CASE i = Len(S.calls) + 1
        BY <1>5, <1>6, <1>10, <1>14, <4>2
      <4>3. QED
        BY <2>4, <4>1, <4>2
    <3>4. QED
      BY <1>14, <3>3
  <2>6. \A i, j \in DOMAIN V.calls : V.calls[i].r = V.calls[j].r => i = j
    <3>1. SUFFICES ASSUME NEW i \in DOMAIN V.calls, NEW j \in DOMAIN V.calls,
                          V.calls[i].r = V.calls[j].r
                   PROVE  i = j
      OBVIOUS
    <3>2. /\ \A k \in DOMAIN S.calls : V.calls[k].r = S.calls[k].r /\ V.calls[k].r # r
          /\ V.calls[Len(S.calls) + 1].r = r
      BY <1>6, <1>14, <2>3
    <3>3. CASE i \in DOMAIN S.calls
      <4>1. j \in DOMAIN S.calls
        BY <2>4, <3>1, <3>2, <3>3
      <4>2. S.calls[i].r = S.calls[j].r
        BY <3>1, <3>2, <3>3, <4>1
      <4>3. QED
        BY <2>2, <3>3, <4>1, <4>2
    <3>4. CASE i = Len(S.calls) + 1
      <4>1. j \notin DOMAIN S.calls
        BY <3>1, <3>2, <3>4
      <4>2. QED
        BY <2>4, <3>4, <4>1
    <3>5. QED
      BY <2>4, <3>3, <3>4
  <2>7. Counted(V) = Counted(S)
    <3>1. p.state < 2
      <4>1. p.state \in 0..2
        BY <1>1 DEF RequestRec
      <4>2. QED
        BY <1>2, <4>1
    <3>2. EndingIn(V) = EndingIn(S) \cup {r}
      <4>1. \A i \in DOMAIN S.calls : i \in DOMAIN V.calls /\ V.calls[i].r = S.calls[i].r
        BY <1>6, <1>14
      <4>2. Len(S.calls) + 1 \in DOMAIN V.calls /\ V.calls[Len(S.calls) + 1].r = r
        BY <1>6, <1>14
      <4>3. QED
        BY <2>4, <4>1, <4>2 DEF EndingIn
    <3>3. ASSUME NEW i \in DOMAIN S.requests
          PROVE  i \in Counted(V) <=> i \in Counted(S)
      <4>1. CASE i = r
        BY <1>5, <1>6, <1>14, <3>1, <3>2, <4>1 DEF Counted, Alike
      <4>2. CASE i # r
        BY <1>5, <1>6, <1>14, <3>2, <4>2 DEF Counted, SameReq
      <4>3. QED
        BY <4>1, <4>2
    <3>4. QED
      BY <1>6, <1>14, <3>3 DEF Counted
  <2>8. QED
    BY <1>6, <1>14, <2>2, <2>5, <2>6, <2>7
<1>17. ASSUME NEW i \in DOMAIN V.requests
       PROVE  Common(V.requests[i]) /\ Completes(V, i) /\ Rest(V.requests[i])
  <2>1. CASE i = r
    BY <1>5, <1>14, <1>15, <2>1
  <2>2. CASE i # r
    BY <1>1, <1>6, <1>8, <1>13, <1>14, <2>2
  <2>3. QED
    BY <2>1, <2>2
<1>18. Safe(V)
  BY <1>13, <1>16, <1>17 DEF Safe, SafeBut
<1>19. QED
  BY <1>3, <1>18

-----------------------------------------------------------------------------
(* abort, the transports and send.                                          *)

\* The texts that done is given: success is never one for an error.
LEMMA TextsFacts ==
  /\ {"", "abort", "timeout", "error", "No Transport", "success"} \subseteq Texts
  /\ \A status : /\ \A text \in {"", "abort", "timeout", "error", "No Transport"} : Honest(status, text)
                 /\ status # 0 => Honest(status, "success")
BY DEF Texts, Outcomes, Honest

\* An abort, by the program or the timer, at any time.
LEMMA AbortSafe ==
  ASSUME NEW S, Safe(S), NEW r \in DOMAIN S.requests, NEW text \in {"abort", "timeout"}
  PROVE  Safe(Abort(S, r, text))
<1> DEFINE p == S.requests[r]
           q == TransportAbort(p)
           T == Update(S, r, q)
<1>1. SafeBut(S, r) /\ p \in RequestRec /\ Rest(p)
  BY SafeOpen
<1>2. /\ p.state \in 0..2 /\ p.callback \in BOOLEAN /\ p.wire \in {"none", "sent", "late"}
      /\ p.transport \in {"none", "xhr", "script"}
  BY <1>1 DEF RequestRec
<1>3. /\ q \in RequestRec /\ Kept(p, q) /\ q.state = p.state
      /\ p.transport = "none" => q.wire = p.wire /\ q.callback = p.callback
      /\ p.transport # "none" => ~q.callback /\ q.wire # "sent"
      /\ q.wire \in {p.wire, "none", "late"}
      /\ q.wire = "late" => p.wire \in {"late", "sent"}
      /\ q.transport = p.transport /\ q.timer = p.timer
  <2>1. CASE p.transport = "none"
    BY <1>1, <1>2, <2>1 DEF TransportAbort, Kept, Alike, SameEnd
  <2>2. CASE p.transport # "none"
    <3>1. PICK w \in {"none", "sent", "late"} :
             /\ q = [p EXCEPT !.callback = FALSE, !.wire = w]
             /\ w # "sent" /\ w \in {p.wire, "none", "late"}
             /\ w = "late" => p.wire \in {"late", "sent"}
      <4> DEFINE w == IF p.wire # "sent" THEN p.wire
                      ELSE IF p.transport = "xhr" THEN "none" ELSE "late"
      <4>1. q = [p EXCEPT !.callback = FALSE, !.wire = w]
        BY <2>2 DEF TransportAbort
      <4>2. /\ w \in {"none", "sent", "late"} /\ w # "sent" /\ w \in {p.wire, "none", "late"}
            /\ w = "late" => p.wire \in {"late", "sent"}
        BY <1>2
      <4>3. QED
        BY <4>1, <4>2
    <3>2. QED
      BY <1>1, <1>2, <2>2, <3>1 DEF RequestRec, Kept, Alike, SameEnd
  <2>3. QED
    BY <2>1, <2>2
<1> HIDE DEF q
<1>4. /\ q.wire = "late" => p.wire = "late" \/ ~p.settled
      /\ p.state = 2 => Rest(q)
      /\ p.state # 2 => ~q.callback /\ q.wire # "sent" /\ ~q.settled
  <2>1. q.settled = p.settled /\ q.installed = p.installed /\ q.o = p.o
    BY <1>3 DEF Kept, Alike, SameEnd
  <2>2. p.state = 2 => p.settled /\ p.wire # "sent" /\ ~p.callback /\ ~p.timer /\ p.transport = "none"
    BY <1>1 DEF Rest
  <2>3. p.state = 0 => ~p.settled /\ p.wire = "none" /\ ~p.callback
    BY <1>1 DEF Rest
  <2>4. p.state = 1 => ~p.settled /\ p.transport # "none"
    BY <1>1 DEF Rest
  <2>5. p.state = 2 => Rest(q)
    BY <1>3, <2>1, <2>2 DEF Rest
  <2>6. q.wire = "late" => p.wire = "late" \/ ~p.settled
    BY <1>2, <1>3, <2>2, <2>3, <2>4
  <2>7. p.state # 2 => ~q.callback /\ q.wire # "sent" /\ ~q.settled
    BY <1>2, <1>3, <2>1, <2>3, <2>4
  <2>8. QED
    BY <2>5, <2>6, <2>7
<1>5. SafeBut(T, r) /\ (Rest(q) => Safe(T)) /\ OnlyAt(S, T, r) /\ T.requests[r] = q
  BY <1>1, <1>3, <1>4, Retouch
<1>6. r \in DOMAIN T.requests
  BY <1>5 DEF OnlyAt, LikeOf
<1>7. Abort(S, r, text) = Done(T, r, 0, text, NoAnswer)
  BY DEF Abort, q
<1> HIDE DEF T
<1>8. CASE p.state = 2
  <2>1. T.requests[r].state = 2
    BY <1>3, <1>5, <1>8
  <2>2. Abort(S, r, text) = T
    BY <1>7, <2>1 DEF Done
  <2>3. QED
    BY <1>4, <1>5, <1>8, <2>2
<1>9. CASE p.state # 2
  <2>1. CanEnd(T, r, 0, text)
    BY <1>3, <1>4, <1>5, <1>9, TextsFacts DEF CanEnd
  <2>2. text \in Texts
    BY TextsFacts
  <2>3. Safe(Done(T, r, 0, text, NoAnswer))
    BY <1>5, <1>6, <2>1, <2>2, DoneSafe
  <2>4. QED
    BY <1>7, <2>3
<1>10. QED
  BY <1>8, <1>9

\* What is sent is under way, or at its end already.
LEMMA SendSafe ==
  ASSUME NEW S, Safe(S), NEW r \in DOMAIN S.requests, S.requests[r].state # 2 \/ ~Clean(S)
  PROVE  Safe(Send(S, r))
<1> DEFINE p == S.requests[r]
           q == [p EXCEPT !.state = 1, !.timer = p.o.async /\ p.o.timeout]
           T == Update(S, r, q)
           sent == [q EXCEPT !.wire = "sent", !.callback = TRUE]
<1>1. SafeBut(S, r) /\ p \in RequestRec /\ Rest(p)
  BY SafeOpen
<1>2. /\ p.state \in 0..2 /\ p.transport \in {"none", "xhr", "script"} /\ p.o \in Options
      /\ p.sync \in Reply /\ p.wire \in {"none", "sent", "late"}
  BY <1>1 DEF RequestRec
<1>3. p.o.async \in BOOLEAN /\ p.o.timeout \in BOOLEAN
  BY <1>2 DEF Options
<1>4. /\ q \in RequestRec /\ Kept(p, q) /\ q.state = 1 /\ q.transport = p.transport
      /\ q.wire = p.wire /\ q.callback = p.callback /\ q.o = p.o /\ q.sync = p.sync
      /\ q.settled = p.settled /\ q.installed = p.installed
  <2>1. PICK t \in BOOLEAN : t = (p.o.async /\ p.o.timeout)
    OBVIOUS
  <2>2. p \in RequestRec /\ 1 \in 0..2 /\ q = [p EXCEPT !.state = 1, !.timer = t]
    BY <1>1, <2>1
  <2> HIDE DEF p, q
  <2>3. q \in RequestRec
    BY ONLY <2>2, t \in BOOLEAN DEF RequestRec
  <2>4. QED
    BY <2>2, <2>3 DEF RequestRec, Kept, Alike, SameEnd
<1>5. /\ sent \in RequestRec /\ Kept(p, sent) /\ sent.state = 1 /\ sent.transport = p.transport
      /\ sent.wire = "sent" /\ sent.callback /\ sent.o = p.o
      /\ sent.settled = p.settled /\ sent.installed = p.installed
  <2>1. "sent" \in {"none", "sent", "late"} /\ TRUE \in BOOLEAN
    OBVIOUS
  <2> HIDE DEF q
  <2>2. sent \in RequestRec
    BY <1>4, <2>1 DEF RequestRec
  <2>3. Kept(q, sent)
    BY <1>4 DEF RequestRec, Kept, Alike, SameEnd
  <2>4. Kept(p, sent)
    BY <1>4, <2>3 DEF Kept, Alike, SameEnd
  <2>5. QED
    BY <1>4, <2>2, <2>4 DEF RequestRec
<1>6. /\ Send(S, r) = IF p.transport = "none" THEN Done(T, r, -1, "error", NoAnswer)
                      ELSE IF p.o.async \/ p.transport = "script" THEN Update(S, r, sent)
                      ELSE Done(T, r, p.sync.status, "", p.sync.answer)
  BY <1>4 DEF Send
<1> HIDE DEF q, sent
<1>7. p.state = 1 \/ p.state = 0 \/ (p.state = 2 /\ ~Clean(S))
  BY <1>2
<1>8. /\ SafeBut(T, r) /\ OnlyAt(S, T, r) /\ T.requests[r] = q
  BY <1>1, <1>4, <1>7, Retouch
<1>9. r \in DOMAIN T.requests /\ (Clean(T) <=> Clean(S))
  BY <1>8 DEF OnlyAt, LikeOf, Clean
<1> HIDE DEF T
<1>10. CASE p.transport = "none"
  <2>1. ~p.callback /\ p.wire # "sent" /\ (p.settled => ~Clean(S))
    BY <1>1, <1>7, <1>10 DEF Rest
  <2>2. CanEnd(T, r, -1, "error")
    <3>1. Honest(-1, "error")
      BY DEF Honest
    <3>2. QED
      BY <1>4, <1>8, <1>9, <2>1, <3>1 DEF CanEnd
  <2>3. "error" \in Texts /\ NoAnswer \in Answers \cup {NoAnswer}
    BY TextsFacts
  <2>4. Safe(Done(T, r, -1, "error", NoAnswer))
    BY <1>8, <1>9, <2>2, <2>3, DoneSafe
  <2>5. QED
    BY <1>6, <1>10, <2>4
<1>11. CASE p.transport # "none" /\ (p.o.async \/ p.transport = "script")
  <2>1. ~p.settled /\ p.installed
    BY <1>1, <1>7, <1>11 DEF Rest
  <2>2. Rest(sent)
    BY <1>5, <1>11, <2>1 DEF Rest
  <2>3. Safe(Update(S, r, sent))
    BY <1>1, <1>5, <1>7, <2>2, Retouch
  <2>4. QED
    BY <1>6, <1>11, <2>3
<1>12. CASE p.transport # "none" /\ ~(p.o.async \/ p.transport = "script")
  <2>1. ~p.callback /\ p.wire # "sent" /\ ~p.settled
    BY <1>1, <1>7, <1>12 DEF Rest
  <2>2. PICK status \in Int, answer \in Answers : p.sync.status = status /\ p.sync.answer = answer
    BY <1>2 DEF Reply
  <2>3. CanEnd(T, r, status, "")
    <3>1. Honest(status, "")
      BY DEF Honest
    <3>2. T.requests[r].state # 2 /\ T.requests[r].wire # "sent"
      BY <1>4, <1>8, <2>1
    <3>3. ~T.requests[r].settled /\ ~T.requests[r].callback
      BY <1>4, <1>8, <2>1
    <3>4. QED
      BY <3>1, <3>2, <3>3 DEF CanEnd
  <2>4. "" \in Texts /\ answer \in Answers \cup {NoAnswer}
    BY TextsFacts
  <2>5. Safe(Done(T, r, status, "", answer))
    BY <1>8, <1>9, <2>3, <2>4, DoneSafe
  <2>6. QED
    BY <1>6, <1>12, <2>2, <2>5
<1>13. QED
  BY <1>10, <1>11, <1>12

\* The function in window of a request that runs its script is its own, or
\* none, but for names that are shared.
OwnName(S, r) ==
    LET q == S.requests[r]
    IN "name shared" \notin S.odd /\ q.jsonp => S.window[q.name] = r \/ S.window[q.name] <= 0

\* The script of jsonp calls what is in window under its name.
LEMMA RunSafe ==
  ASSUME NEW S, Safe(S), NEW r \in DOMAIN S.requests, OwnName(S, r)
  PROVE  LET T == RunJsonp(S, r)
         IN /\ Safe(T) /\ LikeOf(S, T) /\ SameReq(S.requests[r], T.requests[r])
            /\ SameEnd(S.requests[r], T.requests[r])
<1> DEFINE q == S.requests[r]
           T == RunJsonp(S, r)
           w == S.window[q.name]
<1>1. /\ S \in NetRec /\ Len(S.requests) <= MaxRequests
      /\ Typed(S) /\ Frames(S) /\ CountOK(S) /\ NamesOK(S)
      /\ \A i \in DOMAIN S.requests :
            /\ S.requests[i] \in RequestRec /\ Common(S.requests[i]) /\ Completes(S, i)
            /\ Rest(S.requests[i])
  BY SafeOpen
<1> HIDE DEF w
<1>2. r \in 0..MaxRequests /\ r \in 1..MaxRequests /\ 0 \notin DOMAIN S.requests
       /\ DOMAIN S.requests \subseteq Nat
  BY <1>1, RequestsOf, AjaxAssumption
<1>3. CASE ~q.jsonp
  <2>1. T = S
    BY <1>3 DEF RunJsonp
  <2>2. QED
    BY <1>1, <2>1 DEF LikeOf, SameReq, SameEnd
<1>4. CASE q.jsonp
  <2>1. q.name \in Names
    BY <1>1, <1>4 DEF Common
  <2>2. r \in 0..MaxRequests
    BY <1>2
  <2>3. T = CallWindow(S, q.name, r)
    BY <1>4 DEF RunJsonp
  <2>4. /\ LikeOf(S, T) /\ T.window = S.window
        /\ \A i \in DOMAIN S.requests :
              /\ SameReq(S.requests[i], T.requests[i]) /\ SameEnd(S.requests[i], T.requests[i])
              /\ i # w => T.requests[i] = S.requests[i]
              /\ i = w => T.requests[i].container = r
    BY <1>1, <2>1, <2>2, <2>3, CallWindowFacts DEF w
  <2> HIDE DEF T
  <2>5. T.odd = S.odd /\ DOMAIN T.requests = DOMAIN S.requests
    BY <2>4 DEF LikeOf
  <2>6. /\ Typed(T) /\ Frames(T)
        /\ \A i \in DOMAIN T.requests : i # 0 =>
              /\ Common(T.requests[i]) /\ Completes(T, i)
              /\ Rest(S.requests[i]) => Rest(T.requests[i])
    <3>1. 0 \notin DOMAIN S.requests
      BY <1>2
    <3>2. \A i \in DOMAIN S.requests :
             /\ Common(S.requests[i]) /\ Completes(S, i)
             /\ i # 0 => SameReq(S.requests[i], T.requests[i]) /\ SameEnd(S.requests[i], T.requests[i])
             /\ i = 0 => /\ T.requests[i].installed = S.requests[i].installed
                         /\ S.requests[i].settled => T.requests[i].settled
      BY <1>1, <2>4, <3>1
    <3>3. LikeOf(S, T) /\ Typed(S) /\ Frames(S)
      BY <1>1, <2>4
    <3>4. QED
      BY ONLY <3>2, <3>3, OthersKept
  <2>7. CountOK(T)
    <3>1. \A i \in DOMAIN S.requests :
             T.requests[i].fire = S.requests[i].fire /\ T.requests[i].state = S.requests[i].state
      BY <2>4 DEF SameReq
    <3>2. QED
      BY <1>1, <2>4, <3>1, CountKept
  <2>8. NamesOK(T)
    <3>1. SUFFICES ASSUME "name shared" \notin S.odd
                   PROVE  WindowOK(T) /\ \A i \in DOMAIN S.requests : OwnWindow(T, i)
      BY <2>5 DEF NamesOK
    <3>2. WindowOK(S) /\ \A i \in DOMAIN S.requests : OwnWindow(S, i)
      BY <1>1, <3>1 DEF NamesOK
    <3>3. WindowOK(T)
      <4>1. ASSUME NEW n \in Names, S.window[n] > 0
            PROVE  /\ S.window[n] \in DOMAIN S.requests
                   /\ LET p == T.requests[S.window[n]] IN p.jsonp /\ p.name = n /\ ~p.settled
        <5>1. /\ S.window[n] \in DOMAIN S.requests
              /\ LET p == S.requests[S.window[n]] IN p.jsonp /\ p.name = n /\ ~p.settled
          BY <3>2, <4>1 DEF WindowOK
        <5>2. QED
          BY <2>4, <5>1 DEF SameReq, SameEnd
      <4>2. QED
        BY <2>4, <2>5, <4>1 DEF WindowOK
    <3>4. ASSUME NEW i \in DOMAIN S.requests PROVE OwnWindow(T, i)
      <4>1. /\ OwnWindow(S, i)
            /\ SameReq(S.requests[i], T.requests[i]) /\ SameEnd(S.requests[i], T.requests[i])
        BY <2>4, <3>2
      <4>2. T.requests[i].container \in {NoFn, i}
        <5>1. CASE i = w
          <6>1. w = r \/ w <= 0
            BY <1>4, <3>1 DEF OwnName, w
          <6>2. w \in Nat /\ w # 0
            BY <1>2, <5>1
          <6>3. w = r
            BY <6>1, <6>2
          <6>4. QED
            BY <2>4, <5>1, <6>3
        <5>2. CASE i # w
          BY <2>4, <4>1, <5>2 DEF OwnWindow
        <5>3. QED
          BY <5>1, <5>2
      <4>3. QED
        BY <2>4, <4>1, <4>2 DEF OwnWindow, SameReq, SameEnd
    <3>5. QED
      BY <3>3, <3>4
  <2>9. Safe(T)
    BY <1>1, <1>2, <2>5, <2>6, <2>7, <2>8 DEF Safe, SafeBut
  <2>10. QED
    BY <2>4, <2>9 DEF T
<1>5. QED
  BY <1>3, <1>4

\* A transport that has called back has nothing on the way.
LEMMA AnsweredFacts ==
  ASSUME NEW q \in RequestRec
  PROVE  /\ Answered(q) \in RequestRec /\ Kept(q, Answered(q)) /\ Answered(q).state = q.state
         /\ ~Answered(q).callback /\ Answered(q).wire = "none"
<1> DEFINE p == [q EXCEPT !.callback = FALSE, !.wire = "none"]
<1>1. p \in RequestRec
  <2>1. FALSE \in BOOLEAN /\ "none" \in {"none", "sent", "late"}
    OBVIOUS
  <2>2. QED
    BY <2>1 DEF RequestRec
<1>2. Kept(q, p) /\ p.state = q.state /\ ~p.callback /\ p.wire = "none"
  BY DEF RequestRec, Kept, Alike, SameEnd
<1>3. QED
  BY <1>1, <1>2 DEF Answered

\* What was sent ends with an answer.
LEMMA AnswerEnds ==
  ASSUME NEW S, Safe(S), NEW r \in DOMAIN S.requests, S.requests[r].wire = "sent",
         NEW status \in Int, NEW text \in Texts, Honest(status, text),
         NEW answer \in Answers \cup {NoAnswer}
  PROVE  Safe(Done(Update(S, r, Answered(S.requests[r])), r, status, text, answer))
<1> DEFINE p == S.requests[r]
           q == Answered(p)
           T == Update(S, r, q)
<1>1. SafeBut(S, r) /\ p \in RequestRec /\ Rest(p)
  BY SafeOpen
<1>2. p.state = 1 /\ ~p.settled
  <2>1. p.state \in 0..2
    BY <1>1 DEF RequestRec
  <2>2. QED
    BY <1>1, <2>1 DEF Rest
<1>3. q \in RequestRec /\ Kept(p, q) /\ q.state = p.state /\ ~q.callback /\ q.wire = "none"
  BY <1>1, AnsweredFacts
<1> HIDE DEF q
<1>4. SafeBut(T, r) /\ OnlyAt(S, T, r) /\ T.requests[r] = q
  BY <1>1, <1>3, Retouch
<1> HIDE DEF T
<1>5. r \in DOMAIN T.requests
  BY <1>4 DEF OnlyAt, LikeOf
<1>6. CanEnd(T, r, status, text)
  <2>1. T.requests[r].state # 2 /\ T.requests[r].wire # "sent"
    BY <1>2, <1>3, <1>4
  <2>2. ~T.requests[r].settled /\ ~T.requests[r].callback
    BY <1>2, <1>3, <1>4 DEF Kept, SameEnd
  <2>3. QED
    BY <2>1, <2>2 DEF CanEnd
<1>7. Safe(Done(T, r, status, text, answer))
  BY <1>4, <1>5, <1>6, DoneSafe
<1>8. QED
  BY <1>7 DEF T, q

\* An answer to a request that was sent ends it.
LEMMA XhrAnswerSafe ==
  ASSUME NEW S, Safe(S), NEW r \in DOMAIN S.requests, S.requests[r].wire = "sent", NEW a \in Reply
  PROVE  Safe(XhrAnswer(S, r, a.status, a.answer))
<1>1. PICK status \in Int, answer \in Answers : a.status = status /\ a.answer = answer
  BY DEF Reply
<1>2. "" \in Texts /\ Honest(status, "")
  BY TextsFacts DEF Honest
<1>3. Safe(Done(Update(S, r, Answered(S.requests[r])), r, status, "", answer))
  BY <1>2, AnswerEnds
<1>4. QED
  BY <1>1, <1>3 DEF XhrAnswer

\* A script that was asked for runs and then ends its request.
LEMMA CrossScriptSafe ==
  ASSUME NEW S, Safe(S), NEW r \in DOMAIN S.requests, S.requests[r].wire = "sent"
  PROVE  LET T == RunJsonp(S, r)
         IN Safe(Done(Update(T, r, Answered(T.requests[r])), r, 200, "success", NoAnswer))
<1> DEFINE T == RunJsonp(S, r)
           p == S.requests[r]
<1>1. p \in RequestRec /\ Rest(p) /\ NamesOK(S)
  BY SafeOpen
<1>2. ~p.settled
  <2>1. p.state \in 0..2
    BY <1>1 DEF RequestRec
  <2>2. QED
    BY <1>1, <2>1 DEF Rest
<1>3. OwnName(S, r)
  BY <1>1, <1>2 DEF NamesOK, OwnWindow, OwnName
<1>4. Safe(T) /\ LikeOf(S, T) /\ SameReq(p, T.requests[r])
  BY <1>3, RunSafe
<1> HIDE DEF T
<1>5. r \in DOMAIN T.requests /\ T.requests[r].wire = "sent"
  BY <1>4 DEF LikeOf, SameReq
<1>6. 200 \in Int /\ "success" \in Texts /\ Honest(200, "success") /\ NoAnswer \in Answers \cup {NoAnswer}
  <2>1. "success" \in Texts
    BY TextsFacts
  <2>2. Honest(200, "success")
    BY DEF Honest
  <2>3. QED
    BY <2>1, <2>2
<1>7. Safe(Done(Update(T, r, Answered(T.requests[r])), r, 200, "success", NoAnswer))
  BY <1>4, <1>5, <1>6, AnswerEnds
<1>8. QED
  BY <1>7 DEF T

\* The script of a request that was aborted runs when it comes.
LEMMA LateScriptSafe ==
  ASSUME NEW S, Safe(S), NEW r \in DOMAIN S.requests, S.requests[r].wire = "late"
  PROVE  Safe(RunJsonp(Update(S, r, [S.requests[r] EXCEPT !.wire = "none"]), r))
<1> DEFINE p == S.requests[r]
           q == [p EXCEPT !.wire = "none"]
           T == Update(S, r, q)
<1>1. SafeBut(S, r) /\ p \in RequestRec /\ Rest(p) /\ NamesOK(S)
  BY SafeOpen
<1>2. p.state = 2 /\ p.settled /\ ~p.callback /\ ~p.timer /\ p.transport = "none"
  <2>1. p.state \in 0..2
    BY <1>1 DEF RequestRec
  <2>2. QED
    BY <1>1, <2>1 DEF Rest
<1>3. q \in RequestRec /\ Kept(p, q) /\ q.state = p.state /\ q.wire = "none" /\ q.transport = p.transport
      /\ q.callback = p.callback /\ q.timer = p.timer
  <2>1. p \in RequestRec /\ "none" \in {"none", "sent", "late"} /\ q = [p EXCEPT !.wire = "none"]
    BY <1>1
  <2> HIDE DEF p, q
  <2>2. q \in RequestRec
    BY ONLY <2>1 DEF RequestRec
  <2>3. QED
    BY <2>1, <2>2 DEF RequestRec, Kept, Alike, SameEnd
<1> HIDE DEF q
<1>4. q.settled = p.settled /\ q.jsonp = p.jsonp /\ q.name = p.name
  BY <1>3 DEF Kept, Alike, SameEnd
<1>5. Rest(q)
  BY <1>2, <1>3, <1>4 DEF Rest
<1>6. Safe(T) /\ OnlyAt(S, T, r) /\ T.requests[r] = q /\ T.window = S.window
  BY <1>1, <1>3, <1>5, Retouch
<1> HIDE DEF T
<1>7. r \in DOMAIN T.requests /\ T.odd = S.odd
  BY <1>6 DEF OnlyAt, LikeOf
<1>8. "name shared" \notin S.odd /\ p.jsonp => S.window[p.name] <= 0
  BY <1>1, <1>2 DEF NamesOK, OwnWindow
<1>9. OwnName(T, r)
  BY <1>4, <1>6, <1>7, <1>8 DEF OwnName
<1>10. Safe(RunJsonp(T, r))
  BY <1>6, <1>7, <1>9, RunSafe
<1>11. QED
  BY <1>10 DEF T, q

-----------------------------------------------------------------------------
(* A request is begun.                                                      *)

\* A request begins at rest, with the types and the name it was given.
LEMMA NewRequestFacts ==
  ASSUME NEW o \in Options, NEW sync \in Reply
  PROVE  LET q == NewRequest(o, sync)
         IN /\ q \in RequestRec /\ Rest(q) /\ q.state = 0 /\ ~q.installed /\ ~q.settled /\ ~q.fire
            /\ ~q.jsonp /\ q.name = o.name /\ q.types = o.types /\ q.o = o
            /\ q.previous = NoFn /\ q.container = NoFn /\ q.outcome = "none"
            /\ q.successes = 0 /\ q.errors = 0 /\ q.completes = 0 /\ q.transport = "none"
<1>1. o.types \in Chains /\ o.global \in BOOLEAN /\ o.name \in {NoName, PageName}
  BY DEF Options, Chains
<1>2. o.name \in Names \cup {NoName}
  BY <1>1 DEF Names
<1>3. 0 \in -1..MaxRequests /\ 0 \in 0..MaxRequests /\ 0 \in 0..2 /\ 0 \in Nat
  BY AjaxAssumption
<1>4. /\ "none" \in {"none", "xhr", "script"} /\ "none" \in {"none", "sent", "late"}
      /\ "none" \in Outcomes /\ "none" \in DataTypes \cup {"none"} /\ FALSE \in BOOLEAN
  BY DEF Outcomes
<1>5. NewRequest(o, sync) \in RequestRec
  BY <1>1, <1>2, <1>3, <1>4 DEF NewRequest, RequestRec, NoFn, Chains
<1>6. QED
  BY <1>5 DEF NewRequest, Rest, NoFn

\* The types that jsonp asks for.
LEMMA JsonpTypes ==
  ASSUME NEW s \in Chains, s[1] = "jsonp"
  PROVE  LET t == <<"script", "json">> \o Tail(s)
         IN t \in Chains /\ Last(t) = IF s = <<"jsonp">> THEN "json" ELSE Last(s)
<1> DEFINE u == Tail(s)
           v == <<"json">> \o u
           t == <<"script", "json">> \o u
<1>1. s \in Seq(DataTypes) /\ s # <<>> /\ Len(s) \in Nat \ {0} /\ Last(s) = s[Len(s)]
  BY ChainsOf DEF Chains
<1>2. /\ u \in Seq(DataTypes) /\ Len(u) = Len(s) - 1
      /\ \A i \in 1..Len(u) : u[i] = s[i + 1]
  BY <1>1, HeadTailProperties
<1>3. "json" \in DataTypes /\ "script" \in DataTypes
  BY DEF DataTypes
<1> HIDE DEF u
<1>4. v \in Chains /\ (u # <<>> => Last(v) = Last(u))
  BY <1>2, <1>3, Before
<1>5. v \in Seq(DataTypes) /\ v # <<>>
  BY <1>4 DEF Chains
<1>6. <<"script">> \o v \in Chains /\ Last(<<"script">> \o v) = Last(v)
  BY <1>3, <1>5, Before
<1>7. t = <<"script">> \o v
  <2>1. <<"script", "json">> = <<"script">> \o <<"json">>
    OBVIOUS
  <2>2. /\ <<"script">> \in Seq(DataTypes) /\ <<"json">> \in Seq(DataTypes)
    BY <1>3
  <2>3. (<<"script">> \o <<"json">>) \o u = <<"script">> \o (<<"json">> \o u)
    BY <1>2, <2>2, ConcatAssociative
  <2>4. QED
    BY <2>1, <2>3
<1>8. CASE u = <<>>
  <2>1. Len(s) = 1
    BY <1>1, <1>2, <1>8
  <2>2. s = <<"jsonp">>
    BY <1>1, <2>1
  <2>3. v = <<"json">>
    BY <1>8
  <2>4. Last(v) = "json"
    BY <2>3 DEF Last
  <2>5. QED
    BY <1>6, <1>7, <2>2, <2>4 DEF t, u
<1>9. CASE u # <<>>
  <2>1. Len(u) \in Nat \ {0}
    BY <1>2, <1>9, EmptySeq, LenProperties
  <2>2. u[Len(u)] = s[Len(s)]
    BY <1>1, <1>2, <2>1
  <2>3. Last(u) = Last(s)
    BY <1>1, <2>2 DEF Last
  <2>4. s # <<"jsonp">>
    BY <1>2, <2>1
  <2>5. QED
    BY <1>4, <1>6, <1>7, <1>9, <2>3, <2>4 DEF t, u
<1>10. QED
  BY <1>8, <1>9

\* T is S with a new request r.
Fresh(S, T, r) ==
    LET q == T.requests[r]
    IN /\ T \in NetRec /\ r = Len(S.requests) + 1 /\ Len(T.requests) = r /\ r <= MaxRequests
       /\ T.active = S.active /\ T.started = S.started /\ T.calls = S.calls
       /\ T.odd \in {S.odd, S.odd \cup {"name shared"}}
       /\ \A i \in DOMAIN S.requests : T.requests[i] = S.requests[i]
       /\ Rest(q) /\ q.state = 0 /\ ~q.installed /\ ~q.settled /\ ~q.fire /\ q.transport = "none"
       /\ q.container = NoFn /\ q.outcome = "none"
       /\ q.successes = 0 /\ q.errors = 0 /\ q.completes = 0
\* And its names and types are settled.
Named(T, r) ==
    LET q == T.requests[r]
    IN NamesOK(T) /\ Last(q.types) = Wanted(q.o) /\ (q.jsonp => q.name \in Names)

\* A request is the last on the page.
LEMMA FreshDomain ==
  ASSUME NEW S \in NetRec, NEW T, NEW r, Fresh(S, T, r)
  PROVE  /\ r \in 1..MaxRequests /\ r \in DOMAIN T.requests /\ r \notin DOMAIN S.requests
         /\ DOMAIN T.requests = DOMAIN S.requests \cup {r}
         /\ DOMAIN S.requests \subseteq Nat \ {0}
<1>1. DOMAIN S.requests = 1..Len(S.requests) /\ Len(S.requests) \in Nat
  BY RequestsOf
<1>2. T \in NetRec /\ r = Len(S.requests) + 1 /\ Len(T.requests) = r /\ r <= MaxRequests
  BY DEF Fresh
<1>3. DOMAIN T.requests = 1..r
  BY <1>2, RequestsOf
<1>4. QED
  BY <1>1, <1>2, <1>3, AjaxAssumption

\* A page with one request more, whose name in window is its own or shared,
\* is safe.
LEMMA FreshSafe ==
  ASSUME NEW S, Safe(S), NEW T, NEW r, Fresh(S, T, r), Named(T, r)
  PROVE  Safe(T)
<1> DEFINE q == T.requests[r]
<1>1. /\ S \in NetRec /\ Typed(S) /\ Frames(S) /\ CountOK(S)
      /\ \A i \in DOMAIN S.requests :
            Common(S.requests[i]) /\ Completes(S, i) /\ Rest(S.requests[i])
  BY SafeOpen
<1>2. /\ r \in DOMAIN T.requests /\ r \notin DOMAIN S.requests
      /\ DOMAIN T.requests = DOMAIN S.requests \cup {r}
  BY <1>1, FreshDomain
<1>3. /\ T \in NetRec /\ Len(T.requests) = r /\ r <= MaxRequests
      /\ T.active = S.active /\ T.started = S.started /\ T.calls = S.calls
      /\ T.odd \in {S.odd, S.odd \cup {"name shared"}}
      /\ \A i \in DOMAIN S.requests : T.requests[i] = S.requests[i]
      /\ Rest(q) /\ q.state = 0 /\ ~q.settled /\ ~q.fire /\ q.outcome = "none"
      /\ q.successes = 0 /\ q.errors = 0 /\ q.completes = 0
  BY DEF Fresh
<1>4. q.successes = 0 /\ q.errors = 0 /\ q.completes = 0 /\ q.outcome = "none"
  BY <1>3
<1>5. NamesOK(T) /\ Last(q.types) = Wanted(q.o) /\ (q.jsonp => q.name \in Names)
  BY DEF Named
<1>6. Clean(T) => Clean(S)
  BY <1>3 DEF Clean
<1>7. "thrown" \notin T.odd => "thrown" \notin S.odd
  BY <1>3
<1>8. \A i \in DOMAIN S.calls : S.calls[i].r \in DOMAIN S.requests
  BY <1>1 DEF Typed
<1> HIDE DEF q
<1>9. Typed(T)
  BY <1>2, <1>3, <1>8 DEF Typed
<1>10. Frames(T)
  BY <1>1, <1>3, <1>8 DEF Frames
<1>11. CountOK(T)
  <2>1. SUFFICES ASSUME Clean(S)
                 PROVE  /\ T.active = Cardinality(Counted(T))
                        /\ T.started = IF T.active > 0 THEN 1 ELSE 0
                        /\ \A i \in DOMAIN T.calls :
                              T.calls[i].at # "send" /\ T.requests[T.calls[i].r].state = 2
                        /\ \A i, j \in DOMAIN T.calls : T.calls[i].r = T.calls[j].r => i = j
    BY <1>6 DEF Clean, CountOK
  <2>2. /\ S.active = Cardinality(Counted(S))
        /\ S.started = IF S.active > 0 THEN 1 ELSE 0
        /\ \A i \in DOMAIN S.calls : S.calls[i].at # "send" /\ S.requests[S.calls[i].r].state = 2
        /\ \A i, j \in DOMAIN S.calls : S.calls[i].r = S.calls[j].r => i = j
    BY <1>1, <2>1 DEF Clean, CountOK
  <2>3. Counted(T) = Counted(S)
    <3>1. EndingIn(T) = EndingIn(S)
      BY <1>3 DEF EndingIn
    <3>2. r \notin Counted(T)
      BY <1>3 DEF Counted, q
    <3>3. QED
      BY <1>2, <1>3, <3>1, <3>2 DEF Counted
  <2>4. ASSUME NEW i \in DOMAIN T.calls
        PROVE  T.calls[i].at # "send" /\ T.requests[T.calls[i].r].state = 2
    <3>1. i \in DOMAIN S.calls /\ T.calls[i] = S.calls[i]
      BY <1>3
    <3>2. S.calls[i].r \in DOMAIN S.requests /\ S.calls[i].at # "send" /\ S.requests[S.calls[i].r].state = 2
      BY <1>8, <2>2, <3>1
    <3>3. QED
      BY <1>3, <3>1, <3>2
  <2>5. QED
    BY <1>3, <2>2, <2>3, <2>4
<1>12. Common(q)
  <2>1. /\ q.successes + q.errors = IF q.settled /\ q.installed THEN 1 ELSE 0
        /\ q.completes <= q.successes + q.errors
        /\ q.outcome # "success"
    <3>1. q.successes + q.errors = 0
      BY <1>4
    <3>2. ~(q.settled /\ q.installed)
      BY <1>3
    <3>3. q.outcome # "success" /\ q.completes = 0
      BY <1>4
    <3>4. QED
      BY <3>1, <3>2, <3>3
  <2>2. Last(q.types) = Wanted(q.o) /\ (q.jsonp => q.name \in Names)
    BY <1>5 DEF q
  <2>3. QED
    BY <2>1, <2>2 DEF Common
<1>13. Completes(T, r)
  BY <1>3 DEF Completes, q
<1>14. ASSUME NEW i \in DOMAIN S.requests PROVE Completes(T, i)
  BY <1>1, <1>3, <1>7 DEF Completes
<1>15. ASSUME NEW i \in DOMAIN T.requests
       PROVE  Common(T.requests[i]) /\ Completes(T, i) /\ Rest(T.requests[i])
  <2>1. CASE i = r
    BY <1>3, <1>12, <1>13, <2>1 DEF q
  <2>2. CASE i \in DOMAIN S.requests
    BY <1>1, <1>3, <1>14, <2>2
  <2>3. QED
    BY <1>2, <2>1, <2>2
<1>16. QED
  BY <1>5, <1>9, <1>10, <1>11, <1>15 DEF Safe, SafeBut

\* The request is added to the others.
LEMMA AddRequest ==
  ASSUME NEW S, Safe(S), Len(S.requests) < MaxRequests, NEW o \in Options, NEW sync \in Reply
  PROVE  LET r == Len(S.requests) + 1
             T == [S EXCEPT !.requests = Append(@, NewRequest(o, sync))]
         IN Fresh(S, T, r) /\ T.requests[r] = NewRequest(o, sync) /\ T.window = S.window /\ T.odd = S.odd
<1> DEFINE n == NewRequest(o, sync)
           r == Len(S.requests) + 1
           T == [S EXCEPT !.requests = Append(@, n)]
<1>1. S \in NetRec /\ Len(S.requests) <= MaxRequests
  BY SafeOpen
<1>2. /\ n \in RequestRec /\ Rest(n) /\ n.state = 0 /\ ~n.installed /\ ~n.settled /\ ~n.fire
      /\ n.container = NoFn /\ n.outcome = "none" /\ n.transport = "none"
      /\ n.successes = 0 /\ n.errors = 0 /\ n.completes = 0
  BY NewRequestFacts
<1>3. /\ S.requests \in Seq(RequestRec) /\ Len(S.requests) \in Nat
      /\ DOMAIN S.requests = 1..Len(S.requests)
  BY <1>1, RequestsOf
<1> HIDE DEF n
<1>4. /\ Append(S.requests, n) \in Seq(RequestRec)
      /\ Len(Append(S.requests, n)) = r
      /\ \A i \in 1..Len(S.requests) : Append(S.requests, n)[i] = S.requests[i]
      /\ Append(S.requests, n)[r] = n
  BY <1>2, <1>3, AppendProperties
<1>5. T = [S EXCEPT !.requests = Append(S.requests, n)]
  OBVIOUS
<1> HIDE DEF T
<1>6. T \in NetRec
  BY <1>1, <1>4, <1>5 DEF NetRec
<1>7. /\ T.requests = Append(S.requests, n) /\ T.window = S.window /\ T.active = S.active
      /\ T.started = S.started /\ T.odd = S.odd /\ T.calls = S.calls
  BY <1>1, <1>5 DEF NetRec
<1>8. r <= MaxRequests
  BY <1>3, AjaxAssumption
<1>9. Fresh(S, T, r)
  BY <1>2, <1>3, <1>4, <1>6, <1>7, <1>8 DEF Fresh
<1>10. QED
  BY <1>4, <1>7, <1>9 DEF T, n

\* The jsonp prefilter of the request that was added.
LEMMA InstallFacts ==
  ASSUME NEW S, Safe(S), NEW A, NEW r, Fresh(S, A, r), A.window = S.window, A.odd = S.odd,
         NEW o \in Options, NEW sync \in Reply, A.requests[r] = NewRequest(o, sync),
         o.types[1] = "jsonp", NEW name \in Names
  PROVE  LET T == Install(A, r, name) IN Fresh(S, T, r) /\ Named(T, r)
<1> DEFINE n == NewRequest(o, sync)
           types == <<"script", "json">> \o Tail(n.types)
           v == A.window[name]
           q == [n EXCEPT !.jsonp = TRUE, !.name = name, !.previous = v, !.types = types]
           B == IF Shared(A, r, name) THEN Upset(A, "name shared") ELSE A
           U == Update(B, r, q)
           T == [U EXCEPT !.window[name] = r]
<1>1. /\ S \in NetRec /\ NamesOK(S)
      /\ \A i \in DOMAIN S.requests :
            S.requests[i] \in RequestRec /\ Rest(S.requests[i]) /\ Common(S.requests[i])
  BY SafeOpen
<1>2. /\ r \in 1..MaxRequests /\ r \in DOMAIN A.requests /\ r \notin DOMAIN S.requests
      /\ DOMAIN A.requests = DOMAIN S.requests \cup {r}
      /\ DOMAIN S.requests \subseteq Nat \ {0}
  BY <1>1, FreshDomain
<1>3. /\ A \in NetRec /\ r = Len(S.requests) + 1 /\ Len(A.requests) = r /\ r <= MaxRequests
      /\ A.active = S.active /\ A.started = S.started /\ A.calls = S.calls
      /\ \A i \in DOMAIN S.requests : A.requests[i] = S.requests[i]
  BY DEF Fresh
<1>4. /\ n \in RequestRec /\ Rest(n) /\ n.state = 0 /\ ~n.installed /\ ~n.settled /\ ~n.fire
      /\ n.types = o.types /\ n.o = o
      /\ n.container = NoFn /\ n.outcome = "none"
      /\ n.successes = 0 /\ n.errors = 0 /\ n.completes = 0 /\ n.transport = "none"
  BY NewRequestFacts
<1>5. v \in -1..MaxRequests /\ v = S.window[name]
  BY <1>3 DEF NetRec
<1>6. o.types \in Chains
  BY DEF Options, Chains
<1>7. types \in Chains /\ Last(types) = Wanted(o)
  BY <1>4, <1>6, JsonpTypes DEF Wanted
<1> HIDE DEF types, n, v
<1>8. /\ q \in RequestRec /\ q.jsonp /\ q.name = name /\ q.previous = v /\ q.types = types
      /\ q.o = n.o /\ q.state = n.state /\ q.installed = n.installed /\ q.settled = n.settled
      /\ q.fire = n.fire /\ q.container = n.container /\ q.outcome = n.outcome
      /\ q.successes = n.successes /\ q.errors = n.errors /\ q.completes = n.completes
      /\ q.transport = n.transport /\ q.wire = n.wire /\ q.callback = n.callback /\ q.timer = n.timer
  <2>1. TRUE \in BOOLEAN /\ name \in Names \cup {NoName} /\ types \in Seq(DataTypes) \ {<<>>}
    BY <1>7 DEF Chains
  <2>2. q \in RequestRec
    BY <1>4, <1>5, <2>1 DEF RequestRec
  <2>3. QED
    BY <1>4, <2>2 DEF RequestRec
<1> HIDE DEF q
<1>9. /\ B \in NetRec /\ B.requests = A.requests /\ B.window = A.window
      /\ B.active = A.active /\ B.started = A.started /\ B.calls = A.calls
      /\ B.odd \in {S.odd, S.odd \cup {"name shared"}}
      /\ "name shared" \notin B.odd => ~Shared(A, r, name) /\ "name shared" \notin S.odd
  <2>1. CASE Shared(A, r, name)
    <3>1. B = [A EXCEPT !.odd = A.odd \cup {"name shared"}]
      BY <2>1 DEF Upset
    <3> HIDE DEF B
    <3>2. A.odd \cup {"name shared"} \in SUBSET {"thrown", "abort in ajaxSend", "name shared"}
      BY <1>3 DEF NetRec
    <3>3. B \in NetRec
      BY <1>3, <3>1, <3>2 DEF NetRec
    <3>4. QED
      BY <1>3, <3>1, <3>3 DEF NetRec
  <2>2. CASE ~Shared(A, r, name)
    BY <1>3, <2>2
  <2>3. QED
    BY <2>1, <2>2
<1> HIDE DEF B
<1>10. r \in DOMAIN B.requests
  BY <1>2, <1>9
<1>11. OnlyAt(B, U, r) /\ U.requests[r] = q /\ U.window = B.window
  BY <1>8, <1>9, <1>10, UpdateFacts
<1> HIDE DEF U
<1>12. /\ U \in NetRec /\ DOMAIN U.requests = DOMAIN B.requests /\ Len(U.requests) = Len(B.requests)
       /\ U.active = B.active /\ U.started = B.started /\ U.odd = B.odd /\ U.calls = B.calls
       /\ \A i \in DOMAIN B.requests : i # r => U.requests[i] = B.requests[i]
  BY <1>11 DEF OnlyAt, LikeOf
<1>13. r \in -1..MaxRequests
  BY <1>2, AjaxAssumption
<1>14. /\ LikeOf(U, T) /\ T.requests = U.requests /\ T.window[name] = r
       /\ \A m \in Names : m # name => T.window[m] = U.window[m]
  BY <1>12, <1>13, WindowFacts
<1> HIDE DEF T
<1>15. /\ T \in NetRec /\ T.requests[r] = q /\ Len(T.requests) = r
       /\ T.active = S.active /\ T.started = S.started /\ T.calls = S.calls /\ T.odd = B.odd
       /\ DOMAIN T.requests = DOMAIN S.requests \cup {r}
  BY <1>2, <1>3, <1>9, <1>11, <1>12, <1>14 DEF LikeOf
<1>16. \A i \in DOMAIN S.requests : T.requests[i] = S.requests[i] /\ i # r
  <2>1. ASSUME NEW i \in DOMAIN S.requests PROVE i # r /\ i \in DOMAIN B.requests
    BY <1>2, <1>9
  <2>2. \A i \in DOMAIN S.requests : T.requests[i] = B.requests[i]
    BY <1>12, <1>14, <2>1
  <2>3. QED
    BY <1>3, <1>9, <2>1, <2>2
<1>17. \A m \in Names : m # name => T.window[m] = S.window[m]
  BY <1>9, <1>11, <1>14
<1>18. Rest(q)
  BY <1>4, <1>8 DEF Rest
<1>19. Fresh(S, T, r)
  <2>1. /\ q.state = 0 /\ ~q.installed /\ ~q.settled /\ ~q.fire /\ q.transport = "none"
        /\ q.container = NoFn /\ q.outcome = "none"
        /\ q.successes = 0 /\ q.errors = 0 /\ q.completes = 0
    BY <1>4, <1>8
  <2>2. QED
    BY <1>3, <1>9, <1>15, <1>16, <1>18, <2>1 DEF Fresh
<1>20. NamesOK(T)
  <2>1. SUFFICES ASSUME "name shared" \notin T.odd
                 PROVE  WindowOK(T) /\ \A i \in DOMAIN T.requests : OwnWindow(T, i)
    BY DEF NamesOK
  <2>2. ~Shared(A, r, name) /\ WindowOK(S) /\ \A i \in DOMAIN S.requests : OwnWindow(S, i)
    BY <1>1, <1>9, <1>15, <2>1 DEF NamesOK
  <2>3. ASSUME NEW i \in DOMAIN S.requests, S.requests[i].jsonp, S.requests[i].name = name
        PROVE  S.requests[i].settled /\ S.requests[i].wire # "late"
    <3>1. ~(S.requests[i].state < 2 \/ S.requests[i].wire = "late")
      BY <1>2, <1>3, <1>16, <2>2, <2>3 DEF Shared
    <3>2. S.requests[i].state \in 0..2
      BY <1>1 DEF RequestRec
    <3>3. S.requests[i].state = 2
      BY <3>1, <3>2
    <3>4. QED
      BY <1>1, <3>1, <3>3 DEF Rest
  <2>4. ASSUME NEW m \in Names, T.window[m] > 0
        PROVE  /\ T.window[m] \in DOMAIN T.requests
               /\ LET p == T.requests[T.window[m]] IN p.jsonp /\ p.name = m /\ ~p.settled
    <3>1. CASE m = name
      BY <1>4, <1>8, <1>14, <1>15, <3>1
    <3>2. CASE m # name
      <4>1. T.window[m] = S.window[m]
        BY <1>17, <3>2
      <4>2. /\ S.window[m] \in DOMAIN S.requests
            /\ LET p == S.requests[S.window[m]] IN p.jsonp /\ p.name = m /\ ~p.settled
        BY <2>2, <2>4, <4>1 DEF WindowOK
      <4>3. QED
        BY <1>15, <1>16, <4>1, <4>2
    <3>3. QED
      BY <3>1, <3>2
  <2>5. WindowOK(T)
    BY <2>4 DEF WindowOK
  <2>6. OwnWindow(T, r)
    <3>1. v <= 0
      <4>1. SUFFICES ASSUME S.window[name] > 0 PROVE FALSE
        BY <1>5, AjaxAssumption
      <4>2. /\ S.window[name] \in DOMAIN S.requests
            /\ LET p == S.requests[S.window[name]] IN p.jsonp /\ p.name = name /\ ~p.settled
        BY <2>2, <4>1 DEF WindowOK
      <4>3. QED
        BY <2>3, <4>2
    <3>2. T.requests[r].previous <= 0 /\ T.requests[r].jsonp /\ ~T.requests[r].settled
      BY <1>4, <1>8, <1>15, <3>1
    <3>3. T.window[T.requests[r].name] = r
      BY <1>8, <1>14, <1>15
    <3>4. T.requests[r].container = NoFn /\ T.requests[r].outcome = "none"
      BY <1>4, <1>8, <1>15
    <3>5. QED
      BY <3>2, <3>3, <3>4 DEF OwnWindow
  <2>7. ASSUME NEW i \in DOMAIN S.requests PROVE OwnWindow(T, i)
    <3>1. OwnWindow(S, i) /\ T.requests[i] = S.requests[i]
      BY <1>16, <2>2
    <3>2. S.requests[i].jsonp => S.requests[i].name \in Names
      BY <1>1 DEF Common
    <3>3. S.requests[i].jsonp /\ (~S.requests[i].settled \/ S.requests[i].wire = "late") =>
             T.window[S.requests[i].name] = S.window[S.requests[i].name]
      BY <1>17, <2>3, <3>2
    <3>4. QED
      BY <3>1, <3>3 DEF OwnWindow
  <2>8. QED
    BY <1>15, <2>5, <2>6, <2>7
<1>21. Named(T, r)
  BY <1>4, <1>7, <1>8, <1>15, <1>20 DEF Named
<1>22. Install(A, r, name) = T
  BY DEF Install, T, U, B, q, v, types, n
<1>23. QED
  BY <1>19, <1>21, <1>22

\* The prefilter of jsonp keeps what was in window under the name, and gives
\* the request that name; a name that is shared is noted.
LEMMA JsonpFilterFacts ==
  ASSUME NEW S, Safe(S), Len(S.requests) < MaxRequests, NEW o \in Options, NEW sync \in Reply
  PROVE  LET r == Len(S.requests) + 1
             A == [S EXCEPT !.requests = Append(@, NewRequest(o, sync))]
             T == JsonpFilter(A, r)
         IN Fresh(S, T, r) /\ Named(T, r)
<1> DEFINE n == NewRequest(o, sync)
           r == Len(S.requests) + 1
           A == [S EXCEPT !.requests = Append(@, n)]
           T == JsonpFilter(A, r)
<1>1. S \in NetRec /\ NamesOK(S)
      /\ \A i \in DOMAIN S.requests : Common(S.requests[i]) /\ Rest(S.requests[i])
  BY SafeOpen
<1>2. Fresh(S, A, r) /\ A.requests[r] = n /\ A.window = S.window /\ A.odd = S.odd
  BY AddRequest
<1>3. /\ ~n.jsonp /\ ~n.settled /\ n.name = o.name /\ n.types = o.types /\ n.o = o
      /\ n.previous = NoFn /\ n.container = NoFn /\ n.outcome = "none"
  BY NewRequestFacts
<1>4. r \in 1..MaxRequests /\ DOMAIN A.requests = DOMAIN S.requests \cup {r}
      /\ r \notin DOMAIN S.requests
  BY <1>1, <1>2, FreshDomain
<1>5. \A i \in DOMAIN S.requests : A.requests[i] = S.requests[i]
  BY <1>2 DEF Fresh
<1> HIDE DEF n, A, r
<1>6. CASE o.types[1] # "jsonp"
  <2>1. T = A
    BY <1>2, <1>3, <1>6 DEF JsonpFilter
  <2>2. NamesOK(A)
    <3>1. SUFFICES ASSUME "name shared" \notin S.odd
                   PROVE  WindowOK(A) /\ \A i \in DOMAIN A.requests : OwnWindow(A, i)
      BY <1>2 DEF NamesOK
    <3>2. WindowOK(S) /\ \A i \in DOMAIN S.requests : OwnWindow(S, i)
      BY <1>1, <3>1 DEF NamesOK
    <3>3. ASSUME NEW m \in Names, S.window[m] > 0
          PROVE  /\ S.window[m] \in DOMAIN A.requests
                 /\ LET p == A.requests[S.window[m]] IN p.jsonp /\ p.name = m /\ ~p.settled
      <4>1. /\ S.window[m] \in DOMAIN S.requests
            /\ LET p == S.requests[S.window[m]] IN p.jsonp /\ p.name = m /\ ~p.settled
        BY <3>2, <3>3 DEF WindowOK
      <4>2. QED
        BY <1>4, <1>5, <4>1
    <3>4. WindowOK(A)
      BY <1>2, <3>3 DEF WindowOK
    <3>5. OwnWindow(A, r)
      <4>1. /\ ~A.requests[r].jsonp /\ A.requests[r].previous = 0
            /\ A.requests[r].container = NoFn /\ A.requests[r].outcome = "none"
        BY <1>2, <1>3 DEF NoFn
      <4>2. QED
        BY <4>1 DEF OwnWindow
    <3>6. ASSUME NEW i \in DOMAIN S.requests PROVE OwnWindow(A, i)
      <4>1. OwnWindow(S, i) /\ A.requests[i] = S.requests[i]
        BY <1>5, <3>2
      <4>2. QED
        BY <1>2, <4>1 DEF OwnWindow
    <3>7. QED
      BY <1>4, <3>4, <3>5, <3>6
  <2>3. Last(o.types) = Wanted(o)
    <3>1. o.types # <<"jsonp">>
      BY <1>6
    <3>2. QED
      BY <3>1 DEF Wanted
  <2>4. Named(A, r)
    BY <1>2, <1>3, <2>2, <2>3 DEF Named
  <2>5. QED
    BY <1>2, <2>1, <2>4 DEF T, A, n, r
<1>7. CASE o.types[1] = "jsonp"
  <2> DEFINE name == IF n.name = NoName THEN UniqueName(r) ELSE n.name
  <2>1. T = Install(A, r, name)
    BY <1>2, <1>3, <1>7 DEF JsonpFilter
  <2>2. name \in Names
    <3>1. o.name \in {NoName, PageName}
      BY DEF Options
    <3>2. UniqueName(r) \in Names /\ PageName \in Names
      BY <1>4 DEF Names
    <3>3. QED
      BY <1>3, <3>1, <3>2
  <2> HIDE DEF name
  <2>3. Fresh(S, Install(A, r, name), r) /\ Named(Install(A, r, name), r)
    BY <1>2, <1>7, <2>2, InstallFacts DEF n
  <2>4. QED
    BY <2>1, <2>3 DEF T, A, n, r
<1>8. QED
  BY <1>6, <1>7

\* The script prefilter, and the count.
LEMMA ScriptFilterFacts ==
  ASSUME NEW S, Safe(S), NEW r \in DOMAIN S.requests
  PROVE  LET T == ScriptFilter(S, r) p == S.requests[r] q == T.requests[r]
         IN /\ Safe(T) /\ LikeOf(S, T) /\ q \in RequestRec
            /\ q.state = p.state /\ q.installed = p.installed /\ q.transport = p.transport
            /\ q.fire = p.fire
<1> DEFINE p == S.requests[r]
           q == [p EXCEPT !.global = FALSE]
           T == ScriptFilter(S, r)
<1>1. SafeBut(S, r) /\ p \in RequestRec /\ Rest(p) /\ S \in NetRec
  BY SafeOpen
<1>2. /\ q \in RequestRec /\ Kept(p, q) /\ q.state = p.state /\ q.wire = p.wire
      /\ q.callback = p.callback /\ q.timer = p.timer /\ q.transport = p.transport
  BY <1>1 DEF RequestRec, Kept, Alike, SameEnd
<1> HIDE DEF q
<1>3. q.settled = p.settled /\ q.installed = p.installed /\ q.o = p.o /\ q.fire = p.fire
  BY <1>2 DEF Kept, Alike, SameEnd
<1>4. Rest(q)
  BY <1>1, <1>2, <1>3 DEF Rest
<1>5. Safe(Update(S, r, q)) /\ OnlyAt(S, Update(S, r, q), r) /\ Update(S, r, q).requests[r] = q
  BY <1>1, <1>2, <1>4, Retouch
<1>6. LikeOf(S, Update(S, r, q))
  BY <1>5 DEF OnlyAt
<1>7. T = Update(S, r, q) \/ T = S
  BY DEF ScriptFilter, q
<1> HIDE DEF T
<1>8. CASE T = S
  BY <1>1, <1>8 DEF LikeOf, T
<1>9. CASE T = Update(S, r, q)
  BY <1>2, <1>3, <1>5, <1>6, <1>9 DEF T
<1>10. QED
  BY <1>7, <1>8, <1>9

\* The requests that active counts are finitely many.
LEMMA CountedFinite ==
  ASSUME NEW S \in NetRec
  PROVE  IsFiniteSet(Counted(S)) /\ Cardinality(Counted(S)) \in Nat
<1>1. PICK n \in Nat : DOMAIN S.requests = 1..n
  BY RequestsOf
<1>2. IsFiniteSet(1..n)
  BY FS_Interval
<1>3. IsFiniteSet(Counted(S))
  BY <1>1, <1>2, FS_Subset DEF Counted
<1>4. QED
  BY <1>3, FS_CardinalityType

\* active is counted up for a request that is under way from now on, and
\* ajaxStart is told at the first.
LEMMA CountUpFacts ==
  ASSUME NEW S, Safe(S), NEW r \in DOMAIN S.requests,
         S.requests[r].state = 0, ~S.requests[r].fire
  PROVE  LET T == CountUp(S, r) p == S.requests[r] q == T.requests[r]
         IN /\ Safe(T) /\ DOMAIN T.requests = DOMAIN S.requests /\ Len(T.requests) = Len(S.requests)
            /\ q.state = 0 /\ q.installed = p.installed /\ q.transport = p.transport
<1> DEFINE p == S.requests[r]
           q == [p EXCEPT !.fire = TRUE]
           U == Update(S, r, q)
           T == CountUp(S, r)
<1>1. /\ S \in NetRec /\ Typed(S) /\ Frames(S) /\ CountOK(S) /\ NamesOK(S)
      /\ \A i \in DOMAIN S.requests :
            /\ S.requests[i] \in RequestRec /\ Common(S.requests[i]) /\ Completes(S, i)
            /\ Rest(S.requests[i])
  BY SafeOpen
<1>2. CASE ~p.global
  <2>1. T = S
    BY <1>2 DEF CountUp
  <2>2. QED
    BY <2>1
<1>3. CASE p.global
  <2>1. /\ q \in RequestRec /\ q.fire
        /\ q.o = p.o /\ q.types = p.types /\ q.jsonp = p.jsonp /\ q.name = p.name
        /\ q.previous = p.previous /\ q.installed = p.installed /\ q.completes = p.completes
        /\ SameEnd(p, q) /\ q.container = p.container /\ q.state = p.state /\ q.wire = p.wire
        /\ q.callback = p.callback /\ q.timer = p.timer /\ q.transport = p.transport
    <3>1. p \in RequestRec /\ TRUE \in BOOLEAN /\ q = [p EXCEPT !.fire = TRUE]
      BY <1>1
    <3> HIDE DEF p, q
    <3>2. q \in RequestRec
      BY ONLY <3>1 DEF RequestRec
    <3>3. QED
      BY ONLY <3>1, <3>2 DEF RequestRec, SameEnd
  <2>2. T = [U EXCEPT !.active = @ + 1, !.started = IF S.active = 0 THEN @ + 1 ELSE @]
    BY <1>3 DEF CountUp
  <2> HIDE DEF q
  <2>3. OnlyAt(S, U, r) /\ U.requests[r] = q /\ U.window = S.window
    BY <1>1, <2>1, UpdateFacts
  <2> HIDE DEF U, T
  <2>4. LikeOf(S, U) /\ \A i \in DOMAIN S.requests : i # r => U.requests[i] = S.requests[i]
    BY <2>3 DEF OnlyAt
  <2>5. /\ U \in NetRec /\ DOMAIN U.requests = DOMAIN S.requests /\ Len(U.requests) = Len(S.requests)
        /\ U.active = S.active /\ U.started = S.started /\ U.odd = S.odd /\ U.calls = S.calls
    BY <2>4 DEF LikeOf
  <2>6. S.active \in Int /\ S.started \in Int
    BY <1>1 DEF NetRec
  <2>7. /\ T \in NetRec /\ T.requests = U.requests /\ T.window = U.window /\ T.odd = U.odd
        /\ T.calls = U.calls /\ T.active = S.active + 1
        /\ T.started = IF S.active = 0 THEN S.started + 1 ELSE S.started
    <3>1. PICK s \in Int : s = IF S.active = 0 THEN S.started + 1 ELSE S.started
      BY <2>6
    <3>2. T = [U EXCEPT !.active = S.active + 1, !.started = s]
      BY <2>2, <2>5, <3>1
    <3>3. S.active + 1 \in Int
      BY <2>6
    <3>4. T \in NetRec
      BY <2>5, <3>2, <3>3 DEF NetRec
    <3>5. QED
      BY <2>5, <3>1, <3>2, <3>4 DEF NetRec
  <2>8. /\ Typed(U) /\ Frames(U) /\ NamesOK(U)
        /\ \A i \in DOMAIN U.requests : Common(U.requests[i]) /\ Completes(U, i) /\ Rest(U.requests[i])
    <3>1. Common(q) /\ Completes(U, r) /\ Rest(q)
      <4>1. Common(p) /\ Completes(S, r) /\ Rest(p)
        BY <1>1
      <4>2. Common(q)
        BY <2>1, <4>1 DEF Common, SameEnd
      <4>3. Completes(U, r)
        BY <2>1, <2>3, <2>5, <4>1 DEF Completes, SameEnd
      <4>4. Rest(q)
        BY <2>1, <4>1 DEF Rest, SameEnd
      <4>5. QED
        BY <4>2, <4>3, <4>4
    <3>2. \A i \in DOMAIN S.requests :
             /\ Common(S.requests[i]) /\ Completes(S, i)
             /\ i # r => SameReq(S.requests[i], U.requests[i]) /\ SameEnd(S.requests[i], U.requests[i])
             /\ i = r => /\ U.requests[i].installed = S.requests[i].installed
                         /\ S.requests[i].settled => U.requests[i].settled
      BY <1>1, <2>1, <2>3, <2>4 DEF SameReq, SameEnd
    <3>3. LikeOf(S, U) /\ Typed(S) /\ Frames(S)
      BY <1>1, <2>4
    <3>4. /\ Typed(U) /\ Frames(U)
          /\ \A i \in DOMAIN U.requests : i # r =>
                /\ Common(U.requests[i]) /\ Completes(U, i)
                /\ Rest(S.requests[i]) => Rest(U.requests[i])
      BY ONLY <3>2, <3>3, OthersKept
    <3>5. ASSUME NEW i \in DOMAIN S.requests
          PROVE  LET p0 == S.requests[i] q0 == U.requests[i]
                 IN /\ q0.jsonp = p0.jsonp /\ q0.name = p0.name /\ q0.previous = p0.previous
                    /\ SameEnd(p0, q0) /\ q0.container = p0.container
                    /\ q0.wire = "late" => p0.wire = "late" \/ ~p0.settled
      BY <2>1, <2>3, <2>4 DEF SameEnd
    <3>6. NamesOK(U)
      BY <1>1, <2>3, <2>4, <3>5, NamesKept
    <3>7. QED
      BY <1>1, <2>3, <2>5, <3>1, <3>4, <3>6
  <2>9. CountOK(T)
    <3>1. SUFFICES ASSUME Clean(S)
                   PROVE  /\ T.active = Cardinality(Counted(T))
                          /\ T.started = IF T.active > 0 THEN 1 ELSE 0
                          /\ \A i \in DOMAIN T.calls :
                                T.calls[i].at # "send" /\ T.requests[T.calls[i].r].state = 2
                          /\ \A i, j \in DOMAIN T.calls : T.calls[i].r = T.calls[j].r => i = j
      BY <2>5, <2>7 DEF Clean, CountOK
    <3>2. /\ S.active = Cardinality(Counted(S))
          /\ S.started = IF S.active > 0 THEN 1 ELSE 0
          /\ \A i \in DOMAIN S.calls : S.calls[i].at # "send" /\ S.requests[S.calls[i].r].state = 2
          /\ \A i, j \in DOMAIN S.calls : S.calls[i].r = S.calls[j].r => i = j
      BY <1>1, <3>1 DEF Clean, CountOK
    <3>3. Counted(T) = Counted(S) \cup {r} /\ r \notin Counted(S)
      <4>1. EndingIn(T) = EndingIn(S)
        BY <2>5, <2>7 DEF EndingIn
      <4>2. ASSUME NEW i \in DOMAIN S.requests
            PROVE  i \in Counted(T) <=> i \in Counted(S) \/ i = r
        <5>1. CASE i = r
          BY <2>1, <2>3, <2>5, <2>7, <5>1 DEF Counted
        <5>2. CASE i # r
          BY <2>4, <2>5, <2>7, <4>1, <5>2 DEF Counted
        <5>3. QED
          BY <5>1, <5>2
      <4>3. r \notin Counted(S)
        BY DEF Counted
      <4>4. Counted(T) \subseteq DOMAIN S.requests /\ Counted(S) \subseteq DOMAIN S.requests
        BY <2>5, <2>7 DEF Counted
      <4>5. QED
        BY <4>2, <4>3, <4>4
    <3>4. Cardinality(Counted(S)) \in Nat /\ Cardinality(Counted(T)) = Cardinality(Counted(S)) + 1
      BY <1>1, <3>3, CountedFinite, FS_AddElement
    <3>5. T.active = Cardinality(Counted(T)) /\ T.started = IF T.active > 0 THEN 1 ELSE 0
      BY <2>6, <2>7, <3>2, <3>4
    <3>6. ASSUME NEW i \in DOMAIN T.calls
          PROVE  T.calls[i].at # "send" /\ T.requests[T.calls[i].r].state = 2
      <4>1. /\ T.calls[i] = S.calls[i] /\ i \in DOMAIN S.calls
            /\ S.calls[i].at # "send" /\ S.requests[S.calls[i].r].state = 2
            /\ S.calls[i].r \in DOMAIN S.requests
        BY <1>1, <2>5, <2>7, <3>2 DEF Typed
      <4>2. S.calls[i].r # r
        BY <4>1
      <4>3. QED
        BY <2>4, <2>7, <4>1, <4>2
    <3>7. QED
      BY <2>5, <2>7, <3>2, <3>5, <3>6
  <2>10. Typed(T) /\ Frames(T) /\ NamesOK(T)
    <3>1. Typed(T) /\ Frames(T)
      BY <2>7, <2>8 DEF Typed, Frames
    <3>2. WindowOK(U) => WindowOK(T)
      BY <2>7 DEF WindowOK
    <3>3. \A i : OwnWindow(U, i) => OwnWindow(T, i)
      BY <2>7 DEF OwnWindow
    <3>4. NamesOK(T)
      BY <2>7, <2>8, <3>2, <3>3 DEF NamesOK
    <3>5. QED
      BY <3>1, <3>4
  <2>11. \A i \in DOMAIN T.requests : Common(T.requests[i]) /\ Completes(T, i) /\ Rest(T.requests[i])
    BY <2>7, <2>8 DEF Completes
  <2>12. Safe(T)
    BY <2>9, <2>10, <2>11 DEF Safe, SafeBut
  <2>13. QED
    BY <2>1, <2>3, <2>5, <2>7, <2>12 DEF T
<1>4. QED
  BY <1>2, <1>3

\* A request has gone through the prefilters and is counted.
LEMMA BegunSafe ==
  ASSUME NEW S, Safe(S), Len(S.requests) < MaxRequests, NEW o \in Options, NEW sync \in Reply
  PROVE  LET r == Len(S.requests) + 1 T == Begun(S, o, sync)
         IN /\ Safe(T) /\ r \in DOMAIN T.requests /\ T.requests[r].state = 0
            /\ T.requests[r].transport = "none"
<1> DEFINE r == Len(S.requests) + 1
           A == [S EXCEPT !.requests = Append(@, NewRequest(o, sync))]
           J == JsonpFilter(A, r)
           F == ScriptFilter(J, r)
           T == Begun(S, o, sync)
<1>1. T = CountUp(F, r)
  BY DEF Begun, Prefilter
<1>2. Fresh(S, J, r) /\ Named(J, r)
  BY JsonpFilterFacts
<1> HIDE DEF A, J, T
<1>3. S \in NetRec
  BY SafeOpen
<1>4. Safe(J)
  BY <1>2, FreshSafe
<1>5. r \in DOMAIN J.requests /\ J.requests[r].state = 0 /\ ~J.requests[r].fire
      /\ J.requests[r].transport = "none"
  <2>1. r \in DOMAIN J.requests
    BY <1>2, <1>3, FreshDomain
  <2>2. QED
    BY <1>2, <2>1 DEF Fresh
<1> HIDE DEF r
<1>6. /\ Safe(F) /\ LikeOf(J, F) /\ F.requests[r].state = J.requests[r].state
      /\ F.requests[r].transport = J.requests[r].transport
      /\ F.requests[r].fire = J.requests[r].fire
  BY <1>4, <1>5, ScriptFilterFacts
<1> HIDE DEF F
<1>7. r \in DOMAIN F.requests /\ F.requests[r].state = 0 /\ ~F.requests[r].fire
      /\ F.requests[r].transport = "none"
  BY <1>5, <1>6 DEF LikeOf
<1>8. /\ Safe(CountUp(F, r)) /\ DOMAIN CountUp(F, r).requests = DOMAIN F.requests
      /\ CountUp(F, r).requests[r].state = 0
      /\ CountUp(F, r).requests[r].transport = F.requests[r].transport
  BY <1>6, <1>7, CountUpFacts
<1>9. QED
  BY <1>1, <1>7, <1>8 DEF T, r

\* The callbacks are installed, and a transport is found or not.
LEMMA ReadySafe ==
  ASSUME NEW S, Safe(S), NEW r \in DOMAIN S.requests, S.requests[r].state = 0
  PROVE  LET T == Ready(S, r)
         IN Safe(T) /\ r \in DOMAIN T.requests /\ T.requests[r].state = 0
<1> DEFINE p == S.requests[r]
           q == [p EXCEPT !.installed = TRUE, !.transport = TransportOf(p)]
           T == Ready(S, r)
<1>1. /\ S \in NetRec /\ Typed(S) /\ Frames(S) /\ CountOK(S) /\ NamesOK(S)
      /\ \A i \in DOMAIN S.requests :
            /\ S.requests[i] \in RequestRec /\ Common(S.requests[i]) /\ Completes(S, i)
            /\ Rest(S.requests[i])
  BY SafeOpen
<1>2. /\ q \in RequestRec /\ q.installed /\ q.o = p.o /\ q.types = p.types /\ q.jsonp = p.jsonp
      /\ q.name = p.name /\ q.previous = p.previous /\ q.completes = p.completes
      /\ SameEnd(p, q) /\ q.container = p.container /\ q.state = p.state /\ q.wire = p.wire
      /\ q.callback = p.callback /\ q.timer = p.timer /\ q.fire = p.fire
  <2>1. PICK t \in {"none", "xhr", "script"} : t = TransportOf(p)
    BY DEF TransportOf
  <2>2. p \in RequestRec /\ TRUE \in BOOLEAN /\ q = [p EXCEPT !.installed = TRUE, !.transport = t]
    BY <1>1, <2>1
  <2> HIDE DEF p, q
  <2>3. q \in RequestRec
    BY ONLY <2>2, t \in {"none", "xhr", "script"} DEF RequestRec
  <2>4. QED
    BY ONLY <2>2, <2>3 DEF RequestRec, SameEnd
<1>3. T = Update(S, r, q)
  BY DEF Ready
<1> HIDE DEF q
<1>4. OnlyAt(S, T, r) /\ T.requests[r] = q /\ T.window = S.window
  BY <1>1, <1>2, <1>3, UpdateFacts
<1> HIDE DEF T
<1>5. LikeOf(S, T) /\ \A i \in DOMAIN S.requests : i # r => T.requests[i] = S.requests[i]
  BY <1>4 DEF OnlyAt
<1>6. /\ T \in NetRec /\ DOMAIN T.requests = DOMAIN S.requests /\ Len(T.requests) = Len(S.requests)
      /\ T.odd = S.odd /\ T.calls = S.calls
  BY <1>5 DEF LikeOf
<1>7. q.settled = p.settled /\ ~p.settled
  BY <1>1, <1>2 DEF SameEnd, Rest
<1>8. Rest(q)
  BY <1>1, <1>2, <1>7 DEF Rest
<1>9. Common(q)
  <2>1. Common(p)
    BY <1>1
  <2>2. p.successes + p.errors = 0
    BY <1>7, <2>1 DEF Common
  <2>3. q.successes + q.errors = 0 /\ ~q.settled
    BY <1>2, <1>7, <2>2 DEF SameEnd
  <2>4. q.completes <= 0
    BY <1>2, <2>1, <2>2 DEF Common
  <2>5. q.outcome = p.outcome /\ q.reached = p.reached
    BY <1>2 DEF SameEnd
  <2>6. QED
    BY <1>2, <2>1, <2>3, <2>4, <2>5 DEF Common
<1>10. Completes(T, r)
  BY <1>4, <1>7 DEF Completes
<1>11. Typed(T)
  BY <1>1, <1>6 DEF Typed
<1>12. Frames(T)
  <2>1. \A i \in DOMAIN S.requests : S.requests[i].settled => T.requests[i] = S.requests[i]
    BY <1>5, <1>7
  <2>2. QED
    BY <1>1, <1>6, <2>1 DEF Frames, Typed
<1>13. CountOK(T)
  <2>1. \A i \in DOMAIN S.requests :
           T.requests[i].fire = S.requests[i].fire /\ T.requests[i].state = S.requests[i].state
    BY <1>2, <1>4, <1>5
  <2>2. QED
    BY <1>1, <1>5, <2>1, CountKept
<1>14. NamesOK(T)
  <2>1. ASSUME NEW i \in DOMAIN S.requests
        PROVE  LET p0 == S.requests[i] q0 == T.requests[i]
               IN /\ q0.jsonp = p0.jsonp /\ q0.name = p0.name /\ q0.previous = p0.previous
                  /\ SameEnd(p0, q0) /\ q0.container = p0.container
                  /\ q0.wire = "late" => p0.wire = "late" \/ ~p0.settled
    BY <1>2, <1>4, <1>5 DEF SameEnd
  <2>2. QED
    BY <1>1, <1>4, <1>5, <2>1, NamesKept
<1>15. ASSUME NEW i \in DOMAIN T.requests
       PROVE  Common(T.requests[i]) /\ Completes(T, i) /\ Rest(T.requests[i])
  <2>1. CASE i = r
    BY <1>4, <1>8, <1>9, <1>10, <2>1
  <2>2. CASE i # r
    <3>1. T.requests[i] = S.requests[i] /\ Common(S.requests[i]) /\ Completes(S, i)
          /\ Rest(S.requests[i])
      BY <1>1, <1>5, <1>6, <2>2
    <3>2. QED
      BY <1>6, <3>1 DEF Completes
  <2>3. QED
    BY <2>1, <2>2
<1>16. Safe(T)
  BY <1>11, <1>12, <1>13, <1>14, <1>15 DEF Safe, SafeBut
<1>17. QED
  BY <1>2, <1>4, <1>6, <1>16 DEF T

\* An abort in ajaxSend, before the request is sent.
LEMMA AjaxSendSafe ==
  ASSUME NEW S, Safe(S), NEW r \in DOMAIN S.requests
  PROVE  Safe(AjaxSend(S, r))
<1> DEFINE U == Upset(S, "abort in ajaxSend")
           T == Call(U, r, "send")
<1>1. /\ S \in NetRec /\ Len(S.requests) <= MaxRequests
      /\ Typed(S) /\ Frames(S) /\ NamesOK(S)
      /\ \A i \in DOMAIN S.requests :
            Common(S.requests[i]) /\ Completes(S, i) /\ Rest(S.requests[i])
  BY SafeOpen
<1>2. /\ U \in NetRec /\ U.requests = S.requests /\ U.window = S.window /\ U.calls = S.calls
      /\ U.odd = S.odd \cup {"abort in ajaxSend"}
  <2>1. U = [S EXCEPT !.odd = S.odd \cup {"abort in ajaxSend"}]
    BY DEF Upset
  <2>2. S.odd \cup {"abort in ajaxSend"} \in SUBSET {"thrown", "abort in ajaxSend", "name shared"}
    BY <1>1 DEF NetRec
  <2>3. QED
    BY <1>1, <2>1, <2>2 DEF NetRec
<1> HIDE DEF U
<1>3. Typed(U) /\ Frames(U)
  BY <1>1, <1>2 DEF Typed, Frames
<1>4. NamesOK(U)
  <2>1. WindowOK(S) => WindowOK(U)
    BY <1>2 DEF WindowOK
  <2>2. \A i : OwnWindow(S, i) => OwnWindow(U, i)
    BY <1>2 DEF OwnWindow
  <2>3. QED
    BY <1>1, <1>2, <2>1, <2>2 DEF NamesOK
<1>5. ASSUME NEW i \in DOMAIN U.requests PROVE Completes(U, i)
  <2>1. Completes(S, i)
    BY <1>1, <1>2
  <2>2. "thrown" \notin U.odd => "thrown" \notin S.odd
    BY <1>2
  <2>3. QED
    BY <1>2, <2>1, <2>2 DEF Completes
<1>6. r \in DOMAIN U.requests /\ r \in 1..MaxRequests
  <2>1. r \in 1..MaxRequests
    BY <1>1, RequestsOf, AjaxAssumption
  <2>2. QED
    BY <1>2, <2>1
<1>7. AddedCall(U, T, r, "send")
  BY <1>2, <1>6, CallFacts
<1> HIDE DEF T
<1>8. /\ Typed(T) /\ Frames(T) /\ NamesOK(T)
      /\ \A i \in DOMAIN U.requests : Completes(U, i) => Completes(T, i)
  BY <1>3, <1>4, <1>6, <1>7, AddedKeeps
<1>9. T.requests = U.requests /\ T.odd = U.odd
  BY <1>7 DEF AddedCall
<1>10. CountOK(T)
  BY <1>2, <1>9 DEF CountOK
<1>11. Safe(T)
  BY <1>1, <1>2, <1>5, <1>8, <1>9, <1>10 DEF Safe, SafeBut
<1>12. r \in DOMAIN T.requests
  BY <1>6, <1>9
<1>13. Safe(Abort(T, r, "abort"))
  BY <1>11, <1>12, AbortSafe
<1>14. QED
  BY <1>13 DEF AjaxSend, T, U

\* A request is sent, has no transport, or is aborted in ajaxSend.
LEMMA LaunchSafe ==
  ASSUME NEW S, Safe(S), NEW r \in DOMAIN S.requests, S.requests[r].state = 0
  PROVE  Safe(Launch(S, r))
<1> DEFINE q == S.requests[r]
<1>1. SafeBut(S, r) /\ Rest(q)
  BY SafeOpen
<1>2. q.state # 2 /\ ~q.settled /\ q.wire = "none" /\ ~q.callback
  BY <1>1 DEF Rest
<1>3. Safe(Done(S, r, -1, "No Transport", NoAnswer))
  <2>1. "No Transport" \in Texts /\ NoAnswer \in Answers \cup {NoAnswer}
    BY TextsFacts
  <2>2. Honest(-1, "No Transport")
    BY DEF Honest
  <2>3. CanEnd(S, r, -1, "No Transport")
    BY <1>2, <2>2 DEF CanEnd
  <2>4. SafeBut(S, r) /\ -1 \in Int
    BY <1>1
  <2>5. QED
    BY ONLY r \in DOMAIN S.requests, <2>1, <2>3, <2>4, DoneSafe
<1>4. Safe(AjaxSend(S, r)) /\ Safe(Send(S, r))
  BY <1>2, AjaxSendSafe, SendSafe
<1>5. QED
  BY <1>3, <1>4 DEF Launch

\* ajax, whatever it is called with.
LEMMA AjaxWithSafe ==
  ASSUME NEW S, Safe(S), Len(S.requests) < MaxRequests, NEW o \in Options, NEW sync \in Reply
  PROVE  Safe(AjaxWith(S, o, sync))
<1> DEFINE r == Len(S.requests) + 1
           T == Begun(S, o, sync)
           U == Ready(T, r)
<1>1. Safe(T) /\ r \in DOMAIN T.requests /\ T.requests[r].state = 0
  BY BegunSafe
<1>2. AjaxWith(S, o, sync) = IF Refuses(o) THEN Done(T, r, 0, "abort", NoAnswer) ELSE Launch(U, r)
  BY DEF AjaxWith
<1> HIDE DEF T, r
<1>3. Safe(U) /\ r \in DOMAIN U.requests /\ U.requests[r].state = 0
  BY <1>1, ReadySafe
<1> HIDE DEF U
<1>4. Safe(Launch(U, r))
  BY <1>3, LaunchSafe
<1>5. Safe(Done(T, r, 0, "abort", NoAnswer))
  <2>1. SafeBut(T, r) /\ Rest(T.requests[r])
    BY <1>1, SafeOpen
  <2>2. /\ T.requests[r].state # 2 /\ ~T.requests[r].settled /\ T.requests[r].wire = "none"
        /\ ~T.requests[r].callback
    BY <1>1, <2>1 DEF Rest
  <2>3. "abort" \in Texts /\ NoAnswer \in Answers \cup {NoAnswer}
    BY TextsFacts
  <2>4. Honest(0, "abort")
    BY DEF Honest
  <2>5. CanEnd(T, r, 0, "abort")
    BY <2>2, <2>4 DEF CanEnd
  <2>6. QED
    BY <1>1, <2>1, <2>3, <2>5, DoneSafe
<1>6. QED
  BY <1>2, <1>4, <1>5

-----------------------------------------------------------------------------
(* What a callback does, and the calls that go on.                          *)

\* An exception leaves all the calls under way.
LEMMA ThrowSafe ==
  ASSUME NEW S, Safe(S)
  PROVE  Safe(Throw(S))
<1> DEFINE T == Throw(S)
<1>1. /\ S \in NetRec /\ Len(S.requests) <= MaxRequests /\ NamesOK(S)
      /\ \A i \in DOMAIN S.requests : Common(S.requests[i]) /\ Rest(S.requests[i])
  BY SafeOpen
<1>2. /\ T \in NetRec /\ T.requests = S.requests /\ T.window = S.window /\ T.calls = <<>>
      /\ T.odd = S.odd \cup {"thrown"}
  <2>1. T = [S EXCEPT !.calls = <<>>, !.odd = S.odd \cup {"thrown"}]
    BY DEF Throw
  <2>2. S.odd \cup {"thrown"} \in SUBSET {"thrown", "abort in ajaxSend", "name shared"}
    BY <1>1 DEF NetRec
  <2>3. <<>> \in Seq(CallRec)
    BY EmptySeq
  <2>4. QED
    BY <1>1, <2>1, <2>2, <2>3 DEF NetRec
<1> HIDE DEF T
<1>3. DOMAIN T.calls = {}
  BY <1>2
<1>4. Typed(T) /\ Frames(T)
  BY <1>1, <1>2, <1>3 DEF Typed, Frames
<1>5. CountOK(T)
  BY <1>2 DEF CountOK
<1>6. NamesOK(T)
  <2>1. WindowOK(S) => WindowOK(T)
    BY <1>2 DEF WindowOK
  <2>2. \A i : OwnWindow(S, i) => OwnWindow(T, i)
    BY <1>2 DEF OwnWindow
  <2>3. QED
    BY <1>1, <1>2, <2>1, <2>2 DEF NamesOK
<1>7. \A i : Completes(T, i)
  BY <1>2 DEF Completes
<1>8. Safe(T)
  BY <1>1, <1>2, <1>4, <1>5, <1>6, <1>7 DEF Safe, SafeBut
<1>9. QED
  BY <1>8 DEF T

\* A callback of the program does one thing.
LEMMA ActSafe ==
  ASSUME NEW S, Safe(S), NEW r \in DOMAIN S.requests, NEW what \in {"none", "abort", "begin", "throw"}
  PROVE  Safe(Act(S, r, what))
<1>1. CASE what = "none"
  BY <1>1 DEF Act
<1>2. CASE what = "abort"
  <2>1. Safe(Abort(S, r, "abort"))
    BY AbortSafe
  <2>2. QED
    BY <1>2, <2>1 DEF Act
<1>3. CASE what = "throw"
  BY <1>3, ThrowSafe DEF Act
<1>4. CASE what = "begin"
  <2>1. Inner \in Options
    BY AjaxAssumption
  <2>2. Fine \in Reply
    BY DEF Fine, Reply, Answers
  <2>3. CASE Len(S.requests) < MaxRequests
    <3>1. Safe(AjaxWith(S, Inner, Fine))
      BY <2>1, <2>2, <2>3, AjaxWithSafe
    <3>2. QED
      BY <1>4, <2>3, <3>1 DEF Act, Begin
  <2>4. CASE ~(Len(S.requests) < MaxRequests)
    BY <1>4, <2>4 DEF Act, Begin
  <2>5. QED
    BY <2>3, <2>4
<1>5. QED
  BY <1>1, <1>2, <1>3, <1>4

\* The last call is left.
Left(S, T) ==
    /\ T \in NetRec /\ T.requests = S.requests /\ T.window = S.window
    /\ T.active = S.active /\ T.started = S.started /\ T.odd = S.odd
    /\ Len(S.calls) \in Nat \ {0} /\ DOMAIN S.calls = 1..Len(S.calls)
    /\ Len(T.calls) = Len(S.calls) - 1 /\ DOMAIN T.calls = 1..(Len(S.calls) - 1)
    /\ \A i \in DOMAIN T.calls : T.calls[i] = S.calls[i]
    /\ Last(S.calls) = S.calls[Len(S.calls)] /\ Len(S.calls) \in DOMAIN S.calls
    /\ Last(S.calls) \in CallRec

\* The last call has returned.
LEMMA PopFacts ==
  ASSUME NEW S \in NetRec, S.calls # <<>>
  PROVE  Left(S, Pop(S))
<1> DEFINE c == S.calls
           n == Len(S.calls)
           T == Pop(S)
<1>1. c \in Seq(CallRec)
  BY DEF NetRec
<1>2. n \in Nat \ {0} /\ DOMAIN c = 1..n /\ Last(c) = c[n] /\ n \in DOMAIN c
  BY <1>1, EmptySeq, LenProperties DEF Last
<1>3. /\ Front(c) \in Seq(CallRec) /\ Len(Front(c)) = n - 1
      /\ \A i \in 1..(n - 1) : Front(c)[i] = c[i]
  <2>1. Front(c) = SubSeq(c, 1, n - 1)
    BY DEF Front
  <2>2. \A i \in 1..(n - 1) : c[i] \in CallRec
    BY <1>1, <1>2, ElementOfSeq
  <2>3. n - 1 \in Int /\ 1 \in Int
    BY <1>2
  <2>4. /\ SubSeq(c, 1, n - 1) \in Seq(CallRec)
        /\ Len(SubSeq(c, 1, n - 1)) = IF 1 <= n - 1 THEN n - 1 - 1 + 1 ELSE 0
        /\ \A i \in 1..(n - 1 - 1 + 1) : SubSeq(c, 1, n - 1)[i] = c[1 + i - 1]
    BY <2>2, <2>3, SubSeqProperties
  <2>5. QED
    BY <1>2, <2>1, <2>4
<1>4. DOMAIN Front(c) = 1..(n - 1)
  BY <1>2, <1>3, LenProperties
<1>5. T = [S EXCEPT !.calls = Front(c)]
  BY DEF Pop
<1>6. Last(c) \in CallRec
  BY <1>1, <1>2, ElementOfSeq
<1> HIDE DEF T
<1>7. T \in NetRec
  BY <1>3, <1>5 DEF NetRec
<1>8. /\ T.requests = S.requests /\ T.window = S.window /\ T.calls = Front(c)
      /\ T.active = S.active /\ T.started = S.started /\ T.odd = S.odd
  BY <1>5 DEF NetRec
<1>9. Left(S, T)
  BY <1>2, <1>3, <1>4, <1>6, <1>7, <1>8 DEF Left
<1>10. QED
  BY <1>9 DEF T

\* A call that has returned leaves what is known of the others.
LEMMA LeftKeeps ==
  ASSUME NEW S, NEW T, Safe(S), Left(S, T)
  PROVE  /\ Typed(T) /\ Frames(T) /\ NamesOK(T) /\ Last(S.calls).r \in DOMAIN S.requests
         /\ \A i \in DOMAIN S.requests :
               \/ Completes(T, i)
               \/ Last(S.calls).r = i /\ Last(S.calls).at \in {"tell", "complete"}
<1>1. Typed(S) /\ Frames(S) /\ NamesOK(S) /\ \A i \in DOMAIN S.requests : Completes(S, i)
  BY SafeOpen
<1>2. /\ T \in NetRec /\ T.requests = S.requests /\ T.window = S.window /\ T.odd = S.odd
      /\ Len(S.calls) \in Nat \ {0} /\ DOMAIN S.calls = 1..Len(S.calls)
      /\ DOMAIN T.calls = 1..(Len(S.calls) - 1)
      /\ \A i \in DOMAIN T.calls : T.calls[i] = S.calls[i]
      /\ Last(S.calls) = S.calls[Len(S.calls)] /\ Len(S.calls) \in DOMAIN S.calls
  BY DEF Left
<1>3. /\ \A i \in DOMAIN S.calls : i \in DOMAIN T.calls \/ i = Len(S.calls)
      /\ DOMAIN T.calls \subseteq DOMAIN S.calls
  BY <1>2
<1>4. Typed(T) /\ Last(S.calls).r \in DOMAIN S.requests
  BY <1>1, <1>2, <1>3 DEF Typed
<1>5. Frames(T)
  BY <1>1, <1>2, <1>3 DEF Frames
<1>6. NamesOK(T)
  <2>1. WindowOK(S) => WindowOK(T)
    BY <1>2 DEF WindowOK
  <2>2. \A i : OwnWindow(S, i) => OwnWindow(T, i)
    BY <1>2 DEF OwnWindow
  <2>3. QED
    BY <1>1, <1>2, <2>1, <2>2 DEF NamesOK
<1>7. ASSUME NEW i \in DOMAIN S.requests,
             ~(Last(S.calls).r = i /\ Last(S.calls).at \in {"tell", "complete"})
      PROVE  Completes(T, i)
  <2>1. Completes(S, i)
    BY <1>1
  <2>2. ASSUME NEW k \in DOMAIN S.calls, S.calls[k].r = i, S.calls[k].at \in {"tell", "complete"}
        PROVE  k \in DOMAIN T.calls /\ T.calls[k] = S.calls[k]
    BY <1>2, <1>3, <1>7, <2>2
  <2>3. QED
    BY <1>2, <2>1, <2>2 DEF Completes
<1>8. QED
  BY <1>4, <1>5, <1>6, <1>7

\* The last call goes on.
LEMMA GoesSafe ==
  ASSUME NEW S, Safe(S), S.calls # <<>>, NEW at \in {"complete", "count"},
         at = "complete" => Last(S.calls).at = "tell",
         at = "count" => S.requests[Last(S.calls).r].completes > 0,
         Last(S.calls).at \in {"tell", "complete"}
  PROVE  Safe(Goes(S, at)) /\ Goes(S, at).requests = S.requests
<1> DEFINE r == Last(S.calls).r
           P == Pop(S)
           T == Call(P, r, at)
<1>1. /\ S \in NetRec /\ Len(S.requests) <= MaxRequests
      /\ Typed(S) /\ Frames(S) /\ CountOK(S)
      /\ \A i \in DOMAIN S.requests :
            /\ S.requests[i] \in RequestRec /\ Common(S.requests[i]) /\ Completes(S, i)
            /\ Rest(S.requests[i])
  BY SafeOpen
<1>2. Left(S, P)
  BY <1>1, PopFacts
<1> HIDE DEF P
<1>3. /\ Typed(P) /\ Frames(P) /\ NamesOK(P) /\ r \in DOMAIN S.requests
      /\ \A i \in DOMAIN S.requests : i # r => Completes(P, i)
  BY <1>2, LeftKeeps
<1>4. /\ P \in NetRec /\ P.requests = S.requests /\ P.window = S.window
      /\ P.active = S.active /\ P.started = S.started /\ P.odd = S.odd
      /\ Len(S.calls) \in Nat \ {0} /\ DOMAIN S.calls = 1..Len(S.calls)
      /\ Len(P.calls) = Len(S.calls) - 1 /\ DOMAIN P.calls = 1..(Len(S.calls) - 1)
      /\ \A i \in DOMAIN P.calls : P.calls[i] = S.calls[i]
      /\ Last(S.calls) = S.calls[Len(S.calls)] /\ Len(S.calls) \in DOMAIN S.calls
      /\ Last(S.calls) \in CallRec
  BY <1>2 DEF Left
<1>5. r \in 1..MaxRequests
  BY <1>4 DEF CallRec
<1>6. S.requests[r].settled /\ S.requests[r].installed
  BY <1>1, <1>4 DEF Frames
<1> HIDE DEF r
<1>7. AddedCall(P, T, r, at)
  BY <1>4, <1>5, CallFacts
<1> HIDE DEF T
<1>8. /\ T.requests = P.requests /\ T.odd = P.odd /\ T.active = P.active /\ T.started = P.started
      /\ DOMAIN T.calls = 1..(Len(P.calls) + 1) /\ DOMAIN P.calls = 1..Len(P.calls)
      /\ \A i \in DOMAIN P.calls : T.calls[i] = P.calls[i]
      /\ T.calls[Len(P.calls) + 1].r = r /\ T.calls[Len(P.calls) + 1].at = at
  BY <1>7 DEF AddedCall
<1>9. /\ Typed(T) /\ Frames(T) /\ NamesOK(T)
      /\ \A i \in DOMAIN P.requests : Completes(P, i) => Completes(T, i)
      /\ at \in {"tell", "complete"} => Completes(T, r)
  BY <1>3, <1>4, <1>6, <1>7, AddedKeeps
<1>10. Completes(T, r)
  <2>1. CASE at = "complete"
    BY <1>9, <2>1
  <2>2. CASE at = "count"
    <3>1. S.requests[r].completes > 0
      BY <2>2 DEF r
    <3>2. T.requests[r].completes # 0
      BY <1>4, <1>8, <3>1
    <3>3. QED
      BY <3>2 DEF Completes
  <2>3. QED
    BY <2>1, <2>2
<1>11. /\ DOMAIN T.calls = DOMAIN S.calls
       /\ \A i \in DOMAIN S.calls : /\ T.calls[i].r = S.calls[i].r
                                    /\ T.calls[i] = S.calls[i] \/ T.calls[i].at = at
  <2>1. Len(P.calls) + 1 = Len(S.calls)
    BY <1>4
  <2>2. DOMAIN T.calls = DOMAIN S.calls
    BY <1>4, <1>8, <2>1
  <2>3. ASSUME NEW i \in DOMAIN S.calls
        PROVE  T.calls[i].r = S.calls[i].r /\ (T.calls[i] = S.calls[i] \/ T.calls[i].at = at)
    <3>1. CASE i = Len(S.calls)
      BY <1>4, <1>8, <2>1, <3>1 DEF r
    <3>2. CASE i # Len(S.calls)
      <4>1. i \in DOMAIN P.calls
        BY <1>4, <3>2
      <4>2. QED
        BY <1>4, <1>8, <4>1
    <3>3. QED
      BY <3>1, <3>2
  <2>4. QED
    BY <2>2, <2>3
<1>12. CountOK(T)
  <2>1. SUFFICES ASSUME Clean(S)
                 PROVE  /\ T.active = Cardinality(Counted(T))
                        /\ T.started = IF T.active > 0 THEN 1 ELSE 0
                        /\ \A i \in DOMAIN T.calls :
                              T.calls[i].at # "send" /\ T.requests[T.calls[i].r].state = 2
                        /\ \A i, j \in DOMAIN T.calls : T.calls[i].r = T.calls[j].r => i = j
    BY <1>4, <1>8 DEF Clean, CountOK
  <2>2. /\ S.active = Cardinality(Counted(S))
        /\ S.started = IF S.active > 0 THEN 1 ELSE 0
        /\ \A i \in DOMAIN S.calls : S.calls[i].at # "send" /\ S.requests[S.calls[i].r].state = 2
        /\ \A i, j \in DOMAIN S.calls : S.calls[i].r = S.calls[j].r => i = j
    BY <1>1, <2>1 DEF Clean, CountOK
  <2>3. EndingIn(T) = EndingIn(S)
    BY <1>11 DEF EndingIn
  <2>4. Counted(T) = Counted(S)
    BY <1>4, <1>8, <2>3 DEF Counted
  <2>5. ASSUME NEW i \in DOMAIN T.calls
        PROVE  T.calls[i].at # "send" /\ T.requests[T.calls[i].r].state = 2
    BY <1>4, <1>8, <1>11, <2>2
  <2>6. \A i, j \in DOMAIN T.calls : T.calls[i].r = T.calls[j].r => i = j
    BY <1>11, <2>2
  <2>7. QED
    BY <1>4, <1>8, <2>2, <2>4, <2>5, <2>6
<1>13. ASSUME NEW i \in DOMAIN T.requests
       PROVE  Common(T.requests[i]) /\ Completes(T, i) /\ Rest(T.requests[i])
  <2>1. i \in DOMAIN S.requests /\ i \in DOMAIN P.requests /\ T.requests[i] = S.requests[i]
    BY <1>4, <1>8
  <2>2. Completes(T, i)
    BY <1>3, <1>9, <1>10, <2>1
  <2>3. QED
    BY <1>1, <2>1, <2>2
<1>14. Safe(T)
  BY <1>9, <1>12, <1>13 DEF Safe, SafeBut
<1>15. Goes(S, at) = T
  BY DEF Goes, T, P, r
<1>16. QED
  BY <1>4, <1>8, <1>14, <1>15

\* success or error is called, and complete is next.
LEMMA TellSafe ==
  ASSUME NEW S, Safe(S), S.calls # <<>>, Last(S.calls).at = "tell"
  PROVE  LET r == Last(S.calls).r IN Safe(Act(Goes(S, "complete"), r, S.requests[r].o.back))
<1> DEFINE r == Last(S.calls).r
           T == Goes(S, "complete")
<1>1. Safe(T) /\ T.requests = S.requests
  BY GoesSafe
<1>2. S \in NetRec /\ Typed(S) /\ \A i \in DOMAIN S.requests : S.requests[i] \in RequestRec
  BY SafeOpen
<1>3. r \in DOMAIN S.requests
  BY <1>2, PopFacts, LeftKeeps
<1>4. S.requests[r].o.back \in {"none", "abort", "begin", "throw"}
  BY <1>2, <1>3 DEF RequestRec, Options
<1> HIDE DEF T, r
<1>5. Safe(Act(T, r, S.requests[r].o.back))
  BY <1>1, <1>3, <1>4, ActSafe
<1>6. QED
  BY <1>5 DEF T, r

\* complete is called once, and the count is next.
LEMMA CompleteSafe ==
  ASSUME NEW S, Safe(S), S.calls # <<>>, Last(S.calls).at = "complete"
  PROVE  LET r == Last(S.calls).r
             q == S.requests[r]
         IN Safe(IF q.completes > 0 THEN Goes(S, "count")
                 ELSE Act(Goes(Update(S, r, [q EXCEPT !.completes = 1]), "count"), r, q.o.back))
<1> DEFINE r == Last(S.calls).r
           p == S.requests[r]
           q == [p EXCEPT !.completes = 1]
           U == Update(S, r, q)
           T == Goes(U, "count")
<1>1. /\ S \in NetRec /\ Typed(S) /\ Frames(S) /\ CountOK(S) /\ NamesOK(S)
      /\ \A i \in DOMAIN S.requests :
            /\ S.requests[i] \in RequestRec /\ Common(S.requests[i]) /\ Completes(S, i)
            /\ Rest(S.requests[i])
  BY SafeOpen
<1>2. Left(S, Pop(S))
  BY <1>1, PopFacts
<1>3. r \in DOMAIN S.requests
  BY <1>2, LeftKeeps
<1>4. p.o.back \in {"none", "abort", "begin", "throw"}
  BY <1>1, <1>3 DEF RequestRec, Options
<1>5. p.settled /\ p.installed
  BY <1>1, <1>2 DEF Frames, Left
<1>6. CASE p.completes > 0
  <2>1. Safe(Goes(S, "count"))
    BY <1>6, GoesSafe
  <2>2. QED
    BY <1>6, <2>1
<1>7. CASE ~(p.completes > 0)
  <2>1. /\ q \in RequestRec /\ q.completes = 1
        /\ q.o = p.o /\ q.types = p.types /\ q.fire = p.fire /\ q.jsonp = p.jsonp /\ q.name = p.name
        /\ q.previous = p.previous /\ q.installed = p.installed /\ SameEnd(p, q)
        /\ q.container = p.container /\ q.state = p.state /\ q.wire = p.wire
        /\ q.callback = p.callback /\ q.timer = p.timer /\ q.transport = p.transport
    <3>1. p \in RequestRec /\ 1 \in Nat /\ q = [p EXCEPT !.completes = 1]
      BY <1>1, <1>3
    <3> HIDE DEF p, r, q
    <3>2. q \in RequestRec
      BY ONLY <3>1 DEF RequestRec
    <3>3. QED
      BY ONLY <3>1, <3>2 DEF RequestRec, SameEnd
  <2> HIDE DEF q
  <2>2. OnlyAt(S, U, r) /\ U.requests[r] = q /\ U.window = S.window
    BY <1>1, <1>3, <2>1, UpdateFacts
  <2> HIDE DEF U
  <2>3. LikeOf(S, U) /\ \A i \in DOMAIN S.requests : i # r => U.requests[i] = S.requests[i]
    BY <2>2 DEF OnlyAt
  <2>4. /\ U \in NetRec /\ DOMAIN U.requests = DOMAIN S.requests /\ U.odd = S.odd /\ U.calls = S.calls
    BY <2>3 DEF LikeOf
  <2> HIDE DEF r, p
  <2>5. q.settled = p.settled /\ q.outcome = p.outcome /\ q.reached = p.reached
        /\ q.successes = p.successes /\ q.errors = p.errors
    BY <2>1 DEF SameEnd
  <2>6. Common(q) /\ Rest(q) /\ Completes(U, r)
    <3>1. Common(p) /\ Rest(p)
      BY <1>1, <1>3 DEF p
    <3>2. p.successes + p.errors = 1
      BY <1>5, <3>1 DEF Common
    <3>3. Common(q)
      BY <1>5, <2>1, <2>5, <3>1, <3>2 DEF Common
    <3>4. Rest(q)
      BY <2>1, <2>5, <3>1 DEF Rest
    <3>5. Completes(U, r)
      BY <2>1, <2>2 DEF Completes
    <3>6. QED
      BY <3>3, <3>4, <3>5
  <2>7. ASSUME NEW i \in DOMAIN S.requests
        PROVE  /\ i # r => SameReq(S.requests[i], U.requests[i]) /\ SameEnd(S.requests[i], U.requests[i])
               /\ i = r => /\ U.requests[i].installed = S.requests[i].installed
                           /\ S.requests[i].settled => U.requests[i].settled
    BY <2>1, <2>2, <2>3, <2>5 DEF SameReq, SameEnd, p
  <2>8. /\ Typed(U) /\ Frames(U)
        /\ \A i \in DOMAIN U.requests : i # r =>
              /\ Common(U.requests[i]) /\ Completes(U, i)
              /\ Rest(S.requests[i]) => Rest(U.requests[i])
    <3>1. \A i \in DOMAIN S.requests :
             /\ Common(S.requests[i]) /\ Completes(S, i)
             /\ i # r => SameReq(S.requests[i], U.requests[i]) /\ SameEnd(S.requests[i], U.requests[i])
             /\ i = r => /\ U.requests[i].installed = S.requests[i].installed
                         /\ S.requests[i].settled => U.requests[i].settled
      BY <1>1, <2>7
    <3>2. LikeOf(S, U) /\ Typed(S) /\ Frames(S)
      BY <1>1, <2>3
    <3>3. QED
      BY ONLY <3>1, <3>2, OthersKept
  <2>9. CountOK(U)
    <3>1. \A i \in DOMAIN S.requests :
             U.requests[i].fire = S.requests[i].fire /\ U.requests[i].state = S.requests[i].state
      BY <2>1, <2>2, <2>3 DEF p
    <3>2. QED
      BY <1>1, <2>3, <3>1, CountKept
  <2>10. NamesOK(U)
    <3>1. ASSUME NEW i \in DOMAIN S.requests
          PROVE  LET p0 == S.requests[i] q0 == U.requests[i]
                 IN /\ q0.jsonp = p0.jsonp /\ q0.name = p0.name /\ q0.previous = p0.previous
                    /\ SameEnd(p0, q0) /\ q0.container = p0.container
                    /\ q0.wire = "late" => p0.wire = "late" \/ ~p0.settled
      BY <2>1, <2>2, <2>3 DEF SameEnd, p
    <3>2. QED
      BY <1>1, <2>2, <2>3, <3>1, NamesKept
  <2>11. Safe(U)
    <3>1. \A i \in DOMAIN U.requests :
             Common(U.requests[i]) /\ Completes(U, i) /\ Rest(U.requests[i])
      BY <1>1, <2>2, <2>4, <2>6, <2>8
    <3>2. QED
      BY <2>8, <2>9, <2>10, <3>1 DEF Safe, SafeBut
  <2>12. U.calls # <<>> /\ Last(U.calls).at = "complete" /\ U.requests[Last(U.calls).r].completes > 0
    BY <2>1, <2>2, <2>4 DEF r
  <2>13. Safe(T) /\ T.requests = U.requests
    BY <2>11, <2>12, GoesSafe
  <2> HIDE DEF T
  <2>14. r \in DOMAIN T.requests
    BY <1>3, <2>4, <2>13
  <2>15. Safe(Act(T, r, p.o.back))
    BY <1>4, <2>13, <2>14, ActSafe
  <2>16. QED
    BY <1>7, <2>15 DEF T, U, q, p, r
<1>8. QED
  BY <1>6, <1>7

\* ajaxSend has been told, and the request is sent.
LEMMA SendOnSafe ==
  ASSUME NEW S, Safe(S), S.calls # <<>>, Last(S.calls).at = "send"
  PROVE  Safe(Send(Pop(S), Last(S.calls).r))
<1> DEFINE r == Last(S.calls).r
           T == Pop(S)
<1>1. /\ S \in NetRec /\ CountOK(S)
      /\ \A i \in DOMAIN S.requests : Common(S.requests[i]) /\ Rest(S.requests[i])
  BY SafeOpen
<1>2. Left(S, T)
  BY <1>1, PopFacts
<1> HIDE DEF T
<1>3. /\ Typed(T) /\ Frames(T) /\ NamesOK(T) /\ r \in DOMAIN S.requests
      /\ \A i \in DOMAIN S.requests : Completes(T, i)
  BY <1>2, LeftKeeps
<1>4. /\ T.requests = S.requests /\ T.odd = S.odd
      /\ Last(S.calls) = S.calls[Len(S.calls)] /\ Len(S.calls) \in DOMAIN S.calls
  BY <1>2 DEF Left
<1>5. ~Clean(S)
  BY <1>1, <1>4 DEF CountOK, Clean
<1>6. CountOK(T) /\ ~Clean(T)
  BY <1>4, <1>5 DEF CountOK, Clean
<1>7. Safe(T)
  BY <1>1, <1>3, <1>4, <1>6 DEF Safe, SafeBut
<1>8. r \in DOMAIN T.requests
  BY <1>3, <1>4
<1> HIDE DEF r
<1>9. Safe(Send(T, r))
  BY <1>6, <1>7, <1>8, SendSafe
<1>10. QED
  BY <1>9 DEF T, r

\* active is counted down when a request has been through its callbacks.
LEMMA CountDownSafe ==
  ASSUME NEW S, Safe(S), S.calls # <<>>, Last(S.calls).at = "count"
  PROVE  Safe(IF S.requests[Last(S.calls).r].fire
              THEN [Pop(S) EXCEPT !.active = @ - 1, !.started = IF S.active = 1 THEN @ - 1 ELSE @]
              ELSE Pop(S))
<1> DEFINE r == Last(S.calls).r
           p == S.requests[r]
           P == Pop(S)
           T == IF p.fire
                THEN [P EXCEPT !.active = @ - 1, !.started = IF S.active = 1 THEN @ - 1 ELSE @]
                ELSE P
<1>1. /\ S \in NetRec /\ Typed(S) /\ CountOK(S)
      /\ \A i \in DOMAIN S.requests : Common(S.requests[i]) /\ Rest(S.requests[i])
  BY SafeOpen
<1>2. Left(S, P)
  BY <1>1, PopFacts
<1> HIDE DEF P
<1>3. /\ Typed(P) /\ Frames(P) /\ NamesOK(P) /\ r \in DOMAIN S.requests
      /\ \A i \in DOMAIN S.requests : Completes(P, i)
  BY <1>2, LeftKeeps
<1>4. /\ P \in NetRec /\ P.requests = S.requests /\ P.window = S.window
      /\ P.active = S.active /\ P.started = S.started /\ P.odd = S.odd
      /\ Len(S.calls) \in Nat \ {0} /\ DOMAIN S.calls = 1..Len(S.calls)
      /\ DOMAIN P.calls = 1..(Len(S.calls) - 1)
      /\ \A i \in DOMAIN P.calls : P.calls[i] = S.calls[i]
      /\ Last(S.calls) = S.calls[Len(S.calls)] /\ Len(S.calls) \in DOMAIN S.calls
  BY <1>2 DEF Left
<1>5. S.active \in Int /\ S.started \in Int
  BY <1>1 DEF NetRec
<1>6. /\ T \in NetRec /\ T.requests = P.requests /\ T.window = P.window /\ T.odd = P.odd
      /\ T.calls = P.calls
      /\ p.fire => T.active = S.active - 1 /\ T.started = IF S.active = 1 THEN S.started - 1 ELSE S.started
      /\ ~p.fire => T.active = S.active /\ T.started = S.started
  <2>1. CASE p.fire
    <3>1. PICK s \in Int : s = IF S.active = 1 THEN S.started - 1 ELSE S.started
      BY <1>5
    <3>2. T = [P EXCEPT !.active = S.active - 1, !.started = s]
      BY <1>4, <2>1, <3>1
    <3>3. S.active - 1 \in Int
      BY <1>5
    <3> HIDE DEF T
    <3>4. T \in NetRec
      BY <1>4, <3>2, <3>3 DEF NetRec
    <3>5. QED
      BY <1>4, <2>1, <3>1, <3>2, <3>4 DEF NetRec
  <2>2. CASE ~p.fire
    BY <1>4, <2>2
  <2>3. QED
    BY <2>1, <2>2
<1> HIDE DEF T
<1>7. Typed(T) /\ Frames(T)
  BY <1>3, <1>6 DEF Typed, Frames
<1>8. NamesOK(T)
  <2>1. WindowOK(P) => WindowOK(T)
    BY <1>6 DEF WindowOK
  <2>2. \A i : OwnWindow(P, i) => OwnWindow(T, i)
    BY <1>6 DEF OwnWindow
  <2>3. QED
    BY <1>3, <1>6, <2>1, <2>2 DEF NamesOK
<1>9. \A i \in DOMAIN S.requests : Completes(T, i)
  BY <1>3, <1>6 DEF Completes
<1>10. CountOK(T)
  <2>1. SUFFICES ASSUME Clean(S)
                 PROVE  /\ T.active = Cardinality(Counted(T))
                        /\ T.started = IF T.active > 0 THEN 1 ELSE 0
                        /\ \A i \in DOMAIN T.calls :
                              T.calls[i].at # "send" /\ T.requests[T.calls[i].r].state = 2
                        /\ \A i, j \in DOMAIN T.calls : T.calls[i].r = T.calls[j].r => i = j
    BY <1>4, <1>6 DEF Clean, CountOK
  <2>2. /\ S.active = Cardinality(Counted(S))
        /\ S.started = IF S.active > 0 THEN 1 ELSE 0
        /\ \A i \in DOMAIN S.calls : S.calls[i].at # "send" /\ S.requests[S.calls[i].r].state = 2
        /\ \A i, j \in DOMAIN S.calls : S.calls[i].r = S.calls[j].r => i = j
    BY <1>1, <2>1 DEF Clean, CountOK
  <2>3. \A i \in DOMAIN S.calls : i \in DOMAIN T.calls \/ i = Len(S.calls)
    BY <1>4, <1>6
  <2>4. \A i \in DOMAIN T.calls : i \in DOMAIN S.calls /\ i # Len(S.calls) /\ T.calls[i] = S.calls[i]
    BY <1>4, <1>6
  <2>5. r = S.calls[Len(S.calls)].r /\ Len(S.calls) \in DOMAIN S.calls
    BY <1>4
  <2> HIDE DEF r
  <2>6. EndingIn(S) = EndingIn(T) \cup {r} /\ r \notin EndingIn(T)
    <3>1. r \notin EndingIn(T)
      BY <2>2, <2>4, <2>5 DEF EndingIn
    <3>2. EndingIn(T) \cup {r} \subseteq EndingIn(S)
      BY <2>4, <2>5 DEF EndingIn
    <3>3. EndingIn(S) \subseteq EndingIn(T) \cup {r}
      <4>1. ASSUME NEW i \in DOMAIN S.calls PROVE S.calls[i].r \in EndingIn(T) \cup {r}
        BY <2>3, <2>4, <2>5 DEF EndingIn
      <4>2. QED
        BY <4>1 DEF EndingIn
    <3>4. QED
      BY <3>1, <3>2, <3>3
  <2>7. p.state = 2
    BY <2>2, <2>5
  <2>8. T.requests = S.requests
    BY <1>4, <1>6
  <2>9. \A i \in DOMAIN T.calls : T.calls[i].at # "send" /\ T.requests[T.calls[i].r].state = 2
    BY <2>2, <2>4, <2>8
  <2>10. \A i, j \in DOMAIN T.calls : T.calls[i].r = T.calls[j].r => i = j
    BY <2>2, <2>4
  <2>11. CASE ~p.fire
    <3>1. Counted(T) = Counted(S)
      BY <2>6, <2>8, <2>11 DEF Counted
    <3>2. QED
      BY <1>6, <2>2, <2>9, <2>10, <2>11, <3>1
  <2>12. CASE p.fire
    <3>1. Counted(T) = Counted(S) \ {r}
      BY <2>6, <2>7, <2>8 DEF Counted
    <3>2. r \in Counted(S)
      BY <1>3, <2>6, <2>12 DEF Counted
    <3>3. IsFiniteSet(Counted(S)) /\ Cardinality(Counted(S)) \in Nat
      BY <1>1, CountedFinite
    <3>4. /\ Cardinality(Counted(T)) = Cardinality(Counted(S)) - 1
          /\ Cardinality(Counted(T)) \in Nat
      <4>1. IsFiniteSet(Counted(T))
        BY <3>1, <3>3, FS_Subset
      <4>2. Cardinality(Counted(T)) \in Nat
        BY <4>1, FS_CardinalityType
      <4>3. Cardinality(Counted(S) \ {r}) = Cardinality(Counted(S)) - 1
        BY <3>2, <3>3, FS_RemoveElement
      <4>4. QED
        BY <3>1, <4>2, <4>3
    <3>5. T.active = Cardinality(Counted(T)) /\ T.started = IF T.active > 0 THEN 1 ELSE 0
      BY <1>5, <1>6, <2>2, <2>12, <3>3, <3>4
    <3>6. QED
      BY <2>9, <2>10, <3>5
  <2>13. QED
    BY <2>11, <2>12
<1>11. Safe(T)
  <2>1. \A i \in DOMAIN T.requests : Common(T.requests[i]) /\ Completes(T, i) /\ Rest(T.requests[i])
    BY <1>1, <1>4, <1>6, <1>9
  <2>2. QED
    BY <1>7, <1>8, <1>10, <2>1 DEF Safe, SafeBut
<1>12. QED
  BY <1>11 DEF T, P, p, r

-----------------------------------------------------------------------------
(* The specification.                                                       *)

\* A page is safe between two steps of jquery.ajax.
AjaxSafe == Safe(net)

\* The invariant holds of a page without requests.
LEMMA AjaxStarts ==
  ASSUME AjaxInit
  PROVE  AjaxSafe
<1>1. PICK f \in {NoFn, PageFn} :
        net = [requests |-> <<>>, active |-> 0, started |-> 0, odd |-> {}, calls |-> <<>>,
               window |-> [n \in Names |-> IF n = PageName THEN f ELSE NoFn]]
  BY DEF AjaxInit
<1>2. f \in -1..MaxRequests /\ 0 \in -1..MaxRequests /\ f <= 0 /\ NoFn = 0
  BY AjaxAssumption DEF NoFn, PageFn
<1>3. /\ net.requests = <<>> /\ net.active = 0 /\ net.started = 0 /\ net.odd = {} /\ net.calls = <<>>
      /\ net.window = [n \in Names |-> IF n = PageName THEN f ELSE NoFn]
  BY <1>1
<1>4. /\ net.window \in [Names -> -1..MaxRequests]
      /\ \A n \in Names : net.window[n] <= 0
  BY <1>2, <1>3
<1>5. <<>> \in Seq(RequestRec) /\ <<>> \in Seq(CallRec) /\ Len(<<>>) = 0
  BY EmptySeq
<1>6. net \in NetRec
  BY <1>1, <1>3, <1>4, <1>5 DEF NetRec
<1>7. DOMAIN net.requests = {} /\ DOMAIN net.calls = {}
  BY <1>3
<1>8. Typed(net) /\ Frames(net)
  BY <1>3, <1>5, <1>6, <1>7, AjaxAssumption DEF Typed, Frames
<1>9. NamesOK(net)
  <2>1. ASSUME NEW n \in Names PROVE ~(net.window[n] > 0)
    BY <1>4, AjaxAssumption
  <2>2. QED
    BY <1>7, <2>1 DEF NamesOK, WindowOK
<1>10. CountOK(net)
  <2>1. Counted(net) = {}
    BY <1>7 DEF Counted
  <2>2. Cardinality(Counted(net)) = 0
    BY <2>1, FS_EmptySet
  <2>3. QED
    BY <1>3, <1>7, <2>2 DEF CountOK
<1>11. QED
  BY <1>7, <1>8, <1>9, <1>10 DEF AjaxSafe, Safe, SafeBut

\* Each action keeps the invariant.
LEMMA AjaxSteps ==
  ASSUME AjaxSafe, AjaxNext
  PROVE  AjaxSafe'
<1>1. Safe(net) /\ DOMAIN net.requests \subseteq Nat /\ Sent \subseteq DOMAIN net.requests
  <2>1. Safe(net) /\ net \in NetRec
    BY SafeOpen DEF AjaxSafe
  <2>2. QED
    BY <2>1, RequestsOf DEF Sent
<1>2. SUFFICES Safe(net')
  BY DEF AjaxSafe
<1>3. Inner \in Options /\ Requests \subseteq Options /\ Fine \in Reply
  BY AjaxAssumption DEF Fine, Reply, Answers
<1>4. CASE Ajax
  <2>1. PICK o \in Requests, sync \in Reply : net' = AjaxWith(net, o, sync)
    BY <1>3, <1>4 DEF Ajax
  <2>2. o \in Options /\ sync \in Reply /\ Len(net.requests) < MaxRequests
    BY <1>3, <1>4, <2>1 DEF Ajax
  <2>3. QED
    BY <1>1, <2>1, <2>2, AjaxWithSafe
<1>5. CASE ServerAnswers
  <2>1. PICK r \in Sent, a \in Reply : net' = XhrAnswer(net, r, a.status, a.answer)
    BY <1>5 DEF ServerAnswers
  <2>2. r \in DOMAIN net.requests /\ net.requests[r].wire = "sent"
    BY <2>1 DEF Sent
  <2>3. QED
    BY <1>1, <2>1, <2>2, XhrAnswerSafe
<1>6. CASE CrossScript
  <2>1. PICK r \in Sent :
          net' = Done(Update(RunJsonp(net, r), r, Answered(RunJsonp(net, r).requests[r])),
                      r, 200, "success", NoAnswer)
    BY <1>6 DEF CrossScript
  <2>2. r \in DOMAIN net.requests /\ net.requests[r].wire = "sent"
    BY <2>1 DEF Sent
  <2>3. QED
    BY <1>1, <2>1, <2>2, CrossScriptSafe
<1>7. CASE LateScript
  <2>1. PICK r \in DOMAIN net.requests :
          /\ net.requests[r].wire = "late"
          /\ net' = RunJsonp(Update(net, r, [net.requests[r] EXCEPT !.wire = "none"]), r)
    BY <1>7 DEF LateScript
  <2>2. QED
    BY <1>1, <2>1, LateScriptSafe
<1>8. CASE Timeout
  <2>1. PICK r \in DOMAIN net.requests : net' = Abort(net, r, "timeout")
    BY <1>8 DEF Timeout
  <2>2. QED
    BY <1>1, <2>1, AbortSafe
<1>9. CASE UserAbort
  <2>1. PICK r \in DOMAIN net.requests : net' = Abort(net, r, "abort")
    BY <1>1, <1>9 DEF UserAbort
  <2>2. QED
    BY <1>1, <2>1, AbortSafe
<1>10. CASE Tell
  BY <1>1, <1>10, TellSafe DEF Tell, At
<1>11. CASE Complete
  BY <1>1, <1>11, CompleteSafe DEF Complete, At
<1>12. CASE CountDown
  BY <1>1, <1>12, CountDownSafe DEF CountDown, At
<1>13. CASE SendOn
  BY <1>1, <1>13, SendOnSafe DEF SendOn, At
<1>14. QED
  BY <1>4, <1>5, <1>6, <1>7, <1>8, <1>9, <1>10, <1>11, <1>12, <1>13 DEF AjaxNext

\* What a safe page shows.
LEMMA SafeSound ==
  ASSUME AjaxSafe
  PROVE  RequestsSound
<1>1. /\ net \in NetRec /\ Len(net.requests) <= MaxRequests
      /\ Typed(net) /\ Frames(net) /\ CountOK(net) /\ NamesOK(net)
      /\ \A r \in DOMAIN net.requests :
            /\ net.requests[r] \in RequestRec /\ Common(net.requests[r]) /\ Completes(net, r)
            /\ Rest(net.requests[r])
  BY SafeOpen DEF AjaxSafe
<1>2. AjaxTypeOK
  BY <1>1 DEF Typed, AjaxTypeOK
<1>3. ActiveCounts
  BY <1>1 DEF CountOK, Counted, EndingIn, Ending, ActiveCounts
<1>4. ASSUME NEW r \in DOMAIN net.requests
      PROVE  LET q == net.requests[r]
             IN /\ q.successes + q.errors + (IF q.installed THEN 0 ELSE 1) <= 1
                /\ q.completes <= q.successes + q.errors
                /\ q.state = 2 /\ "thrown" \notin net.odd /\ r \notin Ending =>
                      q.successes + q.errors = q.completes
                /\ q.state = 2 => ~q.timer /\ q.transport = "none" /\ ~q.callback
                /\ q.state = 1 => q.wire = "sent" /\ q.callback
                /\ (q.state = 2) <=> q.settled
  <2> DEFINE q == net.requests[r]
  <2>1. Common(q) /\ Completes(net, r) /\ Rest(q)
    BY <1>1
  <2>2. q.state \in 0..2 /\ q.completes \in Nat /\ q.successes \in Nat /\ q.errors \in Nat
    BY <1>1 DEF RequestRec
  <2> HIDE DEF q
  <2>3. /\ q.successes + q.errors = IF q.settled /\ q.installed THEN 1 ELSE 0
        /\ q.completes <= q.successes + q.errors
    BY <2>1 DEF Common
  <2>4. /\ q.state = 2 => ~q.timer /\ q.transport = "none" /\ ~q.callback
        /\ q.state = 1 => q.wire = "sent" /\ q.callback
        /\ (q.state = 2) <=> q.settled
    BY <2>1, <2>2 DEF Rest
  <2>5. q.state = 2 /\ "thrown" \notin net.odd /\ r \notin Ending =>
           q.successes + q.errors = q.completes
    <3>1. SUFFICES ASSUME q.settled, "thrown" \notin net.odd, r \notin Ending
                   PROVE  q.successes + q.errors = q.completes
      BY <2>4
    <3>2. q.installed => q.completes # 0
      BY <2>1, <3>1 DEF Completes, Ending, q
    <3>3. QED
      BY <2>2, <2>3, <3>1, <3>2
  <2>6. q.successes + q.errors + (IF q.installed THEN 0 ELSE 1) <= 1
    BY <2>2, <2>3
  <2>7. QED
    BY <2>3, <2>4, <2>5, <2>6 DEF q
<1>5. OneOutcome
  BY <1>4 DEF OneOutcome
<1>6. OwnAnswer
  BY <1>1 DEF OwnAnswer, NamesOK, OwnWindow
<1>7. WindowClean
  <2>1. SUFFICES ASSUME "name shared" \notin net.odd, NEW n \in Names,
                        net.window[n] \in DOMAIN net.requests
                 PROVE  net.requests[net.window[n]].state < 2
    BY DEF WindowClean
  <2>2. net.window[n] > 0
    <3>1. \A i \in DOMAIN net.requests : i > 0
      BY <1>1, RequestsOf
    <3>2. QED
      BY <2>1, <3>1
  <2>3. ~net.requests[net.window[n]].settled
    BY <1>1, <2>1, <2>2 DEF NamesOK, WindowOK
  <2>4. \A i \in DOMAIN net.requests : ~net.requests[i].settled => net.requests[i].state < 2
    <3>1. ASSUME NEW i \in DOMAIN net.requests, ~net.requests[i].settled
          PROVE  net.requests[i].state < 2
      <4>1. net.requests[i].state \in 0..2
        BY <1>1 DEF RequestRec
      <4>2. net.requests[i].state # 2
        BY <1>1, <3>1 DEF Rest
      <4>3. QED
        BY <4>1, <4>2
    <3>2. QED
      BY <3>1
  <2>5. QED
    BY <2>1, <2>3, <2>4
<1>8. TypeReached
  BY <1>1 DEF TypeReached, Common
<1>9. QED
  BY <1>2, <1>3, <1>5, <1>6, <1>7, <1>8 DEF RequestsSound

\* The inductive invariant: between two steps a request is not sent, sent or
\* settled; what done has still to call is kept; active counts the requests
\* under way; and window has the callbacks of the requests that are not settled.
THEOREM AjaxAlwaysSafe == AjaxSpec => []AjaxSafe
<1>1. AjaxInit => AjaxSafe
  BY AjaxStarts
<1>2. AjaxSafe /\ [AjaxNext]_net => AjaxSafe'
  <2>1. ASSUME AjaxSafe, UNCHANGED net PROVE AjaxSafe'
    BY <2>1 DEF AjaxSafe
  <2>2. QED
    BY <2>1, AjaxSteps
<1>3. QED
  BY <1>1, <1>2, PTL DEF AjaxSpec

\* Every request ends once, with one outcome and one complete, with its own
\* answer in the type asked for, and leaves active and window as it found them.
THEOREM AjaxAlwaysSound == AjaxSpec => []RequestsSound
<1>1. AjaxSafe => RequestsSound
  BY SafeSound
<1>2. QED
  BY <1>1, AjaxAlwaysSafe, PTL
=============================================================================
