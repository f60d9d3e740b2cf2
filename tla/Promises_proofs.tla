-------------------------- MODULE Promises_proofs ---------------------------
(***************************************************************************)
(* Proofs about the lists and deferreds of a page.  The module of the      *)
(* deferreds and that of its proofs are both used for the lists of this    *)
(* page, as D and as DP; so the first lemmas say that the two say the same,*)
(* and then what is proved of any deferreds is so of these.                *)
(*                                                                         *)
(* The lists that a page uses alone may have any flags, and are changed    *)
(* while they fire.  Their invariant (Well) says for each list how far its *)
(* loop has come: the functions that are due are the rest of the list, and *)
(* for the flag once no function was called and is still ahead more often  *)
(* than it was added.  remove is what is hard to follow there: it takes    *)
(* elements out on both sides of the loop, so the lemmas about it count    *)
(* with the rank of an element among those that are left.                  *)
(***************************************************************************)
EXTENDS Promises, SequenceTheorems, FiniteSetTheorems, WellFoundedInduction, TLAPS

DP == INSTANCE Deferred_proofs WITH
        Lists <- DeferredLists,
        Flags <- [l \in DeferredLists |->
                     IF l[2] = "progress" THEN {"memory"} ELSE {"once", "memory"}],
        Fn <- {CHOOSE f \in Fn : TRUE}, Part <- Promised, All <- "when", Piped <- "pipe",
        Source <- (CHOOSE d \in Promised : TRUE), MaxCalls <- Limit["deferreds"]

-----------------------------------------------------------------------------
(* The two instances say the same.                                          *)

\* Of the initial states.
LEMMA SameInit ==
  /\ D!DefInit <=> DP!DefInit
<1>1. D!DefInit <=> DP!DefInit
  BY DEF D!DefInit, DP!DefInit, D!NewList, DP!NewList, D!NewDeferred, DP!NewDeferred,
      D!Deferreds, DP!Deferreds, D!Undefined, DP!Undefined, D!Settle, DP!Settle, D!DisableList,
      DP!DisableList, D!LockList, DP!LockList
<1>2. QED
  BY <1>1

\* Of the steps of the lists and of the program.
LEMMA SameListSteps ==
  /\ D!CallNext <=> DP!CallNext
  /\ D!Finish <=> DP!Finish
  /\ D!UserAdd <=> DP!UserAdd
  /\ D!UserFire <=> DP!UserFire
  /\ D!UserReturn <=> DP!UserReturn
<1>1. D!CallNext <=> DP!CallNext
  BY DEF D!CallNext, DP!CallNext, D!Top, DP!Top, D!Looping, DP!Looping, D!More, DP!More,
      D!InFrames, DP!InFrames, D!NoEntry, DP!NoEntry
<1>2. D!Finish <=> DP!Finish
  BY DEF D!Finish, DP!Finish, D!Top, DP!Top, D!Looping, DP!Looping, D!More, DP!More, D!Frame,
      DP!Frame, D!Rest, DP!Rest, D!FireList, DP!FireList, D!Halted, DP!Halted, D!Disable,
      DP!Disable, D!NoEntry, DP!NoEntry, D!Front, DP!Front, D!Begins, DP!Begins, D!StartFire,
      DP!StartFire, D!Undefined, DP!Undefined
<1>3. D!UserAdd <=> DP!UserAdd
  BY DEF D!UserAdd, DP!UserAdd, D!Program, DP!Program, D!Made, DP!Made, D!CallAdd, DP!CallAdd,
      D!User, DP!User, D!InProgram, DP!InProgram, D!Apply, DP!Apply, D!AddTo, DP!AddTo,
      D!FiresAtOnce, DP!FiresAtOnce, D!Top, DP!Top, D!Frame, DP!Frame, D!Extended, DP!Extended,
      D!StartFire, DP!StartFire, D!HasValue, DP!HasValue, D!NoEntry, DP!NoEntry, D!Has, DP!Has,
      D!Halted, DP!Halted, D!Undefined, DP!Undefined, D!ToSet, DP!ToSet
<1>4. D!UserFire <=> DP!UserFire
  BY DEF D!UserFire, DP!UserFire, D!Program, DP!Program, D!CallFire, DP!CallFire, D!InProgram,
      DP!InProgram, D!Apply, DP!Apply, D!FireList, DP!FireList, D!Begins, DP!Begins, D!Top,
      DP!Top, D!Frame, DP!Frame, D!StartFire, DP!StartFire, D!Undefined, DP!Undefined, D!NoEntry,
      DP!NoEntry, D!Halted, DP!Halted
<1>5. D!UserReturn <=> DP!UserReturn
  BY DEF D!UserReturn, DP!UserReturn, D!Return, DP!Return, D!Top, DP!Top, D!Calling,
      DP!Calling, D!Back, DP!Back, D!NoEntry, DP!NoEntry
<1>6. QED
  BY <1>1, <1>2, <1>3, <1>4, <1>5

\* Of the steps of jQuery's own functions.
LEMMA SameOwnSteps ==
  /\ D!AddTodo <=> DP!AddTodo
  /\ D!When <=> DP!When
  /\ D!Pipe <=> DP!Pipe
  /\ D!RunOwn <=> DP!RunOwn
<1>1. D!AddTodo <=> DP!AddTodo
  BY DEF D!AddTodo, DP!AddTodo, D!Idle, DP!Idle, D!CallAdd, DP!CallAdd, D!Apply, DP!Apply,
      D!AddTo, DP!AddTo, D!FiresAtOnce, DP!FiresAtOnce, D!Frame, DP!Frame, D!Extended,
      DP!Extended, D!StartFire, DP!StartFire, D!HasValue, DP!HasValue, D!NoEntry, DP!NoEntry,
      D!Has, DP!Has, D!Halted, DP!Halted, D!Undefined, DP!Undefined, D!ToSet, DP!ToSet
<1>2. D!When <=> DP!When
  BY DEF D!When, DP!When, D!Call, DP!Call, D!Cardinality, DP!Cardinality, D!AddsOfWhen,
      DP!AddsOfWhen, D!IsFiniteSet, DP!IsFiniteSet, D!ThenOfWhen, DP!ThenOfWhen, D!Argument,
      DP!Argument, D!Then, DP!Then, D!PartDone, DP!PartDone, D!Forward, DP!Forward, D!SetToSeq,
      DP!SetToSeq, D!Adds, DP!Adds, D!IsInjective, DP!IsInjective
<1>3. D!Pipe <=> DP!Pipe
  BY DEF D!Pipe, DP!Pipe, D!Call, DP!Call, D!Then, DP!Then, D!Filter, DP!Filter, D!Forward,
      DP!Forward, D!Adds, DP!Adds
<1>4. D!RunOwn <=> DP!RunOwn
  BY DEF D!RunOwn, DP!RunOwn, D!Top, DP!Top, D!FireList, DP!FireList, D!Begins, DP!Begins,
      D!Back, DP!Back, D!Frame, DP!Frame, D!Calling, DP!Calling, D!Idle, DP!Idle, D!Disable,
      DP!Disable, D!Lock, DP!Lock, D!ForwardAll, DP!ForwardAll, D!StartFire, DP!StartFire,
      D!Undefined, DP!Undefined, D!NoEntry, DP!NoEntry, D!HasValue, DP!HasValue, D!Then, DP!Then,
      D!Forward, DP!Forward, D!Halted, DP!Halted, D!Adds, DP!Adds
<1>5. QED
  BY <1>1, <1>2, <1>3, <1>4

\* And so of every step.
LEMMA SameNext == D!DefNext <=> DP!DefNext
<1>1. D!Idle <=> DP!Idle
  BY DEF D!Idle, DP!Idle
<1>2. QED
  BY <1>1, SameListSteps, SameOwnSteps DEF D!DefNext, DP!DefNext

\* Of what the properties say of a state.
LEMMA SameStates ==
  /\ D!DefTypeOK <=> DP!DefTypeOK
  /\ D!CallsDue <=> DP!CallsDue
  /\ D!FiringEnds <=> DP!FiringEnds
  /\ D!HandlersRun <=> DP!HandlersRun
  /\ D!WhenJoins <=> DP!WhenJoins
  /\ D!PipeFollows <=> DP!PipeFollows
<1>1. D!DefTypeOK <=> DP!DefTypeOK
  BY DEF D!DefTypeOK, DP!DefTypeOK, D!Deferreds, DP!Deferreds, D!Cardinality, DP!Cardinality,
      D!IsFiniteSet, DP!IsFiniteSet
<1>2. D!CallsDue <=> DP!CallsDue
  BY DEF D!CallsDue, DP!CallsDue, D!NoEntry, DP!NoEntry, D!InLoop, DP!InLoop
<1>3. D!FiringEnds <=> DP!FiringEnds
  BY DEF D!FiringEnds, DP!FiringEnds, D!InFrames, DP!InFrames, D!Cardinality, DP!Cardinality,
      D!IsFiniteSet, DP!IsFiniteSet
<1>4. D!HandlersRun <=> DP!HandlersRun
  BY DEF D!HandlersRun, DP!HandlersRun, D!Deferreds, DP!Deferreds, D!UserCalled,
      DP!UserCalled, D!Quiet, DP!Quiet, D!Called, DP!Called
<1>5. D!WhenJoins <=> DP!WhenJoins
  BY DEF D!WhenJoins, DP!WhenJoins, D!Quiet, DP!Quiet
<1>6. D!PipeFollows <=> DP!PipeFollows
  BY DEF D!PipeFollows, DP!PipeFollows, D!Quiet, DP!Quiet
<1>7. QED
  BY <1>1, <1>2, <1>3, <1>4, <1>5, <1>6

\* Of what they say of a step.
LEMMA SameOnce ==
  /\ D!SettledOnce <=> DP!SettledOnce
  /\ D!LateProgress <=> DP!LateProgress
<1>1. D!SettledOnce <=> DP!SettledOnce
  BY DEF D!SettledOnce, DP!SettledOnce, D!Deferreds, DP!Deferreds
<1>2. D!LateProgress <=> DP!LateProgress
  BY DEF D!LateProgress, DP!LateProgress, D!Deferreds, DP!Deferreds
<1>3. QED
  BY <1>1, <1>2

-----------------------------------------------------------------------------
(* The deferreds.                                                           *)

\* The constants of the page are some that the proofs about deferreds allow.
LEMMA PageConstants == DP!DeferredConstants
<1>1. (CHOOSE d \in Promised : TRUE) \in Promised
  BY PromisesAssumption
<1>2. QED
  BY <1>1, PromisesAssumption DEF DP!DeferredConstants, DP!Deferreds, DP!Kinds,
      DP!DeferredFlags, DP!IsFiniteSet, IsFiniteSet, DeferredLists, ListsOf

\* The invariant of the deferreds, when they are what is run.
DeferredsSafe == Runs("deferreds") => DP!DefSafe

\* What is proved of the deferreds holds at first, when they are run.
LEMMA DeferredsInit == PromisesInit => DeferredsSafe
BY SameInit, PageConstants, DP!DefSafeInit DEF PromisesInit, DeferredsSafe, Runs

\* A step keeps it and settles no settled deferred.
LEMMA DeferredsKept ==
  ASSUME DeferredsSafe, [ListsStep \/ DeferredsStep]_promiseVars
  PROVE  DeferredsSafe' /\ (Runs("deferreds") => D!SettledOnce /\ D!LateProgress)
<1>1. CASE ~Runs("deferreds")
  <2>1. part' = part
    BY <1>1 DEF ListsStep, DeferredsStep, promiseVars
  <2>2. QED
    BY <1>1, <2>1 DEF DeferredsSafe, Runs
<1>2. CASE Runs("deferreds")
  <2>1. DP!DefSafe
    BY <1>2 DEF DeferredsSafe
  <2>2. [D!DefNext]_<<lists, frames, calls, state, count, todo>>
    BY <1>2 DEF ListsStep, DeferredsStep, Runs, promiseVars, listVars, defOnly
  <2>3. [DP!DefNext]_DP!defVars
    BY <2>2, SameNext DEF DP!defVars
  <2>4. DP!DefSafe' /\ DP!SettledOnce /\ DP!LateProgress
    BY <2>1, <2>3, PageConstants, DP!DefSafeStep
  <2>5. QED
    BY <2>4, SameOnce DEF DeferredsSafe
<1>3. QED
  BY <1>1, <1>2

\* Throughout every behaviour of a page.
THEOREM DeferredsAlwaysSafe == PromisesSpec => []DeferredsSafe
<1>1. PromisesInit => DeferredsSafe
  BY DeferredsInit
<1>2. DeferredsSafe /\ [ListsStep \/ DeferredsStep]_promiseVars => DeferredsSafe'
  BY DeferredsKept
<1>3. QED
  BY <1>1, <1>2, PTL DEF PromisesSpec

\* No step of a page settles a deferred again, or lets a settled one tell of
\* progress.
THEOREM PromisesSettleOnce == PromisesSpec => DeferredSteps
<1>1. DeferredsSafe /\ [ListsStep \/ DeferredsStep]_promiseVars
         => [Runs("deferreds") => D!SettledOnce /\ D!LateProgress]_promiseVars
  BY DeferredsKept
<1>2. QED
  BY <1>1, DeferredsAlwaysSafe, PTL DEF PromisesSpec, DeferredSteps

\* What the properties say of the deferreds of a page holds in every state.
DeferredsSound ==
    Runs("deferreds") =>
       D!DefTypeOK /\ D!CallsDue /\ D!FiringEnds /\ D!HandlersRun /\ D!WhenJoins /\ D!PipeFollows

\* In every state of a page each deferred calls what it must, and when and pipe
\* follow their parts.
THEOREM PromisesDeferreds == PromisesSpec => []DeferredsSound
<1>1. DeferredsSafe => DeferredsSound
  BY PageConstants, DP!DefSafeShows, SameStates DEF DeferredsSafe, DeferredsSound
<1>2. QED
  BY <1>1, DeferredsAlwaysSafe, PTL

-----------------------------------------------------------------------------
(* How often a function is in a sequence.                                   *)

\* How often e is in s after the first k elements, and in all of s.
Places(s, k, e) == {i \in DOMAIN s : i > k /\ s[i] = e}
Ahead(s, k, e) == Cardinality(Places(s, k, e))
Times(s, e) == Ahead(s, 0, e)
One(x, e) == IF x = e THEN 1 ELSE 0

\* These are numbers, and no more after more elements.
LEMMA AheadTyped ==
  ASSUME NEW S, NEW s \in Seq(S), NEW k \in Int, NEW e
  PROVE  /\ IsFiniteSet(Places(s, k, e)) /\ Ahead(s, k, e) \in Nat
         /\ \A j \in Int : j <= k => Ahead(s, k, e) <= Ahead(s, j, e)
<1>1. Len(s) \in Nat /\ DOMAIN s = 1..Len(s)
  OBVIOUS
<1>2. IsFiniteSet(DOMAIN s)
  BY <1>1, FS_Interval
<1>3. \A j : Places(s, j, e) \subseteq DOMAIN s
  BY DEF Places
<1>4. \A j : IsFiniteSet(Places(s, j, e))
  BY <1>2, <1>3, FS_Subset
<1>5. Ahead(s, k, e) \in Nat
  BY <1>4, FS_CardinalityType DEF Ahead
<1>6. ASSUME NEW j \in Int, j <= k PROVE Ahead(s, k, e) <= Ahead(s, j, e)
  <2>1. Places(s, k, e) \subseteq Places(s, j, e)
    BY <1>1, <1>6 DEF Places
  <2>2. QED
    BY <1>4, <2>1, FS_Subset DEF Ahead
<1>7. QED
  BY <1>4, <1>5, <1>6

\* An element that is added at the end.
LEMMA AheadAppend ==
  ASSUME NEW S, NEW s \in Seq(S), NEW k \in Int, NEW e, NEW x \in S
  PROVE  /\ Ahead(Append(s, x), k, e) <= Ahead(s, k, e) + One(x, e)
         /\ k <= Len(s) => Ahead(Append(s, x), k, e) = Ahead(s, k, e) + One(x, e)
<1> DEFINE t == Append(s, x)
           n == Len(s) + 1
<1>1. /\ t \in Seq(S) /\ Len(s) \in Nat /\ DOMAIN s = 1..Len(s) /\ DOMAIN t = 1..n
      /\ t[n] = x /\ n \notin DOMAIN s
  OBVIOUS
<1>2. \A i \in DOMAIN s : i \in DOMAIN t /\ t[i] = s[i]
  OBVIOUS
<1>3. \A i \in DOMAIN t : i = n \/ i \in DOMAIN s
  BY <1>1
<1> HIDE DEF t
<1>4. n \in Int
  BY <1>1
<1>5. n \in DOMAIN t
  BY <1>1
<1> HIDE DEF n
<1>6. CASE n > k /\ x = e
  <2>1. Places(t, k, e) = Places(s, k, e) \cup {n}
    BY <1>1, <1>2, <1>3, <1>5, <1>6 DEF Places
  <2>2. n \notin Places(s, k, e)
    BY <1>1 DEF Places
  <2>3. Cardinality(Places(t, k, e)) = Cardinality(Places(s, k, e)) + 1
    BY <2>1, <2>2, AheadTyped, FS_AddElement
  <2>4. One(x, e) = 1
    BY <1>6 DEF One
  <2>5. Ahead(t, k, e) = Ahead(s, k, e) + 1
    BY <2>3 DEF Ahead
  <2>6. Ahead(s, k, e) \in Nat
    BY AheadTyped
  <2>7. QED
    BY <2>4, <2>5, <2>6 DEF t
<1>7. CASE ~(n > k /\ x = e)
  <2>1. Places(t, k, e) = Places(s, k, e)
    BY <1>1, <1>2, <1>3, <1>7 DEF Places
  <2>2. Ahead(t, k, e) = Ahead(s, k, e) /\ Ahead(s, k, e) \in Nat
    BY <2>1, AheadTyped DEF Ahead
  <2>3. One(x, e) \in {0, 1}
    BY DEF One
  <2>4. k <= Len(s) => One(x, e) = 0
    BY <1>1, <1>7 DEF One, n
  <2>5. QED
    BY <2>2, <2>3, <2>4 DEF t
<1>8. QED
  BY <1>6, <1>7

\* One element further.
LEMMA AheadNext ==
  ASSUME NEW S, NEW s \in Seq(S), NEW k \in Nat, NEW e, k < Len(s)
  PROVE  Ahead(s, k, e) = Ahead(s, k + 1, e) + One(s[k + 1], e)
<1>1. Len(s) \in Nat /\ DOMAIN s = 1..Len(s) /\ k + 1 \in DOMAIN s
  OBVIOUS
<1>2. IsFiniteSet(Places(s, k + 1, e)) /\ Ahead(s, k + 1, e) \in Nat
  BY AheadTyped
<1>3. CASE s[k + 1] = e
  <2>1. Places(s, k, e) = Places(s, k + 1, e) \cup {k + 1}
    BY <1>1, <1>3 DEF Places
  <2>2. k + 1 \notin Places(s, k + 1, e)
    BY DEF Places
  <2>3. Cardinality(Places(s, k, e)) = Cardinality(Places(s, k + 1, e)) + 1
    BY <1>2, <2>1, <2>2, FS_AddElement
  <2>4. QED
    BY <1>3, <2>3 DEF Ahead, One
<1>4. CASE s[k + 1] # e
  <2>1. Places(s, k, e) = Places(s, k + 1, e)
    BY <1>1, <1>4 DEF Places
  <2>2. QED
    BY <1>2, <1>4, <2>1 DEF Ahead, One
<1>5. QED
  BY <1>3, <1>4

\* Nothing is left after the last element.
LEMMA AheadNone ==
  ASSUME NEW S, NEW s \in Seq(S), NEW k \in Int, NEW e, k >= Len(s)
  PROVE  Ahead(s, k, e) = 0
<1>1. Places(s, k, e) = {}
  BY DEF Places
<1>2. QED
  BY <1>1, FS_EmptySet DEF Ahead

\* A sequence that takes its elements from other places of another one, after
\* m from after k.
LEMMA AheadTaken ==
  ASSUME NEW S, NEW s \in Seq(S), NEW t \in Seq(S), NEW k \in Int, NEW m \in Int, NEW e,
         NEW g \in [DOMAIN t -> DOMAIN s],
         \A i, j \in DOMAIN t : g[i] = g[j] => i = j,
         \A i \in DOMAIN t : t[i] = s[g[i]] /\ (i > m => g[i] > k)
  PROVE  Ahead(t, m, e) <= Ahead(s, k, e)
<1> DEFINE A == Places(t, m, e)
           B == Places(s, k, e)
           h == [i \in A |-> g[i]]
<1>1. A \subseteq DOMAIN t
  BY DEF Places
<1>2. \A i \in A : g[i] \in B
  BY DEF Places
<1>3. IsFiniteSet(B)
  BY AheadTyped
<1> HIDE DEF A, B
<1>4. h \in Injection(A, B)
  BY <1>1, <1>2 DEF Injection, IsInjective
<1>5. Cardinality(A) <= Cardinality(B)
  BY <1>3, <1>4, FS_Injection
<1>6. QED
  BY <1>5 DEF Ahead, A, B

-----------------------------------------------------------------------------
(* What remove leaves of a list.                                            *)

\* The sizes of sets, as the module of the lists has them.
LEMMA SameCardinality == \A T : L!Cardinality(T) = Cardinality(T)
BY DEF L!Cardinality, Cardinality, L!IsFiniteSet, IsFiniteSet

\* How many elements other than e there are up to the place i.
Rank(s, e, i) == Cardinality({k \in L!Kept(s, e) : k <= i})

\* A set of numbers that is not empty has a least one.
LEMMA Least ==
  ASSUME NEW T \in SUBSET Nat, T # {}
  PROVE  \E x \in T : \A y \in T : x <= y
<1>1. PICK x \in T : \A y \in T : ~(<<y, x>> \in OpToRel(<, Nat))
  BY WFMin, NatLessThanWellFounded
<1>2. ASSUME NEW y \in T PROVE x <= y
  <2>1. <<y, x>> \notin OpToRel(<, Nat)
    BY <1>1
  <2>2. x \in Nat /\ y \in Nat
    OBVIOUS
  <2>3. ~(y < x)
    <3>1. SUFFICES ASSUME y < x PROVE FALSE
      OBVIOUS
    <3>2. <<y, x>> \in OpToRel(<, Nat)
      BY <2>2, <3>1 DEF OpToRel
    <3>3. QED
      BY <2>1, <3>2
  <2>4. QED
    BY <2>2, <2>3
<1>3. QED
  BY <1>2

\* The rank goes up by one at each element that is kept, and only there.
LEMMA RankNext ==
  ASSUME NEW S, NEW s \in Seq(S), NEW e, NEW i \in Nat
  PROVE  /\ Rank(s, e, i) \in Nat /\ Rank(s, e, 0) = 0
         /\ i + 1 \in L!Kept(s, e) => Rank(s, e, i + 1) = Rank(s, e, i) + 1
         /\ i + 1 \notin L!Kept(s, e) => Rank(s, e, i + 1) = Rank(s, e, i)
         /\ \A j \in Nat : i <= j => Rank(s, e, i) <= Rank(s, e, j)
<1> DEFINE K(j) == {k \in L!Kept(s, e) : k <= j}
<1>1. DOMAIN s = 1..Len(s) /\ Len(s) \in Nat
  OBVIOUS
<1>2. IsFiniteSet(DOMAIN s)
  BY <1>1, FS_Interval
<1>3. \A j : K(j) \subseteq DOMAIN s
  BY DEF L!Kept
<1>4. \A j : IsFiniteSet(K(j))
  BY <1>2, <1>3, FS_Subset
<1>5. \A j : Cardinality(K(j)) \in Nat /\ Rank(s, e, j) = Cardinality(K(j))
  BY <1>4, FS_CardinalityType DEF Rank
<1>6. \A k \in L!Kept(s, e) : k \in Nat /\ k > 0
  BY <1>1 DEF L!Kept
<1>7. Rank(s, e, 0) = 0
  <2>1. K(0) = {}
    BY <1>6
  <2>2. QED
    BY <1>5, <2>1, FS_EmptySet
<1>8. ASSUME i + 1 \in L!Kept(s, e) PROVE Rank(s, e, i + 1) = Rank(s, e, i) + 1
  <2>1. K(i + 1) = K(i) \cup {i + 1} /\ i + 1 \notin K(i)
    BY <1>6, <1>8
  <2>2. Cardinality(K(i) \cup {i + 1}) = Cardinality(K(i)) + 1
    BY <1>4, <2>1, FS_AddElement, ZenonT(60)
  <2>3. QED
    BY <1>5, <2>1, <2>2
<1>9. ASSUME i + 1 \notin L!Kept(s, e) PROVE Rank(s, e, i + 1) = Rank(s, e, i)
  <2>1. K(i + 1) = K(i)
    BY <1>6, <1>9
  <2>2. QED
    BY <1>5, <2>1
<1>10. ASSUME NEW j \in Nat, i <= j PROVE Rank(s, e, i) <= Rank(s, e, j)
  <2>1. K(i) \subseteq K(j)
    BY <1>6, <1>10
  <2>2. Cardinality(K(i)) <= Cardinality(K(j))
    BY <1>4, <2>1, FS_Subset
  <2>3. QED
    BY <1>5, <2>2
<1>11. QED
  BY <1>5, <1>7, <1>8, <1>9, <1>10

\* Every rank up to the last is that of one element that is kept.
LEMMA RankTaken ==
  ASSUME NEW S, NEW s \in Seq(S), NEW e, NEW j \in Nat, j > 0, j <= Rank(s, e, Len(s))
  PROVE  \E i \in L!Kept(s, e) : Rank(s, e, i) = j
<1> DEFINE T == {n \in Nat : j <= Rank(s, e, n)}
<1>1. Len(s) \in T
  OBVIOUS
<1>2. PICK n \in T : \A m \in T : n <= m
  <2>1. T \in SUBSET Nat /\ T # {}
    BY <1>1
  <2>2. QED
    BY <2>1, Least
<1>3. n \in Nat /\ j <= Rank(s, e, n)
  OBVIOUS
<1>4. n # 0
  BY <1>3, RankNext
<1>5. PICK m \in Nat : n = m + 1
  <2>1. n - 1 \in Nat /\ n = (n - 1) + 1
    BY <1>3, <1>4
  <2>2. QED
    BY <2>1
<1>6. ~(j <= Rank(s, e, m))
  BY <1>2, <1>5
<1>7. /\ Rank(s, e, m) \in Nat
      /\ m + 1 \in L!Kept(s, e) => Rank(s, e, m + 1) = Rank(s, e, m) + 1
      /\ m + 1 \notin L!Kept(s, e) => Rank(s, e, m + 1) = Rank(s, e, m)
  BY RankNext
<1>8. n \in L!Kept(s, e) /\ Rank(s, e, n) = j
  BY <1>3, <1>5, <1>6, <1>7
<1>9. QED
  BY <1>8

\* Two elements that are kept have the same rank only if they are one.
LEMMA RankOne ==
  ASSUME NEW S, NEW s \in Seq(S), NEW e, NEW i \in L!Kept(s, e), NEW k \in Nat, k < i
  PROVE  Rank(s, e, k) < Rank(s, e, i)
<1>1. i \in Nat /\ i > 0
  BY DEF L!Kept
<1>2. PICK m \in Nat : i = m + 1
  <2>1. i - 1 \in Nat /\ i = (i - 1) + 1
    BY <1>1
  <2>2. QED
    BY <2>1
<1>3. Rank(s, e, m + 1) = Rank(s, e, m) + 1 /\ Rank(s, e, m) \in Nat
  BY <1>2, RankNext
<1>4. k <= m
  BY <1>1, <1>2
<1>5. Rank(s, e, k) <= Rank(s, e, m) /\ Rank(s, e, k) \in Nat
  BY <1>4, RankNext
<1>6. QED
  BY <1>2, <1>3, <1>5

\* What is left are the elements other than e, in their order.
LEMMA WithoutFacts ==
  ASSUME NEW S, NEW s \in Seq(S), NEW e
  PROVE  LET t == L!Without(s, e)
         IN /\ t \in Seq(S) /\ Len(t) = Rank(s, e, Len(s))
            /\ \A i \in L!Kept(s, e) : /\ i \in DOMAIN s /\ Rank(s, e, i) \in DOMAIN t
                                       /\ t[Rank(s, e, i)] = s[i]
            /\ \E g \in [DOMAIN t -> L!Kept(s, e)] :
                  \A j \in DOMAIN t : Rank(s, e, g[j]) = j /\ t[j] = s[g[j]]
<1> DEFINE t == L!Without(s, e)
           K == L!Kept(s, e)
           n == Rank(s, e, Len(s))
           at(j) == CHOOSE i \in L!AtRank(s, e, j) : TRUE
<1>1. DOMAIN s = 1..Len(s) /\ Len(s) \in Nat /\ K \subseteq DOMAIN s
  BY DEF L!Kept
<1>2. n \in Nat /\ n = Cardinality(K)
  <2>1. {k \in K : k <= Len(s)} = K
    BY <1>1
  <2>2. Rank(s, e, Len(s)) = Cardinality(K)
    BY <2>1 DEF Rank
  <2>3. QED
    BY <1>1, <2>2, RankNext
<1>3. t = [j \in 1..n |-> s[at(j)]]
  BY <1>2, SameCardinality DEF L!Without
<1>4. \A i, j : i \in L!AtRank(s, e, j) <=> i \in K /\ Rank(s, e, i) = j
  BY SameCardinality DEF L!AtRank, Rank
<1>5. ASSUME NEW j \in 1..n PROVE at(j) \in K /\ Rank(s, e, at(j)) = j
  <2>1. \E i : i \in L!AtRank(s, e, j)
    BY <1>2, <1>4, RankTaken
  <2>2. at(j) \in L!AtRank(s, e, j)
    BY <2>1
  <2>3. QED
    BY <1>4, <2>2
<1> HIDE DEF t, K, n, at
<1>6. t \in Seq(S) /\ Len(t) = n /\ DOMAIN t = 1..n
  <2>1. \A j \in 1..n : s[at(j)] \in S
    BY <1>1, <1>5
  <2>2. QED
    BY <1>2, <1>3, <2>1
<1>7. ASSUME NEW i \in K
      PROVE  i \in DOMAIN s /\ Rank(s, e, i) \in 1..n /\ t[Rank(s, e, i)] = s[i]
  <2>1. i \in Nat /\ i > 0 /\ i <= Len(s)
    BY <1>1
  <2>2. i \in L!Kept(s, e) /\ 0 < i
    BY <2>1 DEF K
  <2>3. Rank(s, e, 0) < Rank(s, e, i) /\ Rank(s, e, 0) = 0
    BY <2>2, RankOne, RankNext
  <2>4. Rank(s, e, i) <= n /\ Rank(s, e, i) \in Nat
    BY <1>1, <2>1, RankNext DEF n
  <2>5. Rank(s, e, i) \in 1..n
    BY <1>2, <2>3, <2>4
  <2>6. at(Rank(s, e, i)) \in K /\ Rank(s, e, at(Rank(s, e, i))) = Rank(s, e, i)
    BY <1>5, <2>5
  <2>7. at(Rank(s, e, i)) = i
    <3> DEFINE k == at(Rank(s, e, i))
    <3>1. k \in Nat /\ k \in L!Kept(s, e) /\ Rank(s, e, k) = Rank(s, e, i)
      BY <1>1, <2>6 DEF K
    <3> HIDE DEF k
    <3>2. k < i => Rank(s, e, k) < Rank(s, e, i)
      BY <2>2, <3>1, RankOne
    <3>3. i < k => Rank(s, e, i) < Rank(s, e, k)
      BY <2>1, <3>1, RankOne
    <3>4. k = i
      BY <2>1, <2>4, <3>1, <3>2, <3>3
    <3>5. QED
      BY <3>4 DEF k
  <2>8. t[Rank(s, e, i)] = s[at(Rank(s, e, i))]
    BY <1>3, <2>5
  <2>9. QED
    BY <1>1, <2>5, <2>7, <2>8
<1>8. \E g \in [DOMAIN t -> K] : \A j \in DOMAIN t : Rank(s, e, g[j]) = j /\ t[j] = s[g[j]]
  <2> DEFINE g == [j \in 1..n |-> at(j)]
  <2>1. g \in [DOMAIN t -> K]
    BY <1>5, <1>6
  <2>2. \A j \in DOMAIN t : Rank(s, e, g[j]) = j /\ t[j] = s[g[j]]
    BY <1>3, <1>5, <1>6
  <2>3. QED
    BY <2>1, <2>2
<1>9. QED
  BY <1>6, <1>7, <1>8 DEF t, K, n

-----------------------------------------------------------------------------
(* remove in the middle of a firing.                                        *)

\* t is what remains of s after k elements.
Remains(t, s, k) == DP!Remains(t, s, k)
Unlike(s) == \A i, j \in DOMAIN s : s[i] = s[j] => i = j

\* remove brings no function into a list a second time, and none ahead of the
\* loop that was behind it.
LEMMA WithoutTimes ==
  ASSUME NEW S, NEW s \in Seq(S), NEW e
  PROVE  LET t == L!Without(s, e)
         IN /\ \A k \in Nat : \A x : Ahead(t, Rank(s, e, k), x) <= Ahead(s, k, x)
            /\ \A x : Times(t, x) <= Times(s, x)
            /\ Unlike(s) => Unlike(t)
<1> DEFINE t == L!Without(s, e)
           K == L!Kept(s, e)
<1>1. PICK g \in [DOMAIN t -> K] : \A j \in DOMAIN t : Rank(s, e, g[j]) = j /\ t[j] = s[g[j]]
  BY WithoutFacts
<1>2. t \in Seq(S)
  BY WithoutFacts
<1>3. K \subseteq DOMAIN s /\ DOMAIN s \subseteq Nat
  BY DEF L!Kept
<1>4. g \in [DOMAIN t -> DOMAIN s]
  BY <1>1, <1>3
<1>5. \A i, j \in DOMAIN t : g[i] = g[j] => i = j
  <2>1. SUFFICES ASSUME NEW i \in DOMAIN t, NEW j \in DOMAIN t, g[i] = g[j] PROVE i = j
    OBVIOUS
  <2>2. Rank(s, e, g[i]) = i /\ Rank(s, e, g[j]) = j
    BY <1>1
  <2>3. QED
    BY <2>1, <2>2
<1>6. ASSUME NEW k \in Nat, NEW j \in DOMAIN t, j > Rank(s, e, k) PROVE g[j] > k
  <2>1. g[j] \in Nat /\ Rank(s, e, g[j]) = j
    BY <1>1, <1>3, <1>4
  <2>2. g[j] <= k => Rank(s, e, g[j]) <= Rank(s, e, k)
    BY <2>1, RankNext
  <2>3. Rank(s, e, k) \in Nat /\ j \in Nat
    BY <1>2, RankNext
  <2>4. QED
    BY <1>6, <2>1, <2>2, <2>3
<1> HIDE DEF t, K
<1>7. ASSUME NEW k \in Nat, NEW x PROVE Ahead(t, Rank(s, e, k), x) <= Ahead(s, k, x)
  <2> DEFINE m == Rank(s, e, k)
  <2>1. m \in Int
    BY RankNext
  <2>2. \A i \in DOMAIN t : t[i] = s[g[i]] /\ (i > m => g[i] > k)
    BY <1>1, <1>6
  <2> HIDE DEF m
  <2>3. Ahead(t, m, x) <= Ahead(s, k, x)
    BY <1>2, <1>4, <1>5, <2>1, <2>2, AheadTaken
  <2>4. QED
    BY <2>3 DEF m
<1>8. ASSUME NEW x PROVE Times(t, x) <= Times(s, x)
  <2>1. Rank(s, e, 0) = 0
    BY RankNext
  <2>2. QED
    BY <1>7, <2>1 DEF Times
<1>9. Unlike(s) => Unlike(t)
  BY <1>1, <1>4, <1>5 DEF Unlike
<1>10. QED
  BY <1>7, <1>8, <1>9 DEF t

\* What remains is ranked as it is in the whole.
LEMMA RankShift ==
  ASSUME NEW S, NEW s \in Seq(S), NEW t \in Seq(S), NEW k \in Nat, NEW e, Remains(t, s, k)
  PROVE  \A i \in 0..Len(t) : Rank(s, e, k + i) = Rank(s, e, k) + Rank(t, e, i)
<1> DEFINE bad == {i \in 0..Len(t) : Rank(s, e, k + i) # Rank(s, e, k) + Rank(t, e, i)}
<1>1. Len(t) \in Nat /\ Len(s) \in Nat /\ k + Len(t) = Len(s)
  BY DEF Remains, DP!Remains
<1>2. SUFFICES ASSUME bad # {} PROVE FALSE
  BY <1>1
<1>3. PICK x \in bad : \A y \in bad : x <= y
  <2>1. bad \in SUBSET Nat
    BY <1>1
  <2>2. QED
    BY <1>2, <2>1, Least
<1>4. x \in 0..Len(t) /\ Rank(s, e, k + x) # Rank(s, e, k) + Rank(t, e, x)
  OBVIOUS
<1>5. x # 0
  <2>1. Rank(t, e, 0) = 0 /\ Rank(s, e, k) \in Nat /\ k + 0 = k
    BY RankNext
  <2>2. QED
    BY <1>4, <2>1
<1>6. PICK m \in Nat : x = m + 1
  <2>1. x - 1 \in Nat /\ x = (x - 1) + 1
    BY <1>1, <1>4, <1>5
  <2>2. QED
    BY <2>1
<1>7. m \in 0..Len(t) /\ m \notin bad
  BY <1>1, <1>3, <1>4, <1>6
<1>8. Rank(s, e, k + m) = Rank(s, e, k) + Rank(t, e, m)
  BY <1>7
<1> HIDE DEF bad
<1>9. m + 1 \in L!Kept(t, e) <=> k + m + 1 \in L!Kept(s, e)
  <2>1. m + 1 \in 1..Len(t) /\ m + 1 \in DOMAIN t /\ k + m + 1 \in DOMAIN s
    BY <1>1, <1>4, <1>6
  <2>2. t[m + 1] = s[k + (m + 1)]
    BY <2>1 DEF Remains, DP!Remains
  <2>3. k + (m + 1) = k + m + 1
    OBVIOUS
  <2>4. QED
    BY <2>1, <2>2, <2>3 DEF L!Kept
<1>10. /\ Rank(t, e, m) \in Nat
       /\ m + 1 \in L!Kept(t, e) => Rank(t, e, m + 1) = Rank(t, e, m) + 1
       /\ m + 1 \notin L!Kept(t, e) => Rank(t, e, m + 1) = Rank(t, e, m)
  BY RankNext
<1>11. k + m \in Nat
  OBVIOUS
<1>12. /\ k + m + 1 \in L!Kept(s, e) => Rank(s, e, k + m + 1) = Rank(s, e, k + m) + 1
       /\ k + m + 1 \notin L!Kept(s, e) => Rank(s, e, k + m + 1) = Rank(s, e, k + m)
  BY <1>11, RankNext
<1>13. k + x = k + m + 1 /\ Rank(s, e, k) \in Nat
  BY <1>6, RankNext
<1>14. Rank(s, e, k + x) = Rank(s, e, k) + Rank(t, e, x)
  BY <1>6, <1>8, <1>9, <1>10, <1>12, <1>13
<1>15. QED
  BY <1>4, <1>14

\* What remains without e is what remains of the whole without e.
LEMMA RemainsWithout ==
  ASSUME NEW S, NEW s \in Seq(S), NEW t \in Seq(S), NEW k \in Nat, NEW e, Remains(t, s, k)
  PROVE  Remains(L!Without(t, e), L!Without(s, e), Rank(s, e, k))
<1> DEFINE u == L!Without(t, e)
           w == L!Without(s, e)
           n == Rank(s, e, k)
<1>1. Len(t) \in Nat /\ Len(s) \in Nat /\ k + Len(t) = Len(s)
  BY DEF Remains, DP!Remains
<1>2. /\ u \in Seq(S) /\ w \in Seq(S) /\ Len(u) = Rank(t, e, Len(t)) /\ Len(w) = Rank(s, e, Len(s))
      /\ \A i \in L!Kept(s, e) : w[Rank(s, e, i)] = s[i]
  BY WithoutFacts
<1>3. PICK g \in [DOMAIN u -> L!Kept(t, e)] :
         \A j \in DOMAIN u : Rank(t, e, g[j]) = j /\ u[j] = t[g[j]]
  BY WithoutFacts, SMTT(60)
<1> HIDE DEF u, w, n
<1>4. n + Len(u) = Len(w)
  <2>1. Len(t) \in 0..Len(t)
    BY <1>1
  <2>2. Rank(s, e, k + Len(t)) = n + Rank(t, e, Len(t))
    BY <2>1, RankShift DEF n
  <2>3. QED
    BY <1>1, <1>2, <2>2
<1>5. ASSUME NEW j \in 1..Len(u) PROVE u[j] = w[n + j]
  <2>1. j \in DOMAIN u
    BY <1>2
  <2>2. /\ g[j] \in L!Kept(t, e) /\ Rank(t, e, g[j]) = j /\ u[j] = t[g[j]]
    BY <1>3, <2>1
  <2>3. g[j] \in 1..Len(t) /\ t[g[j]] # e
    BY <2>2 DEF L!Kept
  <2>4. t[g[j]] = s[k + g[j]]
    BY <2>3 DEF Remains, DP!Remains
  <2>5. k + g[j] \in DOMAIN s
    BY <1>1, <2>3
  <2>6. k + g[j] \in L!Kept(s, e)
    BY <2>3, <2>4, <2>5 DEF L!Kept
  <2>7. Rank(s, e, k + g[j]) = n + j
    <3>1. g[j] \in 0..Len(t)
      BY <1>1, <2>3
    <3>2. QED
      BY <2>2, <3>1, RankShift DEF n
  <2>8. w[n + j] = s[k + g[j]]
    BY <1>2, <2>6, <2>7
  <2>9. QED
    BY <2>2, <2>4, <2>8
<1>6. QED
  BY <1>4, <1>5 DEF Remains, DP!Remains, u, w, n

\* The copies of e up to the place k are what the rank falls short of k.
LEMMA Copies ==
  ASSUME NEW S, NEW s \in Seq(S), NEW k \in Nat, NEW e, k <= Len(s)
  PROVE  Cardinality({i \in DOMAIN s : s[i] = e /\ i <= k}) = k - Rank(s, e, k)
<1> DEFINE A == {i \in DOMAIN s : s[i] = e /\ i <= k}
           B == {i \in L!Kept(s, e) : i <= k}
<1>1. DOMAIN s = 1..Len(s) /\ Len(s) \in Nat
  OBVIOUS
<1>2. A \cup B = 1..k /\ A \cap B = {}
  BY <1>1 DEF L!Kept
<1> HIDE DEF A, B
<1>3. IsFiniteSet(1..k) /\ Cardinality(1..k) = k
  BY FS_Interval
<1>4. A \subseteq 1..k /\ B \subseteq 1..k
  BY <1>2
<1>5. IsFiniteSet(A) /\ IsFiniteSet(B)
  BY <1>3, <1>4, FS_Subset
<1>6. Cardinality(A) \in Nat /\ Cardinality(B) \in Nat
  BY <1>5, FS_CardinalityType
<1>7. Cardinality(A \cup B) = Cardinality(A) + Cardinality(B) - Cardinality(A \cap B)
  BY <1>5, FS_Union
<1>8. Cardinality(A \cap B) = 0
  BY <1>2, FS_EmptySet
<1>9. Cardinality(B) = Rank(s, e, k)
  BY DEF Rank, B
<1>10. Cardinality(A) + Cardinality(B) = k
  <2>1. Cardinality(A \cup B) = k
    BY <1>2, <1>3
  <2>2. QED
    BY <1>6, <1>7, <1>8, <2>1
<1>11. Cardinality(A) = k - Rank(s, e, k)
  BY <1>6, <1>9, <1>10
<1>12. QED
  BY <1>11 DEF A

-----------------------------------------------------------------------------
(* Lists on their own.                                                      *)

\* The types: what lists are fired with, the functions in them, and the records.
Vals == {<<v>> : v \in Value}
Entries == {L!User(f) : f \in Fn}
ListRec ==
    [list : Seq(Entries), gone : BOOLEAN, stack : Seq(Vals), locked : BOOLEAN,
     memory : Vals \cup {L!Undefined, L!Halted}, firing : BOOLEAN, start : Nat,
     length : Int, index : Int, broken : BOOLEAN, due : Seq(Entries), added : Seq(Entries),
     log : Seq(Entries \X Vals)]
FrameRec == [list : DOMAIN ListFlags, value : Vals, entry : Entries \cup {L!NoEntry}, over : BOOLEAN]
Once(l) == "once" \in ListFlags[l]
Unique(l) == "unique" \in ListFlags[l]

\* The functions that a list called.
Firsts(log) == [i \in DOMAIN log |-> log[i][1]]

\* The functions of a list were added to it, a list with "unique" has none
\* twice, and one with "once" called none more often than it was added.
HeldOK(l, r) ==
    /\ \A e \in Entries : Times(r.list, e) <= Times(r.added, e)
    /\ Unique(l) => Unlike(r.list)
LogOK(l, r) ==
    Once(l) => \A e \in Entries : Times(Firsts(r.log), e) <= Times(r.added, e)

\* The loop has passed k functions; those that are due are the rest, unless the
\* list was disabled or emptied, and with them none is called too often.
LoopOK(l, r, k) ==
    /\ k \in Nat /\ r.length >= Len(r.list)
    /\ ~r.gone /\ ~r.broken => r.length = Len(r.list) /\ Remains(r.due, r.list, k)
    /\ Once(l) => \A e \in Entries :
          Times(Firsts(r.log), e) + Ahead(r.list, k, e) <= Times(r.added, e)

\* A list whose loop is in mode m: "idle" if it has none, "calling" a function,
\* "over" after one returned false, or else "looping".
Passed(r, m) == IF m = "calling" THEN r.index + 1 ELSE r.index
ListOK(l, r, m) ==
    /\ r \in ListRec /\ r.start = 0
    /\ m # "idle" => r.firing
    /\ m = "idle" /\ r.firing => r.broken
    /\ r.locked => r.stack = <<>>
    /\ r.gone => r.locked
    /\ HeldOK(l, r) /\ LogOK(l, r)
    /\ Once(l) /\ r.memory = L!Undefined /\ ~r.locked => r.log = <<>> /\ m = "idle"
    /\ m \in {"looping", "calling"} => LoopOK(l, r, Passed(r, m))

\* A value is none of the two marks.
LEMMA ValueFacts ==
  /\ L!Undefined # L!Halted
  /\ \A v \in Vals : v # L!Undefined /\ v # L!Halted /\ L!HasValue(v)
BY DEF Vals, L!Undefined, L!Halted, L!HasValue

\* What a list has called.
LEMMA FirstsFacts ==
  ASSUME NEW log \in Seq(Entries \X Vals)
  PROVE  /\ Firsts(log) \in Seq(Entries)
         /\ \A e \in Entries : \A v \in Vals :
               Firsts(Append(log, <<e, v>>)) = Append(Firsts(log), e)
<1>1. Firsts(log) \in Seq(Entries) /\ Len(Firsts(log)) = Len(log) /\ Len(log) \in Nat
  BY DEF Firsts
<1>2. ASSUME NEW e \in Entries, NEW v \in Vals
      PROVE  Firsts(Append(log, <<e, v>>)) = Append(Firsts(log), e)
  <2> DEFINE new == Append(log, <<e, v>>)
             n == Len(log) + 1
  <2>1. DOMAIN new = 1..n /\ new[n] = <<e, v>> /\ \A i \in 1..Len(log) : new[i] = log[i]
    OBVIOUS
  <2>2. Firsts(new) = [i \in 1..n |-> new[i][1]]
    BY <2>1 DEF Firsts
  <2> HIDE DEF new
  <2>3. Append(Firsts(log), e) \in Seq(Entries) /\ Len(Append(Firsts(log), e)) = n
    BY <1>1
  <2>4. \A i \in 1..n : Append(Firsts(log), e)[i] = new[i][1]
    <3>1. SUFFICES ASSUME NEW i \in 1..n PROVE Append(Firsts(log), e)[i] = new[i][1]
      OBVIOUS
    <3>2. CASE i = n
      BY <1>1, <2>1, <3>2
    <3>3. CASE i # n
      <4>1. i \in 1..Len(log) /\ i \in DOMAIN log
        BY <1>1, <3>3
      <4>2. Append(Firsts(log), e)[i] = Firsts(log)[i]
        BY <1>1, <4>1
      <4>3. Firsts(log)[i] = log[i][1]
        BY <4>1 DEF Firsts
      <4>4. QED
        BY <2>1, <4>1, <4>2, <4>3
    <3>4. QED
      BY <3>2, <3>3
  <2>5. Append(Firsts(log), e) = [i \in 1..n |-> new[i][1]]
    <3> DEFINE a == Append(Firsts(log), e)
    <3>1. a \in Seq(Entries) /\ DOMAIN a = 1..n
      BY <2>3
    <3>2. \A i \in 1..n : a[i] = new[i][1]
      BY <2>4
    <3> HIDE DEF a, n
    <3>3. a = [i \in DOMAIN a |-> a[i]]
      BY <3>1
    <3>4. QED
      BY <3>1, <3>2, <3>3 DEF a
  <2>6. QED
    BY <2>2, <2>5 DEF new
<1>3. QED
  BY <1>1, <1>2

\* What is counted are numbers.
LEMMA CountsTyped ==
  ASSUME NEW r \in ListRec, NEW e
  PROVE  /\ Times(r.list, e) \in Nat /\ Times(r.added, e) \in Nat /\ Times(Firsts(r.log), e) \in Nat
         /\ \A k \in Nat : Ahead(r.list, k, e) \in Nat /\ Ahead(r.list, k, e) <= Times(r.list, e)
<1>1. r.list \in Seq(Entries) /\ r.added \in Seq(Entries) /\ Firsts(r.log) \in Seq(Entries)
  BY FirstsFacts DEF ListRec
<1>2. Times(r.list, e) \in Nat /\ Times(r.added, e) \in Nat /\ Times(Firsts(r.log), e) \in Nat
  BY <1>1, AheadTyped DEF Times
<1>3. ASSUME NEW k \in Nat PROVE Ahead(r.list, k, e) \in Nat /\ Ahead(r.list, k, e) <= Times(r.list, e)
  <2>1. k \in Int /\ 0 \in Int /\ 0 <= k
    OBVIOUS
  <2>2. QED
    BY <1>1, <2>1, AheadTyped DEF Times
<1>4. QED
  BY <1>2, <1>3

\* An empty sequence has nothing.
LEMMA TimesEmpty ==
  /\ \A e : Times(<<>>, e) = 0 /\ Times(Firsts(<<>>), e) = 0
  /\ \A k \in Nat : \A e : Ahead(<<>>, k, e) = 0
  /\ Unlike(<<>>)
<1>1. <<>> \in Seq(Entries) /\ Len(<<>>) = 0
  OBVIOUS
<1>2. ASSUME NEW k \in Nat, NEW e PROVE Ahead(<<>>, k, e) = 0
  <2>1. k \in Int /\ k >= Len(<<>>)
    BY <1>1
  <2>2. QED
    BY <1>1, <2>1, AheadNone
<1>3. Firsts(<<>>) = <<>>
  BY DEF Firsts
<1>4. Unlike(<<>>)
  BY DEF Unlike
<1>5. QED
  BY <1>2, <1>3, <1>4 DEF Times

-----------------------------------------------------------------------------
(* The methods keep a list as it must be.                                   *)

\* fire, up to its loop, from the function after start.
LEMMA StartFireOK ==
  ASSUME NEW l \in DOMAIN ListFlags, NEW r \in ListRec, NEW v \in Vals,
         r.start <= Len(r.list), r.locked => r.stack = <<>>, r.gone => r.locked,
         HeldOK(l, r), LogOK(l, r),
         Once(l) => \A e \in Entries :
            Times(Firsts(r.log), e) + Ahead(r.list, r.start, e) <= Times(r.added, e)
  PROVE  ListOK(l, L!StartFire(l, r, v), "looping")
<1> DEFINE U == L!StartFire(l, r, v)
           n == Len(r.list)
           mem == IF "memory" \in ListFlags[l] THEN v ELSE L!Halted
           at == r.start
           due == SubSeq(r.list, r.start + 1, n)
<1>1. r.list \in Seq(Entries) /\ n \in Nat /\ r.start \in Nat /\ 0 \in Nat
  BY DEF ListRec
<1>2. mem \in Vals \cup {L!Undefined, L!Halted} /\ mem # L!Undefined
  BY ValueFacts
<1>3. due \in Seq(Entries) /\ Remains(due, r.list, r.start)
  <2>1. due \in Seq(Entries) /\ Len(due) = n - r.start
    BY <1>1
  <2>2. \A i \in 1..Len(due) : due[i] = r.list[r.start + i]
    BY <1>1, SMTT(60)
  <2>3. r.start + Len(due) = Len(r.list)
    BY <1>1, <2>1
  <2> HIDE DEF due
  <2>4. QED
    BY <2>1, <2>2, <2>3 DEF Remains, DP!Remains
<1>4. U = [r EXCEPT !.memory = mem, !.firing = TRUE, !.index = at, !.start = 0,
                    !.length = n, !.due = due]
  BY DEF L!StartFire
<1>5. at \in Nat /\ at \in Int /\ n \in Int
  BY <1>1
<1> HIDE DEF U, mem, due, n, at
<1>6. /\ U \in ListRec
      /\ U.memory = mem /\ U.firing = TRUE /\ U.index = at /\ U.start = 0 /\ U.length = n
      /\ U.due = due /\ U.list = r.list /\ U.added = r.added /\ U.log = r.log
      /\ U.gone = r.gone /\ U.locked = r.locked /\ U.stack = r.stack /\ U.broken = r.broken
  BY <1>1, <1>2, <1>3, <1>4, <1>5 DEF ListRec
<1>7. HeldOK(l, U) /\ LogOK(l, U)
  BY <1>6 DEF HeldOK, LogOK
<1>8. LoopOK(l, U, U.index)
  BY <1>1, <1>3, <1>6 DEF LoopOK, n, at
<1>9. QED
  BY <1>2, <1>6, <1>7, <1>8 DEF ListOK, Passed, U

\* What add puts into a list.
LEMMA ExtendedOK ==
  ASSUME NEW l \in DOMAIN ListFlags, NEW r \in ListRec, NEW e \in Entries, HeldOK(l, r), LogOK(l, r)
  PROVE  LET U == L!Extended(l, r, e)
         IN /\ U \in ListRec /\ HeldOK(l, U) /\ LogOK(l, U)
            /\ U.memory = r.memory /\ U.firing = r.firing /\ U.index = r.index
            /\ U.start = r.start /\ U.length = r.length /\ U.due = r.due /\ U.log = r.log
            /\ U.gone = r.gone /\ U.locked = r.locked /\ U.stack = r.stack
            /\ U.broken = r.broken
            /\ \/ U.list = r.list /\ U.added = r.added
               \/ U.list = Append(r.list, e) /\ U.added = Append(r.added, e)
            /\ \A x \in Entries : /\ Times(U.added, x) \in Nat
                                  /\ Times(U.added, x) >= Times(r.added, x)
<1> DEFINE U == L!Extended(l, r, e)
           m == Append(r.list, e)
           a == Append(r.added, e)
<1>1. r.list \in Seq(Entries) /\ r.added \in Seq(Entries) /\ m \in Seq(Entries) /\ a \in Seq(Entries)
  BY DEF ListRec
<1>2. CASE Unique(l) /\ L!Has(r, e)
  <2>1. U = r
    BY <1>2 DEF L!Extended, Unique
  <2>2. \A x \in Entries : Times(r.added, x) \in Nat
    BY CountsTyped
  <2>3. QED
    BY <2>1, <2>2
<1>3. CASE ~(Unique(l) /\ L!Has(r, e))
  <2>1. U = [r EXCEPT !.list = m, !.added = a]
    BY <1>3 DEF L!Extended, Unique
  <2> HIDE DEF U, m, a
  <2>2. /\ U \in ListRec /\ U.list = m /\ U.added = a
        /\ U.memory = r.memory /\ U.firing = r.firing /\ U.index = r.index
        /\ U.start = r.start /\ U.length = r.length /\ U.due = r.due /\ U.log = r.log
        /\ U.gone = r.gone /\ U.locked = r.locked /\ U.stack = r.stack
        /\ U.broken = r.broken
    BY <1>1, <2>1 DEF ListRec
  <2>3. ASSUME NEW x \in Entries
        PROVE  /\ Times(m, x) = Times(r.list, x) + One(e, x)
               /\ Times(a, x) = Times(r.added, x) + One(e, x)
               /\ One(e, x) \in {0, 1} /\ Times(r.list, x) \in Nat /\ Times(r.added, x) \in Nat
               /\ Times(Firsts(r.log), x) \in Nat
    <3>1. 0 \in Int /\ 0 <= Len(r.list) /\ 0 <= Len(r.added)
      BY <1>1
    <3>2. /\ Ahead(m, 0, x) = Ahead(r.list, 0, x) + One(e, x)
          /\ Ahead(a, 0, x) = Ahead(r.added, 0, x) + One(e, x)
      BY <1>1, <3>1, AheadAppend DEF m, a
    <3>3. QED
      BY <3>2, CountsTyped DEF Times, One
  <2>4. HeldOK(l, U)
    <3>1. \A x \in Entries : Times(m, x) <= Times(a, x)
      BY <2>3 DEF HeldOK
    <3>2. Unique(l) => Unlike(m)
      <4> SUFFICES ASSUME Unique(l) PROVE Unlike(m)
        OBVIOUS
      <4>1. Unlike(r.list)
        BY DEF HeldOK
      <4>2. \A i \in DOMAIN r.list : r.list[i] # e
        BY <1>3 DEF L!Has, L!ToSet
      <4>3. DOMAIN m = 1..(Len(r.list) + 1) /\ Len(r.list) \in Nat /\ DOMAIN r.list = 1..Len(r.list)
        BY <1>1 DEF m
      <4>4. m[Len(r.list) + 1] = e /\ \A i \in DOMAIN r.list : m[i] = r.list[i]
        BY <1>1 DEF m
      <4>5. \A i \in DOMAIN m : i = Len(r.list) + 1 \/ i \in DOMAIN r.list
        BY <4>3
      <4>6. QED
        BY <4>1, <4>2, <4>4, <4>5 DEF Unlike
    <3>3. QED
      BY <2>2, <3>1, <3>2 DEF HeldOK
  <2>5. LogOK(l, U)
    BY <2>2, <2>3 DEF LogOK
  <2>6. \A x \in Entries : Times(U.added, x) \in Nat /\ Times(U.added, x) >= Times(r.added, x)
    BY <2>2, <2>3
  <2>7. QED
    BY <2>2, <2>4, <2>5, <2>6 DEF U, m, a
<1>4. QED
  BY <1>2, <1>3

\* add of one function: it is called in its turn, at once, or when the list is
\* fired.
LEMMA AddToOK ==
  ASSUME NEW l \in DOMAIN ListFlags, NEW r, NEW e \in Entries,
         NEW m \in {"idle", "calling"}, ListOK(l, r, m)
  PROVE  IF L!FiresAtOnce(r)
         THEN m = "idle" /\ ~r.firing /\ r.memory \in Vals /\ ListOK(l, L!AddTo(l, r, e), "looping")
         ELSE ListOK(l, L!AddTo(l, r, e), m)
<1> DEFINE U == L!Extended(l, r, e)
           W == L!AddTo(l, r, e)
           n == Len(r.list)
<1>1. /\ r \in ListRec /\ r.start = 0 /\ HeldOK(l, r) /\ LogOK(l, r)
      /\ m # "idle" => r.firing
      /\ m = "idle" /\ r.firing => r.broken
      /\ r.locked => r.stack = <<>>
      /\ r.gone => r.locked
      /\ Once(l) /\ r.memory = L!Undefined /\ ~r.locked => r.log = <<>> /\ m = "idle"
      /\ m = "calling" => LoopOK(l, r, r.index + 1)
  BY DEF ListOK, Passed
<1>2. /\ U \in ListRec /\ HeldOK(l, U) /\ LogOK(l, U)
      /\ U.memory = r.memory /\ U.firing = r.firing /\ U.index = r.index
      /\ U.start = r.start /\ U.length = r.length /\ U.due = r.due /\ U.log = r.log
      /\ U.gone = r.gone /\ U.locked = r.locked /\ U.stack = r.stack
      /\ U.broken = r.broken
  BY <1>1, ExtendedOK
<1>3. /\ \/ U.list = r.list /\ U.added = r.added
         \/ U.list = Append(r.list, e) /\ U.added = Append(r.added, e)
  BY <1>1, ExtendedOK
<1>4. /\ r.list \in Seq(Entries) /\ U.list \in Seq(Entries) /\ r.due \in Seq(Entries) /\ n \in Nat
      /\ r.added \in Seq(Entries)
  BY <1>1, <1>2 DEF ListRec
<1> HIDE DEF U
\* What is added comes last.
<1>5. ASSUME NEW k \in Nat, NEW x \in Entries
      PROVE  /\ Times(r.added, x) \in Nat /\ Times(U.added, x) \in Nat
             /\ Ahead(U.list, k, x) \in Nat /\ Ahead(r.list, k, x) \in Nat
             /\ Times(U.added, x) >= Times(r.added, x)
             /\ Ahead(U.list, k, x) + Times(r.added, x) <= Ahead(r.list, k, x) + Times(U.added, x)
  <2>1. /\ Times(r.added, x) \in Nat /\ Times(U.added, x) \in Nat
        /\ Ahead(U.list, k, x) \in Nat /\ Ahead(r.list, k, x) \in Nat
    BY <1>1, <1>2, CountsTyped
  <2>2. One(e, x) \in {0, 1}
    BY DEF One
  <2>3. CASE U.list = r.list /\ U.added = r.added
    BY <2>1, <2>3
  <2>4. CASE U.list = Append(r.list, e) /\ U.added = Append(r.added, e)
    <3>1. 0 \in Int /\ 0 <= Len(r.added) /\ k \in Int
      BY <1>4
    <3>2. Ahead(Append(r.added, e), 0, x) = Ahead(r.added, 0, x) + One(e, x)
      BY <1>4, <3>1, AheadAppend
    <3>3. Ahead(Append(r.list, e), k, x) <= Ahead(r.list, k, x) + One(e, x)
      BY <1>4, <3>1, AheadAppend
    <3>4. Times(U.added, x) = Times(r.added, x) + One(e, x)
      BY <2>4, <3>2 DEF Times
    <3>5. Ahead(U.list, k, x) <= Ahead(r.list, k, x) + One(e, x)
      BY <2>4, <3>3
    <3>6. QED
      BY <2>1, <2>2, <3>4, <3>5
  <2>5. QED
    BY <1>3, <2>3, <2>4
<1>6. CASE r.gone
  <2>1. W = r /\ ~L!FiresAtOnce(r)
    BY <1>6 DEF L!AddTo, L!FiresAtOnce
  <2>2. QED
    BY <2>1
<1>7. CASE ~r.gone /\ r.firing
  <2> DEFINE new == SubSeq(U.list, n + 1, Len(U.list))
             due == r.due \o new
             len == Len(U.list)
  <2>1. ~L!FiresAtOnce(r)
    BY <1>7 DEF L!FiresAtOnce
  <2>2. W = [U EXCEPT !.length = Len(U.list), !.due = U.due \o SubSeq(U.list, Len(r.list) + 1, Len(U.list))]
    BY <1>7 DEF L!AddTo, U
  <2>3. W = [U EXCEPT !.length = len, !.due = due]
    BY <1>2, <2>2
  <2>4. len \in Nat /\ len \in Int /\ new \in Seq(Entries) /\ due \in Seq(Entries)
    BY <1>4
  <2>5. ASSUME NEW k \in Nat, Remains(r.due, r.list, k) PROVE Remains(due, U.list, k)
    <3>1. CASE U.list = r.list
      <4>1. Len(new) = 0 /\ new = <<>>
        BY <1>4, <3>1
      <4>2. due = r.due
        BY <1>4, <4>1, ConcatEmptySeq
      <4>3. QED
        BY <2>5, <3>1, <4>2
    <3>2. CASE U.list = Append(r.list, e)
      <4>1. new = <<e>>
        BY <1>4, <3>2, DP!LastOfAppend
      <4>2. due = Append(r.due, e)
        BY <1>4, <4>1, AppendIsConcat
      <4>3. QED
        BY <1>4, <2>5, <3>2, <4>2, DP!RemainsAppend DEF Remains
    <3>3. QED
      BY <1>3, <3>1, <3>2
  <2> HIDE DEF W, due, len, new
  <2>6. /\ W \in ListRec /\ W.list = U.list /\ W.added = U.added /\ W.due = due /\ W.length = len
        /\ W.memory = U.memory /\ W.firing = U.firing /\ W.index = U.index
        /\ W.start = U.start /\ W.log = U.log
        /\ W.gone = U.gone /\ W.locked = U.locked /\ W.stack = U.stack
        /\ W.broken = U.broken
    BY <1>2, <2>3, <2>4 DEF ListRec
  <2>7. HeldOK(l, W) /\ LogOK(l, W)
    BY <1>2, <2>6 DEF HeldOK, LogOK
  <2>8. m = "calling" => LoopOK(l, W, W.index + 1)
    <3> SUFFICES ASSUME m = "calling" PROVE LoopOK(l, W, W.index + 1)
      OBVIOUS
    <3> DEFINE k == r.index + 1
    <3>1. LoopOK(l, r, k) /\ k \in Nat /\ W.index + 1 = k
      BY <1>1, <1>2, <2>6 DEF LoopOK
    <3> HIDE DEF k
    <3>2. ~r.gone /\ ~r.broken => Remains(due, U.list, k)
      BY <2>5, <3>1 DEF LoopOK
    <3>3. W.length >= Len(W.list) /\ W.length = Len(W.list)
      BY <2>4, <2>6 DEF len
    <3>4. ASSUME Once(l), NEW x \in Entries
          PROVE  Times(Firsts(W.log), x) + Ahead(W.list, k, x) <= Times(W.added, x)
      <4>1. Times(Firsts(r.log), x) + Ahead(r.list, k, x) <= Times(r.added, x)
        BY <3>1, <3>4 DEF LoopOK
      <4>2. Times(Firsts(r.log), x) \in Nat
        BY <1>1, CountsTyped
      <4>3. Times(Firsts(r.log), x) + Ahead(U.list, k, x) <= Times(U.added, x)
        BY <1>5, <3>1, <4>1, <4>2
      <4>4. QED
        BY <1>2, <2>6, <4>3
    <3>5. LoopOK(l, W, k)
      BY <1>2, <2>6, <3>1, <3>2, <3>3, <3>4 DEF LoopOK
    <3>6. QED
      BY <3>1, <3>5
  <2>9. ListOK(l, W, m)
    BY <1>1, <1>2, <2>6, <2>7, <2>8 DEF ListOK, Passed
  <2>10. QED
    BY <2>1, <2>9 DEF W
<1>8. CASE ~r.gone /\ ~r.firing /\ ~L!HasValue(r.memory)
  <2>1. ~L!FiresAtOnce(r) /\ W = U
    BY <1>8 DEF L!FiresAtOnce, L!AddTo, U
  <2>2. m = "idle"
    BY <1>1, <1>8
  <2>3. ListOK(l, U, m)
    BY <1>1, <1>2, <2>2 DEF ListOK
  <2>4. QED
    BY <2>1, <2>3
<1>9. CASE ~r.gone /\ ~r.firing /\ L!HasValue(r.memory)
  <2> DEFINE Y == [U EXCEPT !.start = n]
  <2>1. L!FiresAtOnce(r) /\ W = L!StartFire(l, Y, r.memory)
    BY <1>9 DEF L!FiresAtOnce, L!AddTo, U
  <2>2. m = "idle"
    BY <1>1, <1>9
  <2>3. r.memory \in Vals
    BY <1>1, <1>9 DEF ListRec, L!HasValue
  <2> HIDE DEF Y, n
  <2>4. /\ Y \in ListRec /\ Y.start = n /\ Y.list = U.list /\ Y.added = U.added /\ Y.log = U.log
        /\ Y.gone = U.gone /\ Y.locked = U.locked /\ Y.stack = U.stack
    BY <1>2, <1>4 DEF ListRec, Y
  <2>5. HeldOK(l, Y) /\ LogOK(l, Y)
    BY <1>2, <2>4 DEF HeldOK, LogOK
  <2>6. Y.start <= Len(Y.list)
    BY <1>3, <1>4, <2>4 DEF n
  <2>7. ASSUME Once(l), NEW x \in Entries
        PROVE  Times(Firsts(Y.log), x) + Ahead(Y.list, Y.start, x) <= Times(Y.added, x)
    <3>1. Times(Firsts(r.log), x) <= Times(r.added, x) /\ Times(Firsts(r.log), x) \in Nat
      BY <1>1, <2>7, CountsTyped DEF LogOK
    <3>2. Ahead(r.list, n, x) = 0
      BY <1>4, AheadNone DEF n
    <3>3. Times(Firsts(r.log), x) + Ahead(U.list, n, x) <= Times(U.added, x)
      <4>1. n \in Nat
        BY <1>4
      <4>2. /\ Times(r.added, x) \in Nat /\ Times(U.added, x) \in Nat /\ Ahead(U.list, n, x) \in Nat
            /\ Ahead(U.list, n, x) + Times(r.added, x) <= Ahead(r.list, n, x) + Times(U.added, x)
        BY <1>5, <2>7, <4>1
      <4>3. QED
        BY <3>1, <3>2, <4>2
    <3>4. QED
      BY <1>2, <2>4, <3>3
  <2>8. ListOK(l, L!StartFire(l, Y, r.memory), "looping")
    BY <1>1, <1>2, <2>3, <2>4, <2>5, <2>6, <2>7, StartFireOK
  <2>9. QED
    BY <1>9, <2>1, <2>2, <2>3, <2>8
<1>10. QED
  BY <1>6, <1>7, <1>8, <1>9

\* The parts of ListOK that the methods below keep one by one.
LEMMA ListParts ==
  ASSUME NEW l, NEW r, NEW m \in {"idle", "calling"}, ListOK(l, r, m)
  PROVE  /\ r \in ListRec /\ r.start = 0 /\ HeldOK(l, r) /\ LogOK(l, r)
         /\ m # "idle" => r.firing
         /\ m = "idle" /\ r.firing => r.broken
         /\ r.locked => r.stack = <<>>
         /\ r.gone => r.locked
         /\ Once(l) /\ r.memory = L!Undefined /\ ~r.locked => r.log = <<>> /\ m = "idle"
         /\ m = "calling" => LoopOK(l, r, r.index + 1)
BY DEF ListOK, Passed

\* A list without a function is as it must be.
LEMMA Emptied ==
  ASSUME NEW l, NEW r \in ListRec, r.list = <<>>
  PROVE  /\ HeldOK(l, r)
         /\ LogOK(l, r) => \A k \in Nat : \A e \in Entries : Once(l) =>
               Times(Firsts(r.log), e) + Ahead(r.list, k, e) <= Times(r.added, e)
<1>1. \A e \in Entries : Times(r.list, e) = 0 /\ Times(r.added, e) \in Nat
  BY TimesEmpty, CountsTyped
<1>2. Unlike(r.list)
  BY TimesEmpty
<1>3. HeldOK(l, r)
  BY <1>1, <1>2 DEF HeldOK
<1>4. ASSUME LogOK(l, r), NEW k \in Nat, NEW e \in Entries, Once(l)
      PROVE  Times(Firsts(r.log), e) + Ahead(r.list, k, e) <= Times(r.added, e)
  <2>1. Ahead(r.list, k, e) = 0
    BY TimesEmpty
  <2>2. Times(Firsts(r.log), e) <= Times(r.added, e) /\ Times(Firsts(r.log), e) \in Nat
    BY <1>4, CountsTyped DEF LogOK
  <2>3. QED
    BY <2>1, <2>2
<1>5. QED
  BY <1>3, <1>4

\* empty: a loop under way is about to run into undefined.
LEMMA EmptyOK ==
  ASSUME NEW l \in DOMAIN ListFlags, NEW r, NEW m \in {"idle", "calling"}, ListOK(l, r, m)
  PROVE  ListOK(l, L!Empty(r), m)
<1> DEFINE U == L!Empty(r)
<1>1. /\ r \in ListRec /\ r.start = 0 /\ LogOK(l, r)
      /\ m # "idle" => r.firing
      /\ r.locked => r.stack = <<>>
      /\ Once(l) /\ r.memory = L!Undefined /\ ~r.locked => r.log = <<>> /\ m = "idle"
      /\ m = "calling" => LoopOK(l, r, r.index + 1)
  BY ListParts
<1>2. U = [r EXCEPT !.list = <<>>, !.gone = FALSE, !.due = <<>>, !.broken = r.firing]
  BY DEF L!Empty
<1>3. <<>> \in Seq(Entries)
  OBVIOUS
<1> HIDE DEF U
<1>4. /\ U \in ListRec /\ U.list = <<>> /\ U.gone = FALSE /\ U.due = <<>> /\ U.broken = r.firing
      /\ U.memory = r.memory /\ U.firing = r.firing /\ U.index = r.index /\ U.start = r.start
      /\ U.length = r.length /\ U.log = r.log /\ U.added = r.added /\ U.locked = r.locked
      /\ U.stack = r.stack
  BY <1>1, <1>2, <1>3 DEF ListRec
<1>5. LogOK(l, U)
  BY <1>1, <1>4 DEF LogOK
<1>6. m = "calling" => LoopOK(l, U, U.index + 1)
  <2> SUFFICES ASSUME m = "calling" PROVE LoopOK(l, U, U.index + 1)
    OBVIOUS
  <2>1. r.index + 1 \in Nat /\ r.length >= Len(r.list) /\ r.firing
    BY <1>1 DEF LoopOK
  <2>2. Len(r.list) \in Nat /\ r.length \in Int
    BY <1>1 DEF ListRec
  <2>3. U.index + 1 \in Nat /\ U.broken /\ Len(U.list) = 0
    BY <1>4, <2>1
  <2>4. U.length >= Len(U.list)
    BY <1>4, <2>1, <2>2, <2>3
  <2>5. QED
    BY <1>4, <1>5, <2>3, <2>4, Emptied DEF LoopOK
<1>7. HeldOK(l, U)
  BY <1>4, Emptied
<1>8. QED
  BY <1>1, <1>4, <1>5, <1>6, <1>7 DEF ListOK, Passed, U

\* disable
LEMMA DisableOK ==
  ASSUME NEW l \in DOMAIN ListFlags, NEW r, NEW m \in {"idle", "calling"}, ListOK(l, r, m)
  PROVE  ListOK(l, L!Disable(r), m)
<1> DEFINE U == L!Disable(r)
<1>1. /\ r \in ListRec /\ r.start = 0 /\ LogOK(l, r)
      /\ m # "idle" => r.firing
      /\ m = "idle" /\ r.firing => r.broken
      /\ m = "calling" => LoopOK(l, r, r.index + 1)
  BY ListParts
<1>2. U = [r EXCEPT !.list = <<>>, !.gone = TRUE, !.stack = <<>>, !.locked = TRUE,
                    !.memory = L!Undefined, !.due = <<>>]
  BY DEF L!Disable
<1>3. <<>> \in Seq(Entries) /\ <<>> \in Seq(Vals)
  OBVIOUS
<1> HIDE DEF U
<1>4. /\ U \in ListRec /\ U.list = <<>> /\ U.gone = TRUE /\ U.due = <<>> /\ U.broken = r.broken
      /\ U.firing = r.firing /\ U.index = r.index /\ U.start = r.start /\ U.length = r.length
      /\ U.log = r.log /\ U.added = r.added /\ U.locked = TRUE /\ U.stack = <<>>
  BY <1>1, <1>2, <1>3 DEF ListRec
<1>5. LogOK(l, U)
  BY <1>1, <1>4 DEF LogOK
<1>6. m = "calling" => LoopOK(l, U, U.index + 1)
  <2> SUFFICES ASSUME m = "calling" PROVE LoopOK(l, U, U.index + 1)
    OBVIOUS
  <2>1. r.index + 1 \in Nat /\ r.length >= Len(r.list)
    BY <1>1 DEF LoopOK
  <2>2. Len(r.list) \in Nat /\ r.length \in Int
    BY <1>1 DEF ListRec
  <2>3. U.index + 1 \in Nat /\ U.gone /\ Len(U.list) = 0
    BY <1>4, <2>1
  <2>4. U.length >= Len(U.list)
    BY <1>4, <2>1, <2>2, <2>3
  <2>5. QED
    BY <1>4, <1>5, <2>3, <2>4, Emptied DEF LoopOK
<1>7. HeldOK(l, U)
  BY <1>4, Emptied
<1>8. QED
  BY <1>1, <1>4, <1>5, <1>6, <1>7 DEF ListOK, Passed, U

\* lock
LEMMA LockOK ==
  ASSUME NEW l \in DOMAIN ListFlags, NEW r, NEW m \in {"idle", "calling"}, ListOK(l, r, m)
  PROVE  ListOK(l, L!Lock(r), m)
<1> DEFINE U == L!Lock(r)
<1>1. CASE ~L!HasValue(r.memory)
  BY <1>1, DisableOK DEF L!Lock
<1>2. CASE L!HasValue(r.memory)
  <2>1. /\ r \in ListRec /\ r.start = 0 /\ HeldOK(l, r) /\ LogOK(l, r)
        /\ m # "idle" => r.firing
        /\ m = "idle" /\ r.firing => r.broken
        /\ m = "calling" => LoopOK(l, r, r.index + 1)
    BY ListParts
  <2>2. U = [r EXCEPT !.stack = <<>>, !.locked = TRUE]
    BY <1>2 DEF L!Lock
  <2>3. <<>> \in Seq(Vals)
    OBVIOUS
  <2> HIDE DEF U
  <2>4. /\ U \in ListRec /\ U.list = r.list /\ U.gone = r.gone /\ U.due = r.due
        /\ U.broken = r.broken /\ U.firing = r.firing /\ U.index = r.index /\ U.start = r.start
        /\ U.length = r.length /\ U.log = r.log /\ U.added = r.added /\ U.locked = TRUE
        /\ U.stack = <<>>
    BY <2>1, <2>2, <2>3 DEF ListRec
  <2>5. HeldOK(l, U) /\ LogOK(l, U) /\ (m = "calling" => LoopOK(l, U, U.index + 1))
    BY <2>1, <2>4 DEF HeldOK, LogOK, LoopOK
  <2>6. QED
    BY <2>1, <2>4, <2>5 DEF ListOK, Passed, U
<1>3. QED
  BY <1>1, <1>2

\* fireWith
LEMMA FireListOK ==
  ASSUME NEW l \in DOMAIN ListFlags, NEW r, NEW v \in Vals, NEW m \in {"idle", "calling"},
         ListOK(l, r, m)
  PROVE  IF L!Begins(l, r)
         THEN m = "idle" /\ ~r.firing /\ ListOK(l, L!FireList(l, r, v), "looping")
         ELSE ListOK(l, L!FireList(l, r, v), m)
<1> DEFINE U == L!FireList(l, r, v)
<1>1. /\ r \in ListRec /\ r.start = 0 /\ HeldOK(l, r) /\ LogOK(l, r)
      /\ m # "idle" => r.firing
      /\ m = "idle" /\ r.firing => r.broken
      /\ r.locked => r.stack = <<>>
      /\ r.gone => r.locked
      /\ Once(l) /\ r.memory = L!Undefined /\ ~r.locked => r.log = <<>> /\ m = "idle"
      /\ m = "calling" => LoopOK(l, r, r.index + 1)
  BY ListParts
<1>2. CASE L!Begins(l, r)
  <2>1. U = L!StartFire(l, r, v) /\ ~r.locked /\ ~r.firing /\ m = "idle"
    BY <1>1, <1>2 DEF L!FireList, L!Begins
  <2>2. r.start <= Len(r.list)
    BY <1>1 DEF ListRec
  <2>3. ASSUME Once(l), NEW e \in Entries
        PROVE  Times(Firsts(r.log), e) + Ahead(r.list, r.start, e) <= Times(r.added, e)
    <3>1. r.log = <<>>
      BY <1>1, <1>2, <2>1, <2>3 DEF L!Begins, Once
    <3>2. Times(Firsts(r.log), e) = 0
      BY <3>1, TimesEmpty
    <3>3. Ahead(r.list, 0, e) <= Times(r.added, e)
      BY <1>1 DEF HeldOK, Times
    <3>4. Ahead(r.list, r.start, e) <= Times(r.added, e) /\ Ahead(r.list, r.start, e) \in Nat
      <4>1. 0 \in Nat
        OBVIOUS
      <4>2. Ahead(r.list, 0, e) \in Nat
        BY <1>1, <4>1, CountsTyped
      <4>3. QED
        BY <1>1, <3>3, <4>2
    <3>5. QED
      BY <3>2, <3>4
  <2>4. ListOK(l, L!StartFire(l, r, v), "looping")
    BY <1>1, <2>2, <2>3, StartFireOK
  <2>5. QED
    BY <1>2, <2>1, <2>4
<1>3. CASE ~L!Begins(l, r) /\ ~r.locked /\ r.firing /\ ~Once(l)
  <2> DEFINE s == Append(r.stack, v)
  <2>1. U = [r EXCEPT !.stack = s]
    BY <1>3 DEF L!FireList, Once
  <2>2. s \in Seq(Vals)
    BY <1>1 DEF ListRec
  <2> HIDE DEF U, s
  <2>3. /\ U \in ListRec /\ U.list = r.list /\ U.gone = r.gone /\ U.due = r.due
        /\ U.broken = r.broken /\ U.firing = r.firing /\ U.index = r.index /\ U.start = r.start
        /\ U.length = r.length /\ U.log = r.log /\ U.added = r.added /\ U.locked = r.locked
    BY <1>1, <2>1, <2>2 DEF ListRec
  <2>4. HeldOK(l, U) /\ LogOK(l, U) /\ (m = "calling" => LoopOK(l, U, U.index + 1))
    BY <1>1, <2>3 DEF HeldOK, LogOK, LoopOK
  <2>5. ListOK(l, U, m)
    BY <1>1, <1>3, <2>3, <2>4 DEF ListOK, Passed
  <2>6. QED
    BY <1>3, <2>5 DEF U
<1>4. CASE ~L!Begins(l, r) /\ ~(~r.locked /\ r.firing /\ ~Once(l))
  <2>1. U = r
    BY <1>4 DEF L!FireList, Once
  <2>2. QED
    BY <1>4, <2>1
<1>5. QED
  BY <1>2, <1>3, <1>4

\* remove in the middle of a firing takes from the loop variables what it takes
\* from the functions that the loop has passed and has to pass.
LEMMA RemoveOK ==
  ASSUME NEW l \in DOMAIN ListFlags, NEW r, NEW e \in Entries, NEW m \in {"idle", "calling"},
         ListOK(l, r, m)
  PROVE  ListOK(l, L!RemoveFrom(r, e), m)
<1> DEFINE U == L!RemoveFrom(r, e)
           s == r.list
           w == L!Without(r.list, e)
           due == L!Without(r.due, e)
           n == Len(r.list)
           taken(i) == {j \in DOMAIN r.list : r.list[j] = e /\ j - 1 <= i /\ j - 1 <= r.length}
           near(i) == IF r.firing THEN Cardinality(taken(i)) ELSE 0
           x == near(r.index)
           y == near(r.length)
<1>1. /\ r \in ListRec /\ r.start = 0 /\ HeldOK(l, r) /\ LogOK(l, r)
      /\ m # "idle" => r.firing
      /\ m = "idle" /\ r.firing => r.broken
      /\ r.locked => r.stack = <<>>
      /\ r.gone => r.locked
      /\ Once(l) /\ r.memory = L!Undefined /\ ~r.locked => r.log = <<>> /\ m = "idle"
      /\ m = "calling" => LoopOK(l, r, r.index + 1)
  BY ListParts
<1>2. CASE r.gone
  <2>1. U = r
    BY <1>2 DEF L!RemoveFrom
  <2>2. QED
    BY <2>1
<1>3. CASE ~r.gone
  <2>1. /\ s \in Seq(Entries) /\ r.due \in Seq(Entries) /\ r.length \in Int /\ r.index \in Int
        /\ n \in Nat /\ DOMAIN s = 1..n /\ r.firing \in BOOLEAN
    BY <1>1 DEF ListRec
  <2>2. U = [r EXCEPT !.list = w, !.due = due, !.length = r.length - y, !.index = r.index - x]
    BY <1>3, SameCardinality DEF L!RemoveFrom
  <2>3. ASSUME NEW i PROVE near(i) \in Int
    <3>1. IsFiniteSet(DOMAIN s)
      BY <2>1, FS_Interval
    <3>2. taken(i) \subseteq DOMAIN s
      OBVIOUS
    <3>3. IsFiniteSet(taken(i))
      BY <3>1, <3>2, FS_Subset
    <3>4. Cardinality(taken(i)) \in Nat
      BY <3>3, FS_CardinalityType
    <3>5. QED
      BY <3>4
  <2>4. w \in Seq(Entries) /\ due \in Seq(Entries) /\ Len(w) = Rank(s, e, n) /\ Len(w) \in Nat
    BY <2>1, WithoutFacts
  <2>5. r.length - y \in Int /\ r.index - x \in Int
    <3>1. x \in Int /\ y \in Int
      BY <2>3
    <3> HIDE DEF x, y
    <3>2. QED
      BY <2>1, <3>1
  <2> DEFINE len == r.length - y
             at == r.index - x
  <2>6. len \in Int /\ at \in Int
    BY <2>5
  <2>7. U = [r EXCEPT !.list = w, !.due = due, !.length = len, !.index = at]
    BY <2>2
  <2> HIDE DEF U, w, due, len, at, x, y
  <2>8. /\ U \in ListRec /\ U.list = w /\ U.due = due /\ U.length = len /\ U.index = at
        /\ U.gone = r.gone /\ U.memory = r.memory /\ U.broken = r.broken /\ U.firing = r.firing
        /\ U.start = r.start /\ U.log = r.log /\ U.added = r.added /\ U.locked = r.locked
        /\ U.stack = r.stack
    BY <1>1, <2>4, <2>6, <2>7 DEF ListRec
  <2>9. HeldOK(l, U) /\ LogOK(l, U)
    <3>1. ASSUME NEW z \in Entries PROVE Times(w, z) <= Times(r.added, z)
      <4>1. Times(w, z) <= Times(s, z)
        BY <2>1, WithoutTimes DEF w
      <4>2. Times(s, z) <= Times(r.added, z)
        BY <1>1 DEF HeldOK
      <4>3. Times(w, z) \in Nat /\ Times(s, z) \in Nat /\ Times(r.added, z) \in Nat
        BY <1>1, <2>8, CountsTyped
      <4>4. QED
        BY <4>1, <4>2, <4>3
    <3>2. Unique(l) => Unlike(w)
      BY <1>1, <2>1, WithoutTimes DEF HeldOK, w
    <3>3. QED
      BY <1>1, <2>8, <3>1, <3>2 DEF HeldOK, LogOK
  <2>10. m = "calling" => LoopOK(l, U, U.index + 1)
    <3> SUFFICES ASSUME m = "calling" PROVE LoopOK(l, U, U.index + 1)
      OBVIOUS
    <3> DEFINE k == r.index + 1
               c == IF k <= n THEN k ELSE n
    <3>1. LoopOK(l, r, k) /\ r.firing
      BY <1>1
    <3>2. k \in Nat /\ r.length >= n
      BY <3>1 DEF LoopOK
    <3>3. c \in Nat /\ c <= n /\ (k <= n => c = k) /\ (~(k <= n) => c = n)
      BY <2>1, <3>2
    <3>4. x = c - Rank(s, e, c)
      <4>1. taken(r.index) = {j \in DOMAIN s : s[j] = e /\ j <= c}
        BY <2>1, <3>2, <3>3
      <4>2. Cardinality({j \in DOMAIN s : s[j] = e /\ j <= c}) = c - Rank(s, e, c)
        BY <2>1, <3>3, Copies
      <4>3. QED
        BY <3>1, <4>1, <4>2 DEF x
    <3>5. y = n - Rank(s, e, n)
      <4>1. taken(r.length) = {j \in DOMAIN s : s[j] = e /\ j <= n}
        BY <2>1, <3>2
      <4>2. Cardinality({j \in DOMAIN s : s[j] = e /\ j <= n}) = n - Rank(s, e, n)
        BY <2>1, Copies
      <4>3. QED
        BY <3>1, <4>1, <4>2 DEF y
    <3>6. Rank(s, e, c) \in Nat /\ Rank(s, e, n) \in Nat
      BY <2>1, <3>3, RankNext
    <3> HIDE DEF c
    <3>7. at + 1 = k - c + Rank(s, e, c) /\ len = r.length - n + Len(w)
      <4> DEFINE a == Rank(s, e, c)
                 b == Rank(s, e, n)
      <4>1. at = r.index - x /\ len = r.length - y /\ k = r.index + 1
        BY DEF at, len
      <4>2. x = c - a /\ y = n - b /\ Len(w) = b /\ a \in Nat /\ b \in Nat
        BY <2>4, <3>4, <3>5, <3>6
      <4>3. r.index \in Int /\ r.length \in Int /\ c \in Int /\ n \in Int
        BY <2>1, <3>3
      <4> HIDE DEF a, b, k, n
      <4>4. at + 1 = k - c + a
        BY <4>1, <4>2, <4>3, SMTT(60)
      <4>5. len = r.length - n + Len(w)
        BY <4>1, <4>2, <4>3
      <4>6. QED
        BY <4>4, <4>5 DEF a
    <3> HIDE DEF k
    <3>8. at + 1 \in Nat /\ len >= Len(w) /\ (r.length = n => len = Len(w))
      <4>1. k - c \in Nat
        <5>1. CASE k <= n
          BY <3>2, <3>3, <5>1
        <5>2. CASE ~(k <= n)
          BY <2>1, <3>2, <3>3, <5>2
        <5>3. QED
          BY <5>1, <5>2
      <4>2. r.length - n \in Nat /\ n \in Nat
        BY <2>1, <3>2
      <4>3. Len(w) \in Nat
        BY <2>4
      <4>4. QED
        BY <3>6, <3>7, <4>1, <4>2, <4>3
    <3>9. CASE k <= n
      <4>1. at + 1 = Rank(s, e, k)
        BY <3>2, <3>3, <3>6, <3>7, <3>9
      <4>2. ASSUME ~r.gone, ~r.broken PROVE len = Len(w) /\ Remains(due, w, at + 1)
        <5>1. r.length = n /\ Remains(r.due, s, k)
          BY <3>1, <4>2 DEF LoopOK
        <5>2. Remains(due, w, Rank(s, e, k))
          BY <2>1, <3>2, <5>1, RemainsWithout DEF due, w
        <5>3. QED
          BY <3>8, <4>1, <5>1, <5>2
      <4>3. ASSUME Once(l), NEW z \in Entries
            PROVE  Times(Firsts(r.log), z) + Ahead(w, at + 1, z) <= Times(r.added, z)
        <5>1. Ahead(w, Rank(s, e, k), z) <= Ahead(s, k, z)
          BY <2>1, <3>2, WithoutTimes DEF w
        <5>2. Times(Firsts(r.log), z) + Ahead(s, k, z) <= Times(r.added, z)
          BY <3>1, <4>3 DEF LoopOK
        <5>3. /\ Times(Firsts(r.log), z) \in Nat /\ Times(r.added, z) \in Nat
              /\ Ahead(s, k, z) \in Nat
          BY <1>1, <3>2, CountsTyped
        <5>4. Ahead(w, at + 1, z) \in Nat
          BY <2>8, <3>8, CountsTyped
        <5>5. QED
          BY <4>1, <5>1, <5>2, <5>3, <5>4
      <4>4. QED
        BY <2>8, <3>8, <4>2, <4>3 DEF LoopOK
    <3>10. CASE ~(k <= n)
      <4>1. r.gone \/ r.broken
        <5>1. ~(k + Len(r.due) = n)
          BY <2>1, <3>2, <3>10
        <5>2. ~Remains(r.due, s, k)
          BY <5>1 DEF Remains, DP!Remains
        <5>3. QED
          BY <3>1, <5>2 DEF LoopOK
      <4>2. at + 1 >= Len(w)
        BY <2>1, <2>4, <3>2, <3>3, <3>6, <3>7, <3>10
      <4>3. ASSUME Once(l), NEW z \in Entries
            PROVE  Times(Firsts(r.log), z) + Ahead(w, at + 1, z) <= Times(r.added, z)
        <5>1. at + 1 \in Int
          BY <3>8
        <5>2. Ahead(w, at + 1, z) = 0
          BY <2>4, <4>2, <5>1, AheadNone
        <5>3. Times(Firsts(r.log), z) <= Times(r.added, z) /\ Times(Firsts(r.log), z) \in Nat
          BY <1>1, <4>3, CountsTyped DEF LogOK
        <5>4. QED
          BY <5>2, <5>3
      <4>4. QED
        BY <2>8, <3>8, <4>1, <4>3 DEF LoopOK
    <3>11. QED
      BY <3>9, <3>10
  <2>11. QED
    BY <1>1, <2>8, <2>9, <2>10 DEF ListOK, Passed, U
<1>4. QED
  BY <1>2, <1>3

-----------------------------------------------------------------------------
(* The loop of fire keeps its list as it must be.                           *)

\* The next function is called.
CalledNext(r, v) ==
    [r EXCEPT !.due = IF @ = <<>> THEN <<>> ELSE Tail(@),
              !.log = Append(@, <<r.list[r.index + 1], v>>)]

\* It was due, and is now counted as called.
LEMMA CallOK ==
  ASSUME NEW l \in DOMAIN ListFlags, NEW r, NEW v \in Vals, ListOK(l, r, "looping"),
         r.index < Len(r.list)
  PROVE  r.list[r.index + 1] \in Entries /\ ListOK(l, CalledNext(r, v), "calling")
<1> DEFINE U == CalledNext(r, v)
           s == r.list
           k == r.index
           e == r.list[r.index + 1]
           due == IF r.due = <<>> THEN <<>> ELSE Tail(r.due)
           log == Append(r.log, <<e, v>>)
<1>1. /\ r \in ListRec /\ r.start = 0 /\ HeldOK(l, r) /\ LogOK(l, r) /\ r.firing
      /\ r.locked => r.stack = <<>>
      /\ r.gone => r.locked
      /\ Once(l) => ~(r.memory = L!Undefined /\ ~r.locked)
      /\ LoopOK(l, r, r.index)
  BY DEF ListOK, Passed
<1>2. /\ s \in Seq(Entries) /\ r.due \in Seq(Entries) /\ r.log \in Seq(Entries \X Vals)
      /\ k \in Nat /\ k < Len(s) /\ Len(s) \in Nat
  BY <1>1 DEF ListRec, LoopOK
<1>3. e \in Entries
  BY <1>2
<1>4. due \in Seq(Entries) /\ log \in Seq(Entries \X Vals)
  BY <1>2, <1>3
<1>5. U = [r EXCEPT !.due = due, !.log = log]
  BY DEF CalledNext
<1>6. ~r.gone /\ ~r.broken => Remains(due, s, k + 1)
  <2>1. SUFFICES ASSUME ~r.gone, ~r.broken PROVE Remains(due, s, k + 1)
    OBVIOUS
  <2>2. Remains(r.due, s, k)
    BY <1>1, <2>1 DEF LoopOK
  <2>3. r.due # <<>> /\ Remains(Tail(r.due), s, k + 1)
    BY <1>2, <2>2, DP!RemainsTail DEF Remains
  <2>4. QED
    BY <2>3
<1>7. ASSUME Once(l), NEW z \in Entries
      PROVE  /\ Times(Firsts(log), z) + Ahead(s, k + 1, z) <= Times(r.added, z)
             /\ Times(Firsts(log), z) <= Times(r.added, z)
  <2>1. Firsts(log) = Append(Firsts(r.log), e) /\ Firsts(r.log) \in Seq(Entries)
    BY <1>2, <1>3, FirstsFacts
  <2>2. 0 \in Int /\ 0 <= Len(Firsts(r.log))
    BY <2>1
  <2>3. Times(Firsts(log), z) = Times(Firsts(r.log), z) + One(e, z)
    <3> DEFINE f == Firsts(r.log)
    <3> HIDE DEF e, f, log
    <3>1. Ahead(Append(f, e), 0, z) = Ahead(f, 0, z) + One(e, z)
      BY <1>3, <2>1, <2>2, AheadAppend DEF f
    <3>2. Firsts(log) = Append(f, e)
      BY <2>1 DEF f
    <3>3. QED
      BY <3>1, <3>2 DEF f, Times
  <2>4. Ahead(s, k, z) = Ahead(s, k + 1, z) + One(e, z)
    BY <1>2, AheadNext
  <2>5. Times(Firsts(r.log), z) + Ahead(s, k, z) <= Times(r.added, z)
    BY <1>1, <1>7 DEF LoopOK
  <2>6. k + 1 \in Nat
    BY <1>2
  <2>7. /\ Times(Firsts(r.log), z) \in Nat /\ Ahead(s, k + 1, z) \in Nat
        /\ Times(r.added, z) \in Nat /\ One(e, z) \in {0, 1}
    BY <1>1, <2>6, CountsTyped DEF One
  <2>8. QED
    BY <2>3, <2>4, <2>5, <2>7
<1> HIDE DEF U, due, log
<1>8. /\ U \in ListRec /\ U.due = due /\ U.log = log
      /\ U.list = r.list /\ U.gone = r.gone /\ U.memory = r.memory /\ U.broken = r.broken
      /\ U.firing = r.firing /\ U.index = r.index /\ U.start = r.start /\ U.length = r.length
      /\ U.added = r.added /\ U.locked = r.locked /\ U.stack = r.stack
  BY <1>1, <1>4, <1>5 DEF ListRec
<1>9. HeldOK(l, U) /\ LogOK(l, U)
  BY <1>1, <1>7, <1>8 DEF HeldOK, LogOK
<1>10. LoopOK(l, U, U.index + 1)
  <2>1. U.index + 1 = k + 1 /\ k + 1 \in Nat
    BY <1>2, <1>8
  <2>2. LoopOK(l, U, k + 1)
    BY <1>1, <1>6, <1>7, <1>8, <2>1 DEF LoopOK
  <2>3. QED
    BY <2>1, <2>2
<1>11. QED
  BY <1>1, <1>3, <1>8, <1>9, <1>10 DEF ListOK, Passed, U

\* The function returns.
Advanced(r) == [r EXCEPT !.index = @ + 1]

\* The loop has passed one function more.
LEMMA ReturnOK ==
  ASSUME NEW l \in DOMAIN ListFlags, NEW r, ListOK(l, r, "calling")
  PROVE  ListOK(l, Advanced(r), "looping")
<1> DEFINE U == Advanced(r)
           k == r.index + 1
<1>1. /\ r \in ListRec /\ r.start = 0 /\ HeldOK(l, r) /\ LogOK(l, r) /\ r.firing
      /\ r.locked => r.stack = <<>>
      /\ r.gone => r.locked
      /\ Once(l) => ~(r.memory = L!Undefined /\ ~r.locked)
      /\ LoopOK(l, r, k)
  BY DEF ListOK, Passed
<1>2. U = [r EXCEPT !.index = k] /\ k \in Int
  BY <1>1 DEF Advanced, ListRec
<1> HIDE DEF U, k
<1>3. /\ U \in ListRec /\ U.due = r.due /\ U.log = r.log /\ U.list = r.list /\ U.gone = r.gone
      /\ U.memory = r.memory /\ U.broken = r.broken /\ U.firing = r.firing /\ U.index = k
      /\ U.start = r.start /\ U.length = r.length /\ U.added = r.added /\ U.locked = r.locked
      /\ U.stack = r.stack
  BY <1>1, <1>2 DEF ListRec
<1>4. HeldOK(l, U) /\ LogOK(l, U) /\ LoopOK(l, U, U.index)
  BY <1>1, <1>3 DEF HeldOK, LogOK, LoopOK
<1>5. QED
  BY <1>1, <1>3, <1>4 DEF ListOK, Passed, U

\* The function returns false, and the loop is over.
Stopped(r) == [r EXCEPT !.memory = L!Halted, !.due = <<>>]

\* Nothing is due any more.
LEMMA StopOK ==
  ASSUME NEW l \in DOMAIN ListFlags, NEW r, ListOK(l, r, "calling")
  PROVE  ListOK(l, Stopped(r), "over")
<1> DEFINE U == Stopped(r)
<1>1. /\ r \in ListRec /\ r.start = 0 /\ HeldOK(l, r) /\ LogOK(l, r) /\ r.firing
      /\ r.locked => r.stack = <<>>
      /\ r.gone => r.locked
  BY DEF ListOK
<1>2. L!Halted # L!Undefined /\ <<>> \in Seq(Entries)
  BY ValueFacts
<1> HIDE DEF U
<1>3. /\ U \in ListRec /\ U.log = r.log /\ U.list = r.list /\ U.gone = r.gone
      /\ U.memory = L!Halted /\ U.broken = r.broken /\ U.firing = r.firing
      /\ U.start = r.start /\ U.added = r.added /\ U.locked = r.locked
      /\ U.stack = r.stack
  BY <1>1, <1>2 DEF ListRec, U, Stopped
<1>4. HeldOK(l, U) /\ LogOK(l, U)
  BY <1>1, <1>3 DEF HeldOK, LogOK
<1>5. QED
  BY <1>1, <1>2, <1>3, <1>4 DEF ListOK, U

\* The loop ends with an exception.
Broken(r) == [r EXCEPT !.broken = TRUE]

\* The list says that it fires, without a loop.
LEMMA BrokenOK ==
  ASSUME NEW l \in DOMAIN ListFlags, NEW r, NEW m, m # "idle", ListOK(l, r, m)
  PROVE  ListOK(l, Broken(r), "idle")
<1> DEFINE U == Broken(r)
<1>1. /\ r \in ListRec /\ r.start = 0 /\ HeldOK(l, r) /\ LogOK(l, r) /\ r.firing
      /\ r.locked => r.stack = <<>>
      /\ r.gone => r.locked
      /\ Once(l) => ~(r.memory = L!Undefined /\ ~r.locked)
  BY DEF ListOK
<1> HIDE DEF U
<1>2. /\ U \in ListRec /\ U.log = r.log /\ U.list = r.list /\ U.gone = r.gone
      /\ U.memory = r.memory /\ U.broken = TRUE /\ U.firing = r.firing
      /\ U.start = r.start /\ U.added = r.added /\ U.locked = r.locked
      /\ U.stack = r.stack
  BY <1>1 DEF ListRec, U, Broken
<1>3. HeldOK(l, U) /\ LogOK(l, U)
  BY <1>1, <1>2 DEF HeldOK, LogOK
<1>4. QED
  BY <1>1, <1>2, <1>3 DEF ListOK, U

\* The loop ends, or begins again with the value that waits longest.
Ended(r) == [r EXCEPT !.firing = FALSE, !.broken = FALSE]
Waits(l, r) == ~r.gone /\ "once" \notin ListFlags[l] /\ r.stack # <<>>
Again(r) == [Ended(r) EXCEPT !.memory = Ended(r).stack[1], !.stack = Tail(@)]
Finished(l, r) ==
    IF Waits(l, Ended(r)) THEN L!FireList(l, Again(r), Ended(r).stack[1])
    ELSE IF Ended(r).gone \/ "once" \notin ListFlags[l] THEN Ended(r)
    ELSE IF Ended(r).memory = L!Halted THEN L!Disable(Ended(r))
    ELSE [Ended(r) EXCEPT !.list = <<>>]

\* The list has no loop then, or a new one that starts at its first function.
LEMMA FinishOK ==
  ASSUME NEW l \in DOMAIN ListFlags, NEW r, NEW m \in {"looping", "over"}, ListOK(l, r, m)
  PROVE  /\ Ended(r).stack = r.stack /\ Ended(r).gone = r.gone
         /\ IF Waits(l, Ended(r)) THEN r.stack[1] \in Vals /\ ListOK(l, Finished(l, r), "looping")
            ELSE ListOK(l, Finished(l, r), "idle")
<1> DEFINE U == Ended(r)
           W == Again(r)
<1>1. /\ r \in ListRec /\ r.start = 0 /\ HeldOK(l, r) /\ LogOK(l, r) /\ r.firing
      /\ r.locked => r.stack = <<>>
      /\ r.gone => r.locked
      /\ Once(l) => ~(r.memory = L!Undefined /\ ~r.locked)
  BY DEF ListOK
<1> HIDE DEF U, W
<1>2. /\ U \in ListRec /\ U.log = r.log /\ U.list = r.list /\ U.gone = r.gone
      /\ U.memory = r.memory /\ U.broken = FALSE /\ U.firing = FALSE
      /\ U.start = r.start /\ U.added = r.added /\ U.locked = r.locked
      /\ U.stack = r.stack
  BY <1>1 DEF ListRec, U, Ended
<1>3. HeldOK(l, U) /\ LogOK(l, U)
  BY <1>1, <1>2 DEF HeldOK, LogOK
<1>4. ListOK(l, U, "idle")
  BY <1>1, <1>2, <1>3 DEF ListOK
<1>5. CASE Waits(l, U)
  <2> DEFINE v == r.stack[1]
             rest == Tail(r.stack)
  <2>1. r.stack # <<>> /\ r.stack \in Seq(Vals) /\ ~Once(l)
    BY <1>1, <1>2, <1>5 DEF Waits, ListRec, Once
  <2>2. v \in Vals /\ rest \in Seq(Vals) /\ ~r.locked
    BY <1>1, <2>1
  <2>3. W = [U EXCEPT !.memory = v, !.stack = rest]
    BY <1>2 DEF W, Again, U
  <2>4. Finished(l, r) = L!FireList(l, W, v)
    BY <1>2, <1>5 DEF Finished, W, U
  <2> HIDE DEF v, rest
  <2>5. /\ W \in ListRec /\ W.log = r.log /\ W.list = r.list /\ W.gone = r.gone
        /\ W.memory = v /\ W.firing = FALSE
        /\ W.start = r.start /\ W.added = r.added /\ W.locked = r.locked
        /\ W.stack = rest
    BY <1>2, <2>2, <2>3 DEF ListRec
  <2>6. L!Begins(l, W)
    BY <2>1, <2>2, <2>5 DEF L!Begins, Once
  <2>7. HeldOK(l, W) /\ LogOK(l, W)
    BY <1>1, <2>5 DEF HeldOK, LogOK
  <2>8. ListOK(l, W, "idle")
    BY <1>1, <2>1, <2>2, <2>5, <2>7 DEF ListOK
  <2>9. ListOK(l, L!FireList(l, W, v), "looping")
    BY <2>2, <2>6, <2>8, FireListOK
  <2>10. QED
    BY <1>2, <1>5, <2>2, <2>4, <2>9 DEF U, v
<1>6. CASE ~Waits(l, U) /\ (U.gone \/ "once" \notin ListFlags[l])
  BY <1>2, <1>4, <1>6 DEF Finished, U
<1>7. CASE ~Waits(l, U) /\ ~(U.gone \/ "once" \notin ListFlags[l]) /\ U.memory = L!Halted
  <2>1. Finished(l, r) = L!Disable(U)
    BY <1>7 DEF Finished, U
  <2>2. ListOK(l, L!Disable(U), "idle")
    BY <1>4, DisableOK
  <2>3. QED
    BY <1>2, <1>7, <2>1, <2>2 DEF U
<1>8. CASE ~Waits(l, U) /\ ~(U.gone \/ "once" \notin ListFlags[l]) /\ U.memory # L!Halted
  <2> DEFINE Z == [U EXCEPT !.list = <<>>]
  <2>1. Finished(l, r) = Z
    BY <1>8 DEF Finished, U
  <2>2. <<>> \in Seq(Entries)
    OBVIOUS
  <2> HIDE DEF Z
  <2>3. /\ Z \in ListRec /\ Z.log = U.log /\ Z.list = <<>> /\ Z.gone = U.gone
        /\ Z.memory = U.memory /\ Z.broken = U.broken /\ Z.firing = U.firing
        /\ Z.start = U.start /\ Z.added = U.added /\ Z.locked = U.locked
        /\ Z.stack = U.stack
    BY <1>2, <2>2 DEF ListRec, Z
  <2>4. LogOK(l, Z) /\ HeldOK(l, Z)
    BY <1>3, <2>3, Emptied DEF LogOK
  <2>5. ListOK(l, Z, "idle")
    BY <1>1, <1>2, <2>3, <2>4 DEF ListOK
  <2>6. QED
    BY <1>2, <1>8, <2>1, <2>5 DEF U
<1>9. QED
  BY <1>5, <1>6, <1>7, <1>8

-----------------------------------------------------------------------------
(* Lists with the loops that are under way.                                 *)

\* A loop fires l; no two loops fire one list; what a loop is doing.
Fires(fs, l) == \E i \in DOMAIN fs : fs[i].list = l
Distinct(fs) == \A i, j \in DOMAIN fs : fs[i].list = fs[j].list => i = j
ModeOf(F) == IF F.entry # L!NoEntry THEN "calling" ELSE IF F.over THEN "over" ELSE "looping"
Put(f, x, y) == [f EXCEPT ![x] = y]

\* Each list has one loop or none and is as it must be for it; the loops that
\* are not the innermost are calling a function.
FrameOK(fs, i) ==
    /\ i < Len(fs) => fs[i].entry # L!NoEntry
    /\ fs[i].over => fs[i].entry = L!NoEntry
Well(ls, fs) ==
    /\ DOMAIN ls = DOMAIN ListFlags /\ fs \in Seq(FrameRec) /\ Distinct(fs)
    /\ \A i \in DOMAIN fs : FrameOK(fs, i) /\ ListOK(fs[i].list, ls[fs[i].list], ModeOf(fs[i]))
    /\ \A l \in DOMAIN ListFlags : ~Fires(fs, l) => ListOK(l, ls[l], "idle")

\* The components of a loop.
LEMMA FrameTyped ==
  ASSUME NEW fs \in Seq(FrameRec), NEW i \in DOMAIN fs
  PROVE  fs[i] \in FrameRec /\ fs[i].list \in DOMAIN ListFlags /\ fs[i].value \in Vals
<1> DEFINE F == fs[i]
<1>1. F \in FrameRec
  OBVIOUS
<1> HIDE DEF F
<1>2. F.list \in DOMAIN ListFlags /\ F.value \in Vals
  BY <1>1 DEF FrameRec
<1>3. QED
  BY <1>1, <1>2 DEF F

\* The program acts: every loop is calling a function.
Acting(fs) == \A i \in DOMAIN fs : fs[i].entry # L!NoEntry

\* Then a list is in one of two modes.
LEMMA ActingModes ==
  ASSUME NEW ls, NEW fs, Well(ls, fs), Acting(fs), NEW l \in DOMAIN ListFlags
  PROVE  /\ \E m \in {"idle", "calling"} : ListOK(l, ls[l], m)
         /\ ~ls[l].firing => ~Fires(fs, l)
<1>1. CASE Fires(fs, l)
  <2>1. PICK i \in DOMAIN fs : fs[i].list = l
    BY <1>1 DEF Fires
  <2>2. ListOK(l, ls[l], "calling")
    BY <2>1 DEF Well, Acting, ModeOf
  <2>3. QED
    BY <2>2 DEF ListOK
<1>2. CASE ~Fires(fs, l)
  BY <1>2 DEF Well
<1>3. QED
  BY <1>1, <1>2

\* What the program does to one list.
LEMMA ChangeOne ==
  ASSUME NEW ls, NEW fs, Well(ls, fs), Acting(fs), NEW l \in DOMAIN ListFlags, NEW U,
         \A m \in {"idle", "calling"} : ListOK(l, ls[l], m) => ListOK(l, U, m)
  PROVE  Well(Put(ls, l, U), fs)
<1> DEFINE ms == Put(ls, l, U)
<1>1. DOMAIN ms = DOMAIN ListFlags /\ ms[l] = U /\ \A k \in DOMAIN ListFlags : k # l => ms[k] = ls[k]
  BY DEF Well, Put
<1> HIDE DEF ms
<1>2. ASSUME NEW i \in DOMAIN fs PROVE ListOK(fs[i].list, ms[fs[i].list], ModeOf(fs[i]))
  <2>1. ListOK(fs[i].list, ls[fs[i].list], ModeOf(fs[i])) /\ ModeOf(fs[i]) = "calling"
    BY DEF Well, Acting, ModeOf
  <2>2. fs[i].list \in DOMAIN ListFlags
    BY FrameTyped DEF Well
  <2>3. QED
    BY <1>1, <2>1, <2>2
<1>3. ASSUME NEW k \in DOMAIN ListFlags, ~Fires(fs, k) PROVE ListOK(k, ms[k], "idle")
  BY <1>1, <1>3 DEF Well
<1>4. QED
  BY <1>1, <1>2, <1>3 DEF Well, ms

\* A list begins to fire.
LEMMA PushOne ==
  ASSUME NEW ls, NEW fs, Well(ls, fs), Acting(fs), NEW l \in DOMAIN ListFlags, NEW v \in Vals,
         NEW U, ~ls[l].firing, ListOK(l, U, "looping")
  PROVE  Well(Put(ls, l, U), Append(fs, L!Frame(l, v)))
<1> DEFINE ms == Put(ls, l, U)
           F == L!Frame(l, v)
           gs == Append(fs, F)
           n == Len(fs) + 1
<1>1. DOMAIN ms = DOMAIN ListFlags /\ ms[l] = U /\ \A k \in DOMAIN ListFlags : k # l => ms[k] = ls[k]
  BY DEF Well, Put
<1>2. F \in FrameRec /\ F.list = l /\ F.entry = L!NoEntry /\ F.over = FALSE /\ ModeOf(F) = "looping"
  BY DEF L!Frame, FrameRec, ModeOf
<1>3. ~Fires(fs, l)
  BY ActingModes
<1>4. fs \in Seq(FrameRec)
  BY DEF Well
<1> HIDE DEF ms, F
<1>5. /\ gs \in Seq(FrameRec) /\ Len(gs) = n /\ gs[n] = F /\ Len(fs) \in Nat
      /\ DOMAIN gs = 1..n /\ DOMAIN fs = 1..Len(fs)
      /\ \A i \in DOMAIN fs : gs[i] = fs[i]
  BY <1>2, <1>4
<1> HIDE DEF gs
<1>6. \A i \in DOMAIN gs : i = n \/ (i \in DOMAIN fs /\ i < n)
  BY <1>5
<1>7. Distinct(gs)
  BY <1>2, <1>3, <1>5, <1>6 DEF Distinct, Fires, Well
<1>8. ASSUME NEW i \in DOMAIN gs
      PROVE  FrameOK(gs, i) /\ ListOK(gs[i].list, ms[gs[i].list], ModeOf(gs[i]))
  <2>1. CASE i = n
    BY <1>1, <1>2, <1>5, <2>1 DEF FrameOK
  <2>2. CASE i \in DOMAIN fs /\ i < n
    <3>1. gs[i] = fs[i] /\ fs[i].entry # L!NoEntry /\ fs[i].list # l
      BY <1>3, <1>5, <2>2 DEF Acting, Fires
    <3>2. fs[i].list \in DOMAIN ListFlags
      BY <1>4, <2>2, FrameTyped
    <3>3. FrameOK(fs, i) /\ ListOK(fs[i].list, ls[fs[i].list], ModeOf(fs[i]))
      BY <2>2 DEF Well
    <3>4. QED
      BY <1>1, <3>1, <3>2, <3>3 DEF FrameOK
  <2>3. QED
    BY <1>6, <2>1, <2>2
<1>9. ASSUME NEW k \in DOMAIN ListFlags, ~Fires(gs, k) PROVE ListOK(k, ms[k], "idle")
  <2>1. n \in DOMAIN gs /\ \A i \in DOMAIN fs : i \in DOMAIN gs
    BY <1>5
  <2>2. k # l /\ ~Fires(fs, k)
    BY <1>2, <1>5, <1>9, <2>1 DEF Fires
  <2>3. QED
    BY <1>1, <2>2 DEF Well
<1>10. QED
  BY <1>1, <1>5, <1>7, <1>8, <1>9 DEF Well, ms, gs, F

\* The innermost loop goes on.
LEMMA SetTop ==
  ASSUME NEW ls, NEW fs, Well(ls, fs), fs # <<>>, NEW l, l = fs[Len(fs)].list, NEW U,
         NEW F \in FrameRec, F.list = l, F.over => F.entry = L!NoEntry, ListOK(l, U, ModeOf(F))
  PROVE  Well(Put(ls, l, U), Put(fs, Len(fs), F))
<1> DEFINE ms == Put(ls, l, U)
           gs == Put(fs, Len(fs), F)
           n == Len(fs)
<1>1. fs \in Seq(FrameRec) /\ n \in Nat /\ DOMAIN fs = 1..n /\ n \in DOMAIN fs /\ Distinct(fs)
  BY DEF Well
<1>2. l \in DOMAIN ListFlags
  BY <1>1, FrameTyped
<1>3. DOMAIN ms = DOMAIN ListFlags /\ ms[l] = U /\ \A k \in DOMAIN ListFlags : k # l => ms[k] = ls[k]
  BY <1>2 DEF Well, Put
<1>4. /\ DOMAIN gs = 1..n /\ gs[n] = F /\ \A i \in DOMAIN fs : i # n => gs[i] = fs[i]
      /\ gs \in Seq(FrameRec) /\ Len(gs) = n
  BY <1>1 DEF Put
<1> HIDE DEF ms, gs, n
<1>5. \A i \in DOMAIN fs : gs[i].list = fs[i].list
  BY <1>4 DEF n
<1>6. Distinct(gs)
  BY <1>1, <1>4, <1>5 DEF Distinct
<1>7. ASSUME NEW i \in DOMAIN gs
      PROVE  FrameOK(gs, i) /\ ListOK(gs[i].list, ms[gs[i].list], ModeOf(gs[i]))
  <2>1. CASE i = n
    BY <1>1, <1>3, <1>4, <2>1 DEF FrameOK
  <2>2. CASE i # n
    <3>1. i \in DOMAIN fs /\ gs[i] = fs[i]
      BY <1>1, <1>4, <2>2
    <3>2. fs[i].list # l /\ fs[i].list \in DOMAIN ListFlags
      BY <1>1, <2>2, <3>1, FrameTyped DEF Distinct, n
    <3>3. FrameOK(fs, i) /\ ListOK(fs[i].list, ls[fs[i].list], ModeOf(fs[i]))
      BY <3>1 DEF Well
    <3>4. QED
      BY <1>3, <1>4, <3>1, <3>2, <3>3 DEF FrameOK, n
  <2>3. QED
    BY <2>1, <2>2
<1>8. ASSUME NEW k \in DOMAIN ListFlags, ~Fires(gs, k) PROVE ListOK(k, ms[k], "idle")
  <2>1. ~Fires(fs, k) /\ k # l
    BY <1>1, <1>4, <1>5, <1>8 DEF Fires, n
  <2>2. QED
    BY <1>3, <2>1 DEF Well
<1>9. QED
  BY <1>3, <1>4, <1>6, <1>7, <1>8 DEF Well, ms, gs, n

\* The innermost loop ends.
LEMMA PopTop ==
  ASSUME NEW ls, NEW fs, Well(ls, fs), fs # <<>>, NEW l, l = fs[Len(fs)].list, NEW U,
         ListOK(l, U, "idle")
  PROVE  Well(Put(ls, l, U), L!Front(fs))
<1> DEFINE ms == Put(ls, l, U)
           gs == L!Front(fs)
           n == Len(fs)
<1>1. fs \in Seq(FrameRec) /\ n \in Nat \ {0} /\ DOMAIN fs = 1..n /\ n \in DOMAIN fs /\ Distinct(fs)
  BY DEF Well
<1>2. l \in DOMAIN ListFlags
  BY <1>1, FrameTyped
<1>3. DOMAIN ms = DOMAIN ListFlags /\ ms[l] = U /\ \A k \in DOMAIN ListFlags : k # l => ms[k] = ls[k]
  BY <1>2 DEF Well, Put
<1>4. /\ gs \in Seq(FrameRec) /\ Len(gs) = n - 1 /\ DOMAIN gs = 1..(n - 1)
      /\ \A i \in 1..(n - 1) : gs[i] = fs[i]
  BY <1>1 DEF L!Front
<1> HIDE DEF ms, gs, n
<1>5. \A i \in DOMAIN gs : i \in DOMAIN fs /\ i # n /\ i < n
  BY <1>1, <1>4
<1>6. \A i \in DOMAIN fs : i = n \/ i \in DOMAIN gs
  BY <1>1, <1>4
<1>7. Distinct(gs)
  BY <1>1, <1>4, <1>5 DEF Distinct
<1>8. ASSUME NEW i \in DOMAIN gs
      PROVE  FrameOK(gs, i) /\ ListOK(gs[i].list, ms[gs[i].list], ModeOf(gs[i]))
  <2>1. i \in DOMAIN fs /\ gs[i] = fs[i] /\ i < n
    BY <1>4, <1>5
  <2>2. fs[i].list # l /\ fs[i].list \in DOMAIN ListFlags
    BY <1>1, <1>5, <2>1, FrameTyped DEF Distinct, n
  <2>3. FrameOK(fs, i) /\ ListOK(fs[i].list, ls[fs[i].list], ModeOf(fs[i]))
    BY <2>1 DEF Well
  <2>4. QED
    BY <1>3, <2>1, <2>2, <2>3 DEF FrameOK, n
<1>9. ASSUME NEW k \in DOMAIN ListFlags, ~Fires(gs, k) PROVE ListOK(k, ms[k], "idle")
  <2>1. CASE k = l
    BY <1>3, <2>1
  <2>2. CASE k # l
    <3>1. ~Fires(fs, k)
      BY <1>1, <1>4, <1>6, <1>9, <2>2 DEF Fires, n
    <3>2. QED
      BY <1>3, <2>2, <3>1 DEF Well
  <2>3. QED
    BY <2>1, <2>2
<1>10. QED
  BY <1>3, <1>4, <1>7, <1>8, <1>9 DEF Well, ms, gs

-----------------------------------------------------------------------------
(* The steps of the lists keep them as they must be.                        *)

\* The innermost loop.
Inner == frames[Len(frames)]

\* It is a loop of one of the lists, which is as it must be for it.
LEMMA InnerFacts ==
  ASSUME Well(lists, frames), frames # <<>>
  PROVE  /\ L!Top = Inner /\ Len(frames) \in DOMAIN frames /\ Inner \in FrameRec
         /\ Inner.list \in DOMAIN ListFlags /\ Inner.value \in Vals
         /\ Inner.entry \in Entries \cup {L!NoEntry} /\ Inner.over \in BOOLEAN
         /\ ListOK(Inner.list, lists[Inner.list], ModeOf(Inner))
<1>1. frames \in Seq(FrameRec)
  BY DEF Well
<1>2. Len(frames) \in DOMAIN frames
  BY <1>1
<1>3. Inner \in FrameRec
  BY <1>1, <1>2 DEF Inner
<1>4. ListOK(Inner.list, lists[Inner.list], ModeOf(Inner))
  BY <1>2 DEF Well, Inner
<1>5. L!Top = Inner
  BY DEF L!Top, Inner
<1>6. /\ Inner.list \in DOMAIN ListFlags /\ Inner.value \in Vals
      /\ Inner.entry \in Entries \cup {L!NoEntry} /\ Inner.over \in BOOLEAN
  BY <1>3 DEF FrameRec
<1>7. QED
  BY <1>2, <1>3, <1>4, <1>5, <1>6

\* The program acts when every loop is calling one of its functions.
LEMMA ProgramActs ==
  ASSUME Well(lists, frames), L!InProgram
  PROVE  Acting(frames)
<1>1. SUFFICES ASSUME NEW i \in DOMAIN frames PROVE frames[i].entry # L!NoEntry
  BY DEF Acting
<1>2. frames \in Seq(FrameRec)
  BY DEF Well
<1>3. Len(frames) \in Nat /\ i \in Nat /\ i <= Len(frames) /\ frames # <<>>
  BY <1>2
<1>4. CASE i < Len(frames)
  BY <1>4 DEF Well, FrameOK
<1>5. CASE i = Len(frames)
  <2>1. frames[i].entry[1] = "user"
    BY <1>3, <1>5 DEF L!InProgram, L!Top
  <2>2. L!NoEntry[1] = "none"
    BY DEF L!NoEntry
  <2>3. QED
    BY <2>1, <2>2
<1>6. QED
  BY <1>3, <1>4, <1>5

\* The program adds a function.
LEMMA AddKeeps ==
  ASSUME Well(lists, frames), L!Add
  PROVE  Well(lists', frames')
<1>1. Acting(frames)
  BY ProgramActs DEF L!Add, L!Program
<1>2. PICK l \in DOMAIN ListFlags, f \in Fn : L!CallAdd(l, L!User(f))
  BY DEF L!Add
<1> DEFINE e == L!User(f)
           r == lists[l]
           U == L!AddTo(l, r, e)
<1>3. e \in Entries
  BY DEF Entries
<1>4. lists' = Put(lists, l, U)
  BY <1>2 DEF L!CallAdd, L!Apply, Put
<1>5. frames' = IF L!FiresAtOnce(r) THEN Append(frames, L!Frame(l, r.memory)) ELSE frames
  BY <1>2 DEF L!CallAdd, L!Apply
<1> HIDE DEF e, U
<1>6. \A m \in {"idle", "calling"} : ListOK(l, r, m) =>
        IF L!FiresAtOnce(r) THEN m = "idle" /\ ~r.firing /\ r.memory \in Vals /\ ListOK(l, U, "looping")
        ELSE ListOK(l, U, m)
  BY <1>3, AddToOK DEF U
<1>7. CASE L!FiresAtOnce(r)
  <2>1. ~r.firing /\ r.memory \in Vals /\ ListOK(l, U, "looping")
    BY <1>1, <1>6, <1>7, ActingModes
  <2>2. Well(Put(lists, l, U), Append(frames, L!Frame(l, r.memory)))
    BY <1>1, <2>1, PushOne
  <2>3. QED
    BY <1>4, <1>5, <1>7, <2>2
<1>8. CASE ~L!FiresAtOnce(r)
  <2>1. Well(Put(lists, l, U), frames)
    BY <1>1, <1>6, <1>8, ChangeOne
  <2>2. QED
    BY <1>4, <1>5, <1>8, <2>1
<1>9. QED
  BY <1>7, <1>8

\* The program fires a list.
LEMMA FireKeeps ==
  ASSUME Well(lists, frames), L!FireWith
  PROVE  Well(lists', frames')
<1>1. Acting(frames)
  BY ProgramActs DEF L!FireWith, L!Program
<1>2. PICK l \in DOMAIN ListFlags, x \in Value : L!CallFire(l, <<x>>)
  BY DEF L!FireWith
<1> DEFINE v == <<x>>
           r == lists[l]
           U == L!FireList(l, r, v)
<1>3. v \in Vals
  BY DEF Vals
<1>4. lists' = Put(lists, l, U)
  BY <1>2 DEF L!CallFire, L!Apply, Put
<1>5. frames' = IF L!Begins(l, r) THEN Append(frames, L!Frame(l, v)) ELSE frames
  BY <1>2 DEF L!CallFire, L!Apply
<1> HIDE DEF v, U
<1>6. \A m \in {"idle", "calling"} : ListOK(l, r, m) =>
        IF L!Begins(l, r) THEN m = "idle" /\ ~r.firing /\ ListOK(l, U, "looping")
        ELSE ListOK(l, U, m)
  BY <1>3, FireListOK DEF U
<1>7. CASE L!Begins(l, r)
  <2>1. ~r.firing /\ ListOK(l, U, "looping")
    BY <1>1, <1>6, <1>7, ActingModes
  <2>2. Well(Put(lists, l, U), Append(frames, L!Frame(l, v)))
    BY <1>1, <1>3, <2>1, PushOne
  <2>3. QED
    BY <1>4, <1>5, <1>7, <2>2
<1>8. CASE ~L!Begins(l, r)
  <2>1. Well(Put(lists, l, U), frames)
    BY <1>1, <1>6, <1>8, ChangeOne
  <2>2. QED
    BY <1>4, <1>5, <1>8, <2>1
<1>9. QED
  BY <1>7, <1>8

\* The program removes a function, or empties, disables or locks a list.
LEMMA ChangeKeeps ==
  ASSUME Well(lists, frames), L!Change
  PROVE  Well(lists', frames')
<1>1. Acting(frames) /\ frames' = frames
  BY ProgramActs DEF L!Change, L!Program
<1>2. PICK l \in DOMAIN ListFlags :
        \/ \E f \in Fn : lists' = [lists EXCEPT ![l] = L!RemoveFrom(@, L!User(f))]
        \/ lists' = [lists EXCEPT ![l] = L!Empty(@)]
        \/ lists' = [lists EXCEPT ![l] = L!Disable(@)]
        \/ lists' = [lists EXCEPT ![l] = L!Lock(@)]
  BY DEF L!Change
<1>3. CASE \E f \in Fn : lists' = [lists EXCEPT ![l] = L!RemoveFrom(@, L!User(f))]
  <2>1. PICK f \in Fn : lists' = Put(lists, l, L!RemoveFrom(lists[l], L!User(f)))
    BY <1>3 DEF Put
  <2>2. L!User(f) \in Entries
    BY DEF Entries
  <2> DEFINE U == L!RemoveFrom(lists[l], L!User(f))
  <2>3. \A m \in {"idle", "calling"} : ListOK(l, lists[l], m) => ListOK(l, U, m)
    BY <2>2, RemoveOK
  <2> HIDE DEF U
  <2>4. Well(Put(lists, l, U), frames)
    BY <1>1, <2>3, ChangeOne
  <2>5. QED
    BY <1>1, <2>1, <2>4 DEF U
<1>4. CASE lists' = [lists EXCEPT ![l] = L!Empty(@)]
  <2> DEFINE U == L!Empty(lists[l])
  <2>1. lists' = Put(lists, l, U)
    BY <1>4 DEF Put
  <2>2. \A m \in {"idle", "calling"} : ListOK(l, lists[l], m) => ListOK(l, U, m)
    BY EmptyOK
  <2> HIDE DEF U
  <2>3. QED
    BY <1>1, <2>1, <2>2, ChangeOne
<1>5. CASE lists' = [lists EXCEPT ![l] = L!Disable(@)]
  <2> DEFINE U == L!Disable(lists[l])
  <2>1. lists' = Put(lists, l, U)
    BY <1>5 DEF Put
  <2>2. \A m \in {"idle", "calling"} : ListOK(l, lists[l], m) => ListOK(l, U, m)
    BY DisableOK
  <2> HIDE DEF U
  <2>3. QED
    BY <1>1, <2>1, <2>2, ChangeOne
<1>6. CASE lists' = [lists EXCEPT ![l] = L!Lock(@)]
  <2> DEFINE U == L!Lock(lists[l])
  <2>1. lists' = Put(lists, l, U)
    BY <1>6 DEF Put
  <2>2. \A m \in {"idle", "calling"} : ListOK(l, lists[l], m) => ListOK(l, U, m)
    BY LockOK
  <2> HIDE DEF U
  <2>3. QED
    BY <1>1, <2>1, <2>2, ChangeOne
<1>7. QED
  BY <1>2, <1>3, <1>4, <1>5, <1>6

\* A loop calls the next function, or ends every call with an exception.
LEMMA CallKeeps ==
  ASSUME Well(lists, frames), L!CallNext
  PROVE  Well(lists', frames')
<1>1. frames # <<>>
  BY DEF L!CallNext, L!Looping
<1> DEFINE F == Inner
           l == Inner.list
           v == Inner.value
           r == lists[Inner.list]
           e == r.list[r.index + 1]
           n == Len(frames)
<1>2. /\ L!Top = F /\ n \in DOMAIN frames /\ F \in FrameRec
      /\ l \in DOMAIN ListFlags /\ v \in Vals
      /\ ListOK(l, r, ModeOf(F))
  BY <1>1, InnerFacts
<1>3. F.entry = L!NoEntry /\ ~F.over
  BY <1>2 DEF L!CallNext, L!Looping
<1>4. ModeOf(F) = "looping"
  BY <1>3 DEF ModeOf
<1>5. CASE r.index >= Len(r.list)
  <2>1. frames' = <<>> /\ lists' = [k \in DOMAIN ListFlags |->
                IF L!InFrames(k) THEN [lists[k] EXCEPT !.broken = TRUE] ELSE lists[k]]
    BY <1>2, <1>5 DEF L!CallNext
  <2>2. ASSUME NEW k \in DOMAIN ListFlags PROVE ListOK(k, lists'[k], "idle")
    <3>1. CASE L!InFrames(k)
      <4>1. PICK i \in DOMAIN frames : frames[i].list = k
        BY <3>1 DEF L!InFrames
      <4>2. ListOK(k, lists[k], ModeOf(frames[i])) /\ ModeOf(frames[i]) # "idle"
        BY <4>1 DEF Well, ModeOf
      <4>3. lists'[k] = Broken(lists[k])
        BY <2>1, <3>1 DEF Broken
      <4>4. QED
        BY <4>2, <4>3, BrokenOK
    <3>2. CASE ~L!InFrames(k)
      <4>1. ~Fires(frames, k)
        BY <3>2 DEF L!InFrames, Fires
      <4>2. lists'[k] = lists[k]
        BY <2>1, <3>2
      <4>3. QED
        BY <4>1, <4>2 DEF Well
    <3>3. QED
      BY <3>1, <3>2
  <2>3. frames' \in Seq(FrameRec) /\ DOMAIN frames' = {} /\ DOMAIN lists' = DOMAIN ListFlags
    BY <2>1
  <2>4. QED
    BY <2>2, <2>3 DEF Well, Distinct
<1>6. CASE r.index < Len(r.list)
  <2>1. r \in ListRec /\ r.index \in Int /\ Len(r.list) \in Nat /\ ~(r.index >= Len(r.list))
    <3>1. r \in ListRec
      BY <1>2 DEF ListOK
    <3>2. r.index \in Int /\ r.list \in Seq(Entries)
      BY <3>1 DEF ListRec
    <3>3. Len(r.list) \in Nat
      BY <3>2
    <3>4. QED
      BY <1>6, <3>1, <3>2, <3>3
  <2>2. frames' = [frames EXCEPT ![n].entry = e]
    BY <1>2, <2>1 DEF L!CallNext
  <2>3. lists' = [lists EXCEPT ![l].due = IF @ = <<>> THEN <<>> ELSE Tail(@),
                               ![l].log = Append(@, <<e, v>>)]
    BY <1>2, <2>1 DEF L!CallNext
  <2>4. DOMAIN lists = DOMAIN ListFlags
    BY DEF Well
  <2>5. lists' = Put(lists, l, CalledNext(r, v))
    BY <1>2, <2>3, <2>4 DEF Put, CalledNext
  <2> DEFINE U == CalledNext(r, v)
             G == [F EXCEPT !.entry = e]
  <2>6. frames' = Put(frames, n, G)
    BY <1>2, <2>2 DEF Put, Inner
  <2>7. e \in Entries /\ ListOK(l, U, "calling")
    BY <1>2, <1>4, <1>6, CallOK
  <2>8. e # L!NoEntry
    BY <2>7 DEF Entries, L!User, L!NoEntry
  <2> HIDE DEF e, U
  <2>9. G \in FrameRec /\ G.entry = e /\ G.over = F.over /\ G.list = l
    BY <1>2, <2>7 DEF FrameRec
  <2> HIDE DEF G
  <2>10. ModeOf(G) = "calling"
    BY <2>8, <2>9 DEF ModeOf
  <2>11. Well(Put(lists, l, U), Put(frames, n, G))
    <3> HIDE DEF r, v
    <3>1. G.over => G.entry = L!NoEntry
      BY <1>3, <2>9
    <3>2. l = frames[Len(frames)].list
      BY DEF Inner
    <3> HIDE DEF l
    <3>3. QED
      BY <1>1, <2>7, <2>9, <2>10, <3>1, <3>2, SetTop DEF n
  <2>12. QED
    BY <2>5, <2>6, <2>11 DEF U
<1>7. r.index >= Len(r.list) \/ r.index < Len(r.list)
  <2>1. r \in ListRec
    BY <1>2 DEF ListOK
  <2>2. r.index \in Int /\ r.list \in Seq(Entries)
    BY <2>1 DEF ListRec
  <2>3. Len(r.list) \in Nat
    BY <2>2
  <2>4. QED
    BY <2>2, <2>3
<1>8. QED
  BY <1>5, <1>6, <1>7

\* The function returns false, and the loop is over.
LEMMA StopKeeps ==
  ASSUME Well(lists, frames), L!ReturnFalse
  PROVE  Well(lists', frames')
<1>1. frames # <<>>
  BY DEF L!ReturnFalse, L!Calling
<1> DEFINE F == Inner
           l == Inner.list
           r == lists[Inner.list]
           n == Len(frames)
           U == Stopped(r)
           G == [F EXCEPT !.entry = L!NoEntry, !.over = TRUE]
<1>2. /\ L!Top = F /\ n \in DOMAIN frames /\ F \in FrameRec
      /\ l \in DOMAIN ListFlags /\ ListOK(l, r, ModeOf(F))
  BY <1>1, InnerFacts
<1>3. ModeOf(F) = "calling"
  BY <1>2 DEF L!ReturnFalse, L!Calling, ModeOf
<1>4. lists' = [lists EXCEPT ![l].memory = L!Halted, ![l].due = <<>>]
  BY <1>2 DEF L!ReturnFalse
<1>5. frames' = [frames EXCEPT ![n].entry = L!NoEntry, ![n].over = TRUE]
  BY DEF L!ReturnFalse
<1>6. DOMAIN lists = DOMAIN ListFlags
  BY DEF Well
<1>7. lists' = Put(lists, l, U)
  BY <1>2, <1>4, <1>6 DEF Put, Stopped
<1>8. frames' = Put(frames, n, G)
  BY <1>2, <1>5 DEF Put, Inner
<1>9. ListOK(l, U, "over")
  BY <1>2, <1>3, StopOK
<1>10. G \in FrameRec /\ G.entry = L!NoEntry /\ G.over = TRUE /\ G.list = l
  BY <1>2 DEF FrameRec
<1> HIDE DEF G, U
<1>11. ModeOf(G) = "over"
  BY <1>10 DEF ModeOf
<1>12. l = frames[Len(frames)].list
  BY DEF Inner
<1> HIDE DEF l
<1>13. Well(Put(lists, l, U), Put(frames, n, G))
  BY <1>1, <1>9, <1>10, <1>11, <1>12, SetTop
<1>14. QED
  BY <1>7, <1>8, <1>13

\* The function returns, and the loop goes on.
LEMMA ReturnKeeps ==
  ASSUME Well(lists, frames), L!Return
  PROVE  Well(lists', frames')
<1>1. frames # <<>>
  BY DEF L!Return, L!Calling
<1> DEFINE F == Inner
           l == Inner.list
           r == lists[Inner.list]
           n == Len(frames)
           U == Advanced(r)
           G == [F EXCEPT !.entry = L!NoEntry]
<1>2. /\ L!Top = F /\ n \in DOMAIN frames /\ F \in FrameRec
      /\ l \in DOMAIN ListFlags /\ ListOK(l, r, ModeOf(F))
  BY <1>1, InnerFacts
<1>3. ModeOf(F) = "calling"
  BY <1>2 DEF L!Return, L!Calling, ModeOf
<1>4. lists' = [lists EXCEPT ![l].index = @ + 1]
  BY <1>2 DEF L!Return
<1>5. frames' = [frames EXCEPT ![n].entry = L!NoEntry]
  BY DEF L!Return, L!Back
<1>6. DOMAIN lists = DOMAIN ListFlags
  BY DEF Well
<1>7. lists' = Put(lists, l, U)
  BY <1>2, <1>4, <1>6 DEF Put, Advanced
<1>8. frames' = Put(frames, n, G)
  BY <1>2, <1>5 DEF Put, Inner
<1>9. ListOK(l, U, "looping")
  BY <1>2, <1>3, ReturnOK
<1>10. F.over = FALSE
  <2>1. FrameOK(frames, n) /\ F.over \in BOOLEAN
    BY <1>1, <1>2, InnerFacts DEF Well
  <2>2. F.entry # L!NoEntry
    BY <1>2 DEF L!Return, L!Calling
  <2>3. QED
    BY <2>1, <2>2 DEF FrameOK, Inner
<1>11. G \in FrameRec /\ G.entry = L!NoEntry /\ G.over = FALSE /\ G.list = l
  BY <1>2, <1>10 DEF FrameRec
<1> HIDE DEF G, U
<1>12. ModeOf(G) = "looping"
  BY <1>11 DEF ModeOf
<1>13. l = frames[Len(frames)].list
  BY DEF Inner
<1> HIDE DEF l
<1>14. Well(Put(lists, l, U), Put(frames, n, G))
  BY <1>1, <1>9, <1>11, <1>12, <1>13, SetTop
<1>15. QED
  BY <1>7, <1>8, <1>14

\* The loop ends, or begins again.
LEMMA FinishKeeps ==
  ASSUME Well(lists, frames), L!Finish
  PROVE  Well(lists', frames')
<1>1. frames # <<>>
  BY DEF L!Finish, L!Looping
<1> DEFINE F == Inner
           l == Inner.list
           r == lists[Inner.list]
           n == Len(frames)
           U == Finished(l, r)
           again == Waits(l, Ended(r))
           G == L!Frame(l, r.stack[1])
<1>2. /\ L!Top = F /\ n \in DOMAIN frames /\ F \in FrameRec
      /\ l \in DOMAIN ListFlags /\ ListOK(l, r, ModeOf(F))
  BY <1>1, InnerFacts
<1>3. ModeOf(F) \in {"looping", "over"}
  BY <1>2 DEF L!Finish, L!Looping, ModeOf
<1>4. /\ Ended(r).stack = r.stack /\ Ended(r).gone = r.gone
      /\ IF again THEN r.stack[1] \in Vals /\ ListOK(l, U, "looping") ELSE ListOK(l, U, "idle")
  BY <1>2, <1>3, FinishOK
<1>5. frames' = IF again THEN [frames EXCEPT ![n] = L!Frame(l, Ended(r).stack[1])] ELSE L!Rest
  BY <1>2 DEF L!Finish, Ended, Waits
<1>6. lists' = [lists EXCEPT ![l] = U]
  BY <1>2 DEF L!Finish, Finished, Ended, Waits, Again
<1>7. lists' = Put(lists, l, U)
  BY <1>6 DEF Put
<1>8. l = frames[Len(frames)].list
  BY DEF Inner
<1> HIDE DEF U, F
<1>9. CASE again
  <2>1. frames' = Put(frames, n, G)
    BY <1>4, <1>5, <1>9 DEF Put
  <2>2. r.stack[1] \in Vals /\ ListOK(l, U, "looping")
    BY <1>4, <1>9
  <2>3. /\ G \in FrameRec /\ G.list = l /\ G.over = FALSE /\ G.entry = L!NoEntry
    BY <1>2, <2>2 DEF L!Frame, FrameRec
  <2> HIDE DEF G, r, l, again
  <2>4. ModeOf(G) = "looping"
    BY <2>3 DEF ModeOf
  <2>5. Well(Put(lists, l, U), Put(frames, n, G))
    BY <1>1, <1>8, <2>2, <2>3, <2>4, SetTop
  <2>6. QED
    BY <1>7, <2>1, <2>5
<1>10. CASE ~again
  <2>1. frames' = L!Front(frames)
    BY <1>5, <1>10 DEF L!Rest
  <2>2. ListOK(l, U, "idle")
    BY <1>4, <1>10
  <2> HIDE DEF r, l, again
  <2>3. Well(Put(lists, l, U), L!Front(frames))
    BY <1>1, <1>8, <2>2, PopTop
  <2>4. QED
    BY <1>7, <2>1, <2>3
<1>11. QED
  BY <1>9, <1>10

-----------------------------------------------------------------------------
(* What that says of the lists.                                             *)

\* Lists are so at first.
LEMMA ListsStart ==
  ASSUME L!ListInit
  PROVE  Well(lists, frames)
<1> DEFINE r == L!NewList(<<>>)
<1>1. lists = [l \in DOMAIN ListFlags |-> r] /\ frames = <<>>
  BY DEF L!ListInit
<1>2. r = [list |-> <<>>, gone |-> FALSE, stack |-> <<>>, locked |-> FALSE, memory |-> L!Undefined,
           firing |-> FALSE, start |-> 0, length |-> 0, index |-> 0,
           broken |-> FALSE, due |-> <<>>, added |-> <<>>, log |-> <<>>]
  BY DEF L!NewList
<1>3. <<>> \in Seq(Entries) /\ <<>> \in Seq(Vals) /\ <<>> \in Seq(Entries \X Vals)
  OBVIOUS
<1> HIDE DEF r
<1>4. /\ r \in ListRec /\ r.start = 0 /\ r.firing = FALSE /\ r.stack = <<>> /\ r.gone = FALSE
      /\ r.list = <<>> /\ r.added = <<>> /\ r.log = <<>>
  BY <1>2, <1>3 DEF ListRec
<1>5. ASSUME NEW l \in DOMAIN ListFlags PROVE HeldOK(l, r) /\ LogOK(l, r)
  <2>1. HeldOK(l, r)
    BY <1>4, Emptied
  <2>2. \A e \in Entries : Times(Firsts(r.log), e) = 0 /\ Times(r.added, e) = 0
    BY <1>4, TimesEmpty
  <2>3. QED
    BY <2>1, <2>2 DEF LogOK
<1>6. \A l \in DOMAIN ListFlags : ListOK(l, r, "idle")
  BY <1>4, <1>5 DEF ListOK
<1>7. frames \in Seq(FrameRec) /\ DOMAIN frames = {} /\ DOMAIN lists = DOMAIN ListFlags
  BY <1>1
<1>8. QED
  BY <1>1, <1>6, <1>7 DEF Well, Distinct

\* A step of the lists keeps them so.
LEMMA ListsKept ==
  ASSUME Well(lists, frames), L!ListNext
  PROVE  Well(lists', frames')
<1>1. CASE L!Add
  BY <1>1, AddKeeps
<1>2. CASE L!FireWith
  BY <1>2, FireKeeps
<1>3. CASE L!Change
  BY <1>3, ChangeKeeps
<1>4. CASE L!CallNext
  BY <1>4, CallKeeps
<1>5. CASE L!ReturnFalse
  BY <1>5, StopKeeps
<1>6. CASE L!Return
  BY <1>6, ReturnKeeps
<1>7. CASE L!Finish
  BY <1>7, FinishKeeps
<1>8. QED
  BY <1>1, <1>2, <1>3, <1>4, <1>5, <1>6, <1>7 DEF L!ListNext

\* The loop of a list calls what is due and nothing else.
LEMMA ListsCallsDue ==
  ASSUME Well(lists, frames)
  PROVE  L!CallsDue
<1> DEFINE r(l) == lists[l]
           called(l) == \E i \in DOMAIN frames : frames[i].list = l /\ frames[i].entry # L!NoEntry
<1>1. SUFFICES ASSUME NEW l \in DOMAIN ListFlags, L!InLoop(l), ~r(l).gone, ~r(l).broken
               PROVE  r(l).due = SubSeq(r(l).list, r(l).index + (IF called(l) THEN 2 ELSE 1), r(l).length)
  BY DEF L!CallsDue
<1>2. PICK i \in DOMAIN frames : frames[i].list = l /\ ~frames[i].over
  BY <1>1 DEF L!InLoop
<1>3. called(l) <=> frames[i].entry # L!NoEntry
  BY <1>2 DEF Well, Distinct
<1> DEFINE m == IF called(l) THEN "calling" ELSE "looping"
           k == Passed(r(l), m)
<1>4. ModeOf(frames[i]) = m
  BY <1>2, <1>3 DEF ModeOf
<1>5. ListOK(l, r(l), m)
  BY <1>2, <1>4 DEF Well
<1>6. r(l) \in ListRec /\ LoopOK(l, r(l), k)
  BY <1>5 DEF ListOK
<1>7. r(l).list \in Seq(Entries) /\ r(l).due \in Seq(Entries) /\ r(l).index \in Int
  BY <1>6 DEF ListRec
<1>8. k \in Nat /\ r(l).length = Len(r(l).list) /\ DP!Remains(r(l).due, r(l).list, k)
  BY <1>1, <1>6 DEF LoopOK, Remains
<1>9. k + 1 = r(l).index + (IF called(l) THEN 2 ELSE 1)
  <2>1. CASE called(l)
    <3>1. k = r(l).index + 1
      BY <2>1 DEF Passed
    <3>2. QED
      BY <1>7, <2>1, <3>1
  <2>2. CASE ~called(l)
    <3>1. k = r(l).index
      BY <2>2 DEF Passed
    <3>2. QED
      BY <1>7, <2>2, <3>1
  <2>3. QED
    BY <2>1, <2>2
<1> HIDE DEF k, r, called
<1>10. r(l).due = SubSeq(r(l).list, k + 1, Len(r(l).list))
  BY <1>7, <1>8, DP!RemainsIsSubSeq
<1>11. QED
  BY <1>8, <1>9, <1>10

\* A list says that it fires while a loop fires it, and one loop does.
LEMMA ListsFiringEnds ==
  ASSUME Well(lists, frames)
  PROVE  L!FiringEnds
<1>1. SUFFICES ASSUME NEW l \in DOMAIN ListFlags
               PROVE  /\ ~lists[l].broken => (lists[l].firing <=> L!InFrames(l))
                      /\ L!Cardinality({i \in DOMAIN frames : frames[i].list = l}) <= 1
  BY DEF L!FiringEnds
<1>2. L!InFrames(l) => lists[l].firing
  <2>1. SUFFICES ASSUME NEW i \in DOMAIN frames, frames[i].list = l PROVE lists[l].firing
    BY DEF L!InFrames
  <2>2. ListOK(l, lists[l], ModeOf(frames[i]))
    BY <2>1 DEF Well
  <2>3. ModeOf(frames[i]) # "idle"
    BY DEF ModeOf
  <2>4. QED
    BY <2>2, <2>3 DEF ListOK
<1>3. ~L!InFrames(l) /\ lists[l].firing => lists[l].broken
  <2>1. SUFFICES ASSUME ~Fires(frames, l), lists[l].firing PROVE lists[l].broken
    BY DEF L!InFrames, Fires
  <2>2. QED
    BY <2>1 DEF Well, ListOK
<1> DEFINE A == {i \in DOMAIN frames : frames[i].list = l}
<1>4. A = {} \/ \E i : A = {i}
  BY DEF Well, Distinct
<1> HIDE DEF A
<1>5. Cardinality(A) <= 1
  <2>1. CASE A = {}
    <3>1. Cardinality(A) = 0
      BY <2>1, FS_EmptySet
    <3>2. QED
      BY <3>1
  <2>2. CASE \E i : A = {i}
    <3>1. Cardinality(A) = 1
      BY <2>2, FS_Singleton
    <3>2. QED
      BY <3>1
  <2>3. QED
    BY <1>4, <2>1, <2>2
<1>6. L!Cardinality(A) <= 1
  BY <1>5, SameCardinality
<1>7. QED
  BY <1>2, <1>3, <1>6 DEF A

\* The flags once and unique mean what they say.
LEMMA ListsFlagsKept ==
  ASSUME Well(lists, frames)
  PROVE  L!FlagsKept
<1> DEFINE times(seq, e) == L!Cardinality({i \in DOMAIN seq : seq[i] = e})
<1>1. ASSUME NEW s \in Seq(Entries), NEW e PROVE times(s, e) = Times(s, e)
  <2>1. {i \in DOMAIN s : s[i] = e} = Places(s, 0, e)
    BY <1>1 DEF Places
  <2>2. QED
    BY <2>1, SameCardinality DEF Times, Ahead
<1>2. ASSUME NEW l \in DOMAIN ListFlags
      PROVE  /\ Once(l) => \A f \in Fn : times(Firsts(lists[l].log), L!User(f))
                                            <= times(lists[l].added, L!User(f))
             /\ Unique(l) => L!IsInjective(lists[l].list)
  <2> DEFINE r == lists[l]
  <2>1. \E m : ListOK(l, r, m)
    <3>1. CASE Fires(frames, l)
      BY <3>1 DEF Fires, Well
    <3>2. CASE ~Fires(frames, l)
      BY <3>2 DEF Well
    <3>3. QED
      BY <3>1, <3>2
  <2>2. r \in ListRec /\ HeldOK(l, r) /\ LogOK(l, r)
    BY <2>1 DEF ListOK
  <2>3. Firsts(r.log) \in Seq(Entries) /\ r.added \in Seq(Entries)
    BY <2>2, FirstsFacts DEF ListRec
  <2>4. ASSUME Once(l), NEW f \in Fn
        PROVE  times(Firsts(r.log), L!User(f)) <= times(r.added, L!User(f))
    <3>1. L!User(f) \in Entries
      BY DEF Entries
    <3>2. Times(Firsts(r.log), L!User(f)) <= Times(r.added, L!User(f))
      BY <2>2, <2>4, <3>1 DEF LogOK
    <3> HIDE DEF times
    <3>3. QED
      BY <1>1, <2>3, <3>2
  <2>5. Unique(l) => L!IsInjective(r.list)
    BY <2>2 DEF HeldOK, Unlike, L!IsInjective
  <2>6. QED
    BY <2>4, <2>5
<1>3. QED
  BY <1>2 DEF L!FlagsKept, Once, Unique, Firsts

-----------------------------------------------------------------------------
(* The lists of a page.                                                     *)

\* The lists are as they must be when they are what is run.
ListsSafe == part \in Parts /\ (Runs("lists") => Well(lists, frames))

\* Lists that are changed and fired in their own firing stay as they must be.
THEOREM ListsAlwaysSafe == PromisesSpec => []ListsSafe
<1>1. PromisesInit => ListsSafe
  BY ListsStart DEF PromisesInit, ListsSafe, Runs
<1>2. ListsSafe /\ [ListsStep \/ DeferredsStep]_promiseVars => ListsSafe'
  <2>1. ASSUME ListsSafe, ListsStep PROVE ListsSafe'
    <3>1. Well(lists, frames) /\ L!ListNext /\ part' = part
      BY <2>1 DEF ListsSafe, ListsStep
    <3>2. Well(lists', frames')
      BY <3>1, ListsKept
    <3>3. QED
      BY <2>1, <3>1, <3>2 DEF ListsSafe, Runs
  <2>2. ASSUME ListsSafe, DeferredsStep PROVE ListsSafe'
    BY <2>2 DEF ListsSafe, DeferredsStep, Runs
  <2>3. ASSUME ListsSafe, UNCHANGED promiseVars PROVE ListsSafe'
    <3>1. part' = part /\ lists' = lists /\ frames' = frames
      BY <2>3 DEF promiseVars, listVars
    <3>2. QED
      BY <2>3, <3>1 DEF ListsSafe, Runs
  <2>4. QED
    BY <2>1, <2>2, <2>3
<1>3. QED
  BY <1>1, <1>2, PTL DEF PromisesSpec

\* What CallbacksSound says of lists and deferreds holds in every state of a
\* page, for any number of lists, deferreds, functions, values and calls.
THEOREM PromisesCallbacks == PromisesSpec => []CallbacksSound
<1>1. ListsSafe => (Runs("lists") => L!CallsDue /\ L!FiringEnds /\ L!FlagsKept)
  BY ListsCallsDue, ListsFiringEnds, ListsFlagsKept DEF ListsSafe
<1>2. ListsSafe /\ DeferredsSound => CallbacksSound
  BY <1>1 DEF DeferredsSound, CallbacksSound
<1>3. QED
  BY <1>2, ListsAlwaysSafe, PromisesDeferreds, PTL

=============================================================================
