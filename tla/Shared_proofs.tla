--------------------------- MODULE Shared_proofs ---------------------------
(***************************************************************************)
(* Proofs about what the threads of the server share: the values of a      *)
(* CacheRepository and the parts of the framework that are made lazily     *)
(* (LazyInit), the cache engine of the repositories among them.            *)
(*                                                                         *)
(* An operation of a repository that runs alone acts on the list that is   *)
(* stored, so only overlaps and failures part it from the values.  A part  *)
(* that is made under a lock is made by the one who holds it.              *)
(***************************************************************************)
EXTENDS CacheRepository, LazyInit, TLAPS

-----------------------------------------------------------------------------
(* The cache repository. *)

\* What a thread in an operation of its own knows: a set has its value in
\* place, a remove has removed it, and the copy of the list is up to date.
\* What clear has still to remove is all that is left of the list.
Knows(t) ==
    LET c == call[t] IN
    /\ \A u \in Thread : u # t => call[u] = Idle
    /\ c.op = "set" /\ c.pc = "store" => c.keys = Elements(list) \cup {c.key}
    /\ c.op = "set" /\ c.pc \in {"get", "store"} /\ c.arg # Null => value[c.key] # Null
    /\ c.op = "remove" /\ c.pc = "store" => c.keys = Elements(list) \ {c.key}
    /\ c.op = "remove" /\ c.pc \in {"get", "store"} => value[c.key] = Null
    /\ c.op = "clear" /\ c.pc \in {"each", "drop"} =>
          \A k \in Elements(list) : value[k] # Null => k \in c.keys
    /\ c.op = "clear" /\ c.pc = "drop" => c.keys = {}

\* Where each operation can be.
PcOf ==
    \A t \in Thread : call[t] # Idle =>
        /\ call[t].op = "clear" => call[t].pc \in {"get", "each", "drop"}
        /\ call[t].op # "clear" => call[t].pc \in {"first", "get", "store"} /\ call[t].key \in Key
        /\ call[t].op = "remove" => call[t].arg = Null
        /\ call[t].op = "set" /\ call[t].pc # "first" => KeyList

AloneInv == \A t \in Thread : call[t] # Idle /\ alone[t] => Knows(t)

CacheInv == TypeOK /\ PcOf /\ AloneInv

-----------------------------------------------------------------------------
(* Types. *)

LEMMA IdleIsNotBusy == Idle \notin Busy
BY DEF Idle, Busy

\* Every variable of CacheRepository keeps its type.
LEMMA TypeStep ==
  ASSUME TypeOK, PcOf, [Next]_vars
  PROVE  TypeOK' /\ PcOf'
<1>1. faults \in Nat /\ MaxFaults \in Nat /\ (list \subseteq Key \/ list = Null)
  BY CacheAssumption DEF TypeOK
<1>2. Elements(list) \subseteq Key /\ Elements(Null) = {}
  BY DEF TypeOK, Elements
<1>3. ASSUME NEW t \in Thread, NEW c \in Busy \cup {Idle},
             call' = [call EXCEPT ![t] = c]
      PROVE  /\ call' \in [Thread -> Busy \cup {Idle}] /\ call'[t] = c
             /\ \A u \in Thread : u # t => call'[u] = call[u]
  BY <1>3 DEF TypeOK
<1>4. ASSUME NEW t \in Thread, NEW at \in {"first", "get"}, NEW op \in {"set", "remove", "clear"},
             NEW k \in Key \cup {Null}, NEW v \in Value \cup {Null},
             op # "clear" => k \in Key, op = "clear" => at = "get", op = "remove" => v = Null,
             op # "clear" => at = "first",
             Begin(t, at, op, k, v)
      PROVE  TypeOK' /\ PcOf'
  <2> DEFINE c == [pc |-> at, op |-> op, key |-> k, arg |-> v, keys |-> {}]
  <2>1. c \in Busy
    BY DEF Busy
  <2>2. call' \in [Thread -> Busy \cup {Idle}] /\ call'[t] = c
        /\ \A u \in Thread : u # t => call'[u] = call[u]
    BY <1>3, <1>4, <2>1 DEF Begin
  <2>3. alone' \in [Thread -> BOOLEAN] /\ UNCHANGED <<value, list, faults>>
    BY <1>4 DEF Begin, TypeOK
  <2>4. QED
    BY <1>4, <2>2, <2>3 DEF TypeOK, PcOf
<1>5. ASSUME NEW t \in Thread, call[t] # Idle, NEW at \in {"get", "store", "each", "drop"},
             NEW keys \in SUBSET Key, Goto(t, at, keys), at = "each" => keys # {},
             call[t].op = "clear" => at \in {"each", "drop"},
             call[t].op # "clear" => at \in {"get", "store"},
             call[t].op = "set" => KeyList
      PROVE  /\ call' \in [Thread -> Busy \cup {Idle}]
             /\ \A u \in Thread : call'[u].pc = "each" => call'[u].keys # {}
             /\ PcOf'
  <2> DEFINE c == [call[t] EXCEPT !.pc = at, !.keys = keys]
  <2>1. c \in Busy /\ c.pc = at /\ c.keys = keys /\ c.op = call[t].op
        /\ c.key = call[t].key /\ c.arg = call[t].arg
    BY <1>5 DEF Busy, TypeOK
  <2>2. call' = [call EXCEPT ![t] = c]
    BY <1>5 DEF Goto
  <2> HIDE DEF c
  <2>3. call' \in [Thread -> Busy \cup {Idle}] /\ call'[t] = c
        /\ \A u \in Thread : u # t => call'[u] = call[u]
    BY <1>3, <2>1, <2>2
  <2>4. QED
    BY <1>5, <2>1, <2>3 DEF TypeOK, PcOf
<1>6. ASSUME NEW t \in Thread, Done(t)
      PROVE  /\ call' \in [Thread -> Busy \cup {Idle}]
             /\ \A u \in Thread : call'[u].pc = "each" => call'[u].keys # {}
             /\ PcOf'
  <2>1. call' \in [Thread -> Busy \cup {Idle}] /\ call'[t] = Idle
        /\ \A u \in Thread : u # t => call'[u] = call[u]
    BY <1>3, <1>6 DEF Done
  <2>2. Idle.pc # "each"
    BY DEF Idle
  <2>3. QED
    BY <2>1, <2>2 DEF TypeOK, PcOf
<1>7. ASSUME NEW t \in Thread, call[t] # Idle, AfterFirst(t), call[t].pc = "first"
      PROVE  /\ call' \in [Thread -> Busy \cup {Idle}]
             /\ \A u \in Thread : call'[u].pc = "each" => call'[u].keys # {}
             /\ PcOf'
  <2>1. call[t].op # "clear"
    BY <1>7 DEF PcOf
  <2>2. KeyList \in BOOLEAN
    BY CacheAssumption
  <2>3. CASE call[t].op = "set" /\ ~KeyList
    BY <1>6, <1>7, <2>3 DEF AfterFirst
  <2>4. CASE ~(call[t].op = "set" /\ ~KeyList)
    <3>1. Goto(t, "get", {}) /\ (call[t].op = "set" => KeyList)
      BY <1>7, <2>4 DEF AfterFirst
    <3>2. QED
      BY <1>5, <1>7, <2>1, <3>1
  <2>5. QED
    BY <2>3, <2>4
<1>8. ASSUME NEW t \in Thread, call[t] # Idle, NEW l, Elements(l) \subseteq Key,
             l # Null => l = Elements(l), UseList(t, l), call[t].pc = "get"
      PROVE  /\ call' \in [Thread -> Busy \cup {Idle}]
             /\ \A u \in Thread : call'[u].pc = "each" => call'[u].keys # {}
             /\ PcOf'
  <2>1. CASE Done(t)
    BY <1>6, <2>1
  <2>2. CASE call[t].op = "set" /\ Goto(t, "store", Elements(l) \cup {call[t].key})
    <3>1. KeyList /\ call[t].key \in Key
      BY <1>8, <2>2 DEF PcOf
    <3>2. Elements(l) \cup {call[t].key} \in SUBSET Key
      BY <1>8, <3>1
    <3>3. QED
      BY <1>5, <1>8, <2>2, <3>1, <3>2
  <2>3. CASE call[t].op = "remove" /\ Goto(t, "store", l \ {call[t].key}) /\ Elements(l) # {}
    <3>1. l # Null
      BY <2>3 DEF Elements
    <3>2. l \ {call[t].key} \in SUBSET Key
      BY <1>8, <3>1
    <3>3. QED
      BY <1>5, <1>8, <2>3, <3>2
  <2>4. CASE call[t].op = "clear" /\ Elements(l) # {} /\ Goto(t, "each", l)
    <3>1. l # Null
      BY <2>4 DEF Elements
    <3>2. l \in SUBSET Key /\ l # {}
      BY <1>8, <2>4, <3>1
    <3>3. QED
      BY <1>5, <1>8, <2>4, <3>2
  <2>5. QED
    BY <1>8, <2>1, <2>2, <2>3, <2>4 DEF UseList
<1>9. ASSUME NEW t \in Thread, call[t] # Idle, call[t].pc = "each",
             NEW k \in call[t].keys, AfterEach(t, k)
      PROVE  /\ call' \in [Thread -> Busy \cup {Idle}]
             /\ \A u \in Thread : call'[u].pc = "each" => call'[u].keys # {}
             /\ PcOf'
  <2>1. call[t].op = "clear"
    BY <1>9 DEF PcOf
  <2>2. call[t].keys \ {k} \in SUBSET Key
    BY <1>9 DEF TypeOK, Busy
  <2>3. CASE call[t].keys = {k}
    BY <1>5, <1>9, <2>1, <2>2, <2>3 DEF AfterEach
  <2>4. CASE call[t].keys # {k}
    <3>1. call[t].keys \ {k} # {} /\ Goto(t, "each", call[t].keys \ {k})
      BY <1>9, <2>4 DEF AfterEach
    <3>2. QED
      BY <1>5, <1>9, <2>1, <2>2, <3>1
  <2>5. QED
    BY <2>3, <2>4
<1>10. \A t \in Thread : call[t].pc \in {"first", "get", "store", "each", "drop"} => call[t] # Idle
  BY DEF Idle
<1>11. ASSUME NEW t \in Thread, Set(t) \/ Remove(t) \/ Clear(t)
       PROVE  TypeOK' /\ PcOf'
  <2>1. CASE Set(t)
    BY <1>4, <2>1 DEF Set
  <2>2. CASE Remove(t)
    BY <1>4, <2>2 DEF Remove
  <2>3. CASE Clear(t)
    BY <1>4, <2>3 DEF Clear
  <2>4. QED
    BY <1>11, <2>1, <2>2, <2>3
<1>12. ASSUME NEW t \in Thread, Step(t)
       PROVE  TypeOK' /\ PcOf'
  <2>1. CASE PutOrDelete(t)
    <3>1. call[t].arg \in Value \cup {Null} /\ value' \in [Key -> Value \cup {Null}]
      BY <1>10, <2>1 DEF PutOrDelete, TypeOK, Busy
    <3>2. QED
      BY <1>7, <1>10, <2>1, <3>1 DEF PutOrDelete, TypeOK
  <2>2. CASE GetList(t)
    <3>1. list # Null => list = Elements(list)
      BY DEF Elements
    <3>2. QED
      BY <1>2, <1>8, <1>10, <2>2, <3>1 DEF GetList, TypeOK
  <2>3. CASE StoreList(t)
    <3>1. call[t].keys \in SUBSET Key
      BY <1>10, <2>3 DEF StoreList, TypeOK, Busy
    <3>2. QED
      BY <1>6, <2>3, <3>1 DEF StoreList, TypeOK
  <2>4. CASE ClearValue(t)
    <3>1. PICK k \in call[t].keys : value' = [value EXCEPT ![k] = Null] /\ AfterEach(t, k)
      BY <2>4 DEF ClearValue
    <3>2. value' \in [Key -> Value \cup {Null}]
      BY <3>1 DEF TypeOK
    <3>3. QED
      BY <1>9, <1>10, <2>4, <3>1, <3>2 DEF ClearValue, TypeOK
  <2>5. CASE DropList(t)
    BY <1>6, <2>5 DEF DropList, TypeOK
  <2>6. QED
    BY <1>12, <2>1, <2>2, <2>3, <2>4, <2>5 DEF Step
<1>13. ASSUME NEW t \in Thread, Lost(t)
       PROVE  TypeOK' /\ PcOf'
  <2>1. /\ call' \in [Thread -> Busy \cup {Idle}]
        /\ \A u \in Thread : call'[u].pc = "each" => call'[u].keys # {}
        /\ PcOf'
    <3>1. CASE call[t].pc = "first" /\ AfterFirst(t)
      BY <1>7, <1>10, <3>1
    <3>2. CASE call[t].pc = "get" /\ UseList(t, Null)
      BY <1>2, <1>8, <1>10, <3>2
    <3>3. CASE call[t].pc \in {"store", "drop"} /\ Done(t)
      BY <1>6, <3>3
    <3>4. CASE call[t].pc = "each" /\ \E k \in call[t].keys : AfterEach(t, k)
      BY <1>9, <1>10, <3>4
    <3>5. QED
      BY <1>13, <3>1, <3>2, <3>3, <3>4 DEF Lost
  <2>2. faults' \in 0..MaxFaults /\ alone' \in [Thread -> BOOLEAN]
    BY <1>13, CacheAssumption DEF Lost, Fault, TypeOK
  <2>3. QED
    BY <1>13, <2>1, <2>2 DEF Lost, TypeOK
<1>14. CASE Expire
  <2>1. faults' \in 0..MaxFaults /\ alone' \in [Thread -> BOOLEAN]
    BY <1>14, CacheAssumption DEF Expire, Fault, TypeOK
  <2>2. value' \in [Key -> Value \cup {Null}] /\ (list' = Null \/ list' \in SUBSET Key)
    BY <1>14 DEF Expire, TypeOK
  <2>3. QED
    BY <1>14, <2>1, <2>2 DEF Expire, TypeOK, PcOf
<1>15. CASE UNCHANGED vars
  BY <1>15 DEF vars, TypeOK, PcOf
<1>16. QED
  BY <1>11, <1>12, <1>13, <1>14, <1>15 DEF Next

-----------------------------------------------------------------------------
(* The steps of an operation that runs alone. *)

\* A thread that executes a step is in an operation, and others that are alone
\* are not.
LEMMA StepIsBusy ==
  ASSUME CacheInv, NEW t \in Thread, Step(t) \/ Lost(t)
  PROVE  /\ call[t] \in Busy /\ call[t] # Idle
         /\ \A u \in Thread : u # t /\ call[u] # Idle => ~alone[u]
<1>1. call[t].pc \in {"first", "get", "store", "each", "drop"}
  BY DEF Step, Lost, PutOrDelete, GetList, StoreList, ClearValue, DropList
<1>2. call[t] # Idle
  BY <1>1 DEF Idle
<1>3. QED
  BY <1>2 DEF CacheInv, AloneInv, Knows, TypeOK

\* A step of t leaves the operations of the others as they are, and its own
\* operation keeps what it is about.
LEMMA OwnCall ==
  ASSUME CacheInv, NEW t \in Thread, Step(t)
  PROVE  /\ \A u \in Thread : u # t => call'[u] = call[u]
         /\ call'[t] # Idle => /\ call'[t].op = call[t].op /\ call'[t].key = call[t].key
                               /\ call'[t].arg = call[t].arg
         /\ UNCHANGED <<alone, faults>>
<1>1. call[t] \in Busy /\ call \in [Thread -> Busy \cup {Idle}]
  BY StepIsBusy DEF CacheInv, TypeOK
<1>2. \A at, keys : Goto(t, at, keys) =>
         /\ \A u \in Thread : u # t => call'[u] = call[u]
         /\ call'[t].op = call[t].op /\ call'[t].key = call[t].key /\ call'[t].arg = call[t].arg
  BY <1>1 DEF Goto, Busy
<1>3. Done(t) => call'[t] = Idle /\ \A u \in Thread : u # t => call'[u] = call[u]
  BY <1>1 DEF Done
<1>4. Done(t) \/ \E at, keys : Goto(t, at, keys)
  BY DEF Step, PutOrDelete, AfterFirst, GetList, UseList, StoreList, ClearValue, AfterEach, DropList
<1>5. UNCHANGED <<alone, faults>>
  BY DEF Step, PutOrDelete, GetList, StoreList, ClearValue, DropList
<1>6. QED
  BY <1>2, <1>3, <1>4, <1>5

\* What the thread goes on with.
LEMMA GotoCall ==
  ASSUME CacheInv, NEW t \in Thread, Step(t), NEW at, NEW keys, Goto(t, at, keys)
  PROVE  call'[t].pc = at /\ call'[t].keys = keys
<1>1. call[t] \in Busy /\ call \in [Thread -> Busy \cup {Idle}]
  BY StepIsBusy DEF CacheInv, TypeOK
<1>2. QED
  BY <1>1 DEF Goto, Busy

\* An operation that runs alone knows what it did.
LEMMA KnowsStep ==
  ASSUME CacheInv, NEW t \in Thread, Step(t), alone[t], call'[t] # Idle
  PROVE  Knows(t)'
<1>1. call[t] \in Busy /\ call[t] # Idle /\ Knows(t) /\ TypeOK /\ PcOf
  BY StepIsBusy DEF CacheInv, AloneInv
<1>2. /\ \A u \in Thread : u # t => call'[u] = Idle
      /\ call'[t].op = call[t].op /\ call'[t].key = call[t].key /\ call'[t].arg = call[t].arg
  BY <1>1, OwnCall DEF Knows
<1>3. call \in [Thread -> Busy \cup {Idle}] /\ value \in [Key -> Value \cup {Null}]
  BY <1>1 DEF TypeOK
<1>4. CASE PutOrDelete(t)
  <2>1. Goto(t, "get", {})
    <3>1. Done(t) => call'[t] = Idle
      BY <1>3 DEF Done
    <3>2. QED
      BY <1>4, <3>1 DEF PutOrDelete, AfterFirst
  <2>2. call'[t].pc = "get"
    BY <2>1, GotoCall
  <2>3. call[t].pc = "first" /\ call[t].op # "clear" /\ call[t].key \in Key
        /\ (call[t].op = "remove" => call[t].arg = Null)
    BY <1>1, <1>4 DEF PcOf, PutOrDelete
  <2>4. /\ call[t].op = "set" /\ call[t].arg # Null => value'[call[t].key] # Null
        /\ call[t].op = "remove" => value'[call[t].key] = Null
    BY <1>3, <1>4, <2>3 DEF PutOrDelete
  <2>5. QED
    BY <1>2, <2>2, <2>3, <2>4 DEF Knows
<1>5. CASE GetList(t)
  <2>1. UNCHANGED <<value, list>> /\ call[t].pc = "get" /\ Elements(list)' = Elements(list)
    BY <1>5 DEF GetList, Elements
  <2>2. Done(t) => call'[t] = Idle
    BY <1>3 DEF Done
  <2>3. CASE call[t].op = "set"
    <3>1. Goto(t, "store", Elements(list) \cup {call[t].key})
      BY <1>5, <2>2, <2>3 DEF GetList, UseList
    <3>2. call'[t].pc = "store" /\ call'[t].keys = Elements(list) \cup {call[t].key}
      BY <3>1, GotoCall
    <3>3. QED
      BY <1>1, <1>2, <2>1, <2>3, <3>2 DEF Knows
  <2>4. CASE call[t].op = "remove"
    <3>1. Goto(t, "store", list \ {call[t].key}) /\ Elements(list) # {}
      BY <1>5, <2>2, <2>4 DEF GetList, UseList
    <3>2. call'[t].pc = "store" /\ call'[t].keys = Elements(list) \ {call[t].key}
      BY <3>1, GotoCall DEF Elements
    <3>3. QED
      BY <1>1, <1>2, <2>1, <2>4, <3>2 DEF Knows
  <2>5. CASE call[t].op = "clear"
    <3>1. Goto(t, "each", list) /\ Elements(list) # {}
      BY <1>5, <2>2, <2>5 DEF GetList, UseList
    <3>2. call'[t].pc = "each" /\ call'[t].keys = Elements(list)
      BY <3>1, GotoCall DEF Elements
    <3>3. QED
      BY <1>2, <2>1, <2>5, <3>2 DEF Knows
  <2>6. QED
    BY <1>1, <2>3, <2>4, <2>5 DEF Busy
<1>6. CASE ClearValue(t)
  <2>1. PICK k \in call[t].keys : value' = [value EXCEPT ![k] = Null] /\ AfterEach(t, k)
    BY <1>6 DEF ClearValue
  <2>2. call'[t].keys = call[t].keys \ {k} /\ call'[t].pc = IF call[t].keys = {k} THEN "drop" ELSE "each"
    BY <2>1, GotoCall DEF AfterEach
  <2>3. call[t].op = "clear" /\ call[t].pc = "each" /\ list' = list
    BY <1>1, <1>6 DEF PcOf, ClearValue
  <2>4. \A j \in Elements(list) : value'[j] # Null => j \in call[t].keys \ {k}
    <3>1. Elements(list) \subseteq Key /\ k \in Key
      BY <1>1 DEF TypeOK, Elements, Busy
    <3>2. \A j \in Elements(list) : value[j] # Null => j \in call[t].keys
      BY <1>1, <2>3 DEF Knows
    <3>3. QED
      BY <1>3, <2>1, <3>1, <3>2
  <2>5. Elements(list)' = Elements(list)
    BY <2>3 DEF Elements
  <2>6. QED
    BY <1>2, <2>2, <2>3, <2>4, <2>5 DEF Knows
<1>7. CASE StoreList(t) \/ DropList(t)
  <2>1. call'[t] = Idle
    BY <1>3, <1>7 DEF StoreList, DropList, Done
  <2>2. QED
    BY <2>1
<1>8. QED
  BY <1>4, <1>5, <1>6, <1>7 DEF Step

LEMMA CacheStep ==
  ASSUME CacheInv, [Next]_vars
  PROVE  CacheInv'
<1>1. TypeOK' /\ PcOf'
  BY TypeStep DEF CacheInv
<1>2. call \in [Thread -> Busy \cup {Idle}] /\ alone \in [Thread -> BOOLEAN]
  BY DEF CacheInv, TypeOK
<1>3. ASSUME NEW t \in Thread, NEW at, NEW op, NEW k, NEW v, Begin(t, at, op, k, v),
             at = "first" \/ (at = "get" /\ op = "clear")
      PROVE  AloneInv'
  <2>1. /\ \A u \in Thread : u # t => call'[u] = call[u]
        /\ call'[t].pc = at /\ call'[t].op = op
    BY <1>2, <1>3 DEF Begin
  <2>2. /\ alone'[t] => Others(t) = {}
        /\ \A u \in Thread : u # t /\ call[u] # Idle => ~alone'[u]
    BY <1>3 DEF Begin, Others
  <2>3. alone'[t] => Knows(t)'
    BY <1>3, <2>1, <2>2 DEF Knows, Others
  <2>4. QED
    BY <2>1, <2>2, <2>3 DEF AloneInv
<1>4. ASSUME NEW t \in Thread, Set(t) \/ Remove(t) \/ Clear(t)
      PROVE  AloneInv'
  <2>1. PICK at, op, k, v : Begin(t, at, op, k, v) /\ (at = "first" \/ (at = "get" /\ op = "clear"))
    BY <1>4 DEF Set, Remove, Clear
  <2>2. QED
    BY <1>3, <2>1
<1>5. ASSUME NEW t \in Thread, Step(t)
      PROVE  AloneInv'
  <2>1. \A u \in Thread : u # t /\ call'[u] # Idle => ~alone'[u]
    BY <1>5, StepIsBusy, OwnCall
  <2>2. alone'[t] /\ call'[t] # Idle => Knows(t)'
    BY <1>5, OwnCall, KnowsStep
  <2>3. QED
    BY <2>1, <2>2 DEF AloneInv
<1>6. ASSUME NEW t \in Thread, Lost(t)
      PROVE  AloneInv'
  <2>1. \A u \in Thread : u # t => call'[u] = call[u]
    BY <1>2, <1>6 DEF Lost, AfterFirst, UseList, AfterEach, Goto, Done
  <2>2. \A u \in Thread : u # t /\ call[u] # Idle => ~alone'[u]
    BY <1>2, <1>6, StepIsBusy DEF Lost
  <2>3. ~alone'[t]
    BY <1>2, <1>6 DEF Lost
  <2>4. QED
    BY <2>1, <2>2, <2>3 DEF AloneInv
<1>7. ASSUME Expire PROVE AloneInv'
  <2>1. call' = call /\ \A t \in Thread : call[t] # Idle => ~alone'[t]
    BY <1>7, Zenon DEF Expire
  <2>2. \A t \in Thread : call'[t] # Idle => ~alone'[t]
    BY <1>7, <2>1, Zenon DEF Expire
  <2>3. QED
    BY <2>2 DEF AloneInv
<1>8. ASSUME UNCHANGED vars PROVE AloneInv'
  <2>1. value' = value /\ list' = list /\ call' = call /\ alone' = alone
    BY <1>8 DEF vars
  <2>2. \A t \in Thread : Knows(t) => Knows(t)'
    BY <2>1 DEF Knows, Elements
  <2>3. \A t \in Thread : call'[t] # Idle /\ alone'[t] => Knows(t)'
    BY <2>1, <2>2 DEF CacheInv, AloneInv
  <2>4. QED
    BY <2>3 DEF AloneInv
<1>9. QED
  BY <1>1, <1>4, <1>5, <1>6, <1>7, <1>8 DEF CacheInv, Next

-----------------------------------------------------------------------------
(* How the list and the values part. *)

\* A step that is not disturbed is one of a thread that is alone.
LEMMA UndisturbedStep ==
  ASSUME CacheInv, [Next]_vars, ~Disturbed
  PROVE  \/ UNCHANGED <<value, list, call>>
         \/ \E t \in Thread : Set(t) \/ Remove(t) \/ Clear(t)
         \/ \E t \in Thread : Step(t) /\ Knows(t) /\ call[t] # Idle /\ call[t] \in Busy
<1>1. faults' = faults /\ faults \in Nat
  BY CacheAssumption DEF Disturbed, CacheInv, TypeOK
<1>2. ~Expire /\ \A t \in Thread : ~Lost(t)
  BY <1>1 DEF Expire, Lost, Fault
<1>3. ASSUME NEW t \in Thread, Step(t)
      PROVE  Knows(t) \/ UNCHANGED <<value, list, call>>
  <2>1. call[t] \in Busy /\ call[t] # Idle
    BY <1>3, StepIsBusy
  <2>2. CASE call'[t] # call[t]
    BY <2>1, <2>2 DEF Disturbed, CacheInv, AloneInv
  <2>3. CASE call'[t] = call[t]
    <3>1. call'[t] # Idle
      BY <2>1, <2>3
    <3>2. call \in [Thread -> Busy \cup {Idle}]
      BY DEF CacheInv, TypeOK
    <3>3. ~Done(t)
      BY <3>1, <3>2 DEF Done
    <3>4. ~StoreList(t) /\ ~DropList(t)
      BY <3>3 DEF StoreList, DropList
    <3>5. CASE PutOrDelete(t)
      <4>1. Goto(t, "get", {}) /\ call[t].pc = "first"
        BY <3>3, <3>5 DEF PutOrDelete, AfterFirst
      <4>2. QED
        BY <1>3, <2>3, <4>1, GotoCall
    <3>6. CASE GetList(t)
      <4>1. PICK at, keys : at \in {"store", "each"} /\ Goto(t, at, keys)
        BY <3>3, <3>6 DEF GetList, UseList
      <4>2. QED
        BY <1>3, <2>3, <3>6, <4>1, GotoCall DEF GetList
    <3>7. CASE ClearValue(t)
      <4>1. PICK k, at : k \in call[t].keys /\ Goto(t, at, call[t].keys \ {k})
        BY <3>7 DEF ClearValue, AfterEach
      <4>2. call'[t].keys = call[t].keys \ {k}
        BY <1>3, <4>1, GotoCall
      <4>3. QED
        BY <1>3, <2>3, <3>7, <4>1, <4>2 DEF ClearValue
    <3>8. QED
      BY <1>3, <3>4, <3>5, <3>6, <3>7 DEF Step
  <2>4. QED
    BY <2>2, <2>3
<1>4. QED
  BY <1>2, <1>3, StepIsBusy DEF Next, vars

LEMMA OrphanStep ==
  ASSUME CacheInv, [Next]_vars, NEW k \in Key, KeyList, Orphan(k)', ~Orphan(k)
  PROVE  Disturbed
<1> SUFFICES ASSUME ~Disturbed PROVE FALSE
  OBVIOUS
<1>1. value'[k] # Null /\ k \notin Elements(list')
      /\ \A t \in Thread : ~(/\ call'[t] # Idle /\ call'[t].op = "set" /\ call'[t].key = k
                             /\ call'[t].pc \in {"get", "store"})
  BY DEF Orphan, InOp, Elements
<1>2. CASE UNCHANGED <<value, list, call>>
  BY <1>1, <1>2 DEF Orphan, InOp
<1>3. ASSUME NEW t \in Thread, Set(t) \/ Remove(t) \/ Clear(t)
      PROVE  FALSE
  <2>1. call[t] = Idle /\ UNCHANGED <<value, list>>
        /\ \A u \in Thread : u # t => call'[u] = call[u]
    BY <1>3 DEF Set, Remove, Clear, Begin, CacheInv, TypeOK
  <2>2. QED
    BY <1>1, <2>1 DEF Orphan, InOp
<1>4. ASSUME NEW t \in Thread, Step(t), Knows(t), call[t] # Idle, call[t] \in Busy
      PROVE  FALSE
  <2>1. \A u \in Thread : u # t => call[u] = Idle
    BY <1>4 DEF Knows
  <2>2. value \in [Key -> Value \cup {Null}] /\ call \in [Thread -> Busy \cup {Idle}] /\ PcOf
    BY DEF CacheInv, TypeOK
  <2>3. Done(t) => call'[t] = Idle
    BY <2>2 DEF Done
  <2>4. call'[t] # Idle => call'[t].op = call[t].op /\ call'[t].key = call[t].key
    BY <1>4, OwnCall
  <2>5. CASE PutOrDelete(t)
    <3>1. call[t].pc = "first" /\ list' = list
      BY <2>5 DEF PutOrDelete
    <3>2. value[k] = Null
      BY <1>1, <2>1, <3>1 DEF Orphan, InOp
    <3>3. call[t].op = "set" /\ call[t].key = k
      BY <1>1, <1>4, <2>2, <2>5, <3>1, <3>2 DEF PutOrDelete, PcOf, Busy
    <3>4. Goto(t, "get", {})
      BY <2>5, <3>3 DEF PutOrDelete, AfterFirst
    <3>5. call'[t].pc = "get"
      BY <1>4, <3>4, GotoCall
    <3>6. call'[t] # Idle
      BY <3>5 DEF Idle
    <3>7. QED
      BY <1>1, <2>4, <3>3, <3>5, <3>6
  <2>6. CASE GetList(t)
    <3>1. UNCHANGED <<value, list>>
      BY <2>6 DEF GetList
    <3>2. call[t].op = "set" /\ call[t].key = k
      BY <1>1, <2>1, <3>1 DEF Orphan, InOp
    <3>3. \E keys : Goto(t, "store", keys)
      BY <1>1, <2>6, <3>1, <3>2 DEF GetList, UseList
    <3>4. call'[t].pc = "store"
      BY <1>4, <3>3, GotoCall
    <3>5. call'[t] # Idle
      BY <3>4 DEF Idle
    <3>6. QED
      BY <1>1, <2>4, <3>2, <3>4, <3>5
  <2>7. CASE StoreList(t)
    <3>1. call[t].pc = "store" /\ list' = call[t].keys /\ value' = value
      BY <2>7 DEF StoreList
    <3>2. call[t].op \in {"set", "remove"} /\ call[t].keys \in SUBSET Key
      BY <1>4, <2>2, <3>1 DEF PcOf, Busy
    <3>3. Elements(list') = call[t].keys
      BY <3>1, <3>2, CacheAssumption DEF Elements
    <3>4. k # call[t].key
      <4>1. CASE call[t].op = "set"
        BY <1>1, <1>4, <3>1, <3>3, <4>1 DEF Knows
      <4>2. CASE call[t].op = "remove"
        BY <1>1, <1>4, <3>1, <4>2 DEF Knows
      <4>3. QED
        BY <3>2, <4>1, <4>2
    <3>5. k \notin Elements(list)
      BY <1>1, <1>4, <3>1, <3>2, <3>3, <3>4 DEF Knows
    <3>6. QED
      BY <1>1, <2>1, <3>1, <3>4, <3>5 DEF Orphan, InOp
  <2>8. CASE ClearValue(t)
    <3>1. call[t].op = "clear" /\ list' = list /\ value[k] # Null
      BY <1>1, <1>4, <2>2, <2>8 DEF PcOf, ClearValue
    <3>2. QED
      BY <1>1, <2>1, <3>1 DEF Orphan, InOp
  <2>9. CASE DropList(t)
    <3>1. call[t].op = "clear" /\ call[t].pc = "drop" /\ value' = value
      BY <1>4, <2>2, <2>9 DEF PcOf, DropList
    <3>2. k \notin Elements(list)
      BY <1>1, <1>4, <3>1 DEF Knows
    <3>3. QED
      BY <1>1, <2>1, <3>1, <3>2 DEF Orphan, InOp
  <2>10. QED
    BY <1>4, <2>5, <2>6, <2>7, <2>8, <2>9 DEF Step
<1>5. QED
  BY <1>2, <1>3, <1>4, UndisturbedStep


LEMMA PhantomStep ==
  ASSUME CacheInv, [Next]_vars, NEW k \in Key, Phantom(k)', ~Phantom(k),
         ~ \E t \in Thread : InOp(t, {"set"}) /\ call[t].arg = Null
  PROVE  Disturbed
<1> SUFFICES ASSUME ~Disturbed PROVE FALSE
  OBVIOUS
<1>1. value'[k] = Null /\ k \in Elements(list')
      /\ \A t \in Thread : call'[t] # Idle =>
            /\ call'[t].op # "clear"
            /\ call'[t].op = "remove" => call'[t].key # k
  BY DEF Phantom, InOp, Elements
<1>2. CASE UNCHANGED <<value, list, call>>
  BY <1>1, <1>2 DEF Phantom, InOp
<1>3. ASSUME NEW t \in Thread, Set(t) \/ Remove(t) \/ Clear(t)
      PROVE  FALSE
  <2>1. call[t] = Idle /\ UNCHANGED <<value, list>>
        /\ \A u \in Thread : u # t => call'[u] = call[u]
    BY <1>3 DEF Set, Remove, Clear, Begin, CacheInv, TypeOK
  <2>2. QED
    BY <1>1, <2>1 DEF Phantom, InOp
<1>4. ASSUME NEW t \in Thread, Step(t), Knows(t), call[t] # Idle, call[t] \in Busy
      PROVE  FALSE
  <2> DEFINE Mine == call[t].op = "clear" \/ (call[t].op = "remove" /\ call[t].key = k)
  <2>1. \A u \in Thread : u # t => call[u] = Idle
    BY <1>4 DEF Knows
  <2>2. value \in [Key -> Value \cup {Null}] /\ call \in [Thread -> Busy \cup {Idle}] /\ PcOf
    BY DEF CacheInv, TypeOK
  <2>3. Mine => call'[t] = Idle
    BY <1>1, <1>4, OwnCall
  <2>4. value[k] = Null /\ k \in Elements(list) => Mine
    BY <2>1 DEF Phantom, InOp
  <2>5. call[t].op = "set" => call[t].arg # Null
    BY <1>4 DEF InOp
  <2>6. ASSUME NEW at, NEW keys, Goto(t, at, keys), at # "idle"
        PROVE  ~Mine
    <3>1. call'[t].pc = at
      BY <1>4, <2>6, GotoCall
    <3>2. call'[t] # Idle
      BY <2>6, <3>1 DEF Idle
    <3>3. QED
      BY <2>3, <3>2
  <2>7. CASE PutOrDelete(t)
    <3>1. call[t].pc = "first" /\ list' = list /\ call[t].op # "clear" /\ call[t].key \in Key
      BY <1>4, <2>2, <2>7 DEF PutOrDelete, PcOf
    <3>2. ~Mine
      <4>1. CASE call[t].op = "remove"
        BY <2>6, <2>7, <4>1 DEF PutOrDelete, AfterFirst
      <4>2. QED
        BY <3>1, <4>1
    <3>3. CASE call[t].key = k
      <4>1. call[t].op = "set"
        BY <1>4, <3>1, <3>2, <3>3 DEF Busy
      <4>2. QED
        BY <1>1, <2>2, <2>5, <2>7, <3>3, <4>1 DEF PutOrDelete
    <3>4. CASE call[t].key # k
      BY <1>1, <2>2, <2>4, <2>7, <3>1, <3>2, <3>4 DEF PutOrDelete
    <3>5. QED
      BY <3>3, <3>4
  <2>8. CASE GetList(t)
    <3>1. UNCHANGED <<value, list>>
      BY <2>8 DEF GetList
    <3>2. Mine /\ k \in Elements(list)
      BY <1>1, <2>4, <3>1
    <3>3. \E at, keys : at \in {"store", "each"} /\ Goto(t, at, keys)
      BY <2>8, <3>2 DEF GetList, UseList
    <3>4. QED
      BY <2>6, <3>2, <3>3
  <2>9. CASE StoreList(t)
    <3>1. call[t].pc = "store" /\ list' = call[t].keys /\ value' = value
      BY <2>9 DEF StoreList
    <3>2. call[t].op \in {"set", "remove"} /\ call[t].keys \in SUBSET Key
      BY <1>4, <2>2, <3>1 DEF PcOf, Busy
    <3>3. Elements(list') = call[t].keys
      BY <3>1, <3>2, CacheAssumption DEF Elements
    <3>4. CASE call[t].op = "set"
      BY <1>1, <1>4, <2>4, <2>5, <3>1, <3>3, <3>4 DEF Knows
    <3>5. CASE call[t].op = "remove"
      BY <1>1, <1>4, <2>4, <3>1, <3>3, <3>5 DEF Knows
    <3>6. QED
      BY <3>2, <3>4, <3>5
  <2>10. CASE ClearValue(t)
    <3>1. call[t].op = "clear"
      BY <1>4, <2>2, <2>10 DEF PcOf, ClearValue
    <3>2. \E at, keys : at \in {"drop", "each"} /\ Goto(t, at, keys)
      BY <2>10 DEF ClearValue, AfterEach
    <3>3. QED
      BY <2>6, <3>1, <3>2
  <2>11. CASE DropList(t)
    BY <1>1, <2>11 DEF DropList, Elements
  <2>12. QED
    BY <1>4, <2>7, <2>8, <2>9, <2>10, <2>11 DEF Step
<1>5. QED
  BY <1>2, <1>3, <1>4, UndisturbedStep

LEMMA ClearStep ==
  ASSUME CacheInv, [Next]_vars, NEW t \in Thread, InOp(t, {"clear"}), call'[t] = Idle,
         ~Disturbed, NEW k \in Key, value'[k] # Null
  PROVE  Orphan(k)
<1>1. call[t] # Idle /\ call[t].op = "clear"
  BY DEF InOp
<1>2. ~ UNCHANGED <<value, list, call>>
  BY <1>1
<1>3. ASSUME NEW u \in Thread, Set(u) \/ Remove(u) \/ Clear(u)
      PROVE  FALSE
  BY <1>1, <1>3 DEF Set, Remove, Clear, Begin, CacheInv, TypeOK
<1>4. ASSUME NEW u \in Thread, Step(u), Knows(u), call[u] # Idle, call[u] \in Busy
      PROVE  Orphan(k)
  <2>1. u = t /\ \A w \in Thread : w # t => call[w] = Idle
    BY <1>1, <1>4 DEF Knows
  <2>2. value \in [Key -> Value \cup {Null}] /\ call \in [Thread -> Busy \cup {Idle}] /\ PcOf
    BY DEF CacheInv, TypeOK
  <2>3. ~ \E at, keys : at \in {"each", "drop"} /\ Goto(t, at, keys)
    <3>1. ASSUME NEW at \in {"each", "drop"}, NEW keys, Goto(t, at, keys)
          PROVE  FALSE
      <4>1. call'[t].pc = at
        BY <1>4, <2>1, <3>1, GotoCall
      <4>2. QED
        BY <4>1 DEF Idle
    <3>2. QED
      BY <3>1
  <2>4. call[t].pc \notin {"first", "store"}
    BY <1>1, <2>2 DEF PcOf
  <2>5. CASE GetList(t)
    BY <1>1, <2>1, <2>3, <2>5 DEF GetList, UseList, Orphan, InOp
  <2>6. CASE ClearValue(t)
    BY <2>3, <2>6 DEF ClearValue, AfterEach
  <2>7. CASE DropList(t)
    <3>1. value' = value /\ call[t].pc = "drop"
      BY <2>7 DEF DropList
    <3>2. k \notin Elements(list)
      BY <1>1, <1>4, <2>1, <3>1 DEF Knows
    <3>3. QED
      BY <1>1, <2>1, <3>1, <3>2 DEF Orphan, InOp
  <2>8. QED
    BY <1>4, <2>1, <2>4, <2>5, <2>6, <2>7 DEF Step, PutOrDelete, StoreList
<1>5. QED
  BY <1>2, <1>3, <1>4, UndisturbedStep

-----------------------------------------------------------------------------
(* The theorems. *)

LEMMA CacheInit == Init => CacheInv
<1> SUFFICES ASSUME Init PROVE CacheInv
  OBVIOUS
<1>1. \A t \in Thread : call[t] = Idle
  BY DEF Init
<1>2. TypeOK
  <2>1. Idle.pc = "idle"
    BY DEF Idle
  <2>2. \A t \in Thread : call[t].pc # "each"
    BY <1>1, <2>1
  <2>3. QED
    BY <2>2, CacheAssumption DEF Init, TypeOK
<1>3. QED
  BY <1>1, <1>2 DEF CacheInv, PcOf, AloneInv

\* Every variable of CacheRepository keeps its type.
THEOREM CacheTyping == Spec => []TypeOK
<1>1. CacheInv => TypeOK
  BY DEF CacheInv
<1>2. QED
  BY <1>1, CacheInit, CacheStep, PTL DEF Spec

\* The list of keys loses a value only in a step of an operation that
\* overlapped another one or met a failure, for any number of threads and keys.
THEOREM OnlyOverlapOrphans == Spec => OrphansNeedOverlap
<1>1. CacheInv /\ [Next]_vars =>
         [\A k \in Key : KeyList /\ Orphan(k)' /\ ~Orphan(k) => Disturbed]_vars
  BY OrphanStep
<1>2. QED
  BY <1>1, CacheInit, CacheStep, PTL DEF Spec, OrphansNeedOverlap

\* The same of keys that are listed without a value.
THEOREM OnlyOverlapPhantoms == Spec => PhantomsNeedOverlap
<1>1. CacheInv /\ [Next]_vars =>
         [\A k \in Key : Phantom(k)' /\ ~Phantom(k) =>
             \/ Disturbed
             \/ \E t \in Thread : InOp(t, {"set"}) /\ call[t].arg = Null]_vars
  BY PhantomStep
<1>2. QED
  BY <1>1, CacheInit, CacheStep, PTL DEF Spec, PhantomsNeedOverlap

\* A clear that ran alone leaves no value but those the list had lost before.
THEOREM ClearLeavesOrphansOnly == Spec => ClearEmpties
<1>1. CacheInv /\ [Next]_vars =>
         [\A t \in Thread :
             InOp(t, {"clear"}) /\ call'[t] = Idle /\ ~Disturbed =>
                 \A k \in Key : value'[k] # Null => Orphan(k)]_vars
  BY ClearStep
<1>2. QED
  BY <1>1, CacheInit, CacheStep, PTL DEF Spec, ClearEmpties

-----------------------------------------------------------------------------
(* The parts that are made lazily. *)

\* Who loads holds the monitor, and what is published and not yet filled is
\* being filled or has failed to be.
PropertiesInv ==
    /\ \A t \in WebThread : pc[t] = "load" =>
           monitor["properties"] = t /\ databaseProperties = "empty"
    /\ \A t \in WebThread : pc[t] = "read" => databaseProperties # "null"
    /\ databaseProperties = "empty" =>
           "properties" \in failed \/ \E u \in WebThread : pc[u] = "load"

ContextInv ==
    /\ \A t \in WebThread : pc[t] = "use" => context # "null"
    /\ context = "initCtx" =>
           "context" \in failed \/ \E u \in WebThread : pc[u] = "lookup"

PatternsInv ==
    \A t \in WebThread : pc[t] = "makePatterns" => monitor["patterns"] = t /\ patterns = 0

\* Unless two were made at once, there is an engine or somebody makes the only
\* one, and whoever holds one holds that one.
EngineInv ==
    /\ ~overlapped =>
           /\ \A t \in WebThread : held[t] \in {NoEngine, engine}
           /\ \A t \in MakingEngine : engine = NoEngine
           /\ \A t, u \in MakingEngine : t = u
    /\ ~early =>
           /\ \A t \in WebThread : held[t] # NoEngine => held[t].kind = "configured"
           /\ \A t \in WebThread : pc[t] # "makeDefault"
           /\ engine # NoEngine => engine.kind = "configured"

LazyInv == LazyTypeOK /\ PropertiesInv /\ ContextInv /\ PatternsInv /\ EngineInv

-----------------------------------------------------------------------------
(* What the helpers change. *)

LEMMA AnswerStep ==
  ASSUME LazyTypeOK, NEW t \in WebThread, NEW what \in {"right", "wrong"}, Answer(t, what)
  PROVE  /\ pc' \in [WebThread -> {"idle", "lock", "load", "read", "lookup", "use", "miss",
                          "makeDefault", "makeConfigured", "lockPatterns", "makePatterns"}]
         /\ answer' \in [WebThread -> {"none", "right", "wrong"}]
         /\ held' = held
         /\ pc'[t] = "idle" /\ \A u \in WebThread : u # t => pc'[u] = pc[u]
  BY DEF Answer, LazyTypeOK

LEMMA GotoStep ==
  ASSUME LazyTypeOK, NEW t \in WebThread,
         NEW there \in {"idle", "lock", "load", "read", "lookup", "use", "miss",
                        "makeDefault", "makeConfigured", "lockPatterns", "makePatterns"},
         Move(t, there)
  PROVE  /\ pc' \in [WebThread -> {"idle", "lock", "load", "read", "lookup", "use", "miss",
                          "makeDefault", "makeConfigured", "lockPatterns", "makePatterns"}]
         /\ answer' = answer /\ held' = held
         /\ pc'[t] = there /\ \A u \in WebThread : u # t => pc'[u] = pc[u]
  BY DEF Move, LazyTypeOK

LEMMA HoldStep ==
  ASSUME LazyTypeOK, NEW t \in WebThread, NEW e \in Engine \cup {NoEngine}, Hold(t, e)
  PROVE  /\ pc' \in [WebThread -> {"idle", "lock", "load", "read", "lookup", "use", "miss",
                          "makeDefault", "makeConfigured", "lockPatterns", "makePatterns"}]
         /\ held' \in [WebThread -> Engine \cup {NoEngine}]
         /\ answer' = answer
         /\ held'[t] = e /\ \A u \in WebThread : u # t => held'[u] = held[u]
         /\ pc'[t] = "idle" /\ \A u \in WebThread : u # t => pc'[u] = pc[u]
  BY DEF Hold, LazyTypeOK

LEMMA AskStep ==
  ASSUME LazyTypeOK, NEW t \in WebThread, Ask(t)
  PROVE  asks' \in 0..MaxAsks /\ pc[t] = "idle" /\ UNCHANGED history
  BY LazyInitAssumption DEF Ask, LazyTypeOK

LEMMA FailStep ==
  ASSUME LazyTypeOK, NEW r \in Fallible, Fail(r)
  PROVE  /\ failures' \in 0..MaxFailures /\ failed' = failed \cup {r}
         /\ failed' \subseteq Fallible /\ UNCHANGED <<overlapped, early>>
  BY LazyInitAssumption DEF Fail, LazyTypeOK

-----------------------------------------------------------------------------
(* One lemma for the actions of each resource. *)

PropertiesAction(t) ==
    GetDBType(t) \/ LoadDatabaseProperties(t) \/ Load(t) \/ ReadDBType(t)

LEMMA PropertiesStep ==
  ASSUME LazyInv, NEW t \in WebThread, PropertiesAction(t)
  PROVE  LazyInv'
<1>1. LazyTypeOK /\ PropertiesInv /\ ContextInv /\ PatternsInv /\ EngineInv
  BY DEF LazyInv
<1>2. UNCHANGED <<context, engine, patterns, config>>
  BY DEF PropertiesAction, GetDBType, LoadDatabaseProperties, Load, ReadDBType, DatabaseOthers
<1>3. /\ pc[t] \in {"idle", "lock", "load", "read"}
      /\ pc'[t] \in {"idle", "lock", "load", "read"}
      /\ \A u \in WebThread : u # t => pc'[u] = pc[u]
      /\ held' = held /\ UNCHANGED <<overlapped, early>> /\ failed \subseteq failed'
      /\ monitor'["patterns"] = monitor["patterns"]
  <2>1. CASE GetDBType(t)
    BY <1>1, <2>1, GotoStep, AskStep DEF GetDBType, history
  <2>2. CASE LoadDatabaseProperties(t)
    BY <1>1, <2>2, GotoStep DEF LoadDatabaseProperties, At, history, LazyTypeOK, Resource
  <2>3. CASE Load(t)
    BY <1>1, <2>3, GotoStep, AnswerStep DEF Load, At, Fail, history, LazyTypeOK, Resource
  <2>4. CASE ReadDBType(t)
    BY <1>1, <2>4, AnswerStep DEF ReadDBType, At, history
  <2>5. QED
    BY <2>1, <2>2, <2>3, <2>4 DEF PropertiesAction
<1>4. ContextInv' /\ PatternsInv' /\ EngineInv'
  <2>1. ContextInv'
    BY <1>1, <1>2, <1>3 DEF ContextInv
  <2>2. PatternsInv'
    BY <1>1, <1>2, <1>3 DEF PatternsInv
  <2>3. MakingEngine' = MakingEngine
    BY <1>3 DEF MakingEngine
  <2>4. EngineInv'
    BY <1>1, <1>2, <1>3, <2>3 DEF EngineInv
  <2>5. QED
    BY <2>1, <2>2, <2>4
<1>5. LazyTypeOK' /\ PropertiesInv'
  <2>1. CASE GetDBType(t)
    <3>1. LazyTypeOK'
      BY <1>1, <1>2, <2>1, GotoStep, AskStep DEF GetDBType, history, LazyTypeOK
    <3>2. PropertiesInv'
      BY <1>1, <1>3, <2>1, AskStep, GotoStep DEF GetDBType, PropertiesInv, history
    <3>3. QED
      BY <3>1, <3>2
  <2>2. CASE LoadDatabaseProperties(t)
    <3>1. LazyTypeOK'
      BY <1>1, <1>2, <2>2, GotoStep DEF LoadDatabaseProperties, At, history, LazyTypeOK, Resource
    <3>2. \A u \in WebThread : pc[u] # "load"
      BY <1>1, <2>2, LazyInitAssumption DEF LoadDatabaseProperties, PropertiesInv
    <3>3. PropertiesInv'
      BY <1>1, <1>3, <2>2, <3>2, GotoStep
      DEF LoadDatabaseProperties, At, PropertiesInv, history, LazyTypeOK, Resource
    <3>4. QED
      BY <3>1, <3>3
  <2>3. CASE Load(t)
    <3>1. LazyTypeOK'
      <4>1. CASE Move(t, "read")
        BY <1>1, <1>2, <2>3, <4>1, GotoStep, FailStep
        DEF Load, At, history, LazyTypeOK, Resource, Fallible
      <4>2. CASE Answer(t, "wrong")
        BY <1>1, <1>2, <2>3, <4>2, AnswerStep, FailStep
        DEF Load, At, history, LazyTypeOK, Resource, Fallible
      <4>3. QED
        BY <2>3, <4>1, <4>2 DEF Load
    <3>2. pc[t] = "load" /\ \A u \in WebThread : u # t => pc[u] # "load"
      BY <1>1, <2>3 DEF Load, At, PropertiesInv
    <3>3. /\ pc'[t] # "load" /\ databaseProperties' # "null"
          /\ databaseProperties' = "empty" => "properties" \in failed'
      BY <1>1, <2>3, GotoStep, AnswerStep DEF Load, Fail
    <3>4. PropertiesInv'
      BY <1>1, <1>3, <3>2, <3>3 DEF PropertiesInv
    <3>5. QED
      BY <3>1, <3>4
  <2>4. CASE ReadDBType(t)
    <3>1. LazyTypeOK'
      BY <1>1, <1>2, <2>4, AnswerStep DEF ReadDBType, At, history, LazyTypeOK
    <3>2. PropertiesInv'
      BY <1>1, <1>3, <2>4, AnswerStep DEF ReadDBType, At, PropertiesInv, history
    <3>3. QED
      BY <3>1, <3>2
  <2>5. QED
    BY <2>1, <2>2, <2>3, <2>4 DEF PropertiesAction
<1>6. QED
  BY <1>4, <1>5 DEF LazyInv

ContextAction(t) == GetConnection(t) \/ LookupEnv(t) \/ UseEnv(t)

LEMMA ContextStep ==
  ASSUME LazyInv, NEW t \in WebThread, ContextAction(t)
  PROVE  LazyInv'
<1>1. LazyTypeOK /\ PropertiesInv /\ ContextInv /\ PatternsInv /\ EngineInv
  BY DEF LazyInv
<1>2. UNCHANGED <<databaseProperties, engine, patterns, config, monitor>>
  BY DEF ContextAction, GetConnection, LookupEnv, UseEnv, ContextOthers
<1>3. /\ pc[t] \in {"idle", "lookup", "use"} /\ pc'[t] \in {"idle", "lookup", "use"}
      /\ \A u \in WebThread : u # t => pc'[u] = pc[u]
      /\ held' = held /\ UNCHANGED <<overlapped, early>> /\ failed \subseteq failed'
  <2>1. CASE GetConnection(t)
    BY <1>1, <2>1, GotoStep, AskStep DEF GetConnection, history
  <2>2. CASE LookupEnv(t)
    BY <1>1, <2>2, GotoStep, AnswerStep DEF LookupEnv, At, Fail, history
  <2>3. CASE UseEnv(t)
    BY <1>1, <2>3, AnswerStep DEF UseEnv, At, history
  <2>4. QED
    BY <2>1, <2>2, <2>3 DEF ContextAction
<1>4. PropertiesInv' /\ PatternsInv' /\ EngineInv'
  <2>1. PropertiesInv'
    BY <1>1, <1>2, <1>3 DEF PropertiesInv
  <2>2. PatternsInv'
    BY <1>1, <1>2, <1>3 DEF PatternsInv
  <2>3. MakingEngine' = MakingEngine
    BY <1>3 DEF MakingEngine
  <2>4. EngineInv'
    BY <1>1, <1>2, <1>3, <2>3 DEF EngineInv
  <2>5. QED
    BY <2>1, <2>2, <2>4
<1>5. LazyTypeOK' /\ ContextInv'
  <2>1. CASE GetConnection(t)
    <3>1. LazyTypeOK'
      BY <1>1, <1>2, <2>1, GotoStep, AskStep DEF GetConnection, history, LazyTypeOK
    <3>2. ContextInv'
      BY <1>1, <1>3, <2>1, AskStep, GotoStep DEF GetConnection, ContextInv, history, LazyTypeOK
    <3>3. QED
      BY <3>1, <3>2
  <2>2. CASE LookupEnv(t)
    <3>1. LazyTypeOK'
      <4>1. CASE Move(t, "use")
        BY <1>1, <1>2, <2>2, <4>1, GotoStep, FailStep DEF LookupEnv, At, history, LazyTypeOK, Fallible
      <4>2. CASE Answer(t, "wrong")
        BY <1>1, <1>2, <2>2, <4>2, AnswerStep, FailStep DEF LookupEnv, At, history, LazyTypeOK, Fallible
      <4>3. QED
        BY <2>2, <4>1, <4>2 DEF LookupEnv
    <3>2. \/ context' = "envCtx"
          \/ context' = context /\ "context" \in failed' /\ pc'[t] = "idle"
      BY <1>1, <2>2, AnswerStep, FailStep DEF LookupEnv, Fallible
    <3>3. ContextInv'
      BY <1>1, <1>3, <3>2 DEF ContextInv
    <3>4. QED
      BY <3>1, <3>3
  <2>3. CASE UseEnv(t)
    <3>1. LazyTypeOK'
      BY <1>1, <1>2, <2>3, AnswerStep DEF UseEnv, At, history, LazyTypeOK
    <3>2. ContextInv'
      BY <1>1, <1>3, <2>3, AnswerStep DEF UseEnv, At, ContextInv, history
    <3>3. QED
      BY <3>1, <3>2
  <2>4. QED
    BY <2>1, <2>2, <2>3 DEF ContextAction
<1>6. QED
  BY <1>4, <1>5 DEF LazyInv

EngineAction(t) == GetEngine(t) \/ LookAgain(t) \/ MakeEngine(t)

LEMMA EngineStep ==
  ASSUME LazyInv, NEW t \in WebThread, EngineAction(t)
  PROVE  LazyInv'
<1>1. LazyTypeOK /\ PropertiesInv /\ ContextInv /\ PatternsInv /\ EngineInv
  BY DEF LazyInv
<1>2. UNCHANGED <<databaseProperties, context, patterns, monitor, config>>
  BY DEF EngineAction, GetEngine, LookAgain, MakeEngine, EngineOthers
<1>3. pc[t] \in {"idle", "miss", "makeDefault", "makeConfigured"}
  BY DEF EngineAction, GetEngine, LookAgain, MakeEngine, MakingEngine, Ask, At
<1>4. engine \in Engine \cup {NoEngine}
  BY <1>1 DEF LazyTypeOK
<1>5. CASE GetEngine(t)
  <2>1. /\ pc[t] = "idle" /\ asks' \in 0..MaxAsks /\ UNCHANGED history /\ engine' = engine
    BY <1>1, <1>5, AskStep DEF GetEngine
  <2>2. /\ pc' \in [WebThread -> {"idle", "lock", "load", "read", "lookup", "use", "miss",
                          "makeDefault", "makeConfigured", "lockPatterns", "makePatterns"}]
        /\ held' \in [WebThread -> Engine \cup {NoEngine}] /\ answer' = answer
        /\ held'[t] \in {held[t], engine} /\ \A u \in WebThread : u # t => held'[u] = held[u]
        /\ pc'[t] \in {"idle", "miss"} /\ \A u \in WebThread : u # t => pc'[u] = pc[u]
    <3>1. CASE Hold(t, engine)
      BY <1>1, <1>4, <3>1, HoldStep
    <3>2. CASE Move(t, "miss")
      BY <1>1, <3>2, GotoStep DEF LazyTypeOK
    <3>3. QED
      BY <1>5, <3>1, <3>2 DEF GetEngine
  <2>3. LazyTypeOK'
    BY <1>1, <1>2, <2>1, <2>2 DEF LazyTypeOK, history
  <2>4. PropertiesInv' /\ ContextInv' /\ PatternsInv'
    BY <1>1, <1>2, <2>1, <2>2 DEF PropertiesInv, ContextInv, PatternsInv, history
  <2>5. MakingEngine' = MakingEngine
    BY <2>1, <2>2 DEF MakingEngine
  <2>6. EngineInv'
    BY <1>1, <2>1, <2>2, <2>5 DEF EngineInv, history
  <2>7. QED
    BY <2>3, <2>4, <2>6 DEF LazyInv
<1>6. CASE LookAgain(t)
  <2>1. pc[t] = "miss" /\ UNCHANGED <<asks, failures, failed, engine>>
    BY <1>6 DEF LookAgain, At
  <2>2. /\ pc' \in [WebThread -> {"idle", "lock", "load", "read", "lookup", "use", "miss",
                          "makeDefault", "makeConfigured", "lockPatterns", "makePatterns"}]
        /\ held' \in [WebThread -> Engine \cup {NoEngine}] /\ answer' = answer
        /\ \A u \in WebThread : u # t => held'[u] = held[u]
        /\ \A u \in WebThread : u # t => pc'[u] = pc[u]
        /\ \/ pc'[t] = "idle" /\ held'[t] = engine /\ UNCHANGED <<overlapped, early>>
           \/ /\ engine = NoEngine /\ held'[t] = held[t]
              /\ pc'[t] = IF config THEN "makeConfigured" ELSE "makeDefault"
              /\ overlapped' = (overlapped \/ MakingEngine # {})
              /\ early' = (early \/ ~config)
    <3>1. CASE engine # NoEngine
      BY <1>1, <1>4, <1>6, <3>1, HoldStep DEF LookAgain
    <3>2. CASE engine = NoEngine
      BY <1>1, <1>6, <3>2, GotoStep DEF LookAgain, LazyTypeOK
    <3>3. QED
      BY <3>1, <3>2
  <2>3. overlapped' \in BOOLEAN /\ early' \in BOOLEAN
    BY <1>1, <2>2, Zenon DEF LazyTypeOK
  <2>4. LazyTypeOK'
    BY <1>1, <1>2, <2>1, <2>2, <2>3 DEF LazyTypeOK
  <2>5. PropertiesInv' /\ ContextInv' /\ PatternsInv'
    BY <1>1, <1>2, <2>1, <2>2 DEF PropertiesInv, ContextInv, PatternsInv
  <2>6. MakingEngine' \subseteq MakingEngine \cup {t}
    BY <2>2 DEF MakingEngine
  <2>7. EngineInv'
    <3>1. CASE pc'[t] = "idle" /\ held'[t] = engine /\ UNCHANGED <<overlapped, early>>
      <4>1. t \notin MakingEngine'
        BY <3>1 DEF MakingEngine
      <4>2. QED
        BY <1>1, <2>1, <2>2, <2>6, <3>1, <4>1 DEF EngineInv
    <3>2. CASE /\ engine = NoEngine /\ held'[t] = held[t]
               /\ pc'[t] = IF config THEN "makeConfigured" ELSE "makeDefault"
               /\ overlapped' = (overlapped \/ MakingEngine # {})
               /\ early' = (early \/ ~config)
      <4>1. ~overlapped' => ~overlapped /\ MakingEngine' \subseteq {t}
        BY <2>6, <3>2
      <4>2. ~early' => ~early /\ pc'[t] = "makeConfigured"
        BY <3>2
      <4>3. QED
        BY <1>1, <2>1, <2>2, <3>2, <4>1, <4>2 DEF EngineInv
    <3>3. QED
      BY <2>2, <3>1, <3>2
  <2>8. QED
    BY <2>4, <2>5, <2>7 DEF LazyInv
<1>7. CASE MakeEngine(t)
  <2> DEFINE made == [by |-> t,
                      kind |-> IF pc[t] = "makeDefault" THEN "default" ELSE "configured"]
  <2>1. /\ t \in MakingEngine /\ asks' = asks
        /\ \/ engine' = made /\ Hold(t, made) /\ UNCHANGED history
           \/ Hold(t, NoEngine) /\ Fail("engine") /\ UNCHANGED engine
    BY <1>7 DEF MakeEngine
  <2>2. made \in Engine /\ made # NoEngine /\ pc[t] \in {"makeDefault", "makeConfigured"}
    BY <2>1, LazyInitAssumption DEF Engine, NoEngine, MakingEngine
  <2>3. made.kind = "default" => pc[t] = "makeDefault"
    OBVIOUS
  <2>4. made.kind \in {"default", "configured"}
    OBVIOUS
  <2> HIDE DEF made
  <2>5. /\ pc' \in [WebThread -> {"idle", "lock", "load", "read", "lookup", "use", "miss",
                          "makeDefault", "makeConfigured", "lockPatterns", "makePatterns"}]
        /\ held' \in [WebThread -> Engine \cup {NoEngine}] /\ answer' = answer
        /\ \A u \in WebThread : u # t => held'[u] = held[u]
        /\ pc'[t] = "idle" /\ \A u \in WebThread : u # t => pc'[u] = pc[u]
    <3>1. CASE Hold(t, made)
      BY <1>1, <2>2, <3>1, HoldStep
    <3>2. CASE Hold(t, NoEngine)
      BY <1>1, <3>2, HoldStep
    <3>3. QED
      BY <2>1, <3>1, <3>2
  <2>6. \/ engine' = made /\ held'[t] = made /\ UNCHANGED history
        \/ /\ engine' = engine /\ held'[t] = NoEngine /\ UNCHANGED <<overlapped, early>>
           /\ failures' \in 0..MaxFailures /\ failed' \subseteq Fallible /\ failed \subseteq failed'
    <3>1. CASE engine' = made /\ Hold(t, made) /\ UNCHANGED history
      BY <1>1, <2>2, <3>1, HoldStep
    <3>2. CASE Hold(t, NoEngine) /\ Fail("engine") /\ UNCHANGED engine
      <4>1. "engine" \in Fallible
        BY DEF Fallible
      <4>2. QED
        BY <1>1, <3>2, <4>1, HoldStep, FailStep
    <3>3. QED
      BY <2>1, <3>1, <3>2
  <2>7. UNCHANGED <<overlapped, early>> /\ failed \subseteq failed'
    BY <2>6 DEF history
  <2>8. LazyTypeOK'
    BY <1>1, <1>2, <2>1, <2>2, <2>5, <2>6 DEF LazyTypeOK, history
  <2>9. PropertiesInv' /\ ContextInv' /\ PatternsInv'
    BY <1>1, <1>2, <2>2, <2>5, <2>7 DEF PropertiesInv, ContextInv, PatternsInv
  <2>10. MakingEngine' = MakingEngine \ {t}
    BY <2>1, <2>5 DEF MakingEngine
  <2>11. ASSUME ~overlapped
         PROVE  /\ \A u \in WebThread : held'[u] \in {NoEngine, engine'}
                /\ MakingEngine' = {}
    <3>1. engine = NoEngine /\ \A u \in WebThread : held[u] = NoEngine
      BY <1>1, <2>1, <2>11 DEF EngineInv
    <3>2. MakingEngine' = {}
      BY <1>1, <2>1, <2>10, <2>11 DEF EngineInv
    <3>3. QED
      BY <2>5, <2>6, <3>1, <3>2
  <2>12. ASSUME ~early
         PROVE  /\ \A u \in WebThread : held'[u] # NoEngine => held'[u].kind = "configured"
                /\ \A u \in WebThread : pc'[u] # "makeDefault"
                /\ engine' # NoEngine => engine'.kind = "configured"
    <3>1. made.kind = "configured"
      BY <1>1, <2>3, <2>4, <2>12 DEF EngineInv
    <3>2. QED
      BY <1>1, <2>5, <2>6, <2>12, <3>1 DEF EngineInv
  <2>13. EngineInv'
    BY <2>7, <2>11, <2>12 DEF EngineInv
  <2>14. QED
    BY <2>8, <2>9, <2>13 DEF LazyInv
<1>8. QED
  BY <1>5, <1>6, <1>7 DEF EngineAction

PatternsAction(t) == GetPatternSet(t) \/ CheckPatterns(t) \/ MakePatterns(t)

LEMMA PatternsStep ==
  ASSUME LazyInv, NEW t \in WebThread, PatternsAction(t)
  PROVE  LazyInv' /\ (patterns > 0 => patterns' = patterns)
<1>1. LazyTypeOK /\ PropertiesInv /\ ContextInv /\ PatternsInv /\ EngineInv
  BY DEF LazyInv
<1>2. UNCHANGED <<databaseProperties, context, engine, config, history>>
  BY <1>1, AskStep DEF PatternsAction, GetPatternSet, CheckPatterns, MakePatterns, PatternOthers
<1>3. /\ pc' \in [WebThread -> {"idle", "lock", "load", "read", "lookup", "use", "miss",
                          "makeDefault", "makeConfigured", "lockPatterns", "makePatterns"}]
      /\ answer' \in [WebThread -> {"none", "right", "wrong"}] /\ held' = held
      /\ pc[t] \in {"idle", "lockPatterns", "makePatterns"}
      /\ pc'[t] \in {"idle", "lockPatterns", "makePatterns"}
      /\ \A u \in WebThread : u # t => pc'[u] = pc[u]
  <2>1. CASE GetPatternSet(t)
    BY <1>1, <2>1, GotoStep, AnswerStep, AskStep DEF GetPatternSet, LazyTypeOK
  <2>2. CASE CheckPatterns(t)
    BY <1>1, <2>2, GotoStep, AnswerStep DEF CheckPatterns, At, LazyTypeOK
  <2>3. CASE MakePatterns(t)
    BY <1>1, <2>3, AnswerStep DEF MakePatterns, At, LazyTypeOK
  <2>4. QED
    BY <2>1, <2>2, <2>3 DEF PatternsAction
<1>4. /\ patterns' \in Nat /\ asks' \in 0..MaxAsks
      /\ monitor' \in [Resource -> WebThread \cup {Nobody}]
      /\ monitor'["properties"] = monitor["properties"]
  <2>1. CASE GetPatternSet(t)
    BY <1>1, <2>1, AskStep DEF GetPatternSet, LazyTypeOK
  <2>2. CASE CheckPatterns(t)
    BY <1>1, <2>2 DEF CheckPatterns, At, LazyTypeOK, Resource
  <2>3. CASE MakePatterns(t)
    BY <1>1, <2>3 DEF MakePatterns, At, LazyTypeOK, Resource
  <2>4. QED
    BY <2>1, <2>2, <2>3 DEF PatternsAction
<1>5. LazyTypeOK'
  BY <1>1, <1>2, <1>3, <1>4 DEF LazyTypeOK, history
<1>6. PropertiesInv' /\ ContextInv'
  BY <1>1, <1>2, <1>3, <1>4 DEF PropertiesInv, ContextInv, history
<1>7. EngineInv'
  <2>1. MakingEngine' = MakingEngine
    BY <1>3 DEF MakingEngine
  <2>2. QED
    BY <1>1, <1>2, <1>3, <2>1 DEF EngineInv, history
<1>8. PatternsInv' /\ (patterns > 0 => patterns' = patterns)
  <2>1. CASE GetPatternSet(t)
    <3>1. pc'[t] # "makePatterns"
      BY <1>1, <2>1, GotoStep, AnswerStep DEF GetPatternSet
    <3>2. QED
      BY <1>1, <1>3, <2>1, <3>1 DEF GetPatternSet, PatternsInv
  <2>2. CASE CheckPatterns(t)
    <3>1. patterns' = patterns /\ monitor["patterns"] = Nobody
      BY <2>2 DEF CheckPatterns
    <3>2. \A u \in WebThread : pc[u] # "makePatterns"
      BY <1>1, <3>1, LazyInitAssumption DEF PatternsInv
    <3>3. CASE patterns > 0
      <4>1. pc'[t] = "idle"
        BY <1>1, <2>2, <3>3, AnswerStep DEF CheckPatterns
      <4>2. QED
        BY <1>3, <3>1, <3>2, <4>1 DEF PatternsInv
    <3>4. CASE ~(patterns > 0)
      <4>1. patterns = 0 /\ monitor'["patterns"] = t
        BY <1>1, <2>2, <3>4 DEF CheckPatterns, LazyTypeOK, Resource
      <4>2. QED
        BY <1>3, <3>1, <3>2, <4>1 DEF PatternsInv
    <3>5. QED
      BY <3>3, <3>4
  <2>3. CASE MakePatterns(t)
    <3>1. pc[t] = "makePatterns" /\ patterns = 0 /\ pc'[t] = "idle"
      BY <1>1, <2>3, AnswerStep DEF MakePatterns, At, PatternsInv
    <3>2. \A u \in WebThread : u # t => pc[u] # "makePatterns"
      BY <1>1, <3>1 DEF PatternsInv
    <3>3. QED
      BY <1>3, <3>1, <3>2 DEF PatternsInv
  <2>4. QED
    BY <2>1, <2>2, <2>3 DEF PatternsAction
<1>9. QED
  BY <1>5, <1>6, <1>7, <1>8 DEF LazyInv

LEMMA OtherStep ==
  ASSUME LazyInv, LoadConfig \/ UNCHANGED lazyVars
  PROVE  LazyInv'
<1>1. /\ UNCHANGED <<databaseProperties, context, engine, patterns, monitor, pc, answer, held>>
      /\ UNCHANGED <<asks, failures, failed, overlapped, early>> /\ config' \in BOOLEAN
  BY DEF LazyInv, LazyTypeOK, LoadConfig, lazyVars, history
<1>2. MakingEngine' = MakingEngine
  BY <1>1 DEF MakingEngine
<1>3. LazyTypeOK' /\ PropertiesInv' /\ ContextInv' /\ PatternsInv'
  BY <1>1 DEF LazyInv, LazyTypeOK, PropertiesInv, ContextInv, PatternsInv
<1>4. EngineInv'
  BY <1>1, <1>2 DEF LazyInv, EngineInv
<1>5. QED
  BY <1>3, <1>4 DEF LazyInv

LEMMA LazyStep == LazyInv /\ [LazyNext]_lazyVars => LazyInv'
<1> SUFFICES ASSUME LazyInv, [LazyNext]_lazyVars PROVE LazyInv'
  OBVIOUS
<1>1. \/ \E t \in WebThread : \/ PropertiesAction(t) \/ ContextAction(t)
                           \/ EngineAction(t) \/ PatternsAction(t)
      \/ LoadConfig \/ UNCHANGED lazyVars
  BY DEF LazyNext, PropertiesAction, ContextAction, EngineAction, PatternsAction
<1>2. QED
  BY <1>1, PropertiesStep, ContextStep, EngineStep, PatternsStep, OtherStep

LEMMA LazyInitially == LazyStart => LazyInv
<1> SUFFICES ASSUME LazyStart PROVE LazyInv
  OBVIOUS
<1>1. LazyTypeOK
  <2>1. /\ asks \in 0..MaxAsks /\ failures \in 0..MaxFailures /\ patterns \in Nat
        /\ failed \subseteq Fallible
    BY LazyInitAssumption DEF LazyStart
  <2>2. /\ monitor \in [Resource -> WebThread \cup {Nobody}]
        /\ answer \in [WebThread -> {"none", "right", "wrong"}]
        /\ held \in [WebThread -> Engine \cup {NoEngine}]
        /\ pc \in [WebThread -> {"idle", "lock", "load", "read", "lookup", "use", "miss",
                          "makeDefault", "makeConfigured", "lockPatterns", "makePatterns"}]
    BY DEF LazyStart
  <2>3. QED
    BY <2>1, <2>2 DEF LazyStart, LazyTypeOK
<1>2. \A t \in WebThread : pc[t] = "idle" /\ held[t] = NoEngine
  BY DEF LazyStart
<1>3. MakingEngine = {}
  BY <1>2 DEF MakingEngine
<1>4. EngineInv
  BY <1>2, <1>3 DEF EngineInv, LazyStart
<1>5. PropertiesInv /\ ContextInv /\ PatternsInv
  BY <1>2 DEF PropertiesInv, ContextInv, PatternsInv, LazyStart
<1>6. QED
  BY <1>1, <1>4, <1>5 DEF LazyInv

-----------------------------------------------------------------------------
(* The theorems. *)

\* Every variable of LazyInit keeps its type.
THEOREM LazyInitTyping == LazySpec => []LazyTypeOK
<1>1. LazyInv => LazyTypeOK
  BY DEF LazyInv
<1>2. QED
  BY <1>1, LazyInitially, LazyStep, PTL DEF LazySpec

\* A request that is served wrongly met another one that was loading, or came
\* after a failure, for any number of threads.
THEOREM ServedRight == LazySpec => WrongOnlyWhileLoading
<1>1. LazyInv /\ [LazyNext]_lazyVars =>
        [\A t \in WebThread : pc[t] \in Asking /\ pc'[t] = "idle" /\ answer'[t] = "wrong" =>
            \/ failed' # {}
            \/ pc[t] = "read" /\ \E u \in WebThread \ {t} : pc[u] = "load"
            \/ pc[t] = "use" /\ \E u \in WebThread \ {t} : pc[u] = "lookup"]_lazyVars
  <2> SUFFICES ASSUME LazyInv, [LazyNext]_lazyVars, NEW t \in WebThread,
                      pc[t] \in Asking, pc'[t] = "idle", answer'[t] = "wrong", failed' = {}
               PROVE  \/ pc[t] = "read" /\ \E u \in WebThread \ {t} : pc[u] = "load"
                      \/ pc[t] = "use" /\ \E u \in WebThread \ {t} : pc[u] = "lookup"
    OBVIOUS
  <2>1. LazyTypeOK /\ PropertiesInv /\ ContextInv
    BY DEF LazyInv
  <2>2. pc[t] # "idle"
    BY DEF Asking
  <2>3. \A u \in WebThread : \A what \in {"right", "wrong"} : Answer(u, what) =>
            pc'[u] = "idle" /\ answer'[u] = what /\ \A w \in WebThread : w # u => pc'[w] = pc[w]
    BY <2>1 DEF Answer, LazyTypeOK
  <2>4. \A u \in WebThread : u # t => pc'[t] # pc[t]
    BY <2>2
  <2>5. PropertiesAction(t) \/ ContextAction(t)
    <3>1. PICK u \in WebThread : \/ PropertiesAction(u) \/ ContextAction(u)
                              \/ EngineAction(u) \/ PatternsAction(u)
      BY <2>2 DEF LazyNext, PropertiesAction, ContextAction, EngineAction, PatternsAction,
                  LoadConfig, lazyVars
    <3>2. \A w \in WebThread : w # u => pc'[w] = pc[w]
      BY <2>1, <3>1 DEF PropertiesAction, ContextAction, EngineAction, PatternsAction,
        GetDBType, LoadDatabaseProperties, Load, ReadDBType, GetConnection, LookupEnv, UseEnv,
        GetEngine, LookAgain, MakeEngine, GetPatternSet, CheckPatterns, MakePatterns,
        Move, Answer, Hold, LazyTypeOK
    <3>3. u = t
      BY <2>2, <3>2
    <3>4. ~EngineAction(t) /\ ~PatternsAction(t)
      BY DEF Asking, EngineAction, PatternsAction, GetEngine, LookAgain, MakeEngine,
             GetPatternSet, CheckPatterns, MakePatterns, Ask, At, MakingEngine
    <3>5. QED
      BY <3>1, <3>3, <3>4
  <2>6. ~(\E r \in Fallible : Fail(r))
    BY DEF Fail
  <2>7. CASE PropertiesAction(t)
    <3>1. ReadDBType(t)
      BY <2>1, <2>2, <2>6, <2>7, GotoStep
      DEF PropertiesAction, GetDBType, LoadDatabaseProperties, Load, Ask, At, Fallible
    <3>2. pc[t] = "read" /\ databaseProperties # "loaded" /\ failed = {}
      BY <2>3, <3>1 DEF ReadDBType, At, history
    <3>3. \E u \in WebThread : pc[u] = "load"
      BY <2>1, <3>2 DEF PropertiesInv, LazyTypeOK
    <3>4. QED
      BY <3>2, <3>3
  <2>8. CASE ContextAction(t)
    <3>1. UseEnv(t)
      BY <2>1, <2>2, <2>6, <2>8, GotoStep
      DEF ContextAction, GetConnection, LookupEnv, Ask, At, Fallible
    <3>2. pc[t] = "use" /\ context # "envCtx" /\ failed = {}
      BY <2>3, <3>1 DEF UseEnv, At, history
    <3>3. \E u \in WebThread : pc[u] = "lookup"
      BY <2>1, <3>2 DEF ContextInv, LazyTypeOK
    <3>4. QED
      BY <3>2, <3>3
  <2>9. QED
    BY <2>5, <2>7, <2>8
<1>2. QED
  BY <1>1, LazyInitially, LazyStep, PTL DEF LazySpec, WrongOnlyWhileLoading

\* What was loaded under a lock is not loaded again, for any number of threads.
THEOREM LockedLoadsAreFinal == LazySpec => MadeOnce
<1>1. LazyInv /\ [LazyNext]_lazyVars =>
        [/\ databaseProperties = "loaded" => databaseProperties' = "loaded"
         /\ patterns > 0 => patterns' = patterns]_lazyVars
  <2> SUFFICES ASSUME LazyInv, LazyNext
               PROVE  /\ databaseProperties = "loaded" => databaseProperties' = "loaded"
                      /\ patterns > 0 => patterns' = patterns
    OBVIOUS
  <2>1. PropertiesInv
    BY DEF LazyInv
  <2>2. ASSUME NEW t \in WebThread, PropertiesAction(t)
        PROVE  /\ databaseProperties = "loaded" => databaseProperties' = "loaded"
               /\ patterns' = patterns
    BY <2>1, <2>2 DEF PropertiesAction, GetDBType, LoadDatabaseProperties, Load, ReadDBType,
                      DatabaseOthers, At, PropertiesInv
  <2>3. ASSUME NEW t \in WebThread, ContextAction(t) \/ EngineAction(t)
        PROVE  UNCHANGED <<databaseProperties, patterns>>
    BY <2>3 DEF ContextAction, EngineAction, GetConnection, LookupEnv, UseEnv, ContextOthers,
                GetEngine, LookAgain, MakeEngine, EngineOthers
  <2>4. ASSUME NEW t \in WebThread, PatternsAction(t)
        PROVE  databaseProperties' = databaseProperties
    BY <2>4 DEF PatternsAction, GetPatternSet, CheckPatterns, MakePatterns, PatternOthers
  <2>5. CASE LoadConfig
    BY <2>5 DEF LoadConfig
  <2>6. \/ \E t \in WebThread : \/ PropertiesAction(t) \/ ContextAction(t)
                             \/ EngineAction(t) \/ PatternsAction(t)
        \/ LoadConfig
    BY DEF LazyNext, PropertiesAction, ContextAction, EngineAction, PatternsAction
  <2>7. QED
    BY <2>2, <2>3, <2>4, <2>5, <2>6, PatternsStep
<1>2. QED
  BY <1>1, LazyInitially, LazyStep, PTL DEF LazySpec, MadeOnce

\* Engines differ only where two were made at once, for any number of threads.
THEOREM OneEngine == LazySpec => []EngineShared
<1>1. LazyInv => EngineShared
  BY DEF LazyInv, EngineInv, EngineShared
<1>2. QED
  BY <1>1, LazyInitially, LazyStep, PTL DEF LazySpec

=============================================================================
