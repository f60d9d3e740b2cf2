-------------------------- MODULE CacheRepository --------------------------
(***************************************************************************)
(* A BaseRepository over the MemCacheEngine: the values of one cache name, *)
(* and beside them the list of their keys, by which clear and              *)
(* getCacheValueMap find them.  Each engine call is one request to the     *)
(* memcached server; the list is read, changed in a copy of the thread's   *)
(* own and written back, and only clear is synchronized.                   *)
(*                                                                         *)
(* The server is external: a request that gets no answer has no effect,    *)
(* and a get then returns null; values and the list expire.  The order of  *)
(* the list is left out: nothing but the order of the map depends on it.   *)
(***************************************************************************)
EXTENDS Naturals

CONSTANTS
    Thread, Key, Value,
    Null,           \* Java null: no value, or no list
    KeyList,        \* isKeyList() of the subclass
    MaxFaults       \* bound: requests lost and entries expired

ASSUME CacheAssumption ==
    /\ Null \notin Value \cup Key /\ \A S \in SUBSET Key : Null # S
    /\ KeyList \in BOOLEAN /\ MaxFaults \in Nat

VARIABLES
    value,          \* value[k]: what the server holds under k
    list,           \* what it holds under "keys"
    call,           \* the operation each thread executes
    alone,          \* no other operation ran and the server did not fail since it began
    faults

vars == <<value, list, call, alone, faults>>

\* A thread between two operations, and one in an operation: about to send its
\* first request, to get the list, to store keys as the list, to remove the
\* values of keys (clear), or to remove the list.
Idle == [pc |-> "idle"]

Busy == [pc : {"first", "get", "store", "each", "drop"}, op : {"set", "remove", "clear"},
         key : Key \cup {Null}, arg : Value \cup {Null}, keys : SUBSET Key]

Init ==
    /\ value = [k \in Key |-> Null]
    /\ list = Null
    /\ call = [t \in Thread |-> Idle]
    /\ alone = [t \in Thread |-> TRUE]
    /\ faults = 0

-----------------------------------------------------------------------------
(* The operations. *)

Others(t) == {u \in Thread \ {t} : call[u] # Idle}

Begin(t, pc, op, k, v) ==
    /\ call[t] = Idle
    /\ call' = [call EXCEPT ![t] = [pc |-> pc, op |-> op, key |-> k, arg |-> v, keys |-> {}]]
    /\ alone' = [u \in Thread |-> IF u = t THEN Others(t) = {} ELSE alone[u] /\ u \notin Others(t)]
    /\ UNCHANGED <<value, list, faults>>

\* setCacheValue, with null too.
Set(t) == \E k \in Key, v \in Value \cup {Null} : Begin(t, "first", "set", k, v)

\* removeCachedValue.
Remove(t) == \E k \in Key : Begin(t, "first", "remove", k, Null)

\* clear, which is synchronized.
Clear(t) ==
    /\ KeyList
    /\ \A u \in Others(t) : call[u].op # "clear"
    /\ Begin(t, "get", "clear", Null, Null)

\* The operation of t goes on at pc, or is done.
Goto(t, pc, keys) == call' = [call EXCEPT ![t].pc = pc, ![t].keys = keys]

Done(t) == call' = [call EXCEPT ![t] = Idle]

AfterFirst(t) == IF call[t].op = "set" /\ ~KeyList THEN Done(t) ELSE Goto(t, "get", {})

\* MemCacheEngine.add ignores a null value.
PutOrDelete(t) ==
    /\ call[t].pc = "first"
    /\ value' = IF call[t].op = "set" /\ call[t].arg = Null THEN value
                ELSE [value EXCEPT ![call[t].key] = call[t].arg]
    /\ AfterFirst(t)
    /\ UNCHANGED <<list, alone, faults>>

Elements(l) == IF l = Null THEN {} ELSE l

\* Mutants: clear goes over an empty list, or leaves out a key; remove stores
\* the list as it was.
UseEmptyList(t, l) ==
    LET k == call[t].key IN
    \/ /\ call[t].op = "set"
       /\ IF k \in Elements(l) THEN Done(t) ELSE Goto(t, "store", Elements(l) \cup {k})
    \/ /\ call[t].op = "remove"
       /\ IF k \in Elements(l) THEN Goto(t, "store", l \ {k}) ELSE Done(t)
    \/ /\ call[t].op = "clear"
       /\ IF l = Null THEN Done(t) ELSE Goto(t, "each", l)

UseListButOne(t, l) ==
    LET k == call[t].key IN
    \/ /\ call[t].op = "set"
       /\ IF k \in Elements(l) THEN Done(t) ELSE Goto(t, "store", Elements(l) \cup {k})
    \/ /\ call[t].op = "remove"
       /\ IF k \in Elements(l) THEN Goto(t, "store", l \ {k}) ELSE Done(t)
    \/ /\ call[t].op = "clear"
       /\ IF Elements(l) = {} THEN Done(t) ELSE \E j \in l : Goto(t, "each", l \ {j})

UseListAsItWas(t, l) ==
    LET k == call[t].key IN
    \/ /\ call[t].op = "set"
       /\ IF k \in Elements(l) THEN Done(t) ELSE Goto(t, "store", Elements(l) \cup {k})
    \/ /\ call[t].op = "remove"
       /\ IF k \in Elements(l) THEN Goto(t, "store", l) ELSE Done(t)
    \/ /\ call[t].op = "clear"
       /\ IF Elements(l) = {} THEN Done(t) ELSE Goto(t, "each", l)

\* What each operation does with the list it got.
UseList(t, l) ==
    LET k == call[t].key IN
    \/ /\ call[t].op = "set"
       /\ IF k \in Elements(l) THEN Done(t) ELSE Goto(t, "store", Elements(l) \cup {k})
    \/ /\ call[t].op = "remove"
       /\ IF k \in Elements(l) THEN Goto(t, "store", l \ {k}) ELSE Done(t)
    \/ /\ call[t].op = "clear"
       /\ IF Elements(l) = {} THEN Done(t) ELSE Goto(t, "each", l)

GetList(t) ==
    /\ call[t].pc = "get"
    /\ UseList(t, list)
    /\ UNCHANGED <<value, list, alone, faults>>

\* Mutant: the list is replaced by the key.
StoreKey(t) ==
    /\ call[t].pc = "store"
    /\ list' = IF call[t].op = "set" THEN {call[t].key} ELSE call[t].keys
    /\ Done(t)
    /\ UNCHANGED <<value, alone, faults>>

StoreList(t) ==
    /\ call[t].pc = "store"
    /\ list' = call[t].keys
    /\ Done(t)
    /\ UNCHANGED <<value, alone, faults>>

\* clear removes one value after the other, and then the list.
AfterEach(t, k) ==
    Goto(t, IF call[t].keys = {k} THEN "drop" ELSE "each", call[t].keys \ {k})

ClearValue(t) ==
    /\ call[t].pc = "each"
    /\ \E k \in call[t].keys : value' = [value EXCEPT ![k] = Null] /\ AfterEach(t, k)
    /\ UNCHANGED <<list, alone, faults>>

DropList(t) ==
    /\ call[t].pc = "drop"
    /\ list' = Null
    /\ Done(t)
    /\ UNCHANGED <<value, alone, faults>>

-----------------------------------------------------------------------------
(* The server. *)

Fault == faults < MaxFaults /\ faults' = faults + 1

\* A request of t is lost, and its operation goes on.
Lost(t) ==
    /\ Fault
    /\ \/ call[t].pc = "first" /\ AfterFirst(t)
       \/ call[t].pc = "get" /\ UseList(t, Null)
       \/ call[t].pc \in {"store", "drop"} /\ Done(t)
       \/ call[t].pc = "each" /\ \E k \in call[t].keys : AfterEach(t, k)
    /\ alone' = [alone EXCEPT ![t] = FALSE]
    /\ UNCHANGED <<value, list>>

Expire ==
    /\ Fault
    /\ \/ list' = Null /\ UNCHANGED value
       \/ \E k \in Key : value' = [value EXCEPT ![k] = Null] /\ UNCHANGED list
    /\ alone' = [t \in Thread |-> alone[t] /\ call[t] = Idle]
    /\ UNCHANGED call

Step(t) == PutOrDelete(t) \/ GetList(t) \/ StoreList(t) \/ ClearValue(t) \/ DropList(t)

Next == (\E t \in Thread : Set(t) \/ Remove(t) \/ Clear(t) \/ Step(t) \/ Lost(t)) \/ Expire

Spec == Init /\ [][Next]_vars

-----------------------------------------------------------------------------
(* What must hold. *)

\* The engine holds values and a list of known keys; clear never works on an
\* empty rest.
TypeOK ==
    /\ value \in [Key -> Value \cup {Null}]
    /\ list = Null \/ list \in SUBSET Key
    /\ call \in [Thread -> Busy \cup {Idle}]
    /\ \A t \in Thread : call[t].pc = "each" => call[t].keys # {}
    /\ alone \in [Thread -> BOOLEAN]
    /\ faults \in 0..MaxFaults

InOp(t, ops) == call[t] # Idle /\ call[t].op \in ops

\* A value that clear and getCacheValueMap do not find, and that nobody is
\* about to list.
Orphan(k) ==
    /\ value[k] # Null /\ k \notin Elements(list)
    /\ ~ \E t \in Thread : /\ InOp(t, {"set"}) /\ call[t].key = k
                           /\ call[t].pc \in {"get", "store"}

\* A key in the list, and so in the map, without a value.
Phantom(k) ==
    /\ value[k] = Null /\ k \in Elements(list)
    /\ ~ \E t \in Thread : InOp(t, {"clear"}) \/ (InOp(t, {"remove"}) /\ call[t].key = k)

\* This step is a fault, or one of an operation that was not alone.
Disturbed ==
    \/ faults' # faults
    \/ \E t \in Thread : call[t] # Idle /\ call'[t] # call[t] /\ ~alone[t]

\* The list loses a value only when operations overlap or the server fails:
\* operations one after the other, of any threads, keep every value listed.
OrphansNeedOverlap ==
    [][\A k \in Key : KeyList /\ Orphan(k)' /\ ~Orphan(k) => Disturbed]_vars

\* The same of keys whose value is gone, but for keys that were set to null.
PhantomsNeedOverlap ==
    [][\A k \in Key : Phantom(k)' /\ ~Phantom(k) =>
          \/ Disturbed
          \/ \E t \in Thread : InOp(t, {"set"}) /\ call[t].arg = Null]_vars

\* A clear that ran alone leaves no value but those the list had lost before.
ClearEmpties ==
    [][\A t \in Thread :
          InOp(t, {"clear"}) /\ call'[t] = Idle /\ ~Disturbed =>
              \A k \in Key : value'[k] # Null => Orphan(k)]_vars

=============================================================================
