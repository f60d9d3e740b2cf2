---------------------------- MODULE Connections ----------------------------
(***************************************************************************)
(* Which thread holds which pooled connection: BaseDAOImpl's operations,   *)
(* the lazy getters of RelationInterceptor and LobInterceptor, which open  *)
(* connections of their own, and the scope a service method gives them     *)
(* (applicationContext-transaction.xml).                                   *)
(*                                                                         *)
(* A getter of a lazy property may run inside an operation that has a      *)
(* connection already: insert and update read every property of the entity *)
(* they write, and a lazy relation reads all columns, lobs included, to    *)
(* find its foreign key.  Spring's DataSourceUtils and the pool are        *)
(* external: an empty pool makes its callers wait.                         *)
(***************************************************************************)
EXTENDS Naturals, FiniteSets

CONSTANTS
    Thread, Conn,   \* request threads, and the connections of the pool
    Scopes,         \* scopes requests run in, out of AllScopes
    SpringReady,    \* TRUE: the SpringContext bean has its data source
    MaxOps,         \* bound: operations and lazy getters of one request
    MaxFailures,    \* bound: failures and refusals together
    Free, NoConn, NoFrame

\* A service method with a transaction, one without, no service method.
AllScopes == {"REQUIRED", "SUPPORTS", "NONE"}

ASSUME ConnectionsAssumption ==
    /\ Scopes \subseteq AllScopes /\ SpringReady \in BOOLEAN
    /\ MaxOps \in Nat /\ MaxFailures \in Nat
    /\ IsFiniteSet(Thread) /\ IsFiniteSet(Conn)
    /\ Free \notin Thread /\ NoConn \notin Conn

VARIABLES
    owner,          \* who has taken the connection out of the pool
    auto,           \* the connection's auto-commit flag
    dirty,          \* it has writes that are not committed
    scope,          \* the scope the thread runs in, or "OUT"
    ok,             \* no exception on its way to the caller
    bound,          \* the connection Spring has bound to the thread
    outer,          \* the operation or lazy getter the thread executes
    inner,          \* the lazy lob getter it calls in turn
    ops,
    failures,       \* calls of setAutoCommit that failed on a connection just taken
    refusals        \* calls of SpringContext.getConnection that took nothing

vars == <<owner, auto, dirty, scope, ok, bound, outer, inner, ops, failures, refusals>>

Kind == {"dao", "relation", "lob"}

\* via: DataSourceUtils, or DBHelper.getConnection; own: to be closed by the frame.
Frame == [kind : Kind, via : {"spring", "helper"}, conn : Conn \cup {NoConn}, own : BOOLEAN]

ASSUME NoFrameAssumption == NoFrame \notin Frame

Init ==
    /\ owner = [c \in Conn |-> Free]
    /\ auto = [c \in Conn |-> TRUE]
    /\ dirty = [c \in Conn |-> FALSE]
    /\ scope = [t \in Thread |-> "OUT"]
    /\ ok = [t \in Thread |-> TRUE]
    /\ bound = [t \in Thread |-> NoConn]
    /\ outer = [t \in Thread |-> NoFrame]
    /\ inner = [t \in Thread |-> NoFrame]
    /\ ops = [t \in Thread |-> 0]
    /\ failures = 0
    /\ refusals = 0

-----------------------------------------------------------------------------
(* The pool and Spring. *)

Take(t, c) == owner[c] = Free /\ owner' = [owner EXCEPT ![c] = t]

\* Mutant: a connection that goes back without its owner being reset properly.
GiveBackNull(c) ==
    /\ owner' = [owner EXCEPT ![c] = NoConn]
    /\ auto' = [auto EXCEPT ![c] = TRUE]
    /\ dirty' = [dirty EXCEPT ![c] = FALSE]

\* A connection that goes back is rolled back and set to auto-commit.
GiveBack(c) ==
    /\ owner' = [owner EXCEPT ![c] = Free]
    /\ auto' = [auto EXCEPT ![c] = TRUE]
    /\ dirty' = [dirty EXCEPT ![c] = FALSE]

\* Mutant: DataSource.getConnection in place of doGetConnection.
BindsNothing(t, f) == FALSE

\* doGetConnection binds what it takes when the thread has a scope.
Binds(t, f) == f.via = "spring" /\ scope[t] # "NONE"

\* f needs a connection from the pool.
NeedsPool(t, f) == f.conn = NoConn /\ ~(f.via = "spring" /\ bound[t] # NoConn)

-----------------------------------------------------------------------------
(* Requests. *)

Enter(t) ==
    /\ scope[t] = "OUT"
    /\ \E s \in Scopes : scope' = [scope EXCEPT ![t] = s]
    /\ ok' = [ok EXCEPT ![t] = TRUE]
    /\ ops' = [ops EXCEPT ![t] = 0]
    /\ UNCHANGED <<owner, auto, dirty, bound, outer, inner, failures, refusals>>

Beginning(t) == scope[t] = "REQUIRED" /\ bound[t] = NoConn /\ ok[t]

\* DataSourceTransactionManager starts the transaction.
Begin(t) ==
    /\ Beginning(t)
    /\ \E c \in Conn :
        /\ Take(t, c)
        /\ auto' = [auto EXCEPT ![c] = FALSE]
        /\ bound' = [bound EXCEPT ![t] = c]
    /\ UNCHANGED <<dirty, scope, ok, outer, inner, ops, failures, refusals>>

\* An exception raised by a statement, by the mappings a getter reads before it
\* asks for a connection, or by a pool that has none to give to BaseDAOImpl or
\* DBHelper.  SpringContext lets none of its own pass: see SpringRefuses.
Fail(t) ==
    /\ scope[t] # "OUT" /\ ok[t]
    /\ ok' = [ok EXCEPT ![t] = FALSE]
    /\ UNCHANGED <<owner, auto, dirty, scope, bound, outer, inner, ops, failures, refusals>>

\* Mutant: no clean-up when the service method ends.
LeaveKeeps(t) ==
    /\ scope[t] # "OUT" /\ outer[t] = NoFrame /\ ~Beginning(t)
    /\ scope' = [scope EXCEPT ![t] = "OUT"]
    /\ bound' = [bound EXCEPT ![t] = NoConn]
    /\ UNCHANGED <<owner, auto, dirty, ok, outer, inner, ops, failures, refusals>>

\* The service method returns or throws: commit, rollback, and the connection
\* that is bound goes back.
Leave(t) ==
    /\ scope[t] # "OUT" /\ outer[t] = NoFrame /\ ~Beginning(t)
    /\ scope' = [scope EXCEPT ![t] = "OUT"]
    /\ bound' = [bound EXCEPT ![t] = NoConn]
    /\ IF bound[t] = NoConn THEN UNCHANGED <<owner, auto, dirty>> ELSE GiveBack(bound[t])
    /\ UNCHANGED <<ok, outer, inner, ops, failures, refusals>>

-----------------------------------------------------------------------------
(* Operations and lazy getters. *)

\* Mutant: lazy getters share the connection of BaseDAOImpl.
ViaSpring(kind) == "spring"

Via(kind) == IF kind = "dao" \/ SpringReady THEN "spring" ELSE "helper"

NewFrame(kind) == [kind |-> kind, via |-> Via(kind), conn |-> NoConn, own |-> FALSE]

Open(t) ==
    /\ scope[t] # "OUT" /\ ~Beginning(t) /\ ok[t]
    /\ outer[t] = NoFrame /\ ops[t] < MaxOps
    /\ \E kind \in Kind : outer' = [outer EXCEPT ![t] = NewFrame(kind)]
    /\ ops' = [ops EXCEPT ![t] = @ + 1]
    /\ UNCHANGED <<owner, auto, dirty, scope, ok, bound, inner, failures, refusals>>

\* An entity whose lazy lob is null is written, or its relation followed: the
\* lob getter runs while the operation has its connection.
Nest(t) ==
    /\ outer[t] # NoFrame /\ outer[t].conn # NoConn /\ outer[t].kind # "lob"
    /\ inner[t] = NoFrame /\ ok[t] /\ ops[t] < MaxOps
    /\ inner' = [inner EXCEPT ![t] = NewFrame("lob")]
    /\ ops' = [ops EXCEPT ![t] = @ + 1]
    /\ UNCHANGED <<owner, auto, dirty, scope, ok, bound, outer, failures, refusals>>

\* The frame of t that is executing.
Top(t) == IF inner[t] # NoFrame THEN inner[t] ELSE outer[t]

SetTop(t, f) ==
    IF inner[t] # NoFrame
    THEN inner' = [inner EXCEPT ![t] = f] /\ UNCHANGED outer
    ELSE outer' = [outer EXCEPT ![t] = f] /\ UNCHANGED inner

\* Both ways to a connection set auto-commit off, BaseDAOImpl leaves it alone.
AutoOf(f, c) == IF f.kind = "dao" THEN auto[c] ELSE FALSE

\* doGetConnection finds the connection bound to the thread.
Reuse(t) ==
    LET f == Top(t) IN
    /\ f # NoFrame /\ f.conn = NoConn /\ ok[t] /\ f.via = "spring" /\ bound[t] # NoConn
    /\ SetTop(t, [f EXCEPT !.conn = bound[t]])
    /\ auto' = [auto EXCEPT ![bound[t]] = AutoOf(f, bound[t])]
    /\ UNCHANGED <<owner, dirty, scope, ok, bound, ops, failures, refusals>>

Acquire(t) ==
    LET f == Top(t) IN
    /\ f # NoFrame /\ ok[t] /\ NeedsPool(t, f)
    /\ \E c \in Conn :
        /\ Take(t, c)
        /\ SetTop(t, [f EXCEPT !.conn = c, !.own = ~Binds(t, f)])
        /\ bound' = IF Binds(t, f) THEN [bound EXCEPT ![t] = c] ELSE bound
        /\ auto' = [auto EXCEPT ![c] = AutoOf(f, c)]
    /\ UNCHANGED <<dirty, scope, ok, ops, failures, refusals>>

\* setAutoCommit(false) raises SQLException on a connection that was just taken:
\* nobody closes it.
\* SpringContext returns null and the getter goes on with DBHelper, where the
\* exception reaches the caller.
AutoCommitFails(t) ==
    LET f == Top(t) IN
    /\ f # NoFrame /\ ok[t] /\ f.kind # "dao" /\ failures + refusals < MaxFailures
    /\ NeedsPool(t, f)
    /\ \E c \in Conn :
        /\ Take(t, c)
        /\ bound' = IF Binds(t, f) THEN [bound EXCEPT ![t] = c] ELSE bound
    /\ SetTop(t, [f EXCEPT !.via = "helper"])
    /\ ok' = [ok EXCEPT ![t] = f.via = "spring"]
    /\ failures' = failures + 1
    /\ UNCHANGED <<auto, dirty, scope, ops, refusals>>

\* doGetConnection raises an exception, or setAutoCommit does on the connection
\* that is bound to the thread: SpringContext returns null with nothing taken,
\* and the getter goes on with DBHelper.
SpringRefuses(t) ==
    LET f == Top(t) IN
    /\ f # NoFrame /\ ok[t] /\ f.kind # "dao" /\ failures + refusals < MaxFailures
    /\ f.via = "spring" /\ f.conn = NoConn
    /\ SetTop(t, [f EXCEPT !.via = "helper"])
    /\ refusals' = refusals + 1
    /\ UNCHANGED <<owner, auto, dirty, scope, ok, bound, ops, failures>>

\* A write of BaseDAOImpl: committed at once, or with its transaction.
Write(t) ==
    LET f == outer[t] IN
    /\ f # NoFrame /\ f.kind = "dao" /\ f.conn # NoConn /\ inner[t] = NoFrame /\ ok[t]
    /\ dirty' = [dirty EXCEPT ![f.conn] = ~auto[f.conn]]
    /\ UNCHANGED <<owner, auto, scope, ok, bound, outer, inner, ops, failures, refusals>>

\* Mutants: the finally block closes every connection, or none.
CloseAll(t) ==
    LET f == Top(t) IN
    /\ f # NoFrame /\ (f.conn # NoConn \/ ~ok[t])
    /\ SetTop(t, NoFrame)
    /\ IF f.conn # NoConn THEN GiveBack(f.conn) ELSE UNCHANGED <<owner, auto, dirty>>
    /\ UNCHANGED <<scope, ok, bound, ops, failures, refusals>>

CloseNone(t) ==
    LET f == Top(t) IN
    /\ f # NoFrame /\ (f.conn # NoConn \/ ~ok[t])
    /\ SetTop(t, NoFrame)
    /\ UNCHANGED <<owner, auto, dirty, scope, ok, bound, ops, failures, refusals>>

\* The finally block: releaseConnection leaves a bound connection alone, and
\* closes one that is not.
Close(t) ==
    LET f == Top(t) IN
    /\ f # NoFrame /\ (f.conn # NoConn \/ ~ok[t])
    /\ SetTop(t, NoFrame)
    /\ IF f.own THEN GiveBack(f.conn) ELSE UNCHANGED <<owner, auto, dirty>>
    /\ UNCHANGED <<scope, ok, bound, ops, failures, refusals>>

Step(t) == Begin(t) \/ Open(t) \/ Nest(t) \/ Reuse(t) \/ Acquire(t) \/ Write(t) \/ Close(t) \/ Leave(t)

Next == \E t \in Thread : Enter(t) \/ Step(t) \/ Fail(t) \/ AutoCommitFails(t) \/ SpringRefuses(t)

Spec == Init /\ [][Next]_vars

\* Threads run, and the pool gives each waiting thread its turn.
FairSpec ==
    Spec /\ \A t \in Thread : WF_vars(Step(t)) /\ SF_vars(Begin(t) \/ Acquire(t))

-----------------------------------------------------------------------------
(* What must hold. *)

\* A connection has one owner, a thread one frame of each kind at most.
TypeOK ==
    /\ owner \in [Conn -> Thread \cup {Free}]
    /\ auto \in [Conn -> BOOLEAN] /\ dirty \in [Conn -> BOOLEAN]
    /\ scope \in [Thread -> Scopes \cup {"OUT"}]
    /\ ok \in [Thread -> BOOLEAN]
    /\ bound \in [Thread -> Conn \cup {NoConn}]
    /\ outer \in [Thread -> Frame \cup {NoFrame}]
    /\ inner \in [Thread -> Frame \cup {NoFrame}]
    /\ ops \in [Thread -> 0..MaxOps]
    /\ failures \in 0..MaxFailures /\ refusals \in 0..MaxFailures

\* Connections t uses.
FrameConn(f) == IF f = NoFrame THEN {} ELSE {f.conn} \ {NoConn}

Uses(t) == ({bound[t]} \ {NoConn}) \cup FrameConn(outer[t]) \cup FrameConn(inner[t])

\* No connection is used after it went back to the pool, where another thread
\* may have taken it.
UsesOwn == \A t \in Thread : \A c \in Uses(t) : owner[c] = t

\* Taken from the pool and used by nobody.
Leaked == {c \in Conn : owner[c] # Free /\ c \notin Uses(owner[c])}

\* The only connections lost are those whose setAutoCommit failed
\* (SpringContext.getConnection, DBHelper.getConnection).
LeaksOnlyByFailure == Cardinality(Leaked) <= failures

\* t can do nothing but wait for a connection.
Waiting(t) == Beginning(t) \/ (Top(t) # NoFrame /\ ok[t] /\ NeedsPool(t, Top(t)))

Stuck ==
    /\ \E t \in Thread : scope[t] # "OUT"
    /\ \A t \in Thread : scope[t] # "OUT" => Waiting(t)
    /\ \A c \in Conn : owner[c] # Free

\* A thread that waits holds two connections at most, its transaction's and a
\* relation's, so a pool of more than twice the threads never locks up.
PoolSuffices == Cardinality(Conn) > 2 * Cardinality(Thread) + failures => ~Stuck

\* What BaseDAOImpl wrote is decided by the end of the transaction it wrote in,
\* and never by a connection that goes back to the pool.
WritesDecided ==
    [][\A c \in Conn : dirty[c] /\ ~dirty'[c] =>
          \E t \in Thread : /\ bound[t] = c /\ scope[t] = "REQUIRED"
                            /\ scope'[t] = "OUT"]_vars

\* With SpringContext in place one connection serves a service method, lazy
\* getters included; a getter that SpringContext gives none takes one more.
OneConnection ==
    \A t \in Thread : scope[t] \in {"REQUIRED", "SUPPORTS"} =>
        Cardinality({c \in Conn : owner[c] = t}) <= 1 + failures + refusals

\* Every request gets its connections and ends.
EveryRequestEnds == \A t \in Thread : (scope[t] # "OUT") ~> (scope[t] = "OUT")

=============================================================================
