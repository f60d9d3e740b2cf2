------------------------------ MODULE LazyInit ------------------------------
(***************************************************************************)
(* The parts of the framework that are made when they are first asked for: *)
(* the database properties of DBHelper, the naming context of DBUtils, the *)
(* cache engine of CacheEngineFactory, and the URL patterns that           *)
(* LogInterceptor keeps for each handler.  Requests reach them from many   *)
(* threads at once, and each guards its first use in a way of its own.     *)
(*                                                                         *)
(* A plain static field may still look null to a thread that has not       *)
(* synchronized with the one that set it; the checks outside a lock below  *)
(* may go either way once the field is set.                                *)
(***************************************************************************)
EXTENDS FiniteSets, Naturals

CONSTANTS
    WebThread,    \* threads of the web container
    Nobody,       \* not a thread
    MaxAsks,      \* bound on the requests begun
    MaxFailures   \* bound on the files, lookups and servers that fail

ASSUME LazyInitAssumption ==
    Nobody \notin WebThread /\ MaxAsks \in Nat /\ MaxFailures \in Nat

VARIABLES
    databaseProperties, \* "null", "empty": published and not read, "loaded"
    context,            \* DBUtils: "null", "initCtx" alone, "envCtx": both
    engine,             \* the engine in cacheEngineMap
    patterns,           \* how often the pattern set of a handler was made
    config,             \* has SystemGlobals.loadConfig run?
    monitor,            \* owners of the monitors, by resource
    pc,                 \* where each thread is
    answer,             \* was its last request served right?
    held,               \* the engine in the repository of each thread
    asks, failures, failed, \* requests begun, failures, what has failed
    overlapped, early   \* two made an engine at once; one did before config

lazyVars == <<databaseProperties, context, engine, patterns, config, monitor, pc,
              answer, held, asks, failures, failed, overlapped, early>>

history == <<failures, failed, overlapped, early>>

NoEngine == [by |-> Nobody, kind |-> "none"]
Engine == [by : WebThread, kind : {"default", "configured"}]
Resource == {"properties", "patterns"}
Fallible == {"properties", "context", "engine"}

LazyStart ==
    /\ databaseProperties = "null" /\ context = "null" /\ engine = NoEngine
    /\ patterns = 0 /\ config = FALSE
    /\ monitor = [r \in Resource |-> Nobody]
    /\ pc = [t \in WebThread |-> "idle"]
    /\ answer = [t \in WebThread |-> "none"] /\ held = [t \in WebThread |-> NoEngine]
    /\ asks = 0 /\ failures = 0 /\ failed = {}
    /\ overlapped = FALSE /\ early = FALSE

Move(t, there) == pc' = [pc EXCEPT ![t] = there] /\ UNCHANGED <<answer, held>>

Answer(t, what) ==
    /\ pc' = [pc EXCEPT ![t] = "idle"]
    /\ answer' = [answer EXCEPT ![t] = what] /\ UNCHANGED held

Hold(t, e) ==
    /\ pc' = [pc EXCEPT ![t] = "idle"]
    /\ held' = [held EXCEPT ![t] = e] /\ UNCHANGED answer

Ask(t) == pc[t] = "idle" /\ asks < MaxAsks /\ asks' = asks + 1 /\ UNCHANGED history

At(t, here) == pc[t] = here /\ UNCHANGED asks

Fail(r) ==
    /\ failures < MaxFailures
    /\ failures' = failures + 1 /\ failed' = failed \cup {r}
    /\ UNCHANGED <<overlapped, early>>

-----------------------------------------------------------------------------
(* DBHelper.getDBType and getConnection: the null check without the lock,   *)
(* loadDatabaseProperties with it, then the property that was asked for.    *)
(* The file names a database other than Oracle, the default.                *)

DatabaseOthers == <<context, engine, patterns, config>>

GetDBType(t) ==
    /\ Ask(t)
    /\ \/ databaseProperties # "null" /\ Move(t, "read")
       \/ Move(t, "lock")
    /\ UNCHANGED <<databaseProperties, monitor, DatabaseOthers>>

\* Mutation: without the check under the lock.
LoadAgain(t) ==
    /\ At(t, "lock") /\ monitor["properties"] = Nobody
    /\ databaseProperties' = "empty"
    /\ monitor' = [monitor EXCEPT !["properties"] = t]
    /\ Move(t, "load")
    /\ UNCHANGED <<history, DatabaseOthers>>

\* Published under the lock before it is filled.
LoadDatabaseProperties(t) ==
    /\ At(t, "lock") /\ monitor["properties"] = Nobody
    /\ IF databaseProperties = "null"
       THEN /\ databaseProperties' = "empty"
            /\ monitor' = [monitor EXCEPT !["properties"] = t]
            /\ Move(t, "load")
       ELSE Move(t, "read") /\ UNCHANGED <<databaseProperties, monitor>>
    /\ UNCHANGED <<history, DatabaseOthers>>

\* A failure may come after the property was read; getDBType answers Oracle.
Load(t) ==
    /\ At(t, "load")
    /\ \/ databaseProperties' = "loaded" /\ Move(t, "read") /\ UNCHANGED history
       \/ databaseProperties' \in {"empty", "loaded"} /\ Answer(t, "wrong") /\ Fail("properties")
    /\ monitor' = [monitor EXCEPT !["properties"] = Nobody]
    /\ UNCHANGED DatabaseOthers

\* Mutation: the property itself is returned.
ReadProperty(t) ==
    /\ At(t, "read")
    /\ Answer(t, databaseProperties)
    /\ UNCHANGED <<databaseProperties, monitor, history, DatabaseOthers>>

ReadDBType(t) ==
    /\ At(t, "read")
    /\ Answer(t, IF databaseProperties = "loaded" THEN "right" ELSE "wrong")
    /\ UNCHANGED <<databaseProperties, monitor, history, DatabaseOthers>>

-----------------------------------------------------------------------------
(* DBUtils.getConnection: initCtx is set, and then envCtx is looked up; a   *)
(* thread that finds initCtx set uses envCtx, set or not.                   *)

ContextOthers == <<databaseProperties, engine, patterns, config, monitor>>

GetConnection(t) ==
    /\ Ask(t)
    /\ \/ context # "null" /\ Move(t, "use") /\ UNCHANGED context
       \/ /\ Move(t, "lookup")
          /\ context' = IF context = "null" THEN "initCtx" ELSE context
    /\ UNCHANGED ContextOthers

\* Mutation: the context goes to a local variable.
LookupLocal(t) ==
    /\ At(t, "lookup")
    /\ Move(t, "use")
    /\ UNCHANGED <<context, history, ContextOthers>>

LookupEnv(t) ==
    /\ At(t, "lookup")
    /\ \/ context' = "envCtx" /\ Move(t, "use") /\ UNCHANGED history
       \/ Answer(t, "wrong") /\ Fail("context") /\ UNCHANGED context
    /\ UNCHANGED ContextOthers

UseEnv(t) ==
    /\ At(t, "use")
    /\ Answer(t, IF context = "envCtx" THEN "right" ELSE "wrong")
    /\ UNCHANGED <<context, history, ContextOthers>>

-----------------------------------------------------------------------------
(* CacheEngineFactory.getEngine, which a repository calls for its field     *)
(* cacheEngine: two looks into the map, then an engine of the class that    *)
(* the configuration names, or the default one.                             *)

EngineOthers == <<databaseProperties, context, patterns, monitor>>

MakingEngine == {t \in WebThread : pc[t] \in {"makeDefault", "makeConfigured"}}

GetEngine(t) ==
    /\ Ask(t)
    /\ IF engine # NoEngine THEN Hold(t, engine) ELSE Move(t, "miss")
    /\ UNCHANGED <<engine, config, EngineOthers>>

\* Mutation: without the second look.
LookOnce(t) ==
    /\ At(t, "miss")
    /\ Move(t, IF config THEN "makeConfigured" ELSE "makeDefault")
    /\ overlapped' = (overlapped \/ MakingEngine # {})
    /\ early' = (early \/ ~config)
    /\ UNCHANGED <<engine, config, failures, failed, EngineOthers>>

LookAgain(t) ==
    /\ At(t, "miss")
    /\ IF engine # NoEngine
       THEN Hold(t, engine) /\ UNCHANGED <<overlapped, early>>
       ELSE /\ Move(t, IF config THEN "makeConfigured" ELSE "makeDefault")
            /\ overlapped' = (overlapped \/ MakingEngine # {})
            /\ early' = (early \/ ~config)
    /\ UNCHANGED <<engine, config, failures, failed, EngineOthers>>

MakeEngine(t) ==
    /\ t \in MakingEngine /\ UNCHANGED asks
    /\ LET made == [by |-> t,
                    kind |-> IF pc[t] = "makeDefault" THEN "default" ELSE "configured"]
       IN  \/ engine' = made /\ Hold(t, made) /\ UNCHANGED history
           \/ Hold(t, NoEngine) /\ Fail("engine") /\ UNCHANGED engine
    /\ UNCHANGED <<config, EngineOthers>>

\* ConfigInitializer.contextInitialized; its own getEngine is one of the above.
LoadConfig ==
    /\ ~config /\ config' = TRUE
    /\ UNCHANGED <<databaseProperties, context, engine, patterns, monitor, pc,
                   answer, held, asks, history>>

-----------------------------------------------------------------------------
(* LogInterceptor.getPatternSet: checked, locked and checked again.         *)

PatternOthers == <<databaseProperties, context, engine, config>>

GetPatternSet(t) ==
    /\ Ask(t)
    /\ \/ patterns > 0 /\ Answer(t, "right")
       \/ Move(t, "lockPatterns")
    /\ UNCHANGED <<patterns, monitor, PatternOthers>>

CheckPatterns(t) ==
    /\ At(t, "lockPatterns") /\ monitor["patterns"] = Nobody
    /\ IF patterns > 0
       THEN Answer(t, "right") /\ UNCHANGED monitor
       ELSE Move(t, "makePatterns") /\ monitor' = [monitor EXCEPT !["patterns"] = t]
    /\ UNCHANGED <<patterns, history, PatternOthers>>

MakePatterns(t) ==
    /\ At(t, "makePatterns")
    /\ patterns' = patterns + 1 /\ Answer(t, "right")
    /\ monitor' = [monitor EXCEPT !["patterns"] = Nobody]
    /\ UNCHANGED <<history, PatternOthers>>

-----------------------------------------------------------------------------

LazyNext ==
    \/ \E t \in WebThread :
        \/ GetDBType(t) \/ LoadDatabaseProperties(t) \/ Load(t) \/ ReadDBType(t)
        \/ GetConnection(t) \/ LookupEnv(t) \/ UseEnv(t)
        \/ GetEngine(t) \/ LookAgain(t) \/ MakeEngine(t)
        \/ GetPatternSet(t) \/ CheckPatterns(t) \/ MakePatterns(t)
    \/ LoadConfig

LazySpec == LazyStart /\ [][LazyNext]_lazyVars

-----------------------------------------------------------------------------
(* What must hold. *)

\* The fields and the threads stay within the states they can be in; the
\* bounds are kept.
LazyTypeOK ==
    /\ databaseProperties \in {"null", "empty", "loaded"}
    /\ context \in {"null", "initCtx", "envCtx"}
    /\ engine \in Engine \cup {NoEngine}
    /\ patterns \in Nat /\ config \in BOOLEAN
    /\ monitor \in [Resource -> WebThread \cup {Nobody}]
    /\ pc \in [WebThread -> {"idle", "lock", "load", "read", "lookup", "use", "miss",
                             "makeDefault", "makeConfigured", "lockPatterns", "makePatterns"}]
    /\ answer \in [WebThread -> {"none", "right", "wrong"}]
    /\ held \in [WebThread -> Engine \cup {NoEngine}]
    /\ asks \in 0..MaxAsks /\ failures \in 0..MaxFailures
    /\ failed \subseteq Fallible
    /\ overlapped \in BOOLEAN /\ early \in BOOLEAN

Asking == {"load", "read", "lookup", "use"}

\* A thread takes the database for Oracle only while another one reads the
\* properties or after reading them has failed (DBHelper.getDBType 1159-1161);
\* it finds no naming context only while another one looks it up or after the
\* lookup has failed (DBUtils.getConnection 63-67).
WrongOnlyWhileLoading ==
    [][\A t \in WebThread : pc[t] \in Asking /\ pc'[t] = "idle" /\ answer'[t] = "wrong" =>
        \/ failed' # {}
        \/ pc[t] = "read" /\ \E u \in WebThread \ {t} : pc[u] = "load"
        \/ pc[t] = "use" /\ \E u \in WebThread \ {t} : pc[u] = "lookup"]_lazyVars

\* The check under the lock: properties that were loaded are never replaced by
\* empty ones (DBHelper.loadDatabaseProperties 1144), and the patterns of a
\* handler are made once, whatever the threads saw before they had the lock
\* (LogInterceptor.getPatternSet 91-92).
MadeOnce ==
    [][/\ databaseProperties = "loaded" => databaseProperties' = "loaded"
       /\ patterns > 0 => patterns' = patterns]_lazyVars

\* Repositories share one engine, the configured one, unless two threads made
\* theirs at the same time or one was made before the configuration was read:
\* the second look of CacheEngineFactory.getEngine (line 54) settles the rest.
EngineShared ==
    \A t, u \in WebThread : held[t] # NoEngine /\ held[u] # NoEngine =>
        /\ overlapped \/ held[t] = held[u]
        /\ early \/ held[t].kind = "configured"

=============================================================================
