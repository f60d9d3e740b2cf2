# A TLA+ specification of wscms

wscms has two halves that hold state. On the server, `src/com/mvc/basemvc` is a
small persistence and caching framework (JDBC access with annotated entities,
CGLIB proxies with lazy properties, paging, a memcached repository), and
`src/com/mvc` a content management application that so far consists of stubs. In
the browser, the application's pages run the scripts it delivers from
`WebContent/js`: jQuery 1.7.1 and the tree component zTree 3.5. The modules in
this directory specify both: TLC checks them on small instances, and TLAPS
proves the main results about the framework for all values of the constants.
`PROJECT.json` says which lines of the source each definition stands for, which
property guards against which hazard, and with which mutation of the code every
property fails.

Paths of Java files below are relative to `src/src/com/mvc/basemvc`, those of
scripts to `src/WebContent/js`, unless they begin otherwise.

## 1. The system and its parts

| Part | State | Operations | Talks to |
|---|---|---|---|
| **Entity writes**: `persistence/db/DBOperator`, `persistence/util/DBHelper`, `ColumnValueLoader` and its subclasses | none of its own: rows, sequence and locks are in the database | `insert`, `update`, `delete`, `deleteById`, `updateLob`, `getSeqNextValue` | JDBC connection; called by `BaseDAOImpl` and `DBAccessor` |
| **Entities in the hands of programs**: `EntityFactory`, `LobInterceptor`, `RelationInterceptor` and its subclasses | the properties of each proxy, each read at the select or by its getter | `select*`, getters, setters, `update` (calls all getters) | connection of its own for each getter; entity writes |
| **Connections and transactions**: `BaseDAOImpl`, `spring/SpringContext`, `DBHelper.getConnection`, the advice of `applicationContext-transaction.xml` | pool, connections bound to threads, auto-commit flags | open and release of a connection around each operation or getter; begin, commit, rollback | Spring's `DataSourceUtils`, the pool |
| **Paging**: `util/ListPager`, `PagerBean`, `Page`; `selectPage`, `executeQueryPage` | page number, page size, row count | statement of a page in three dialects, count, page bar | entity reads |
| **Cache repository**: `cache/BaseRepository`, `MemCacheEngine` | values of a cache name and the list of their keys, both on the server | `setCacheValue`, `removeCachedValue`, `clear`, `getCacheValueMap` | memcached, through `CacheEngine` |
| **Lazy initialisation**: `DBHelper`, `persistence/util/DBUtils`, `CacheEngineFactory`, `interceptors/LogInterceptor`, `config/ConfigInitializer` | static fields that are null until first asked for | first use by any request thread | property files, naming service |
| **Entity mapping**: `persistence/meta/*` | none (annotations in, columns, keys and relations out) | `EntityMappingFactory.getEntityMapping` | everything above that deals with entities |
| **Batch updates, stored procedures** | a counter of parameters | `executeUpdateBatch`, `execProc` | JDBC |
| **Default cache engine, cache manager** | hash tables in one process | as the repository | – |
| **Facade, context, web tier** | configuration | delegation | – |
| **Application** (`src/com/mvc/controller`, `service`, `dao`, ...) | – | stubs, one interceptor that checks the session | – |
| **Callback lists and deferreds** (`jquery-1.7.1.js` 960–1325) | functions of a list, its memory, the indexes of a firing under way; two lists for the outcomes of a deferred | `add`, `remove`, `disable`, `lock`, `fire`; `resolve`, `reject`, `notify`, `then`, `pipe`, `when` | requests, promises of animations, ready |
| **Queues and animations** (1980–2149, 8218–8803) | the queue of an element, its timers, what each has saved of its size | `queue`, `dequeue`, `delay`, `clearQueue`, `promise`, `animate`, `stop` | callback lists; the clock of the browser |
| **Requests** (6894–7000, 7142–8213) | `state` and deferreds of each `jqXHR`, `jQuery.active`, the callbacks of jsonp in `window` | `ajax`, prefilters, transports over XMLHttpRequest and over scripts, converters, `abort` | deferreds, events; the server |
| **Events** (2838–3788, 6379–6422) | handlers of an element by type, the counts of delegated ones and of the handlers for `focusin` | `on`, `off`, `one`, `trigger`, `dispatch`, removal of elements | the browser, which tells events of its own |
| **Trees** (`zTree/jquery.ztree.core-3.5.js`, `excheck`, `exedit`, `exhide`) | nodes with their children, marks for first and last, the cache of nodes, check states, selection, the node in renaming, the page's list items | methods of `zTreeTools`, handlers of the user's clicks and drags | requests, for folders that are loaded |

Requests run on the threads of the web container, so every operation of one
thread may be interleaved with those of others, and with the ones of other
programs on the same database and the same memcached. A page runs one handler at
a time; but between two of them answers, timers and clicks come in any order, and
inside of one a callback of the program may call the very object that is calling
it.

### What is hard, and what makes each part correct

* **Entity writes.** An entity with large objects takes one statement for the
  row and one for each lob; an insert reads the sequence first. Each statement
  can fail, and other threads run in between. Correct means: inside a
  transaction the statements of an operation take effect together or not at
  all; outside one, a lob stays half written only when the operation itself has
  failed; a generated id is fresh; a key selects its one row; a key with a null
  component is refused; locks are released.
* **Proxies.** What an entity shows comes from several statements at different
  times, and an update writes all of it back. Correct means: an update touches
  what the program did not set only in the way the design admits, getters
  repeat what they have said, and a relation fits its foreign key.
* **Connections.** Getters take connections while their thread holds one. Correct
  means: no use after release, no leak, no lock-up of the pool, nothing
  committed or rolled back by anyone but the transaction it belongs to, and
  every request ends.
* **Paging.** Two statements per page over a table that changes, and int
  arithmetic. Correct means: pages split the rows; the page bar shows the page
  and leads to pages that exist; a walk shows no row twice and misses none
  unless the table changed in a way that makes this unavoidable.
* **Cache.** The list of keys is read, changed and written back without a lock;
  requests are lost, entries expire. Correct means: the list and the values part
  only where operations overlap or the server fails, and a clear clears.
* **Lazy initialisation.** Four ways to guard a first use, some of them not safe.
  Correct means: what is locked is made once, and a request is served wrongly
  only in the window the code leaves open.
* **Callback lists and deferreds.** A function that runs may change or fire the
  list that is calling it. Correct means: none is skipped or called twice, a list
  does not stay marked as firing, a deferred has one outcome and calls every
  handler of it once.
* **Queues and animations.** Each item must dequeue the next, once; `stop` walks over
  the timers while their callbacks add and remove some. Correct means: one at a
  time, in order, none forgotten, none for ever; promises are kept and sizes come
  back.
* **Requests.** Answer, timeout, abort and late scripts race. Correct means: one
  outcome and one `complete`, the request's own answer in the type asked for, the
  count of active requests right, no callback left in `window`.
* **Events.** Handlers trigger events, and default actions make the browser tell
  them again. Correct means: each handler it is meant for hears of an event once,
  a handler for one time runs once, and what is attached to elements is what the
  bindings need.
* **Trees.** Data, page, marks, check states, selection and requests are kept side by
  side and repaired neighbour by neighbour. Correct means: the data remain a
  tree, the page shows it, the check states are what a walk would find, no folder
  loads for ever, what one tree asked for does not come into the next, what is
  selected, renamed or hovered over is in its place, and drops lie where they were
  let go.

## 2. Modules

| Module | Models | Used by |
|---|---|---|
| `Entities` | ids, entities, and the rows a complete insert or update leaves | `EntityStore`, `DBOperator` |
| `EntityStore` | what entity writes promise: each operation one indivisible step, or rejected | abstract specification of `DBOperator` |
| `DBOperator` | the same operations statement by statement, on Oracle, SQL Server and MySQL | `DBOperator_proofs`, `MCDBOperator` |
| `EntityProxy` | the entities several programs hold of one row | `Programs_proofs`, `MCEntityProxy` |
| `Connections` | who holds which pooled connection | `Programs_proofs`, `MCConnections` |
| `Pages` | the arithmetic of `ListPager` | `ListPager`, `PagedQuery` |
| `ListPager` | one pager whose fields are set in any order | `PagedQuery_proofs`, `MCPagedQuery` |
| `PagedQuery` | a user's walk through pages of a changing table | `PagedQuery_proofs`, `MCPagedQuery` |
| `CacheRepository` | values and key list of one cache name, request by request | `Shared_proofs`, `MCCacheRepository` |
| `LazyInit` | first uses of the lazily made parts | `Shared_proofs`, `MCLazyInit` |
| `Callbacks` | callback lists, function call by function call | `Deferred`, `Promises` |
| `Deferred` | deferreds, `pipe` and `when` over callback lists | `Deferred_proofs`, `Promises` |
| `Promises` | a page that uses lists alone, or deferreds | `Promises_proofs`, `JQuery` |
| `Effects` | queue, timers and animations of one element | `JQuery` |
| `Ajax` | requests, from `ajax` to `complete` | `Ajax_proofs`, `JQuery` |
| `Events` | handlers of nested elements, triggering and default actions | `Events_proofs`, `JQuery` |
| `JQuery` | the page that uses one of these parts | `MCJQuery` |
| `TreeData` | nodes, cache, marks and selection of a tree | `TreeView` |
| `TreeView` | its list items, signs and lines; opening and closing | `TreeCheck` |
| `TreeCheck` | check boxes and radio buttons (excheck) | `TreeEdit` |
| `TreeEdit` | adding, removing, moving, renaming, hiding (core, exedit, exhide) | `Tree` |
| `Tree` | the handlers: calls of the program, the user's clicks, answers | `TreeDrag` |
| `TreeDrag` | dragging, from the mouse going down to the drop | `TreeCorrect` |
| `TreeCorrect` | what a tree promises between two handlers | `MCTree` |

Composition: `DBOperator` instantiates `EntityStore` with a refinement mapping
(`rows` is `rows`, and `request` is what `call` says was asked of it).
`EntityProxy` takes one update for one step: that is what the refinement
justifies. `PagedQuery` uses the arithmetic of `Pages` for its statements and its
links, as the code uses `ListPager` for both. `Deferred` is made of `Callbacks`, as
in the code; `Promises` instantiates both, `Callbacks` for lists that the program makes
itself with any flags, and `Deferred` for deferreds with theirs, over the same
variables; `JQuery` extends it, `Ajax` and `Events`, and adds an instance of `Effects`.
These parts share nothing on a page: `part` says which of them a behaviour is about, and
the variables of requests and of events stay as they were where it is not about them. `TreeData`,
`TreeView`, `TreeCheck`, `TreeEdit` are layers of operators on the record of a tree,
each extending the one before, as the plugins of zTree replace functions of its
core; `Tree` and `TreeDrag` have the actions.

Operators called a *mutant* or introduced by *As if* stand before the definition
they would replace; no specification uses them. They are plausible mistakes in
the code, and with each of them TLC finds a property violated.

### How the modules correspond to the code

**DBOperator.** `call[t]` is the Java frame of a thread in an operation: `op` and
`e` its arguments, `pc` the statement it is about to execute, `todo` the entries
of the map of lobs that `updateLob` goes through. `rows` is the committed table,
`writes[t]` the uncommitted writes of a transaction, which are also its row
locks. `Call` is the call by a service method with any id, value and lobs;
`NextVal`, `InsertRow`, `UpdateRows`, `DeleteRows`, `WriteLob` are the
statements; `ConstraintViolation` is an insert of a key that exists or is null;
`Refuse` the exceptions thrown before any statement is sent; `Fail` an
`SQLException` of any statement or of the commit; `Return` the way back to the
service method and the commit. Two where clauses differ, as in the code: `delete`
compares all key columns, the others leave out the null ones (`WhereAll`,
`Where`). A statement waits for the rows another transaction has written. A
transaction is one operation: service methods that call several are left to the
plan. `BaseDAOImpl` always constructs its `DBOperator` for Oracle, since
`setDbType` (line 105 of `BaseDAOImpl`) changes the field only after the
operator was built; the other database types are reached through `DBAccessor`
and a `DBOperator` made by hand.

**EntityProxy.** `entity[s]` is the fields of a program's proxy, `related[s]` its
relation property, `row` the row in the table. `CreateEntity` reads a row the
way `createEntityFromRS` does, with the conversions that turn NULL into 0 or into
an empty lob; `LoadLob` is `LobInterceptor`; `BeginUpdate`, `CollectNext`,
`FinishUpdate` are `update`, whose `ColumnValueLoader` calls the getters in the
order of a hash map; `BeginRelation`, `CollectNext`, `FindKey`, `LoadRelated` are
`RelationInterceptor`, which does the same before it looks for the foreign key,
first in the entity and then in the row. The variables `seen`, `touched` and
`keyed` are history: they record what the properties speak about. The relation
is one-to-one, and a program does not set the relation property itself.
Column names are abstract; the model follows a database that answers in upper
case, as Oracle does.

**Connections.** A *frame* is an execution of a `BaseDAOImpl` method (`dao`), of a
relation getter or of a lob getter; every one of them obtains a connection, uses
it and releases it in a `finally` block. `outer` and `inner` are the frames of a
thread: a DAO operation or a relation getter may call a lob getter while it has
its connection. `scope` is the service method a thread is in: with a transaction,
without, or none. `via` is the way to the connection: Spring's `doGetConnection`,
or `DBHelper.getConnection` when `SpringContext` has no data source.
`applicationContext-common.xml` declares that bean lazily and nothing asks for
it, so `SpringReady = FALSE` is the program as it is configured, and TRUE the
program as it was meant. `SpringContext.getConnection` catches every exception (lines 82 to 91) and
returns null, after which the caller turns to `DBHelper`: `SpringRefuses` is such an
exception when no connection is lost by it, because none could be had or because
`setAutoCommit` failed on the one the thread is bound to; `AutoCommitFails` is
`setAutoCommit` failing on a connection just taken, which nobody gives back. `Fail` ends
a frame: an exception of `DBHelper` or of a statement.

**Pages, ListPager, PagedQuery.** `Wrap` is Java's int arithmetic, also in the ends of
the page bar (`Window`), which may pass the largest int. `RowNumRange` is
the range of Oracle's and SQL Server's statement, `LimitRange` MySQL's;
`TotalPage`, `Window` and `PagerBean` are `getTotalPage` and `buildPagerBean` with
their casts. In `PagedQuery`, `Count` and `Fetch` are the two statements of a
request, `Follow` is the link to the next page, `Retry` a reload after an error;
`Add` and `Delete` are other programs.

**CacheRepository.** Each action but the beginnings is one request to memcached:
`PutOrDelete`, `GetList`, `StoreList`, `ClearValue`, `DropList`. `Lost` is a
request without an answer (the client returns null or nothing, and the operation
goes on), `Expire` the server dropping a value or the list. `alone` is history:
no other operation ran, and nothing failed, since the operation began. The order
of the list is left out, and a cache key equal to the reserved name of the list
is not used. The repository contains no subclass of `BaseRepository`; the
module models what any subclass inherits, with `isKeyList` as a constant.

**LazyInit.** One block of actions for each lazily made part. A check of a plain
static field outside a lock may go either way once the field is set, because
nothing orders it after the write: `GetDBType`, `GetConnection` and
`GetPatternSet` have both disjuncts. The engine map is a concurrent one, and
its two looks are exact.

**Callbacks, Deferred.** `lists[l]` is the closure of `jQuery.Callbacks`: the functions,
memory, `firing`, `firingStart`, `firingLength`, `firingIndex`. `frames` is the call
stack of the script: a frame is one call of `fire` that has come to its next
function, and while that function runs the program may call any method of any
list. `Return` goes back into the loop. `Deferred` puts three lists together with
the functions `deferred` adds to them first, which disable one list and lock the
other. The functions of the program are names, and what they return is a choice;
what is due to be called is history. `empty` while a list fires throws or skips
functions (line 1045); the ghost `broken` marks such behaviours. The functions of the
program return: `fire` has no `finally` (1045 to 1051), so that a function that throws
leaves `firing` set for ever and the list, to which functions are then only added, is
never called again. That is the code's, and none of the properties of lists and
deferreds is about it.

**Effects.** `fx` is one element and the timers of `jQuery.timers`: its queue with the
sentinel `inprogress`, the sizes 0 to 2 of two properties, what each animation has
saved of them, and the promises that wait. `Tick` is one interval of the clock,
which goes over the timers while their `complete` runs. `odd` marks the behaviours
in which a `complete` has called `stop`, as does an animation outside the queue.
`SizeKept` looks at the last animation of a property when that is over: a hide that was
stopped on the way before it must have left its size to it.

**Ajax.** `net` is the requests with the closures of their `jqXHR` (`state`, the
deferreds by what they have called), `jQuery.active`, and the functions and
answers that jsonp keeps in `window`. `Ajax` (the call), `ServerAnswers`, `CrossScript`,
`LateScript`, `Timeout` and `UserAbort` come in any order, each when nothing else runs.
The program's callbacks abort, throw or begin another request, whose own callbacks may
come before the first has returned: `calls` is the stack of what `done` still has to do
(`Tell`: success or error, `Complete`, `CountDown`: ajaxComplete and the count), and of
what `ajax` has to after ajaxSend (`SendOn`); an exception empties it. `Chain` and
`Convertible` are the search for converters from the type of the answer to the types
asked for. `odd` notes what the properties except: an exception of the program, an abort
in ajaxSend, and two requests of jsonp with one name.

**Events.** `bound` has the handlers of an element by type and how many of them are
delegated; `listening` is what jQuery has attached to the elements, `attaches` the
counts behind the handlers on the document for `focusin`. `stack` is what is being told,
innermost last: a handler that runs may bind, unbind, trigger, or remove elements before
it returns. `Ancestors` is the document: from each element the path to what is in the
body; `Page` what its scripts have bound before the program begins. A record on the stack
is a call of `trigger`, an event of the browser, or the native method that a default
action calls, with the events it makes the browser tell (`todo`); `told` and `seen` are
history.

**Trees.** `T` is everything a tree keeps: `kids` and `par` are `children` and
`getParentNode`, `cache` its `nodeCache`, `first` and `last` the marks, `dom`, `ul`,
`shown`, `icon`, `chkClass` what the page has of it. `requests` are the requests for
folders under way, each with the callback that `asyncNode` was given and the version
of the tree that asked. `drag` is the closure of `onMousedownNode`. Each action is one
handler; what the code passes to the program (`beforeRename`, `beforeDrop`) is a
choice. `T.set` is the setting object, so that one run covers trees with and
without loading, checking, hiding. `astray` marks data that have lost their shape.
`_ver`, which tells the answers for one root from those for the next, is the time at
which the root was made (core 137): `Refresh`, `ToolInit` and `ToolDestroy` set it to the
same millisecond or to a later one (`Clock`; a clock that is set back is left out).
`old` marks the requests of earlier roots, `took` that the answer to one was taken, and
`hasty` that the last two roots have the same time. Such an answer is followed into
the root and into nodes that were kept by a refresh; a node of an earlier tree may have
the `tId` of another by now, and is marked `astray` instead.

## 3. Runs

| Run | Instance | Distinct states | Shows |
|---|---|---|---|
| `DBOperatorOracle` | 2 threads in transactions, sequence, 1 blob and 1 clob, 3 calls | 67 221 | `TypeOK`, `FreshIds`; `ImplementsStore`: the operations refine `EntityStore` |
| `DBOperatorServer` | 1 thread in transactions and 1 auto-committing, id of two columns, 1 clob, 3 calls | 36 242 | `TornOnlyByFailure`, `OneRowPerOperation`; `EveryCallEnds` under fairness |
| `DBOperatorPartial` | MySQL, id of two columns, one of them null | violation | finding 1: `NullKeyColumnRefused` |
| `ConnectionsHelper` | 2 threads, 5 connections, all scopes, 3 operations per request, `SpringReady = FALSE` | 34 944 | `UsesOwn`, `PoolSuffices`, `WritesDecided` |
| `ConnectionsSpring` | 2 threads in service methods, 2 connections, 2 operations, 1 failure or refusal of Spring's connection, `SpringReady = TRUE` | 118 771 | `LeaksOnlyByFailure`, `OneConnection`; `EveryRequestEnds` under fairness |
| `PagedQueryWalk` | 4 rows, up to 6, pages of 2, SQL Server, 1 failure; and a pager of its own with five-bit ints, pages -3..15, page sizes 0..10, 0..20 rows, 1..6 links | 480 696 | `NothingTwice`, `SkippedOnlyPastCount`; `WalkEnds` under fairness; `PagesPartition`, `WindowShowsPage` of the pager |
| `PagedQueryMySql` | MySQL, 5 rows | violation | finding 2: `PageStartsAtFirstRow` |
| `CacheRepositoryMemcached` | 2 threads, 3 keys, 1 value, 2 faults | 314 734 | `OrphansNeedOverlap`, `PhantomsNeedOverlap`, `ClearEmpties` |
| `LazyInitStartup` | 3 threads, 5 requests, 1 failure | 317 530 | `EngineShared`, `WrongOnlyWhileLoading`, `MadeOnce` |
| `EntityProxyPrograms` | 2 programs, 4 columns (plain foreign key, number, 2 lazy lobs), 2 values, 5 calls | 2 006 749 | `UpdateKeepsTheRest`, `GettersRepeat`, `RelationFitsEntity` |
| `JQuery` | 4 lists of different flags, 2 deferreds, 7 animations, 12 kinds of requests, 7 bindings on 3 pages; up to 4 calls of the program, 2 requests, 3 calls about events | 872 204 | `CallbacksSound`, `DeferredSteps`, `EffectsSound`, `RequestsSound`, `EventsSound` |
| `Tree` | 16 settings with first nodes and calls, up to 6 nodes, 2 requests, 2 to 5 handlers, roots made in one millisecond or later | 233 610 | `DataKept`, `PageShowsData`, `ChecksAgree`, `EditsEnd` |

Each passing run checks the type invariant of its module too: `ConnectionsSpring` and
`DBOperatorServer` leave it to `ConnectionsHelper` and `DBOperatorOracle`, and in `JQuery`
and `Tree` it is part of the properties, each of which is a conjunction of named
parts: `JQuery.tla`, `Promises.tla`, `Ajax.tla`, `Events.tla` and `TreeCorrect.tla` say what each part means, and under what
conditions. Those conditions are results too: section 4 lists what happens
outside of them.

### Bounds, and why they are enough

* *Threads and programs.* No code speaks of a third party: an operation compares
  what it has read with what anyone else has written, and two suffice for every
  such pair. `LazyInit` has three, so that one makes, one waits and one comes
  late. The theorems hold for any number.
* *Lobs and columns.* One blob and one clob make the order between the two kinds
  appear; two lazy lobs make a lob that is read at another time than its sibling.
* *Keys.* Two complete composite keys share a component: a where clause that drops
  the other column would select both. Three cache keys let a `clear` meet one that
  it removes, one that it has removed and one that is not in its list.
* *Values.* A single value and null where only presence matters (the cache, the
  lobs); two where a property compares a value with an earlier one.
* *Calls, requests, failures* (`MaxCalls`, `MaxOps`, `MaxAsks`, `MaxFaults`,
  `MaxFailures`): the violation that every mutant gives fits in them. Three
  operations on rows are an insert and two others that meet on its row; five
  calls on entities are the select, set and update of one program between the
  select and the update of another; five first uses let every part be asked for
  by more than one thread. One failure suffices where a property admits any
  violation after the first: a second one may lose the second connection of the
  pool of two, after which a thread waits for ever, as it would in the code; the run
  has a pool that is larger than what may be lost. The cache has two, one for each side
  of the pair that its properties compare.
* *Ints.* Five bits (`MaxInt = 15`) let the product of page and page size and the
  last link of the page bar wrap around within the values enumerated; where the last
  link does not fit, the bar may be empty, and `WindowShowsPage` asks only that it
  leads to no page that does not exist. The theorems hold for every width.
* *Rows of a walk.* Four rows and two more in pages of two: three pages, insertions
  before, within and behind the page shown. The rows fit in an int, as in any
  real table; what happens where they do not is seen in the pager of the same run.
  Pager and walk share nothing: the pager is set in one of the states in which a
  walk has ended, so that its values add to those of the walk.
* *Calls on a page.* A list that is changed in its firing takes a call that fires and
  three in its functions; an animation stopped in the `complete` of another, one
  call for each and one more behind (`EffectsSound` was also checked once
  with five calls, 5 283 209 states); two requests, so that one can end in the
  callbacks of another and two can share a name of jsonp. Settings, bindings and
  pages are chosen so that each branch of the code is taken.
* *Trees.* Six nodes are a root with children beside it and below, and two more that
  are added or copied. Each of the sixteen settings has the calls that meet
  each other there (loading and removing, dragging and renaming, moving and
  checking); all calls on one tree would leave too many states for as many steps.
  Two requests are answered in either order.

`CHECK_DEADLOCK FALSE` stands in the configurations whose behaviours really stop:
`DBOperator*`, `LazyInitStartup` and `EntityProxyPrograms` when the bound on calls
is used up and all threads are idle, `PagedQuery*` when the walk has ended, `JQuery` and
`Tree` when the bound on calls is used up and no answer is awaited. In the
other runs there is always something to do, and TLC checks it.

### Fairness

* `DBOperator!FairSpec`: weak fairness of each thread's next statement. A thread
  that holds the CPU long enough executes its next line, and the database
  executes a statement that need not wait. `Fail` and `Call` are not fair.
  Nothing fair is needed for locks: with complete ids a transaction holds one only, so
  its own steps are never blocked once it has written.
* `Connections!FairSpec`: weak fairness of each thread's steps, and strong fairness
  of those that take a connection: a pool serves its waiters in turn, so a
  thread to which a connection comes free again and again obtains one.
* `PagedQuery!FairSpec`: weak fairness of the user and the server, which includes
  reloading after an error. Without it the walk may end nowhere; failures are
  bounded by `MaxFailures`.

## 4. Findings

1. **A key with a null component is not refused** (`DBOperatorPartial`). The loader
   of `UpdateOperationColumnValueLoader` drops null columns (line 32) before
   `deleteById` and `update` look for nulls among them, so a composite id with one
   null component is executed with the others, on every row that shares them.
   The exceptions at `DBOperator.java:1124` and `:1391` say that it cannot be.
2. **MySQL pages begin at the wrong row** (`PagedQueryMySql`). `ListPager.java:297`
   adds the page number and the page size where `getFirstRow` (line 606)
   multiplies them, and asks for `(pageNo + 1) * rowsPerPage` rows.
Two more things a reader should know, which no document of the code contradicts:
with `SpringReady = TRUE`, a lazy getter in a method without transaction turns off
the auto-commit of the connection it shares, and what the DAO writes after it is
rolled back when the connection returns to the pool (`WritesDecided` fails; this
is why it is checked for the program as it is configured). And outside the
conditions of theorem `Atomicity` the refinement fails: an update of a row that is
inserted by another thread between its first statement and its lob statement
finds nothing first and the row later (`ReadIds = FALSE`). `executeQueryPage` catches
`SQLException` and returns what it has read (`DBOperator.java:807`), which
`PagedQuery` has for `Swallows = TRUE`; the interface declares the exception
(`BaseDAO.java:289`) and other queries raise it.

What the model found in the scripts, and where the conditions of the properties
come from:

* *Callback lists.* `empty` in a function of a list that is firing throws or skips
  functions, and the list stays marked as firing (line 1045).
* *Animations.* A `complete` that calls `stop` lets the same animation be dequeued
  twice and timers be removed under the wrong index (8508–8520). `stop(false, true)`
  during a delay beside an animation outside the queue stops the queue for good
  (8492). `clearQueue` while an item runs forgets `inprogress`. A queued
  function that calls `next` and then queues more loses what it has queued
  (2071). A `show` that is stopped does not come back to its size, since only `hide`
  saves it (8666).
  Two timeouts may be set for one promise (`stop(true)` sets them), and the second, coming
  after a later promise was asked for, removes the list of that one (1991): if the element
  is busy when its own timeout comes, the later promise is never resolved.
* *Requests.* An abort in a handler of `ajaxSend` runs `done` a second time, since
  `state` is set back to 1 behind it (7578), and `jQuery.active` becomes -1. Two
  requests with one `jsonpCallback` get each other's answers (7856), and the late
  script of an aborted one answers the next. A callback that throws leaves the
  request counted.
* *Events.* `one` with `mouseenter` or a delegated `focus` never unbinds (3711);
  `off` of a delegated `focus` with its selector and the removal of an element
  leave the count for `focusin` too high (2982, 6397). Triggering an event inside of
  the default action of another resets `jQuery.event.triggered`, and handlers hear
  of the first one twice (3174). A handler for one time runs twice when its event
  is triggered again within its own dispatch, and when it is delegated to elements of
  which one is in another: both calls are chosen before the first (3204).
* *Trees, loading.* Roots made within one millisecond have one version (core 137): after
  `init` or `refresh` in such haste the answers for the tree before come into the new
  one (929), and a folder may be filled twice. A callback for a folder that is already
  loading is dropped (core 890); an empty answer to a reload takes the mark from the last child; a node
  moved silently into a closed folder is not shown once the first child is
  removed.
* *Trees, renaming and dragging.* Removing an ancestor of the node in renaming leaves
  `curEditNode`, which keeps the tree from being checked or dragged. A rename that
  `beforeRename` refuses leaves two nodes in editing. A drop whose target was
  removed ends at the root (exedit 643), and a late move brings a removed node
  back, outside the cache.
* *Trees, checking and hiding.* `setChkDisabled` below a node, `removeChildNodes` and
  hiding the last visible child leave the check state of the parent as it was.
  `checkNode(node, true, true)` on a checked radio button of the tree unchecks it.
  exhide with additions, removals and moves breaks the marks of first and last.

## 5. Proofs

Each `*_proofs` module extends the module it is about; `Shared_proofs` extends two,
`CacheRepository` and `LazyInit`, and `Programs_proofs` `Connections` and `EntityProxy`;
these share no variable. The type invariant is a
theorem everywhere; the other results, and the argument of each:

| Theorem | States | Argument |
|---|---|---|
| `SequenceIdsFresh` | `[]FreshIds` | `IdInv`: every id in a row, in an uncommitted write or in a call past its sequence lies below `nextval`. `FreshIds` is not inductive without it: nothing else keeps the next value from being in use. |
| `Atomicity` | `Disciplined => (Spec => ImplementsStore)` | `AtomicInv`: transactions write disjoint rows (`Exclusive`); what one has written is the prefix of the row it is building, given by `todo` (`InsertPart`, `UpdatePart`, `DeletePart`); it writes one row only (`Single`); nobody inserts a row that another updates (`KnownId`). Every statement then is a stutter, `Return` is `Perform`, and `Abort` is `Reject`. |
| `OneRowAtATime` | `[]` of `OneRowPerOperation`, for complete ids | `OneInv`: the id of a call is complete, and what a transaction has written is on the row of that id. The action property speaks of the table only; the invariant carries it through the commit. |
| `OnlyFailureTears` | `[]` of `TornOnlyByFailure`, for complete ids | `TornInv`: a placeholder in a transaction's copy of a row is one it has still to replace or one the table had; writes are exclusive; lobs are left to write only between two statements. Each statement is shown to write a `w` that keeps this (`Writes`), and a lob taken off the list is no placeholder in it. |
| `NoUseAfterRelease`, `NothingElseLeaks` | `[]UsesOwn`, `[]LeaksOnlyByFailure` | `UseInv`: used connections are owned, and a frame owns one that no other frame of its thread uses unless it is bound. Each action is shown *sound*: it changes one thread, and leaks at most the connections of a set `X`, empty but for `AutoCommitFails`. |
| `PoolNeverLocks` | `[]PoolSuffices` | When all wait, every connection is leaked or used; a waiting thread uses its bound one and at most one more (`WaitingHolds`). This injects the used connections into `Thread \X {1, 2}`. |
| `OneConnectionPerMethod` | `[]OneConnection`, for `SpringReady = TRUE` | `HelpInv`: each frame that turned to `DBHelper` has cost a failure or a refusal of Spring's connection that no other frame has, and in a service method only such frames own a connection. So a method holds one connection and one more for each such exception, which is what the code admits. |
| `TransactionsDecide` | `WritesDecided`, for `SpringReady = FALSE` | `WriteInv`: the auto-commit of a bound connection is off exactly in a transaction, a DAO frame outside one uses a connection that commits by itself, and no getter uses a transaction's connection. |
| `PagesAlwaysSplitRows`, `BarAlwaysShowsPage` | `PagesPartition`, `WindowShowsPage` in every state of `ListPager` | lemmas on the rounding division, on products that do not wrap around while there is room for a page, and on the ends of the window: no link leaves the pages that exist, in whatever way the sum of its first page and its length wraps around, and where that sum fits in an int the bar shows the page. |
| `ShownOnce`, `MissedOnlyPastCount` | `[]NothingTwice`, `[]SkippedOnlyPastCount` for Oracle and SQL Server | `OnceInv`: without insertions, rows seen have numbers up to those of their pages, since deletions only move rows down. `SkipInv`: without deletions, the rows there from the start with a number on a page seen have been seen, since insertions only move rows up. |
| `OnlyOverlapOrphans`, `OnlyOverlapPhantoms`, `ClearLeavesOrphansOnly` | the three action properties of `CacheRepository` | `AloneInv`: an operation that has been alone *knows* the server: the list it has read is the list there is, and the value it has written is there. |
| `ServedRight`, `LockedLoadsAreFinal`, `OneEngine` | the properties of `LazyInit` | one invariant per part: properties that are published and empty are being loaded or have failed; a context with no `envCtx` likewise; whoever makes patterns has the monitor and there are none yet; unless two overlapped there is at most one maker, and then no engine. |
| `UpdatesKeepTheRest`, `GettersAlwaysRepeat`, `RelationsFit` | the properties of `EntityProxy` | `ProxyInv`: a property is null, set, or what was `seen` as it is read (`Taken`); the lobs still to be read are null (`NotLoaded`); the key a getter has found fits its entity (`Joining`), and so does the relation (`Related`). |
| `DeferredTyped`, `DeferredLists`, `DeferredHandlers`, `DeferredWhen`, `DeferredPipe`, `DeferredOnce` | what `Deferred` says of deferreds, for any number of them | `DefSafe`, see below. |
| `PromisesSettleOnce` | `DeferredSteps` | the theorems about `Deferred`, instantiated: a page's constants satisfy what they assume, and the two instances say the same. |
| `ListsAlwaysSafe`, `PromisesCallbacks` | `[]ListsSafe`, `[]CallbacksSound` | `Well`, see below, and `DefSafe`. |
| `AjaxAlwaysSafe`, `AjaxAlwaysSound` | `[]AjaxSafe`, `[]RequestsSound` | `AjaxSafe`, see below. |
| `EventsAlwaysSafe`, `EventsAlwaysSound` | `[]EvSafe`, `[]EventsSound` | `EvSafe`, see below. |

**Deferreds.** That a deferred has one outcome is kept by nothing that looks at the
outcome: the first functions of each of its lists disable the other one, inside of
the firing. Three functions of jQuery run in that order before any function of the
program, and other loops may be under way meanwhile. The invariant therefore says
where each deferred is in this: its *phase* is that nothing was fired, that the loop
of one outcome has made one, two or all three of these calls, or that it is over
(`Phases`); what each list contains is these three followed by what was added
(`Contents`); a list that fires once has called a prefix of what was added, in that
order and with one value, and what is due is the rest of it (`OnceOK`, for the list of
progress its counterpart without *once*); and the stack of loops fits the lists, with
each loop that is not the innermost inside of a call that fires the next one. `when`
adds a part of its own (`WhenInv`): its counter is the number of parts whose list has
not yet called its function, and where `then` is half-way through the arguments, those
it has still to add it to; `pipe` likewise (`PipeInv`), with the promise that the filter
has returned as a second source. Each action is shown to keep each of these.

**Lists with any flags.** A function may remove others from the list that is calling
it, on either side of the place the loop has come to, and empty, disable or fire it.
`Well` says of a list with a loop that the loop has passed `k` functions, that those due
are the rest of the list after `k`, and, for *once*, that a function was called as often
as it is ahead of the loop at most as often as it was added (`LoopOK`: the counts are
added up, since removing and adding again changes both). `remove` keeps this because
what is left of the list after the removal begins, after the loop, at the *rank* of `k`
among the functions that stay: lemmas `RankNext`, `RankTaken` and `WithoutFacts` say
what `Without` returns without induction over the list, `RemainsWithout` that what is
due is the rest of it still, and `Copies` that the loop's variables are counted down by
as many as were taken out before them. No list has two loops (`Distinct`): it is fired
again by the loop itself, when that ends. After the exception of an emptied list all
loops are gone at once, and each of their lists is *broken*.

`FiringEnds` and `CallsDue` are not inductive without `Well`: they say nothing of the
lists that no loop fires, nor of those that have to wait, from where the next loop
starts.

**Requests.** `RequestsSound` does not say where a request is between two calls, and is not
inductive for that reason: `AjaxSafe` adds it. What is true of a request at rest follows
from its `state` alone (`Rest`): before 1 nothing was sent and nobody told; at 1 it is on
the way, will call back and can be timed out; at 2 it is settled, and neither its timer nor
its transport are left. A settled request owes `complete`, or it was called (`Completes`),
and calls of `done` are under way for settled requests only (`Frames`). `active` is the
number of requests with `fire` that have not ended or are in `calls`, each of them once
(`CountOK`); an abort in ajaxSend breaks this, since then two calls of `done` stand for
one request, and so does an exception, which drops calls. Names of jsonp (`NamesOK`): while none is shared, what
stands under a name in `window` is the request under way with that name or what was there
before, so that its clean-up puts back what it found and no script of it answers another.
Every chain of types ends in the type asked for (`Common`; lemmas `StarsFacts`,
`AskedFacts`, `ChainOfFacts`, by the last place that is not `*`, without induction). Each
operator that makes a page of another is shown to keep `Safe`, or `SafeBut` for the request
at hand: that is what is true in the middle of `done`, between the end of a request and
its place in `calls`. The actions are then compositions of these lemmas.

**Events.** `EventsSound` says three things that keep nothing of each other, and
`EvSafe` is the conjunction of an invariant for each with what they share. *What is
attached* (`BoundOK`): in a list the delegated handlers lead, each handler stands under the
type that its own is mapped to and has an identity of its own, elements listen for the
lists that are not empty, and the counter of `focusin` is at least the number of elements
that have handlers of it; equal, as long as nothing was unbound by a name that is mapped to
another. *What is told* (`ToldOK`): an event on the stack is `Fresh`, that is, no handler
that it has still to call, or would find further along its path, has been told of it; or
it is `Hushed`, silenced by `jQuery.event.triggered`, and then the method that set this is
on the stack, the events before it are fresh, and nothing after it can set it again. That
a path passes no place twice (`Straight`), and that a handler is bound in one place
(`IdsOK`), is what makes a handler that was called not turn up again. *What is called
once* (`OnesOK`): a handler for one time that was called is no longer bound, unless under
a name that never unbinds it, and is in the queue of no event, unless it is delegated to
nested elements; this needs that only the innermost event has handlers to call, which holds
until one is triggered within another. `StackOK` has what both need of the queues: no
handler stands in one twice for an element, and one that is still bound is bound where the
queue took it from (`CallOK`). The binding of handlers is not recursive: what `Picked`
keeps of a list is described by the places that are kept (`PickedFacts`), without induction.

Assumptions of the proofs are those on the constants (named `...Assumption`, and
evaluated by TLC in every run) and these:

* `Disciplined` for `Atomicity`: all threads in transactions, ids from a sequence,
  callers pass complete ids and update or delete rows that they have read. That
  is how the service layer is configured and what an application with generated
  ids does. The run `DBOperatorOracle` is an instance of it.
* `Ids \subseteq Key` for `OneRowAtATime` and `OnlyFailureTears`: callers pass complete
  ids. The run `DBOperatorPartial` and finding 1 show what a null key column does.
* `SpringReady`, the configuration of the bean `SpringContext`, for
  `OneConnectionPerMethod` (present) and `TransactionsDecide` (absent, as in the
  repository): each is checked in the run with that configuration.
* `[]Fits` for `PagedQuery`: the rows of the table and one page more can be
  numbered with an int. Beyond it the statement of the last page wraps around.
* `AjaxAssumption`: what `ajax` is called with are options (`Options`), whatever they are.
* `EventsAssumption`: the document is a forest (`Ancestors` goes from each element up, the
  same from each of them), and the page begins with handlers and a focus that exist.
* `DeferredConstants` for the theorems about `Deferred`: the parts are finitely many,
  `when` and `pipe` make two deferreds that are not among them, and each has its three
  lists with their flags. `PageConstants` proves it for `Promises`, from
  `PromisesAssumption` alone.

Only model-checked, not proved: the liveness properties (`EveryCallEnds`,
`EveryRequestEnds`, `WalkEnds`), which are out of the prover's reach; and
`EffectsSound` and the properties of `TreeCorrect`:
a step of the queue runs the callbacks that run the queue, trees are walked from the top,
and these are recursive operators, which the provers do not take. For the same reason
`PromisesCallbacks`, `PromisesSettleOnce`, `AjaxAlwaysSound` and `EventsAlwaysSound` are
stated for `PromisesSpec`, `AjaxSpec` and `EvSpec` and not for the `Spec` of `JQuery`, whose steps are those of
one of them or leave its variables alone, and which begins in one of its initial states.

## 6. Not modelled

* **Entity mapping** (`persistence/meta`): a pure function from annotated classes;
  the modules take its results (columns, kinds, keys, strategy) as constants.
* **Batch updates, stored procedures**: in the plan.
* **Default cache engine and cache manager**: in the plan. `MemCachedConfig` only
  chooses a client, and its one caller asks for the name null.
* **Contents of collections of related entities**: their getters are frames of
  `Connections`; what they select is one statement.
* **Several operations in one transaction**: `DBOperator` has one. `Connections`
  has many, without their data.
* **HTML, log lines, file parsing, JSP**: no state that outlives a request.
* **Selectors, manipulation, attributes, CSS and feature tests of jQuery**: functions of
  the document, which the browser holds. Of requests, the headers, `ifModified`,
  `statusCode` and `param` are left out; of events, `live`, the fixes for old
  browsers and the properties of keys and mice.
* **Drags between two trees**, and the pictures and skins of nodes.
* **`json.js`, `extjs3.4/TabCloseMenu.js`, the other Ext JS files**: a serializer, a
  menu that looks at the tabs when it opens, and a vendored library.
* **The application**: stubs. Its `AuthorizeInterceptor` decides each request from
  the session alone.

Hazards that no property covers yet are listed in `PROJECT.json` with the reason.
Reading the code also turned up details that no property is about, because
nothing in the repository reaches them or no state is involved: a batch size of 0 never
equals its counter and sends all statements at once (`DBOperator.java:943`), and the
groups before a failing one stay written outside a transaction (948);
the `CallableStatement` of a procedure is never closed (1561); a getter on its own
connection does not see what the caller's transaction has written
(`RelationInterceptor.java:203`);
`executeQueryPage` with row bounds ignores both (`DBOperator.java:728`);
`getSystemDatatime` closes its caller's connection (`DBHelper.java:1615`);
`updateBlobValue` ignores the id column's name (`DBHelper.java:822`);
`cloneEntityFromProxy` recurses without end over entities that refer to each other
(`EntityUtils.java:242`); `EntityMappingFactory` never fills the cache it looks into
(line 65), and `MvcCacheManager.getCacheManager` looks up a literal name (line 52);
an expiry of 25 days and more overflows (`MemCacheEngine.java:116`); a lob getter
closes neither statement nor result set (`LobInterceptor.java:152`), and a relation
getter expects column names in upper case (`DBHelper.java:351`); a one-to-many
relation is read without the order of its annotation (`OneToManyLoader.java:57`).

## 7. Plan

Done, in this order: `Entities`, `EntityStore`, `DBOperator`; `Connections`;
`Pages`, `ListPager`, `PagedQuery`; `CacheRepository`; `LazyInit`; `EntityProxy`;
and the proofs of each; then the scripts: the layers of `Tree`, and `Callbacks`,
`Deferred`, `Effects`, `Ajax`, `Events` under `JQuery`; then `Promises`, and the proofs
of lists, deferreds, requests and events.

To come, the most important first:

1. **Transactions of several operations.** `DBOperator` with a sequence of operations
   per transaction, and deadlocks over rows locked in different orders; the abstract
   specification becomes a store of transactions.
2. **Batch updates.** `executeUpdateBatch` by groups, with a failure in any of them;
   abstract specification: a prefix of whole groups outside a transaction,
   all or nothing inside. Theorem: the groups split the list, for every size.
3. **Collections of related entities** in `EntityProxy`: one-to-many and many-to-many
   getters, with rows that come and go between the key and the collection.
4. **Default cache engine and managers**: two first values of one cache name, and
   the repository over this engine instead of memcached.
5. **Entity mapping** as operators: which columns and keys come out of which
   annotations, inheritance and embedded ids, against a reference definition.
6. **Stored procedures**: order of parameters and results, and the statement that is
   not closed.
7. **Runs**: the database type as a variable chosen in `Init`, so that one run covers
   the three databases; the two configurations of `Connections` likewise.
8. **Scripts**: `ready` and the store of data of elements; requests whose callbacks
   animate and bind, across the parts of `JQuery`; drags between two trees.
9. **Proofs**: `Atomicity` without a sequence; `Effects` with a stack of calls under way
   in place of its recursive operators, as `Ajax` and `Events` have, and its properties as
   theorems; the invariants of the modules above.
