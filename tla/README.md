# deno-sqlite in TLA+

Specifications, model checks and proofs about `deno-sqlite`: SQLite compiled to
WebAssembly, a C wrapper around it (`src/build/src/wrapper.c`), a virtual file
system that calls back into JavaScript (`src/build/src/vfs.c`,
`src/build/vfs.js`, `src/browser/vfs.js`), and the TypeScript API `DB` and
`PreparedQuery` (`src/src/db.ts`, `src/src/query.ts`). Paths below, and line
numbers in the modules' comments, are those of the repository (`db.ts` is
`src/src/db.ts` and so on).

## The system

| component | state | operations | correct if |
|---|---|---|---|
| statements and closing (`db.ts`, `query.ts`, `wrapper.c`) | `DB.#open`, `DB.#statements`; per query `#stmt`, `#status`, `#finalized`, `#iterKv`, `#rowKeys`; SQLite's VDBEs | `prepareQuery`, `query`, `queryEntries`, `execute`; `iter`, `next`, `all`, `first`, `one`, `execute`, `expandSql`, `columns`, `finalize`; `close` | no statement leaks, none is used after it is freed, iterators and statements agree, `close` closes |
| transactions (`db.ts`) | `#transactionDepth`; SQLite's savepoints, autocommit flag, writers in progress | `transaction`, the statements a closure runs | atomic, nested, durable when the outermost call returns |
| user functions (`db.ts`, `function.ts`, `wrapper.c`) | `#functionNames`, `#functions`; SQLite's function table; `current_ctx` | `createFunction`, `deleteFunction`, a call from SQL | a name calls its function and no other, results reach the call that asked |
| open, (de)serialize, counters (`db.ts`) | one connection per WebAssembly instance | constructor, `serialize`, `deserialize`, getters | memory is freed, errors are reported |
| marshalling (`wasm.ts`, `query.ts`, `function.ts`, `wrapper.c`) | none | `setStr`, `setArr`, `getStr`, binding and reading of values | values survive the round trip |
| VFS in C (`vfs.c`) and for Deno (`build/vfs.js`) | lock level per file; table of open files; the operating system's locks | open, read, write, lock, unlock, sync, delete | SQLite's locking protocol |
| VFS for browsers (`browser/vfs.js`, `browser/mod.ts`) | buffers of loaded files, IndexedDB | open, read, write, truncate, sync, delete, `loadFile` | buffers behave as files; what is reloaded is consistent |
| instances (`build/sqlite.js`) | compiled module, pool of browser instances | `compile`, `instantiate` | an instance is used by one `DB` |

How they interact. `DB` and `PreparedQuery` share the set `#statements` and call
the wrapper synchronously. The wrapper calls SQLite, SQLite calls the VFS (files)
and `func_impl` (user functions), and both call JavaScript. A user function is
arbitrary JavaScript and may call every method of the same `DB` again while the
statement that called it is inside `sqlite3_step`: this re-entrance is the
concurrency of one `DB`. There are two more: processes share database files and
meet in the locks that the VFS takes, and in the browser persistence is
asynchronous, while the API and SQLite above it are not.

What is hard, and where: calls made from callbacks; addresses of freed statements
that SQLite hands out again; `close(true)`, which frees statements behind their
queries; `SAVEPOINT`, `ROLLBACK TO` and `RELEASE` statements that fail themselves;
an entry in SQLite's function table that outlives the JavaScript function; the one
global context of all nested function calls; what a query remembers of its
statement, its schema and its error; the edges of integers and of UTF-8; five lock
levels on two kinds of lock, between processes that crash; requests to IndexedDB
that nobody waits for, and a page reloaded before they are done. `PROJECT.json`
lists each under `hazards` with the properties that cover it, or a note why none
does.

## Modules

### Statements, with MCStatements and StatementsProofs

The life of prepared statements in one `DB`.

| variable | code |
|---|---|
| `open`, `statements` | `DB.#open`, `DB.#statements` |
| `stmt`, `finalized`, `status` | `PreparedQuery.#stmt`, `#finalized`, `#status` |
| `live` | the `sqlite3_stmt` objects SQLite has allocated and not freed |
| `vm` | per address: how the last `sqlite3_step` ended, and the number of the current row |
| `stack` | the calls that are inside `sqlite3_step` or `sqlite3_exec` |
| `fault` | the first operation whose effect C leaves undefined |
| `forced`, `read`, `invalid` | history, read by properties only |

A method that steps is split where SQLite may run a callback: `Run`, `Fetch`,
`Query` and `Exec` are the part up to the first `sqlite3_step`, `LoopRow` a step
after which the loops of `all`, `first`, `execute` and `sqlite3_exec` go on, and
`CallReturns`, `QueryReturns`, `ExecReturns` the last step with everything after
it, the `finalize` of `db.query` included. Between the two, every API action may
happen: these are the calls a callback makes. `prepareQuery`, `finalize`, `close`
and `close(true)` run no callback and are one action each. A call that throws
without changing anything (a closed database, bad SQL, a finalized query) is a
stutter.

`CloseForced(F)` is the loop of `close(true)`: it finalizes `F`, which is all of
`#statements`, or ends with the first statement whose `sqlite3_finalize` returns an
error, namely the error of a last run that was not reset. It updates neither
`#statements` nor any `#finalized`. The code's loop follows the order of insertion;
the model allows any order. Freed memory is not told apart: `Free` puts the freed
`vm` back to one value, and the history of a query is reset when it is finalized.

Stepping a freed statement, finalizing one twice, and resetting or finalizing the
statement that is being stepped have no defined effect; the model records which it
was in `fault` and stops. One of these is not only a mistake of the application:
after `close(true)` no `#finalized` is set, and `finalize()`, which "may safely be
called multiple times" (`query.ts:651`), frees the statement again (`fault` is then
`freed`). `NoUseAfterFree` and `Owned` are therefore about databases on which
`close(true)` was not called; `CloseTwiceIsSafe` shows the same of `close(true)`
itself, without callbacks (`WithoutCallbacks` in `MCStatements`).

### Transactions, NestedTransactions, TransactionsProofs

`Transactions` is `DB.transaction` over what SQLite does: the stack of savepoints,
`autoCommit`, `isTransactionSavepoint`, whether a writing statement is in progress
(then `SAVEPOINT` and `RELEASE` fail with `SQLITE_BUSY`), the content the
connection sees and the committed one. `Begin`/`BeginFails` is the part of
`transaction()` before its `try`, `Return` and `Throw` are its ends, after a
closure that returned or threw; each covers every way in which the statements
there succeed or fail. The closure is everything in between: writes, writers left
unfinished, nested calls whose exceptions it catches, `BEGIN`, `COMMIT` and
`ROLLBACK` of its own, and `close`. `#transactionDepth` is read again for every
statement, as in the code.

`NestedTransactions` is what the documentation promises (`db.ts:407-427`): calls
nest, a call that throws restores the content it found, the outermost that returns
makes the content durable. `Transactions` implements it under the mapping that
takes each savepoint to what it restores; the history variables `threw` and `failed`
tell how a call ended, so that a call which threw cannot pass for one that returned.
The promise is conditional: it is off
(`broken`) while the open savepoints are not those of the calls in progress, which
is where a statement of `transaction()` itself failed under open calls, or somebody
else ended the transaction, and holds again as soon as they agree. The condition is
needed: when a nested `SAVEPOINT` fails, the counter has been incremented before it
(`db.ts:430`) and is not decremented, so if the closure catches the error, the
statements of the call around it name a savepoint that does not exist (`db.ts:434`)
and it can neither roll back nor commit. When a nested `RELEASE` fails and the closure
around it catches that, the outer call releases the nested call's savepoint, returns,
and has committed nothing: that is the run `TransactionsDurable`.

What holds without such a condition is that names are fresh (`NamesFresh`), that
the outermost savepoint restores what is committed, and `OlderSavepointsKept`: a
call's end may miss its own savepoint, or hit that of a call nested in it, but
never one that is older than itself.

What may go wrong is chosen at the start: `faults` is one of `FaultSets`, so that
one run covers the case in which everything may fail and the one in which nothing
does.

### UserFunctions, with MCUserFunctions and UserFunctionsProofs

`names` and `slots` are `#functionNames` and `#functions`; `table` is SQLite's
table of functions, by name and argument count, and holds the slot that
`sqlite3_create_function` was given. SQLite compares names without case, and
`#functionNames` with it: `Fold` takes a name to SQLite's. Creating `F` while `f`
has the same argument count takes over the entry of `f`, which stays a name of
`#functionNames` but is not reached any more; the history `shadowed` has such
names, and only these are left out of `LiveIsRegistered`. `text`, `bound`, `expired` and `active`
describe prepared queries that call one function; `calls` and `ctx` are the
function calls in progress and `current_ctx`. `CallFunction` is one
`sqlite3_step` up to the call of the JavaScript function, `FunctionReturns` the
rest. `DeleteFunction` leaves `table` as it is: `delete_function` deletes the entry
for exactly 0 arguments, which `createFunction` never makes. `CallNothing` is a
call of a slot that was emptied: the `TypeError` passes through SQLite's stack and
`func_impl` does not clear `current_ctx`.

### Queries, Marshalling, with MCQueries, QueriesProofs and MarshallingProofs

`Marshalling` holds pure operators: `Bind` and `Read` take a JavaScript value to
the SQLite value that is bound and a column's value back; `SplitSigned`, `Split`
and `Join` are the halves in which a bigint travels, with C's wrap-around;
`SetStr`, `GetStr` and `ByHand` are strings, `ByHand` being the repository's own
UTF-8 decoder for strings of at most 16 bytes. `2^32` is the constant `Half`, so
that a small width has every edge of the real one.

`Queries` is one `PreparedQuery`, `SELECT ?1, ..., ?n` over a table whose schema may
change: what a row returns is then what was bound. `StartFails`, `Iter` and `Loop` run `#startQuery`
(reset, `clear_bindings`, binding until one fails) with every argument list;
`NextRow` and `NextEnds` are `next()`; `ExpandSql` binds and formats; `OtherCall`
is any other use of the connection, which replaces the error the connection
remembers; `Alter` adds or renames a column, also while a row is being read: the
statement is compiled again by the next run. `result` is what the last call returned or
threw; `given`, `valid`, `renamed` and `since` are history.

Its properties are what the documentation promises, with the exceptions that the
code makes and the model had to learn:

* `Documented` is the table in `query.ts:24-33`. `NaN` and an empty `Uint8Array`
  (`Vanishes`) come back as `null` against it, which the run `QueriesTypes` shows.
  Strings that are `Garbled` come back as other strings: they end at a NUL; lone
  surrogates are replaced; more than 16 bytes lose a leading byte order mark.
  `RoundTrip` says what comes back of all three kinds.
* `expandSql`, and a run whose arguments do not bind, reset the statement and leave
  `#status` at `Row`: the next row of a running iterator is then all `null`.
* `#rowKeys` is computed once; if the statement is compiled with other names after
  that, entries have the old ones (`renamed`). A change of the schema between
  `iterEntries` and the first `next()` does no harm yet: the running statement
  keeps its names until it is run again.
* `next()` may throw with the message of another call made since its step failed.

### FileLocks, AtomicCommits, FileLocksProofs

A database file and its journal, for connections in one or in several processes.

| variable | code |
|---|---|
| `level` | the level the pager has asked for (`eLock`) |
| `lock`, `wants` | the `flock` of each handle, and the one `lockSync` waits for |
| `snap`, `kept` | the version in the pager's cache, and whether the lock it was read under is still held |
| `file`, `torn`, `journal` | the file's version, whether it is being written, its rollback journal |
| `fault` | how SQLite's own protocol was broken first |

`DenoLock`, `Unlock` and `CheckReservedLock` are `vfs.c`; a call of `lockSync` stops
the process (`Runs`) until `Granted`, so each action that locks is two. `Crash`
kills a process between any two steps. What the pager does between the locks
(hot journals, reserve, flush, commit, rollback) is SQLite's and is mapped to
`sqlite3.c`; the program relies on it.

`fault` names the three ways in which the mapping of five levels to two kinds
breaks the protocol. The model stops there, and the properties say what holds
until then:

* `rivals`: RESERVED is a shared lock, so two processes reserve the file at once,
  where `sqlite3.c:15193` demands one; the later commit overwrites the earlier.
* `stale`: `denoUnlock(SHARED)` gives up the whole lock, so a connection that goes
  on reading after its own commit or recovery does so without a lock.
* `stolen`: `denoCheckReservedLock` always answers no, so a reader may take another's
  journal for a leftover and delete it; its owner's `js_delete` would then throw.

`AtomicCommits` is what the protocol is for (`sqlite3.c:15192-15199`), without
locks, journals or a file: a transaction sees one version, one connection at a time
writes, its commit appears at once, while nobody else reads, and replaces the version
that the writer saw, and a crash leaves the last one. `FileLocks` implements it until the first
fault, under the mapping that takes the file and its journal to the version which the
next reader finds (`Found`), and a connection to what it sees as long as its lock or
its reservation protects it (`Protected`). A connection that reads on after its own
commit or recovery is not protected, which is what leads to `stale`.

A reader that has finished keeps its lock until it closes or locks again
(`denoUnlock(NONE)` does nothing, against `sqlite3.c:1077-1079`), which blocks the
writers of other connections. `README.md:76-79` of the repository warns of weaker
guarantees than SQLite's, so none of this has a violation run.

### Buffers, BrowserVfs, with BrowserVfsProofs

`Buffers` is the class `Buffer` as operators: an array that only grows, and the
size of the file in it. `BrowserVfs` puts `open`, `read` and `write` of
`browser/mod.ts` on it, each split at its `await`s, and the VFS calls that SQLite's
pager makes for a commit, a spill of its cache and a rollback, each without a break,
as JavaScript runs them. Between them a transaction may stay open, and the
application and the promises go on.

The pager compares its cache with the file when a transaction begins (`Begin`,
`sqlite3.c:61070-61111`) and not again before it ends. `txn.before` is the file as it was
then; the model takes all of it as cached, and a commit writes only the pages
that the transaction has changed. If a `write()` has replaced the buffer meanwhile,
the file becomes a mixture that nobody committed: the transaction that writes then
sets `damaged`, and nothing is claimed of the file from there on. A replaced file
is recognised at the next `Begin`: this takes bytes 24 to 39 of an import to differ
from those of the file before it. At the start IndexedDB has nothing, or a database
that an earlier page has left.

`tasks` are promise continuations that will issue a request, `requests` is
IndexedDB's queue, `events` are answers on their way back. `js_sync` hands a view of
the array to a task: the task is `live` until `put` copies the bytes, and writes
to the same array show through it (`Review`), unless the array was replaced by a
longer one meanwhile. `Refuse` is a request that fails, seen by nobody but the
calls that wait; `Reload` keeps what IndexedDB has.
`torn`, `unsaved`, `overlap` and `damaged` are history: they name the windows in which
the properties do not hold.

### BoundedInduction

Induction up to a number, and functions given by their value at 0 and a step to each
other number, for the proofs about recursive functions in `Marshalling` and
`Buffers`.

## Runs

Each cfg is run on the module of its row with `tlc -config X.cfg M`.

| cfg | module | shows |
|---|---|---|
| `StatementsSafety` | `MCStatements` | no leak, no use after free, idle at close, iterators in step, every call that is inside SQLite returns; the invariant of the proofs |
| `TransactionsFaults` | `Transactions` | savepoint names fresh, nothing made durable by a rollback, older savepoints kept, refinement of `NestedTransactions`, with all faults; without faults no call fails |
| `UserFunctionsNested` | `MCUserFunctions` | names, slots and table agree but for names that differ in case, deleted functions never run, results delivered; the invariant of the proofs |
| `Queries` | `MCQueries` | rows show the arguments of their own run, values survive the round trip, entries have the names of their columns, errors their own message |
| `FileLocks` | `FileLocks` | writers are alone, snapshots hold while their lock does, crashes are recoverable, processes do not wait in a circle; refinement of `AtomicCommits` |
| `BrowserVfs` | `BrowserVfs` | what a reload finds and what the page sees was committed, storage catches up and never goes back to an older file, journals go, commits persist |

These find a disagreement between the code and what is written about it; TLC
must report a violation:

| cfg | what TLC finds |
|---|---|
| `StatementsCloseTwice` | `close(true)` throws half way, and the database stays open, if the last run of a query failed: `sqlite3_finalize` reports that error though it frees the statement (`db.ts:690`); a second `close(true)` frees the same statements again |
| `TransactionsDurable` | a nested call's `RELEASE` fails, the closure around it catches that, and the outermost call returns with nothing committed (`db.ts:437`): its `RELEASE` names the nested call's savepoint |
| `UserFunctionsContext` | a function that ran a query with another function in it has lost its context when it returns (`wrapper.c:303`) |
| `UserFunctionsDeleted` | a deleted name is still callable and runs the function that took its slot (`wrapper.c:323`; `function.test.ts:41` relies on it) |
| `BrowserVfsSound` | two commits before the first `put` has copied its view: IndexedDB gets a first page that counts more pages than were put with it, and a reload then finds a database that was never committed (`browser/vfs.js:187`) |
| `QueriesTypes` | an empty `Uint8Array` comes back as `null` (`query.ts:291`); so does `NaN` (against the table in `query.ts:24-33`) |

### Bounds

* `Statements`: two queries and two addresses, so that an address is freed and
  handed out to another query, also inside a callback; results of at most 2 rows,
  which tells the first, a later and no row apart; `MaxDepth = 2` calls inside SQLite,
  a call and a callback's. A `db.execute` in progress takes one of the addresses;
  beside two prepared queries it is in the proofs only. No symmetry, since the run
  checks liveness as well. `StatementsCloseTwice` needs one row and one call.
* `Transactions`: three contents, so that "before", "inside" and "after" may all
  differ; `MaxDepth = 5` bounds the counter, leaked levels included: two open
  calls with three leaks, or the other way round. `TransactionsDurable` needs two
  contents, a depth of 3 and an unfinished writer.
* `UserFunctions`: two functions, one of any number of arguments and one of
  exactly one; two names of SQLite's, one of them in two spellings; two queries with
  one or two arguments; two function calls in progress. Three names give three
  slots: slots change hands, and entries are taken over.

* `Queries`: integers of four bits (`Half = 4`, `MaxSafe = 3`) have both ends of the
  64-bit range, both ends of the safe range and both signs of each half. Strings
  have code points at both ends of every length of a UTF-8 sequence, alone and in
  strings on either side of `ShortString = 8` (a sequence of four bytes fits
  twice). Eight parameters hold the lists of values; lists with fewer, with one too
  many, with an unknown name and with one that fails in the middle are among the
  arguments. Two schemas and two rows.
* `FileLocks`: three connections, two of them in one process, so that two
  processes and two connections of one process both compete; `MaxVersion = 3`
  commits and two crashes: a crash, a recovery and a crash during the next write.
* `BrowserVfs`: two calls at a time, versions up to 3, the first of which an earlier
  page may have left, and files of up to 2 pages,
  with `MinGrow = MaxGrow = 2`, so that a file shrinks within its array and
  grows again, one reload and one failed request. `BrowserVfsSound` needs no reload
  and no failure.

`MaxRows`, `MaxDepth`, `MaxVersion`, `MaxPages`, `MaxCrashes`, `MaxReloads`,
`MaxFails` and `Calls` bound something the program leaves unbounded.
`CHECK_DEADLOCK FALSE` is set because the program may stop anywhere, because some
models stop at a fault, and because the bounds end the others. That processes do
not wait for each other for ever is the invariant `NoCircularWait`, not TLC's
deadlock check.

### Fairness

`Statements` has strong fairness of `StepReturns` at each depth of the stack:
SQLite returns from a step with some outcome, and JavaScript goes on, although
callbacks may make calls in between. It is strong fairness because those calls
disable the step of the call around them again and again; what it assumes is that
no callback goes on for ever, without which no property of the calls around it
could hold. Nothing obliges the application to call anything. That result sets are
finite is the bound `MaxRows`.

`BrowserVfs` has weak fairness of `RunTask` and `Serve`: the browser runs promise
continuations, and IndexedDB works through its queue. Nothing obliges the
application to do anything; `Persisted` holds even if it never calls again, and is
conditional on no reload, no failure and no overlapping `write`. The other modules state no fairness.

## Proofs

All theorems hold for every value of the constants (any number of queries,
addresses, rows, contents, functions, names, connections, processes, commits,
crashes and any depth; any width of integers), under the modules' assumptions on
constants: `Null`, `None` and `NoKeys` are not members of the other sets, bounds are
natural numbers, `Names` is finite and `Fold` is defined on it, every member of `FaultSets` is a set of
`Trouble`, `Data` is not empty, `Together` is a set of connections, `Half` is even
and positive, arguments are values that JavaScript has (a string is a sequence of code
points, a byte is below 256), an array of the browser's VFS grows by at least one,
`NoCall` is not a call, and `NoFile` is neither bytes nor a `Buffer`.

* `StatementsProofs`. `Tracked`, `Owned` and the others are not inductive by
  themselves: a call that returns finalizes or updates the statement of its frame,
  so one must know that the frames hold live statements, one each, that their
  queries still own them (`FramesOwn`), that the statements `sqlite3_exec` prepared
  are not in `#statements` (`InternalApart`), and where the cursor stands while
  `next()` is inside SQLite (`FramesInSync`). `Inductive` is the conjunction; each
  action has its lemma. `ForcedCloseSucceeds` is an action property that follows
  from it.
* `TransactionsProofs`. `Inductive` says that savepoint names increase strictly and
  stay at or below the counter, which is what makes the name of the next call
  fresh however much the counter has leaked. `OlderSavepointsStay` adds that the
  counter is ahead of each call in progress by at least the calls nested in it
  (`DepthAhead`): the name that a call ends with is its own or a later one.
  `ImplementsNestedTransactions` shows
  that every step of `Transactions` is a step of `NestedTransactions` under the
  mapping, or breaks the promise by a failure. `CallsNeverFailAlone` strengthens
  the invariant by `Healthy` and the absence of writers.
* `UserFunctionsProofs`. `Inductive` adds to the properties that every program
  refers to an entry of SQLite's table and that every function around another has
  made a call (`OuterDisturbed`). `Fold` is any function: names that SQLite takes for
  the same share an entry, and `shadowed` keeps track of who lost it. `DeletedFunctionsNeverRun` is the action
  property that only functions with a name run.

* `FileLocksProofs`. `Inductive` is `TypeOK`, with `Exclusion` (an exclusive lock
  excludes all others), `OneWriter` (until a fault, one connection at most is at
  RESERVED or above, it has its journal, and a torn file has a hot one) and
  `KeptSnapshots` (who has kept its lock reads the file as it is). The four
  properties follow. `ImplementsAtomicCommits` shows for every action which step of
  `AtomicCommits` it is: most are none, since the invariant says that until a fault
  the next reader finds the version committed last and each protected transaction
  sees it (`Agrees`). The theorems assume `~IsWindows`, where they need a lock at all,
  and the one about waiting assumes that there is a connection.
* `BoundedInduction`. The induction theorems of the library take a predicate as a
  parameter, which none of the provers can instantiate; that every set of numbers
  has a least element has no such parameter. `Induction` and `Recursion` follow from
  it and are all that the proofs about recursive functions below use.
* `MarshallingProofs`. Every bigint of the range is put together in C from the
  halves it was split into, the lowest one included, which has no positive
  counterpart, and integers come back. `DecodedByHand` is the loop of `getStr`
  (`wasm.ts`): by induction over the code points that it has consumed, what it has
  decoded is the code units of just these, for strings of any length.
* `QueriesProofs`. `KeysAgree` follows from the invariant that `#rowKeys` are the names
  that the statement was compiled with, unless `renamed`. `RowsShowArguments` needs one more: which of the
  statement's parameters the current run has bound, and that the loop that binds
  stops at the first argument that fails. `RowsRoundTrip` puts `ValuesReturn`, which
  says for each type of value what comes back, on top of it; `ErrorsSayTheirStatus`
  follows connection, status and the calls made in between.
* `BrowserVfsProofs`, in this order.
  *Operations on a Buffer*: growing the array keeps what it holds, what is written is
  read back and the rest is untouched, and pages behind the end that an earlier,
  longer file left in the array do not show. A sequence of such writes is a recursive
  function; `StorePagesIs` says what it does to the array, the size and the views.
  *`Running`*: `TypeOK` is not inductive, because a result is handed to the call that
  it names: one must know that each request and each result has a call that waits for
  just this one (`Waiting`), that no call waits for two (`Once`), and that a call of
  `open` has no other beside it (`Opening`).
  *`JournalEnds`*, for `JournalIsDeleted`: each put of a journal has its delete
  behind it, in the order of tasks and requests.
  *`AllKnown`*, for `StoredIsSound` and `LoadedIsSound`: what is loaded is read from
  what was stored, which was put from what was loaded, or came in a request of
  `write`; so all four places are in the invariant. A transaction that has spilled
  leaves a file that is no database; `Between` says which pages it has written and
  that all others are still those its journal restores. Until `damaged`, the
  `before` of such a transaction was committed or imported.
  *`CaughtUp`*, for `StorageCatchesUp`: the last put of the connection in the queue
  brings what is loaded (`SyncsAll`), without one IndexedDB has it already or has an
  import that is on its way to the buffer (`StorageFollows`), the puts of the
  connection come before those of `write` (`SyncsFirst`), and a file that is not
  loaded yet has nothing on its way to IndexedDB that its reader would miss
  (`Unloaded`). `Alone` says that as long as `overlap` is FALSE `write` really ran
  alone.
  *`Aged`*, for `NeverOlder`: a file is as old as the version in its first page. The
  puts in the queue rise from the age of what IndexedDB has (`InOrder`, `NotBefore`),
  those of the connection not above the file that it has, or that it will roll
  back to (`SyncsUpTo`). Unless `overlap`, `before` of an open transaction is the file
  as it is (`Current`). Each commit writes page 1 first, so all views of the array
  get its age at once; a sync that is no view any more (the array was
  replaced) is never behind one that still is (`Fresh`). A spilled transaction has not written page 1 and its
  version is the latest (`Spilled`).
  TLC had checked the whole invariant with the bounds of the run `BrowserVfs` before
  it was proved. Pages of any content and number and calls in any number are
  covered; what a page holds is the version that wrote it last, as in the model.

Only model-checked: `CallsReturn` and `Persisted`, since liveness under fairness is
out of the prover's reach, and the runs that find violations. Every invariant, every
action property and the refinement that a passing run checks are also proved.
Of `Persisted`, `NeverOlder` proves the part that is safety: what has reached IndexedDB
stays there until something younger does.

## Not modelled

* `serialize`, `deserialize`, `lastInsertRowId`, `changes`, `totalChanges`,
  `autoCommit` and `isClosed`: single calls without state of their own.
  (`deserialize` of an empty array throws "Out of memory.", because
  `sqlite3_malloc(0)` is null.)
* The bytes that the Deno VFS reads and writes, short reads, path names, its table
  of open files: the operating system keeps them. `time`, `random` and `sleep`.
* Two files, attached databases and their super-journals; WAL mode, which the VFS
  does not support.
* The pool of WebAssembly instances in the browser: it holds one per call of
  `open()`, and they are alike.
* Out of memory, corrupt files, the flags `deterministic` and `directOnly`, and SQL
  that names built-in functions.
* SQLite itself, except for what the modules above rest on: `sqlite3_step`,
  `reset`, `finalize`, `close`, savepoints and commit, the lookup of functions, and
  the pager's order of locks and writes.
* The constants, which are tables, and the build scripts.

## Plan

Done: 1 `Statements`; 2 `Transactions` and `NestedTransactions`; 3 `UserFunctions`;
4 `Queries` with `Marshalling`; 5 `FileLocks`; 6 `BrowserVfs` over `Buffers`. Left, in
this order:

7. A callback that resets or finalizes the statement that is being stepped
   (`query.ts:172`). `Statements` reaches it and stops, since C leaves the effect
   open; a property would have to say what the program relies on.
8. `Queries` composed with `Statements`: the message and the bindings of a query
   whose callbacks run other queries.
