# omni-sql in TLA+

Models of the parts of omni-sql whose correctness depends on the order of events,
or on several hand-written readers of one text agreeing, with TLC runs on small
instances and TLAPS proofs for every value of the constants. Paths below are
relative to the repository; `PROJECT.json` maps every definition to the lines it
stands for.

## 1. The system and its components

omni-sql is a desktop SQL client. A React interface and a Node backend talk
JSON-RPC over `127.0.0.1`; the backend owns the connections to databases, the
metadata cache (SQLite), the passwords (OS keyring), the bridge to MCP clients and
their HTTP listener. A Rust shell (Tauri) starts and stops the processes and holds
the DuckDB engine of local analysis. A JVM sidecar serves JDBC and the analysis of
queries whose cells are edited.

| Component | State | Operations | What is hard | What makes it correct |
|---|---|---|---|---|
| MCP bridge (`backend/src/mcp-bridge.ts`) | queue, pending map, lease of one window, a waiting poll, history | poll, submit, respond, approve, release, close; three kinds of timers | two windows, timers racing answers, a lease found expired inside another call | each request is delivered and settled once, in order; nothing waits for ever |
| Backend dispatcher and its callers (`backend/src/index.ts`, `lib/backend.ts`, `mcp-server/src/backend-client.ts`) | guard, copies of a call on their way | send, retry, abort, answer, shutdown | a repeat beside its own first copy; an abort beside the end of a statement | one statement per connection; only what was lost is repeated |
| Query execution on PostgreSQL (`handlers.ts`, `adapters-pg`) | `activeQueries`, `activeQuery`, a pool of 4 clients | `query.run`, `query.cancel`, read-only runs, analysis streams | one slot for three kinds of run; cancel packets that arrive late | one guarded call; a cancel hits what runs; clients come back |
| Other adapters (`adapters-mysql`, `-mssql`, `-oracle`, `-jdbc`) | pools, transactions, the cancel slot | statements, updates, streams, plans, probes, cancels | each step may fail; KILL by a thread id that may be stale | no client goes back with a transaction of an adapter; KILL meets its own query |
| JVM sidecar (`services/jvm-sidecar`) | JDBC connections, registered statements | connect, query, cancel, close | one thread for everything; it may die | adapter and sidecar agree; every call ends |
| Introspection (`adapters-*/introspection.ts`, `cached-adapter.ts`, `refreshMetadataCache`) | maps of the adapter | introspect, ingest | concurrent refreshes fill the same maps; catalogs that join by name | keys and references are those of the catalog; the last refresh decides which schemas there are, and their content but where an older one was still filling |
| Metadata cache (`packages/metadata-cache`) | four tables and their mirror in memory | upsert, remove, group, move, ingest, reindex | the two sides are written by separate statements | memory answers what the tables hold |
| Connection sessions and keyring (`handlers.ts`, `keyring.ts`) | sessions, rows, passwords | add, remove, test, restore, migrate | keyring, session and row are written apart and each may fail | session, row and password describe one connection; no credential is lost |
| Connection export and import (`lib/connection-import.ts`, `ConnectionImportDialog.tsx`) | candidates, lists of the application | read, parse, compare, import, refresh | answers and files that come late | nothing twice; folders and catalogs are relinked |
| Local datasets and results (`data_engine.rs`) | maps, registry, tables | import, rename, drop, clear, open | crash between writes; colliding names | registry, maps and tables agree |
| Analytical operations (`data_engine.rs`, `lib.rs`) | slot, cancel flag, status, mutex | run_operation and its watcher, cancel, edits | a stop racing start and end | a stop hits its own operation and takes effect |
| Source files of the engine (`data_engine.rs`, streams of `adapters-core`) | batches, budgets, coverage | import of streams, grids, files and objects | a source that stops, fails or is too large | whole or not at all, and what is said of coverage is true |
| Export publication (`data_engine.rs`) | temporary, destination and backup files | write, move aside, publish, undo | a rename, a write or the look at the result may fail, any step may be the last | the last completed export is never lost |
| MongoDB (`backend/src/mongo-*.ts`) | none | translate, split | two values against three; fields a snapshot lacks | the rows are those of the SQL |
| Native shell (`lib.rs`) | children, token, descriptor, status | start, stop, restart, update, exit | threads that watch children beside commands that stop them | no child out of reach; a descriptor of what is gone is deleted, if that succeeds |
| MCP server (`packages/mcp-server`) | listeners, sessions, timers | listen, initialize, request, idle, close | an initialize that outlives its listener | limits exact; every session ends |
| MCP approval (`App.tsx`, `mcp-ui-bridge.ts`) | dialogs, resolvers, tabs | ask, press, expire, run, edit | a tab changed while a dialog is open | nothing runs but where the dialog was shown |
| Desktop interface (`App.tsx`, `ResultsGrid.tsx`, `useSession.ts`) | query, dialogs, result, staged edits | run, stop, edit, apply, change tab | state read before an await and used after it | a stop meets its query; rows go to their table |
| Cell editing (`App.tsx`, `handlers.ts`, sidecar) | result, key, update | query, analyse, update | key known from the last introspection, columns known by name, rows others change | an edit changes one row, the one shown if it still has its key |
| Readers of SQL (`sql-statements.ts`, `lexer.ts`, `execution-risk.ts`, adapters) | none | split, lex, classify, limit | four readers of one text | what is called read-only is so |
| Build, release, website | none | - | - | not modelled |

## 2. Modules

| Module | Models | Composed in | Proofs |
|---|---|---|---|
| `McpBridge` | class `McpBridge`; a handler or timer is one action (one event loop) | `BridgeCalls` | `BridgeProofs` |
| `McpPromise` | abstract life cycle of a request, which the bridge implements | by `INSTANCE` in `McpBridge` | `BridgeProofs` |
| `RpcCalls` | a call from its client to the backend and back, with copies, aborts, process | `BridgeCalls` | `BridgeProofs` |
| `QuerySession` | guard, slot, pool, aborts and cancel packets of PostgreSQL | - | `QueryProofs` |
| `AdapterQueries` | the same for MySQL, SQL Server and Oracle | `AdapterFamilies` | `AdapterProofs` |
| `JdbcSidecar` | JDBC adapter and the sidecar's one thread | `AdapterFamilies` | `AdapterProofs` |
| `Introspection` | catalog queries as what they select from a catalog | `AdapterFamilies` | `AdapterProofs` |
| `SqlReaders` | splitter, lexer, adapter's reader and database over one text | `AdapterFamilies` | `AdapterProofs` |
| `MetadataCache` | tables and mirror (each method is synchronous, one action) | `MetadataOfSession` | `MetadataProofs` |
| `MetadataRefresh` | concurrent refreshes through one adapter | `MetadataOfSession` | `MetadataProofs` |
| `CellEditing` | from a query to the changed row | `EditedMetadata` | `MetadataProofs` |
| `ConnectionSessions` | sessions, rows, keyring and adapters | `SavedConnections` | `ConnectionProofs` |
| `ConnectionTransfer` | export, import and the lists of the application | `SavedConnections` | `ConnectionProofs` |
| `DatasetStore` | maps, registry and tables of the engine | `LocalAnalysis` | `AnalysisProofs` |
| `DataEngine` | operations, watcher, cancel, main thread, mutex | `LocalAnalysis` | `AnalysisProofs` |
| `ExportPublish` | one file operation per action, failures, crashes | `LocalAnalysis` | `AnalysisProofs` |
| `SourceImport` | one import from rows to dataset | `LocalAnalysis` | `AnalysisProofs` |
| `EngineQueries` | a statement over datasets, S3 or MongoDB, as the engine reads and bounds it | `LocalAnalysis` | `AnalysisProofs` |
| `MongoSql` | SQL translated to a pipeline, or split, against the rows SQL asks for | `LocalAnalysis` | `QueryProofs` |
| `TypedValues` | columns and values from source to result, against what they mean | `LocalAnalysis` | `AnalysisProofs` |
| `NativeShell` | the shell over its two children | `DesktopProcesses` | `ProcessesProofs` |
| `McpHttp` | the MCP listener | `DesktopProcesses` | `ProcessesProofs` |
| `DesktopWindow` | queries, dialogs, stops, results and edits of one window | `DesktopInterface` | `DesktopProofs` |
| `McpApproval` | requests of MCP clients in the window | `DesktopInterface` | `DesktopProofs` |
| `Option` | the one `None` of the engine | - | - |

The compositions are of two kinds. `MetadataOfSession` is a true one: the refreshes of
`MetadataRefresh` write what their maps hold into the tables of `MetadataCache`, and
`SessionSpec => Spec` (theorem `SessionImplementsCache`) shows that each such step is a
step of the cache. In the others (`BridgeCalls`, `AdapterFamilies`, `SavedConnections`,
`LocalAnalysis`, `DesktopProcesses`, `DesktopInterface`, `EditedMetadata`) the parts do not
read each other's state; a variable (`part`, `about`, `kind`) chosen at the start says
which one moves, so one run checks them without multiplying their states. The header of
each says why in the code they are apart. `MC` modules give the constants values.

A definition marked `Mutant` is a plausible bug beside the definition it would replace;
no specification uses it. `PROJECT.json` says which property fails under it.

### How the models correspond to the code

* In the backend, the bridge, the listener and the interface (one event loop each), an
  action is the code between two awaits or the whole of a synchronous handler. In the
  shell it is a section under the mutex of a slot; in the engine a section under `inner`
  or a single file operation.
* **McpBridge.** Requests are numbered as submitted. Time is a count of what is left until
  `listenerExpiresAt` and `expiresAt`; `Tick` lets one unit pass, and a due timer may run
  late. `GiveUpLease` is what `expireListener` does, also when another call finds the
  lease expired first. Tools and answers are reduced to the classes `respond` tells apart.
* **RpcCalls.** A copy is a call and the number of its attempt; a connection may break at
  any place of it. `cancellation` is the `cancelRunning` that the dispatcher awaits before it frees the guard.
* **QuerySession, AdapterQueries.** A call is at the await it is at; `holds` or `client` is
  the pool client. A cancel names a client (external: the database) and hits what runs there on arrival.
  `open` are transactions that a method of the adapter began, `theirs` those a user's own SQL left on
  MySQL or SQL Server; `abandoned` are streams whose consumer is gone while they wait for a drain.
* **JdbcSidecar.** `requests` are posts on their way, `serving` the one being served.
* **MetadataRefresh.** Each map keeps, of a schema, which refresh read what it has; `late` is auxiliary: the
  schemas that others were still to fill when the latest cleared the maps.
* **MetadataCache.** `rows`, `groups`, `stored` are the tables with foreign keys and
  cascades, `mirror` and `shown` the map `conns`; `Restart` is `reindex`.
* **ConnectionSessions.** `op`, `of`, `own` and `at` say of each call what it does, for which connection,
  whether with a password of its own, and at which await it is; `todo` is what
  `restoreConnections` has still to visit; `stuck` are calls whose `close()` does not answer. Rows are written at the
  end of a call. `promised` is auxiliary: the secret an acknowledged call left.
* **DatasetStore.** `Import` is the step that publishes, common to results, sources and
  files: capacity, choice of a name (`Candidate` is the loop of `available_relation_name`),
  table, registry row unless temporary, map. A failing statement rolls back before the maps are reached.
* **CellEditing.** Other sessions change keys and insert, update and delete rows (`OthersWrite`); `touched` is auxiliary: the
  columns they wrote of the row that is shown or being edited.
* **DataEngine.** `claimed` is before the state is written, `apart` a body without the mutex,
  `locked` one with it, `joined` after the watcher has ended, `reported` after the final state. An
  export publishes before its last statement, which may fail (`Uninspected`).
* **ExportPublish.** `part`, `dest`, `saved` are the three names of each of the two files; the last step,
  `Inspect`, reads the size of what was published.
* **SourceImport.** A row is its number and a size; batches, frames and budgets are counted.
* **NativeShell.** `slot` is the mutex-guarded child, `lost` what was taken from it and could
  not be killed; `token`, `path`, `file` are the token, `McpDescriptorPath` and the file, which is
  `undeletable` once deleting it has failed.
* **DesktopWindow, McpApproval.** React state that a handler closed over is kept with the
  handler; a commit of React is an action of its own, which may come late. `held` are requests to stop
  that wait behind a JDBC query or for a client of MySQL's pool.
* **SqlReaders, EngineQueries, MongoSql, TypedValues.** Texts are short sequences of pieces
  (keywords, quotes, comment marks), documents have two fields; the reference is what
  the database makes of the text, the SQL of the rows, or the value that was sent.

## 3. Runs and bounds

| Run | Instance | Shows |
|---|---|---|
| `bridge` | 2 windows, 2 requests, queue 2, history 1, timeout 2, lease 1; one query, one write, one tool call, 2 attempts, 1 break | bridge invariants, refinement of `McpPromise`, every request settles, a silent window loses the lease; one statement at a time, only what was lost is repeated, calls settle |
| `query_session` | 2 calls, 1 stream, 2 clients | guard, slot and clients agree; the guard is given back |
| `query_session_stream` | 1 stream | **violation** `AbortedStreamCloses` |
| `adapters` | 2 calls, 1 cancel, 2 clients; 2 JDBC calls; 2 tables, 5 keys, 2 changes; texts of 5 pieces | transactions, slot, KILL, adapter and sidecar agree, all ends; keys and references true; readers agree |
| `jdbc_cancel` | 1 query, 1 cancel | **violation** `CancelStopsQuery` |
| `saved_connections` | 2 ids (calls on one), 2 calls, 1 restart; 2 imports, 1 failure, 2 reads | sessions, rows, keyring and adapters agree; no old credential lost; calls end; imports add nothing twice |
| `metadata` | 1 connection, 1 group, 2 schemas, 2 refreshes, 1 change; 2 schemas and rows, 2 runs of 4 queries, 1 change by others | mirror = tables; the last refresh decides; a committed edit changed one row |
| `cell_edit` | 1 query, 1 table | **violation** `EditsTheRowShown` |
| `local_analysis` | 4 ids, 2 workspaces, 2 colliding names; 3 operations; 3 exports; imports of 3 rows; short statements; conditions of 4 parts over 7 comparisons, 4 documents | see `PROJECT.json`: store, stops, exports, imports, MongoDB, values, statements |
| `processes` | 2 children; 2 listeners, 2 sessions, 1 request, limit 1 | no orphan, descriptor and status settle; sessions exact, all end |
| `window` | 2 tabs, 2 connections, 2 queries, 1 staged row; 2 MCP requests, 1 move, 1 restart | risky SQL is asked about, stops and edits meet their own, nothing runs unshown, dialogs end |
| `window_edit` | the same without engine connections | **violation** `EditsWhereItRead` |

Why these bounds reach the interesting cases: two windows and two requests give a change of
lease while a request is delivered and a queue that is full; a third request adds nothing
the theorems of `BridgeProofs` do not cover for any number. The refusal by a full queue is not reached, as that takes a third
request: `PendingIsBounded` covers it for any bound. Two calls give a refusal and a
successor, a stream beside them shares the slot, and two clients let a call and a stream
run at once while failed probes can still exhaust the pool. Two calls on one connection are the fewest
that overlap, and a restart may come between any two of their writes. One of the two dataset
names is the other's first suffix, and there is one more id and one more result than the
limits admit. Three operations give a predecessor, a cancelled one and a successor; in three exports a
failure meets the backups an earlier one left. Two listeners give a stop that overlaps a
start, and a limit of one lets a session in the making be the one too many. Texts of four
or five pieces hold one construct inside another and what follows it. Bounds named `Max...`
cap what is unbounded in the code. Symmetry is used only in `metadata`, which has no
liveness. `CHECK_DEADLOCK FALSE` is where calls, imports or processes are finitely many and
end; `metadata`, where something can always be done, is checked for deadlock.

### Fairness

* `McpBridge`: time passes and due timers run (Node's event loop). Of windows, users and
  clients nothing is assumed; `SilentListenerLosesLease` states its own premise.
* `RpcCalls`: a call that can go on does; a copy that was received is answered or its broken
  connection noticed. That a statement ends is not assumed where its cancel must end it.
* `QuerySession`, `AdapterQueries`: the server answers (statement timeouts) and pools serve
  waiters in order, hence strong fairness of taking a client. A consumer of a stream that is still there reads on;
  one that is gone does not (`index.ts:472`), so `EverythingEnds` excepts a stream that is abandoned, and whoever needs a client
  when abandoned streams and failed probes have them all.
* `JdbcSidecar`: posts arrive and are served; `jdbc_cancel` drops that the database answers. The fetch of a JDBC stream is given
  up when its consumer goes, one that is still there reads on.
* `ConnectionSessions`: the start and every call go on, whatever the keyring answers. Of `close()` this is not assumed: that of
  PostgreSQL and MySQL waits for every client that is lent (`pg-adapter.ts:64`), and some never come back. `CloseHangs` may
  keep any call that awaits it, and `EveryCallEnds` is about the others, those of the same connection among them.
* `DataEngine`: threads that can run do; that a body ends is not assumed, so
  `StopTakesEffect` follows from the watcher. `SourceImport`: the engine goes on, and a silent connection meets the client's timeout.
* `NativeShell`: main thread and monitors go on; a probe that is tried again and again gives up in
  the end. `McpHttp`: timers and closes run, and requests of tracked sessions are answered.
* `DesktopWindow`, `McpApproval`: React commits, timers fire, answers come; users need do nothing. A request to stop is
  answered unless it is held, as `jdbc_cancel` shows for JDBC and a MySQL pool without a client does; so
  `StoppedQueriesEnd` excepts a query whose stop is held: the window aborts its fetch only after that answer (`App.tsx:1204`).

`GuardReleased` excepts failed probes and abandoned streams that hold every client: this
happens in the code, and the hazards say where. Liveness of calls is claimed of calls that
are under way, never of users who might press something.

## 4. What is proved

`tlapm` checks every theorem for all values of the constants, under the assumptions the
modules name (`...Assumption`: ids, calls and `None` are different values, bounds are
naturals; TLC evaluates them in the runs). The pattern is always the same: the invariant the
run checks is inductive, or a part of one that is; `Init` gives it, one lemma per
action (or per group of actions) keeps it, and the last step combines them (`PTL`).
What had to be added to the invariants to make them inductive is in the
components' modules, as named conjuncts, and so is checked by TLC as well.

**BridgeProofs.** `BridgeInv`: the queue is the sequence, without repetition and in order of submission, of the
pending undelivered requests; a waiting poll implies an empty queue, a queue that is not empty implies a
lease; history entries agree with the outcome. From it follow the named
theorems `QueueCorrect` ... `AbortCorrect`, the action properties `AnswersAreFinal` and
`DeliveriesAreFinal`, and step by step `BridgeKeepsPromise`, that the bridge implements
`McpPromise`. `CallsHold` proves `CallsInv` of `RpcCalls` (a copy at the backend is
the one its client waits for, or one that was lost), for any number of calls and attempts.
`BridgeIsPart` carries the bridge's theorems over to the composition the run checks.

**QueryProofs.** `SessionInv`, with what makes it inductive: who holds the guard,
which calls have a client, that the slot is that of a call at its statement
(`UnreachableIsDone`: what a cancel can no longer reach has ended). So whatever fails or is
aborted, the guard is held exactly while one call is under way.

`MongoInv` is here too, because both are about what the backend runs. It says of every condition, however it is
built, that the pipeline for MongoDB finds what SQL's three values find, and that a statement which is
split gives the same rows. A condition is a list of parts, each of which names earlier parts (`MongoSql`
says why this is the tree of the parser), so it is no induction over trees but over numbers: what
a translation, a negation, a meaning or a list of columns is at each part follows from the parts before it
(the lemmas `...Are`, from `InductBelow`). Two translations are proved together, that of a part and that of
its negation, because the code pushes NOT inwards (`ComparedInversely`) and MongoDB's own negation would find
documents that lack the field. Then GROUP BY, HAVING, ORDER BY and LIMIT follow item by item, the split by
what a snapshot keeps of the fields that were read. The inductive invariant is `StatementIs`: what was given is a
condition whose parts look back, with clauses of `Selects`. `MongoAssumption` asks that clauses and
documents have the form the parser and the driver give them. The attempt changed the model: conditions had been
trees of `RECURSIVE` operators, and HAVING had not been asked to be translatable, which `mongo-sql.ts` does ask.

**AdapterProofs.** `AdapterInv` and the action property `KillIsCurrent` for the three
adapters: a transaction that a method has begun is open only on the client of a call that is in it (`OpenIsOwn`), while one of a user may be
open on any client of MySQL or SQL Server (`TheirsEndsBefore` says when MySQL has ended it); `SidecarInv` for JDBC, where the order in which requests and answers arrive and
the death of the process are arbitrary; `CatalogInv`, that what introspection reports is what
the catalog says if constraint names are unique (`Introspection` states this, and section 5
what happens otherwise). `SidecarInv` says what adapter and sidecar know of each other only while
at most one caller closes an adapter (`OneCloser`), which is how `ConnectionSessions` uses it
while calls do not overlap; and it says that no cancel finds a statement, the finding of `jdbc_cancel`.

`ReadersInv` is about texts, so it is proved of every text of every dialect, typed in any order. A reading
is a recursive function over the places of a text (`Run`). That it is one for every text, that it does not
look ahead (`RunOfPrefix`), and that two readers who do the same at each place read the same
(`RunsAgree`) come from induction over sets of numbers (`Induct`). Each reader is then compared with the server's
place by place (`ReadSame`): they differ only at a comment in a comment and at a backslash, which is what
the premises `LexerKnows` and `CapperKnows` exclude. What is decided over the code follows from its being
the same code; where a limit goes needs that what stands behind the last solid place is no code (`Standing`).

**MetadataProofs.** `CacheInv` (tables and mirror agree on every connection), the action
property `EditsKeepSlotAndGroup`, `LatestWins`, and the implementation: every step of
`MetadataOfSession` is a step of `MetadataCache` or changes nothing of it. `LatestWins` needs
`RefreshInv`: what is behind the loop of the latest refresh is its own reading (`FilledBehind`), but for the schemas that
an older one was still to set when it cleared the maps, and no other refresh is ever to set more than those (`LateIsKnown`). `EditInv` is that a committed edit
changed one row, and the row it was made in if the result is clear and nobody else has deleted that row or written into its
key; to be inductive it also says
what the grid shows is in the row it came from but for columns others have written (`FromIsMeant`, `ShownIsThere`), that an answer which is taken
is about the query shown (`AnswersAreOwn`), and that an UPDATE under way holds of the key of
its row what nobody else has written (`UpdateIsOwn`). All this is of `EditedSpec`, the composition the run checks (`EditsHold`,
`MetadataHolds`). The attempt corrected the invariant: it had claimed the row for a result
that shows its key column twice, where it is not so (section 5).

**ConnectionProofs.** `ConnectionInv` speaks of all connections, adapters and calls, while a step is about
one call and its connection; the module restates it by connection
(`Good(i)`) and by call (`InOrder(c)`), proves the two forms equal (`InPieces`, `FromPieces`)
and that a step with `Frame(c, i)` keeps what belongs to others (`CallStepKeeps`). Each action then
shows its own part. Added to the promises: what each operation goes through and whose adapter a session
has (`CallsInOrder`), and that what a call has seen is still so when it goes on, if nothing
overlapped it (`CallsAlone`); this is the heart of it, because each of these handlers
reads before an await and writes after it. `LegacyPasswordsAreKept` is the action property of
the migration.

`TransferInv` is inductive too: `TransferHolds`, for any files, failures and numbers of imports. Its promises
(each chosen candidate saved once, in a folder of its name made at most once, after its catalog; what the
dialog checked by itself neither saved twice nor found again) rest on what holds
in between: lists that lag behind what is saved (`ListsAreSaved`), candidates
made from the file, list and secrets that the dialog remembers (`CandidatesAreParsed`), each candidate having one turn, S3
last (`ImportInOrder`), and the folders the import knows (`GroupsAreKnown`). The heart of the proof is what
`ParseConnectionImport` and the choice return, item by item (`ParseIs`, `ChosenIs`); the choice picks places by
their rank (`Nth`, a cardinality) and so needs no induction. `TransferAssumption` says of the first lists and of the
files that ids and references are each used once, and that only S3 has a catalog, which is
none: so a candidate is known by its reference. All three are about `ConnectionsSpec`, the composition
the run checks.

**AnalysisProofs.** `StoreInv` with `OwnersOnly`, `EngineInv`, `ExportInv`, `QueriesInv` and `ValuesInv`, of the
specifications of `DatasetStore`, `DataEngine`, `ExportPublish`, `EngineQueries` and `TypedValues`. `AnalysisIsParts`
shows that a behaviour of `LocalAnalysis`, which the run checks, is one of each of these (and of `MongoSql`), so
`AnalysisHolds` states them of it.

`ImportInv`, of `SourceImport`, is among them. Its invariant follows the rows on their way: what the
backend wrote goes on, message by message (`Reached`), where the engine's current batch
ends (`WireInOrder`); that batch goes on where the engine has looked (`RowsInOrder`); and
the table has the rows looked at, in order, or the reservoir as many different ones as
it may (`HoldsWhatItSaw`). A stream that breaks cuts the wire, which keeps
all of this. The sum of sizes and the packing of a batch into frames are recursive
functions (`Bytes`, `Packed`) of how many rows were seen. What the proof needs of them (a row that is added
or replaced changes the sum by its size, `BytesAppend` and `BytesReplaced`; the frames of a
batch carry its rows in order, `PackedCarries`) is shown for every input: the induction
theorems of the library take an operator and cannot be used, but induction over a *set*
of numbers follows from `WFMin` (`Induct`), and that such a function exists from `Induct`
(`Recursion`). `ImportAssumption` asks that sizes and limits are numbers, that samples and
batches have a size, and that a published dataset is not `None`.

`QueriesInv` rests on the same readings as `ReadersInv`: with at most one opened comment the engine's reader and
DuckDB's do the same at each piece (`EnginesReadAlike`; a comment that is read was opened,
`BlockWasOpened`), and DuckDB reads a statement inside the SELECT that bounds it as it reads the statement, two places
further (`WrappedRun`), so that only one that ends in a line comment loses its parenthesis. A largest number of
rows that fits exists (`LargestOfSome`). For a catalog the invariant says that what is registered are the first sources,
without a clash, and that a failure is one at the next (`RegisteredSoFar`); and that the file of a dataset exists only
while that one is being put there (`FilesOfOne`). `QueriesAssumption` asks that limits, sizes and the lists of sources
are numbers and sequences.

`ValuesInv` says that what a result shows means what the source sent, where the meaning of a text is read from
left to right (`Reading`) and the code's value is the number of its digits with zeros behind them. Both
are recursive functions; that zeros multiply a number by a power of ten (`ZerosMultiply`), that powers of ten add up
(`PowersMultiply`) and that a numeral is read as its digits over such a power (`NumeralIsRead`) comes from `Induct`
and `Recursion` again, so that the fractions are equal without a division (`ParseDecimalIs`, `ParseLongIs`). What
is shown follows kind by kind (`ScalarKept`, `ValueKept`, `JsonKept`). A name for a column is found because, of one
more suffix than there may be columns, not all are taken (`SuffixIsFree`, by `FS_Injection`). `ValuesMade` and
`ColumnsNamed` are the inductive part; `ValuesAssumption` asks that names, JSON values and computed values have their
form. The attempt changed the model: a 128-bit integer is always shown as text, which the code does and the model
did not, and a table's names are made one by one, as the loop makes them.

**DesktopProofs.** `ApprovalInv` and `WindowInv`, for any number of requests, tabs, connections
and queries and however late React commits. `NothingRunsUnshown` and `StopsAndEditsBelong` are the two
consequences a user would ask for.

**ProcessesProofs.** `ShellInv` (children, slots, token, descriptor) and `HttpInv` (listeners, sessions,
timers, `activeRequests`, the limit), where the cardinality of sessions and sessions in the
making is bounded with the theorems of `FiniteSetTheorems`.

What the theorems say beyond the runs: the bridge is checked with two requests and
`CacheInv` with one connection, for example, and both are proved for any number.

### What stays with TLC, and why

* Liveness under fairness (`SilentListenerLosesLease`, `EveryCallEnds`, `GuardReleased`,
  `StopTakesEffect` ...) and anything with `ENABLED`: not supported by the provers.
* The four properties of the runs that expect a violation.

## 5. Findings, and other places where texts and code differ

Four runs expect a violation; `PROJECT.json` quotes what they contradict.

* `query_session_stream`: an analysis stream whose client goes away while the route waits
  for `drain` is never resumed; its pool client and transaction are lost
  (`backend/src/index.ts:472`). On MySQL and Oracle the client is lost as well; SQL Server's driver takes it back when
  the request has ended, but the stream never does, nor does it leave the slot.
* `jdbc_cancel`: the sidecar has one thread, so a cancel is served after the query has
  returned, and finds no registered statement (`Main.kt:320`).
* `cell_edit`: with `SELECT id AS ref, ref AS id` the update takes the key from the wrong column
  (`App.tsx:1365`). In a result that shows its key twice (`SELECT id, id AS other`) an edit of the key
  through `other` is shown in that cell only (`App.tsx:1376`), so the next edit looks for the old key.
* `window_edit`: after a change of tab an edit of the shown result goes to the
  connection of the new tab (`App.tsx:1370`).

Met while modelling, kept as comments or properties that no run carries. The modules behave
as the code does.

*Bridge, listener, shell.* A session whose `initialize` finishes after `close` stays on the
dead server until its idle timer (`docs/MCP.md:76` says sessions are closed). The
shell may set the token after `stop_backend` has cleared it, and emit READY after a
stop; nothing watches the JVM after its READY; a descriptor that cannot be deleted is taken off record
all the same and stays (`lib.rs:912`), and so does one if the monitor took its path just before
the process exits; Windows without a runtime directory never gets the token, so
`<>[](running /\ slot["backend"] /\ child["backend"] = "up") => <>token` does not hold.

*Calls.* A retry can meet "A query is already running" from its own first copy. `fetch` has
no timeout. `row.insert` and `row.update` run without guard or signal, so a connection that breaks after
them and a retry may execute them twice. `gracefulShutdown` waits for statements without cancelling
them. A STDIO MCP server reads the descriptor once.

*Queries.* A `START TRANSACTION` or `BEGIN TRAN` that a user runs on MySQL or SQL Server stays open on a client
that goes back to the pool without a reset (`adapters-mysql/src/introspection.ts:529`): statements that come later, whoever sends them, may be part of it or end it.
MySQL's own transactions commit it first; SQL Server's nest in it, and an insert there has none of its own. `close()` of a pool
whose clients do not all come back never answers, and with it `connection.test`, `connection.add` or
`connection.remove` (`handlers.ts:710`, `842`, `868`). `adapters-core/src/index.ts:58` promises that `cancelRunning` cancels the last
`runQuery`; beside a stream it may be the stream
(`pc[c] = "running" /\ ~readOnly[c] => active = c` fails). A call that has been
aborted may still begin its statement (`[][pc[c] # "running" /\ pc'[c] = "running" => ~aborted[c]]_vars` fails).

*Engine.* `StopIsHeard` ("a press of stop reaches the engine while the query works",
`(o \in asked) ~> (o \notin asked)`) fails because a stop between the check of the cancel
flag and arming the remote source is lost. `OnlyMatchingInterrupted` (`hit \subseteq cancelled`) holds of
DuckDB's own interrupt but not of the remote source, which is stopped by connection (hazard `data_engine.rs:2366`).
An export that has replaced both files and then cannot read the size of its own (`data_engine.rs:1802`) is reported as failed; only the text
of the error tells it from one that changed nothing. In `ExportPublish` neither `PairTogether` (data and provenance of one export at rest) nor
`PartsCleaned` (temporaries removed) holds after some failures. A row larger than a frame followed
by another is written unchecked and refused by the reader; `FirstN` counts its budget apart
from `docs/RUST_DATA_ENGINE_PLAN.md:93` (`data_engine.rs:984`). A statement that ends in a `--` comment does not run and `SELECT 1; -- note` is
refused; an S3 address in a literal is refused; S3 schemas that differ only in case fail every
query of their catalog, one called `local` clashes with the local join; a mention check
by substring stages `sales` for `local.sales_2`; each staged local join leaves its `.omni.json`
in the temporary directory. Types whose name contains "int" (`interval`, `point`) become BIGINT and
every value is refused; PostgreSQL `bit` becomes BOOLEAN; decimals wider than 38 become VARCHAR;
`+5` is accepted for integers and refused for decimals; `24:00:00` and non-finite
doubles refuse the result.

*Desktop.* An edit sends nothing of its row but the key: it overwrites what another session wrote into the cell meanwhile, and
changes a row that has taken the key of the one shown. A stop of a JDBC query, or of MySQL while its pool has no client, is answered
only when the query has ended or never, and nothing else ends the query. A stop between the statements of Run all does not stop the later ones on engine
connections. Staged edits survive onto a new result if an apply fails meanwhile, and edits
staged during an apply are lost when its last update succeeds. `handleCellEdit` returns silently when a
key column is not in the result. `planned \cap Free = {}` and `pc[r] \in {"calling", "sql"} => pressed[r] = r` of the approval do not hold
at every moment: after a restart or expiry the dialog of r2 may still be shown when r1 is taken, and a button
pressed before React commits answers r1. Inline `OVER (...)` is not rejected as
editable although the sidecar's doc says so.

*Connections.* Import pressed again after a partial failure adds what was added once more. If the first
candidate's add succeeds and its group call fails, the list is not refreshed. A file read that finishes
during an import shows candidates compared with the old list; a failed `connection.list` empties it, so
nothing is a duplicate. Credentials read late outlive the import, against the comment at
`ConnectionImportDialog.tsx:153`. Two connections of one endpoint and user are duplicates of each other in
their own backup.

*Introspection.* PostgreSQL joins foreign keys by constraint name only, and composite keys are
cross-multiplied in PostgreSQL and SQL Server (hence the premise of unique names in `CatalogInv`); `FUNCTIONS_SQL` of
PostgreSQL uses aliases other than the names read, so functions have no parameters; expression
parts of indexes are dropped; SQL Server lists INCLUDEd columns; MySQL functions and procedures
of one name share parameters; Oracle keeps the last foreign key. Two refreshes of one session fill the same maps, each with
what it read itself (`cached-adapter.ts:56`): of a schema that an older one was still to fill when the later one cleared them, the older
reading may be what is stored (`cache.relations[s] = latest` for all of its schemas fails). A connection
may be shown whose stored row is not yet there (`shown[c][s] # None => stored[c][s] # None` and `cache.relations[s] # None` for every schema fail in between).

*Readers of SQL.* The lexer does not nest the comments of SQL Server, splitter and adapter do; nobody knows
MySQL's `#` comments; backslash escapes, backticks, `[..]` and `q'[..]'` are known to some of the four
readers and not to others (`sql-statements.ts:4-11` promises more). `SELECT ... INTO` passes
`assertSafeExplainSql`. The reader of the PostgreSQL adapter takes a backslash for an escape in plain and
double quotes (`introspection.ts:473`), so it reads `SELECT '\', E'\'E'` unlike the server. The proof found
this (`CapperKnows`): a text that shows it is longer than the run's. A quoted name counts as a keyword in
`execution-risk.ts:88`, so `DELETE FROM "where"` is not warned of.

*MongoDB.* On an array that contains 1, `a = 1`, `a <> 1` and `NOT (a = 1)` are all found; HAVING prefers an
output's name over a grouped column; a column that comes twice in ORDER BY keeps its last direction (`mongo-sql.ts:216`); a find shows no column for a field that no shown document has.

## 6. What is not covered

The map names about two lines in ten of the implementation. Not modelled:

* Build, release, website: tooling.
* Completion, hover and diagnostics: pure functions of text and cache, without state.
* ODBC: one connection and no cancellation, so nothing of what `AdapterQueries` is about.
* In the desktop: the sidebar's tree and its loads, settings, layout, the updater's dialogs. Known there
  and not stated as properties: an older load of an S3 prefix overwrites a newer one; a load under
  way writes the sidebar again after an import removed the entry; health "online" is set for whatever
  connection is active; `metadataRefreshing` is cleared by the first of two.
* In the engine: sampling and type inference of CSV and JSON, object listings, provenance texts, the HTTP call of a remote cancel.
* Conversions of rows, TLS and environment options, nested DBeaver folders, wording everywhere.

Two hazards have no property: a cancel packet of PostgreSQL that arrives late may stop an innocent statement (`pg-adapter.ts:145`),
which is how that database cancels and which no text of the repository rules out; and a remote stop of the engine goes by
connection id and may stop the editor's query on that connection (`data_engine.rs:2366`). `DataEngine` and `QuerySession` would
have to be composed for that one.

Next: compose those two; model the sidebar's loads.

