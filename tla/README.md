# erpl in TLA+

erpl is a DuckDB extension that talks to SAP systems over RFC: it reads tables
(`sap_read_table`), calls function modules (`sap_rfc_invoke`), describes both and
attaches an SAP system as a database. These modules model the parts of it whose
correctness depends on order, concurrency, retries or arithmetic at boundaries.
`PROJECT.json` maps each definition to the lines of `src/` it stands for and lists
the runs, the theorems, the hazards of the code and what the runs found.

To repeat a check: `tlc -config MCReadTableScan.cfg MCReadTableScan`, and
`tlapm ReadTableScan_proofs.tla` for proofs.

## The system

| Component | State it keeps | Operations | Works with |
|---|---|---|---|
| Batch sizing and the column state machine (`sap_rfc.cpp`, `RfcReadColumnStateMachine`) | per projected column: state, batch size, pending rows, rows so far, the resident SDK result table | the transitions of `RfcReadColumnTask::ExecuteTask` | driven by the scan, feeds the DuckDB chunk |
| Column-parallel scan (`RfcReadTableBindData::Step`, `RfcReadTableScan`) | the machines, THREADS, MAX_ROWS, the chunk | one `Step` per chunk: tasks in groups of THREADS, join, cardinality check | DuckDB's executor and workers; the global row budget |
| Batch reads (`ExecuteNextTableReadForColumn`) | per column: cached connection, cached function, slot decision, resident invocation; per scan: slots used, read function; per process: the toggle | acquire, execute, close, invalidate, retry, switch the read function | RFC connections, `SET erpl_rfc_*` of any session |
| RFC backend selection (`sap_rfc_api.cpp`) | the setting (name, path), resolved flag, the function-local static, the loaded library | SET, first use, failed load | every component that calls the SDK |
| Tracer (`erpl_tracing.cpp`) | enabled, level, directory, file stream, mutex | the setters of the options, `Trace`, `WriteToFile` | called by every component on any thread |
| Filter and WHERE pushdown (`scanner_read_table.cpp`, `sap_rfc.cpp`) | the bind data: fields, option lines, result path, machines | bind, `ActivateColumns`, `TransformFilter`, `AddOptionsFromWhereClause`, execution | DuckDB's planner; what the scan asks for |
| `sap_rfc_invoke` and its cursor (`RfcResultSet`) | position in the result, total rows | `FetchNextResult` | the invocation |
| Argument marshalling (`sap_function.cpp`) | the parameters of one invocation | adapt each argument, execute, read the results | SDK handles and DuckDB values |
| Type conversion (`sap_function.cpp`, `sap_type_conversion.cpp`) | none | pure conversion | marshalling, and every cell a table read returns |
| ATTACH catalog (`sap_storage.cpp`, `sap_catalog.cpp`, `sap_table_entry.cpp`) | the attachment, the entries, DuckDB's `created_all_entries` | ATTACH, lookup, enumeration, scan of an entry, functions of the catalog, DETACH | DuckDB's catalog set, secrets, metadata calls |
| Connections, authentication, secrets | the handle | open, close, ping; choosing the secret | SDK |
| Trampoline (`erpl_extension.cpp`) | files in the extension directory, libraries mapped, search path | extract, map, INSTALL and LOAD | file system, loader, other processes |
| SDK exit guard, telemetry, metadata functions, pragmas, serialization helpers | little or none | one call each | SDK, service |

`PROJECT.json` has a row for each, with its status and, for those not modelled, the
reason.

**What is hard.** A scan's columns are read by different worker threads, over
different connections, with batch sizes that grow; the server rejects an offset that is
no multiple of the batch, and DuckDB needs columns of equal length. Options can be
changed by another session in the middle. Calls fail and are retried; connections
are a scarce resource of the SAP system and may be used only on the thread that
opened them. Two sessions may make the first SAP call at once. The tracer is called under
other components' locks and holds one of its own. These are the hazards in
`PROJECT.json`; those no property covers yet say why.

**What makes each component correct**

- Scan: chunks of aligned columns that hold the table's first rows in order, each once,
  all or MAX_ROWS of them; every call legal for `RFC_READ_TABLE`; memory and
  concurrency bounds kept; everything released at the end; the scan ends.
- Batch reads: a connection is used by one thread, the cache stays within its limit, an
  error leaves nothing open, retries end.
- Backend: one library per process, served under the frozen name, a failed load freezes
  nothing, an accepted SET is honoured.
- Tracer: nothing is written once tracing is off, a trace file follows the switch, no
  thread waits for itself.
- Invoke: each row of each result parameter returned once, the cursor ends, and the
  columns of one chunk agree.
- Catalog: a lookup never hides a table that exists, an enumeration that failed is not
  remembered as complete, calls go to the system of the attachment.
- Pushdown: the options sent together mean the filter, on every execution, and every
  column finds its answer.
- Marshalling and conversion: a value comes back as it was sent, and is the same whether
  it is read as a result or as a column of a table.
- Trampoline: the library loaded is the complete one this version embeds, and no file is
  emptied under a process that has mapped it.

## Modules

| Module | Models | State and actions in terms of the code |
|---|---|---|
| `BatchSizing` | `NextDesiredBatchSize`, `MaxBatchSizeForColumnCount`, `TrimmedActualBatchSize` | operators, no state |
| `ReadColumnMachine` | `RfcReadColumnStateMachine` | a record per machine; `Started`, `Extracted`, `Loaded` are the three steps `ExecuteTask` makes on it under the machine's lock |
| `TableScan` | the promise of `sap_read_table` (abstract) | `Deliver` one aligned chunk, `End`, `Fail` |
| `ReadTableScan` | `RfcReadTableScan`, `Step`, the tasks | `BeginStep`, `NextGroup`, `EndStep`, `StepRaises` are `Step`; `StartTask` .. `LoadVector` a task; `SetBudget` another session |
| `ReadTaskConnections` | `ExecuteNextTableReadForColumn`, `AcquireConnection`, `AcquireFunction`, `InvalidateCachedConnection`, `TryReservePersistentSlot`, `TrySelectFallbackReadTableFunction`, `ResolveResultTable`, `RfcConnection::Close` | `read[c]` holds the locals of the batch in flight and its program counter, `machine[c]` the cache; connections are numbers per column, closed when the last reference goes, as `shared_ptr` does. A call of a cached function whose connection is gone can only fail (`CallFails`) |
| `RfcBackend` | the `erpl_rfc_backend`/`_path` setters, `SelectedBackend`, `Resolve`, `ActiveRfcBackend` | a session is idle, about to enter, waiting for or inside the initialiser of the function-local static; an initialiser that throws lets the next session try |
| `ErplTracer` | the option callbacks, setters, `Trace`, `WriteToFile` | per thread the stage of its call; `mutex` is `trace_mutex`, non-recursive: a thread that wants it twice stays |
| `ResultPath` | `InferResultSchema`, `ConvertValuesAndSelectPath` and what it calls, `IsTabularResult` | pure operators on trees of types; a name is its position, a column the path to it |
| `InvokeResultSet` | `RfcInvokeBind`, `RfcInvokeScan`, `RfcResultSet`, `RfcFunctionBindData` | the cursor, which lives in the bind data, and the cells each output column got; DuckDB may abandon a scan and execute the statement again |
| `SapCatalog` | `SapStorageAttach`, `SapDefaultGenerator`, `SapCatalog`, `SapTableEntry` | `attached`, `entries` and the flag `created_all_entries`; per session the call in flight with its stage; `ddic` and `secrets` change between any two steps |
| `Trampoline` | `LoadInternal`, `ExtractExtensionsAndSapLibs`, `SaveToFile`, `LoadLibraryFromFile`, `ModifyPath`, `InstallAndLoadExtension` | a LOAD is a script of operations, one per platform; a database has a place in it (`at`), the process it is in (`Home`) the mappings; `overlapped` holds the processes in which two LOADs ran at a time; a file is absent, partial, old or of this release; opening a file empties it, writing it is a step of its own |
| `ReadTableRequest` | `RfcReadTableBind`, `InitGlobalState`, `AddOptionsFromWhereClause`, `AddOptionsFromFilters`, `TransformFilter`, `ResolveReadTableResultPath`, `ResolveResultTable` | `bind_data` is `RfcReadTableBindData` without the scan's counters, and is kept between executions; `plan` is what DuckDB hands to the execution; a column's reading is one step (`ReadTableScan` has the batches) |
| `RfcTypes` | the type map, `RfcType`, `duck2rfc`, `rfc2duck`, `ConvertCsvValue` | pure operators |
| `RfcMarshalling` | `RfcInvocation`, its positional and named adapters, `Execute`, `ConvertRfcStruct`, `ConvertRfcTable` | the container is what the SDK holds per parameter; the function returns its parameters, as the echo function of the repository's tests does |
| `ReadTableScan_proofs` | proofs about the scan: its calls, its data and schedule, its bounds | |
| `ReadTaskConnections_proofs`, `InvokeResultSet_proofs`, `SapCatalog_proofs`, `Trampoline_proofs`, `ReadTableRequest_proofs`, `RfcMarshalling_proofs` | proofs about one module each | |
| `SharedState_proofs` | proofs about `RfcBackend` and `ErplTracer`, the state all sessions of a process share | |
| `MCReadTableScan`, `MCReadTaskConnections`, `MCInvokeResultSet`, `MCSapCatalog`, `MCTrampoline`, `MCReadTableRequest`, `MCRfcMarshalling` | values of the constants | |

`ReadTableScan` composes the machines (it EXTENDS `ReadColumnMachine`, which EXTENDS
`BatchSizing`) and implements `TableScan` by `INSTANCE TableScan WITH outcome <-
Outcome`. To it, a read of a batch either returns rows or raises; `ReadTaskConnections`
is the inside of that step, where the number of rows is left out. The two meet at `ReadBatch`
and `TaskRaises`. `ReadTableRequest` is what comes before: which columns there are and what
each of them asks for. `RfcMarshalling` uses the conversions of `RfcTypes` in both directions.

**Abstractions.** Rows are numbers in the order of `GET_SORTED`; a chunk is, per column,
the first row and how many. Two fields of the machine, `skip` and `first`, are not in the
code and record which rows were asked for and handed out. The SAP table does not change during a scan. Mutexes
that are held for one step are part of the action. Delays are steps. Libraries are names; whether one
can be loaded is a choice of the initial state. In `InvokeResultSet` all tables of a result have as many rows,
since two of them never meet in one chunk, and the call itself succeeds or raises. A word of a WHERE clause has a length and a meaning,
no characters (so no quotes, and no blanks within a literal: see finding 13); the rows of the table in `ReadTableRequest` are fixed. A value is the name of its type and a
sequence of integers (characters, digits, bytes), a field of the SDK such a sequence. DuckDB's catalog set, its
flag and its order of lookup are external to the repository, and modelled from how the code relies
on them; so is the SDK, which is assumed to refuse a value that is too long for its field
or holds characters it does not allow (`SdkRefuses`).

## Runs

| Run | Question | Instance |
|---|---|---|
| `scan` | Does the parallel scan deliver the table, whatever the interleaving, errors and changes of the budget? | vector of 4 rows (2048 in the code), so `MAX_BATCH_SIZE` is 64; 3 columns; THREADS 0 and 2; budgets 25 and 100; 14 tables |
| `connections` | Threads, slots, errors and retries | 2 columns, one a string, 2 threads, 1 slot or none, 2 attempts, 2 read functions of which one fails for the table or both, 2 batches, any number of failing calls, 1 SET of the toggle or the limit |
| `backend` | Concurrent first use, failed loads, SETs | 3 sessions, 2 backends, 4 requests |
| `tracer` | Switching tracing while others trace | 3 threads, 5 requests, the session that reconfigures does so at a level where `Info` is not written |
| `tracer_reconfigured` | Does every call return? No | 1 thread, DEBUG |
| `invoke` | Does every column of a result arrive whole, under its name, across chunks, wanted columns and executions? | vector of 2 rows; tables of 0 to 5 rows; 15 paths into a result of a scalar, a structure with a table, a table and a table of lines; three lists of wanted columns; results that are empty, one scalar, only tables, only a table of lines; 2 executions after the first |
| `catalog` | Is every table found and every enumeration whole, whatever changes meanwhile? | 2 sessions, 2 tables of which SAP has one at first, 2 secrets, TABLES absent, a name, a pattern or both, an expansion limit of 2, 1 change of columns, 1 change or failure, 3 calls |
| `trampoline` | Does LOAD get the files of this release, with crashes and other LOADs at work? | 2 processes, one with 2 databases, 3 platforms, 3 libraries, 1 companion, 1 extension, 3 LOADs, 1 fault, any number of exits |
| `request` | Do the options mean what was asked, and is the answer found? | 4 fields, options of 12 characters (70 in the code), 5 FILTERs, 2 read functions and an unknown one, 6 projections (one has a column that loses its place to the rowid), pairs of filters, 2 executions |
| `unapplied_filter` | Does every filter DuckDB hands over take effect? No | as `request` |
| `marshalling` | Does a value come back as it was sent? | 16 scalar types, a structure and tables, values at the edges of each type, positional and named |
| `refused_argument` | Does a refused argument fail the call? No | as `marshalling` |

`scan` checks:

- `LegalRowSkips`: no call is one the server would refuse. With a doubling that ignores the
  offset it is refused at the second batch.
- `LockStep`, `CardinalitiesAgree`: the machines are equal between calls, so the
  check in `Step` never fires on a stable table; a batch cap read during the Step instead of
  at its start breaks this.
- `ThreadsRespected`, `BuffersWithinBudget`: the caps on concurrent calls and on resident
  rows. The budget can be SET at any time, and the batches must fit one that was in force at some
  time of the scan (`budgets_set` keeps them), not just one that could have been set.
- `ReleasedAtEnd`: after the last chunk no machine keeps a batch, but for the one whose last batch was
  over-fetched (finding 5).
- `Implements`: every behaviour is one of `TableScan`; `ScanEnds`: and it ends.

`connections` checks `ThreadAffinity` (no call runs on a connection another thread opened; for a column
the promise ends when a SET of the toggle hits one of its batches, see finding 8),
`SlotsRespected` (per scan, and against the highest limit so far, as a limit that is lowered takes no
slot back) and `NothingLeftOpen` (no connection is open that the column does not still use or
cache), and `AttemptsAreLimited`: a batch goes round the retry loop once per attempt and once more if the read function
was switched for it. Calls may fail as often as they like, so it is the limit of attempts that ends the
retries; excepted are just the scans whose string columns two failing functions can hand to and fro
(`Alternates`, finding 4). `backend` checks `OneLoader`,
`FrozenOnlyWhenLoaded`, `FrozenIsServed`, `SetIsHonoured` (unless the SET came during a load)
and `CallsEnd`. `tracer` checks `FileFollowsEnabled`, `NothingWrittenWhenOff` and
`CallsReturn`. 
`invoke` checks `ColumnsHoldTheirRows` (each column holds the rows of the column it is named
after, in order and once, and all as many: the walks over types, values and wanted names
have to agree), `EndsComplete` (an execution that ends has, with those before it, returned every
row), `ChunksFit` and `ExecutionsEnd`. The first two leave out paths that go on below a
table (finding 10) and results of tables only (finding 11). An execution may also end in a crash
(`FetchCrashes`, `BindCrashes`), where the code reads past the end of the result.

`catalog` checks `LookupNeverHides` (a table reported missing is outside TABLES or was missing in SAP at
a moment of the lookup), `CreatedAllMeansAll` (the flag that stops DuckDB from asking is set
only when every listed table has its entry), `NoInternalError` (DuckDB never meets a
default entry the generator did not create), `OwnSystem` (what goes through an attachment goes to the
system of its secret, whatever becomes of that secret) and `CatalogCallsReturn`. `trampoline` checks
`FreshLoadRecovers` (the first LOAD of a process that is undisturbed succeeds, whatever a crash or an old
release left behind), `NeverAnOldExtension` (also when two processes extract at a time) and
`OwnMappingsKept` (a later LOAD empties no file its own process has mapped); its `TypeOK` says that only complete files are
mapped. The last two hold for a process whose LOADs ran one after another, as those of one
database do. Nothing makes the LOADs of two databases of a process do so, and for these both
are false (findings 22 and 23).

`request` checks `LinesHoldTheClause` (cutting a clause into lines keeps its words apart and in order),
`RefusedOnlyForLongWords`, `AskedRowsMatch` (the options exclude no row the query keeps and ask for
none FILTER excludes, also on a second execution, which appends to the options of the first) and
`ColumnsFindTheSameRows` (each column's row has its own width, so SAP answers each in another table).
`marshalling` checks `ComesBack` (a parameter that was given comes back with the type of its field and as
it was sent, up to the padding of a field of fixed width and white space at the end of a text) and
`ColumnsAgreeWithResults` (the text a table read parses, with a type made
from the DDIC, gives what the direct read with the SDK's type gives, as a value and as a type, NULL and `''` being
two values). The comments of both list every difference the code makes.

Every property has a mutant in `PROJECT.json`, a plausible mistake in the code that makes
its run fail. `TypeOK` of the scan, the connections, the backend, the tracer and the catalog is a theorem and in no run.

**Why the bounds are enough.** Batch arithmetic depends on the ratio of sizes to the vector size,
and the doubling has four steps from any vector size; with vectors of 4 rows the
pairs of table size and MAX_ROWS in `MCReadTableScan` reach an empty table, a table shorter than a
vector, one exact vector, a table that runs through the warm-up and ends inside a batch,
one beyond two full batches of 64, and MAX_ROWS below, at and above 64 with the rest
that divides the offset, does not, and leaves an over-fetch that is clipped. Budget 25 stops three
columns at 8 rows a batch and 100 at 32, so switching lowers and raises the cap in mid-warm-up. Three
columns in groups of two give a full and a partial group. For connections, two columns and one
slot make a column bid and lose, two threads make a column change thread, two attempts give a
retry and its exhaustion, and failures are not bounded. Two batches are what it takes to cache a connection and
meet it on another thread, or with the toggle or the limit changed. What could begin attempts anew, the switch of
the function, happens within a batch. (Finding 8 takes three batches and two SETs and is out of this instance's
reach; the theorem covers it.) Three sessions and three
threads give one inside, one waiting and one arriving. With vectors of 2 rows, 0 to 5 rows are no chunk, a partial one, an
exact one, exact and partial multiples; the second execution starts in the middle of
the result or at its end. For the catalog, one session
can enumerate in the middle of another's lookup, and the change or failure can hit either; a third call
sees what both left. For the trampoline, a LOAD can be cut short in one process, be taken
up by another and be followed by a fresh one, and two LOADs of one process can meet a third of another. Options of 12 characters hold two or three words, and
the FILTERs reach a line that is just full, one that is one too long, OR, and a word that
fits nowhere. The values of each type are its least, its greatest, blank, padded with spaces or a line feed, and one past its
width. The theorems below hold for every value.

**Fairness.** Scan: DuckDB runs a query until it ends and its workers run every queued task, so
`Step` and each column's `Task` are weakly fair; a remote call returns or raises. Backend and tracer: a thread inside a call runs on, and gets a
lock that is free; no thread is required to make a call, and nobody to SET an option. Invoke: DuckDB
calls a scan it has not abandoned until it returns no rows.
Catalog: a session in the middle of a call goes on; nobody has to call, and nothing has
to change. Connections, trampoline, request and marshalling state safety only: each turn of the retry loop passes its
stages once and `AttemptsAreLimited` bounds the turns, a LOAD is a script that ends, and the other two are sequential.
Deadlock is not checked: a scan that has ended, and threads that have used up their requests, stop.

## Findings

The first three are "violation" runs; the others were met while modelling, and the properties leave the
case out or describe it. `PROJECT.json` has their lines and quotes.

1. `tracer_reconfigured`: five setters announce their change while they hold the mutex that
   writing the announcement takes.
2. `unapplied_filter`: of the filters DuckDB hands over only an equality and a short IN reach SAP; the
   others are applied by nobody.
3. `refused_argument`: the check for a refused argument cannot be reached, so the call goes out
   without the value.

Scan, batches, backend:

4. Two functions that both raise TABLE_WITHOUT_DATA are tried in turn for ever, and no attempt is counted.
5. A MAX_ROWS above `MAX_BATCH_SIZE` whose rest is no legal ROWCOUNT never reaches
   FINISHED and keeps its connection and result table until query teardown.
6. The limit on cached connections is per scan; the option's text says per process.
7. After a switch of the read function only the retried batch reads `/ET_DATA`.
8. A function cached beside a connection outlives it: when persistent connections are switched off and
   on again between batches the function of the closed connection is called.
9. A SET of the backend accepted while a library loads is overwritten by the freeze.

Invoke, request, conversion:

10. A path to a leaf inside a table returns the table's first column under the
    leaf's name, and reads names behind the last.
11. A result that consists of tables only counts as tabular, and without a path
    raises or, when the tables are empty, loses its row.
12. A word of exactly 70 characters is refused unless it starts the clause.
13. A pushed equality puts its literal between quotes as it is, where an IN doubles the quotes in it; and a clause
    may be cut at a blank within a literal. (Not modelled.)
14. A packed number of an even number of digits is described one nibble too short, and its column has
    one digit less than the field.
15. A blank number in a line of type STRING raises instead of being NULL.
16. Midnight is read as NULL, whether it was sent as 00:00 or as 24:00.
17. What is said to trim spaces off the end of a text trims all white space, line feeds too.
18. A NUM, BYTE, DATE, TIME, INT8, DECF or timestamp that the SDK fails to give is read as FALSE, without an error.

Catalog and trampoline:

19. TABLES with patterns that match nothing admits every table.
20. An enumeration that ends in the middle of a lookup turns the flag on behind the lookup's reset,
    and a table that exists is reported missing.
21. An entry keeps its columns while the scan asks for the present ones.
22. A LOAD in a second database of a process skips the extraction once the first has mapped the SDK, and runs what
    extension is on disk: one of an older release, or none.
23. The guard against a second extraction looks only at its own process and only for the SDK: files another
    process has mapped are emptied and written again, and so are libraries the process itself has mapped when two of its LOADs
    begin before the SDK is mapped.
24. After a LOAD that failed behind the mapping of the SDK, later LOADs of the process skip the extraction.

Four more things a reader may meet. A prepared statement executed again finds the
machines of the first execution finished and returns no rows. The literal of a date is written as
DuckDB prints it, which matches no DATS value. A blank text is NULL or `''` depending on where it is read: a blank
CHAR is `''` as a result and as a column of a CHAR line, and NULL as a column of a STRING line; a
blank STRING is NULL as a result, and `''` as a column of a CHAR line. And a STRING loses the blanks at its end like a CHAR, though nothing
has padded it.

## Proofs

`ReadTableScan_proofs` shows `TypeCorrect` and `RowSkipsAlwaysLegal` for every vector size,
number of columns, set of tables, THREADS and budget. `RowSkipsAlwaysLegal` is not
inductive. The invariant `Inv` is `TypeOK` and, per column, `MachineInv`: batch accounting.
In the states between a read and the end of its batch, the rows pending are those resident less those handed out
(`duck_count` vectors), and `skip` plus the handed-out rows is `total_rows`; when a batch is used up
the next offset is a multiple of the next size. The doubling keeps that by its guard, which is on the rows
*after* the batch; a changed cap keeps it since the batch never shrinks; MAX_ROWS keeps it since the
trimmed size is used only if it divides. A machine whose over-fetched batch was clipped breaks the
accounting but is never read from again (`Stuck`), the state `max_rows` is about. The arithmetic
of multiples is in lemmas of its own, cited by name. The assumptions are those on the constants,
`VectorSizeAssumption` and `ScanAssumption`.

`SharedState_proofs` shows `AlwaysOneLoader`, `AlwaysFrozenOnlyWhenLoaded`, `AlwaysFrozenIsServed` and
`SetHonoured` for any set of sessions, names and paths. The invariant is
`TypeOK /\ OneLoader /\ Stages /\ Frozen /\ Honoured`: `Stages` relates where each session is to
the static's state and to the pick it carries, `Frozen` the resolved flag to the library
that serves.

`ReadTableScan_proofs` also shows `AlwaysInLockStep`, `CardinalitiesAlwaysAgree`, `ThreadsAlwaysRespected` and
`ScanImplements`, the refinement of `TableScan`. None is inductive: in the middle of a Step
the machines differ, and how depends on which tasks ran. The strengthening `ScanInv` says that there is one machine `m`, the one
all columns had when the Step began, such that each column's machine is `m`, or `m` after the
first, second or third step of its task, as far as the task has come (`TaskInv`); and
that groups before the present one are done and those behind it untouched (`Schedule`). Since
the cap is read once per Step, the three steps are functions of `m`, so all columns arrive at
the same machine, deliver the same rows, and the check in `Step` cannot fire. `DataInv` ties a machine's rows to the
table's, which gives that `EndStep` maps to `Deliver` or `End` of `TableScan` and a Step that raises to `Fail`.

It also shows `BuffersAlwaysWithinBudget` and `AlwaysReleased`: with `n` columns a cap above one vector
is at most `budget \div n`, batches only double below it, and a doubled batch is within
the cap or the machine stays at its size. The budget meant is one of `budgets_set`, those in force at some time of
the scan. `OverfetchedBatch` is the arithmetic of the one batch that MAX_ROWS can clip.

`SharedState_proofs` also shows `FileAlwaysFollowsEnabled` and `NothingEverWrittenWhenOff` for any set of threads
and number of requests. The invariant adds `LockHeld`: between steps the mutex is held only by a
thread that announces its change.

`InvokeResultSet_proofs` shows `TypeCorrect`, `ColumnsAlwaysHoldTheirRows`, `AlwaysEndsComplete` and
`ChunksAlwaysFit` for every tree of types, path, list of
wanted columns, number of rows and vector size, from `InvokeAssumption`. The invariant says that the output is `Got(n)`, the first `n` rows of every column, and
`CursorAt(n)` ties `n` to the cursor: equal to it for a table, 0 or 1 for a single row, which is where
the cursor jumps. That the names are distinct (`ColumnsDistinct`) gives each output column exactly one
value that fills it. `ChunksAlwaysFit` is an action property: whatever is added to a column is what a window of
at most `STANDARD_VECTOR_SIZE` rows of its value holds (`WindowFits`, `StepFits`). `InvokeAssumption` asks for
wanted columns only of the table a path ends at, as the metadata functions do, which are the only ones
that pass a list.

`SapCatalog_proofs` shows `TypeCorrect`, `LookupsNeverHide`, `EnumerationsComplete`, `NeverAnInternalError` and
`AlwaysOwnSystem` for any sets of sessions, tables and secrets and any TABLES. The invariant says of a call in
flight what it has established so far: `Enumerating`, that each listed table has its entry or is
still to do, and `LookingUp`, that a table that is missing was noticed and that the flag is on only behind
the lookup's back. No step of another session undoes either, since entries are only ever added.

`ReadTaskConnections_proofs` shows `TypeCorrect`, `AlwaysThreadAffine`, `SlotsAlwaysRespected`,
`NothingEverLeftOpen` and `AttemptsAlwaysLimited` for any number of scans, columns, threads, attempts and batches. The invariant says of one column
what its machine, the locals of its task and its open connections have to do with each other
(`ColumnInv`): who opened the cached connection, that the cached function is that connection's unless a SET
hit a batch (`Steady`), and, as long as the toggle was not SET, exactly what is open (`Quiet`). Every action
but the SETs goes on with one column, and the lemmas `Goes` and `GoesOn` reduce each of them to
`ColumnInv` of what it goes on with; `Bid` is the one step that touches the shared slots. Connections are
given four names per column in the model, and `FreshIsFree` shows that a free one is always there. The limit
of the turns has an invariant of its own (`Turns`), on top of this one: the function a call fails with is one the scan can be switched
to (`AskedInv`), and after a switch the scan's function is none that fails (`Switched`), as there is no second one
(`OneRelapse`).

`Trampoline_proofs` shows `TypeCorrect`, `FreshLoadsRecover`, `NeverOldExtensions` and `OwnMappingsAlwaysKept` for
any number of processes, databases, LOADs and releases, and any lists of libraries, companions and extensions on each
platform, from `TrampolineAssumption` (every process has a database; the lists are finite and name no file twice, the SDK is among
the libraries, there is an extension). The model has two assumptions on DuckDB besides: it runs the LOADs of one database
one after another, and INSTALL leaves a file alone that is there. Nothing is assumed of the LOADs of two databases; the last two
theorems say of a process that they hold as long as none overlapped. None of the properties is inductive: each depends on how far the script of a LOAD has come.
Lemmas on the script say that it saves every file once and in which order, and that on Linux and macOS a library is mapped
right behind its saving. Per process the invariant says what the places passed have left and what those to
come will find: `Order` (an extraction has mapped the libraries it has passed and, once past the SDK, none of those to come), `Renewed`
(without a failure, a file that was passed is no longer old, whoever else writes it), `Current` (so no mapped extension is
old) and `Alone` (what an undisturbed LOAD has established so far). A crash or another process can make a file
partial but never old again, which is why `Renewed` survives the steps of the others.

`ReadTableRequest_proofs` shows `LinesSpellFilter`, `RefusedForLongWords`, `AskedBetween` and `ColumnsAgree` for every table,
FILTER, projection, set of read functions, line length above that of an AND, and number of executions. The invariant
carries the text as a whole: the options spell FILTER followed by words that only narrow it (`Asked`),
every line fits and all but the first start with their blank (`GoodLines`), and activating the columns of
the plan again moves no column in the projection (`Planned`), so a second execution appends the conditions
of the first. `CutLineKeeps` is one turn of the loop of `AddOptionsFromWhereClause`, and `AddOptionsCuts` its end: each turn leaves lines and
rest that together are the text, and a shorter rest. `AdmitsLess` and `AdmitsMore` say what words behind a clause do to its
meaning: without an OR among them they narrow its last alternative and add none. `AnswerFound` is the choice of the result table.
From `RequestAssumption` (names, words and values have lengths, filters have finitely many values) and
`FunctionAssumption`: every read function takes OPTIONS, `RFC_READ_TABLE` has no TBLOUT table, and the widest TBLOUT table of
any other takes every field. A column that no table of its function takes is answered in none and outside the theorem.

`RfcMarshalling_proofs` shows `ComesBackAlways` and `ColumnsAlwaysAgree` for every set of calls, by position or by name,
of functions with any parameters. The invariant (`Inv`) says of each parameter what the container holds (`ParameterInv`): the
initial lines, or, once its argument is adapted and unless a field was refused, the lines made of what the call gives for it
(`Held`). Two things have to be shown besides. The adapters must match an argument with the parameter it is given for, and
with no other (`GivenIsMatched`, `MatchedIsGiven`): by name since names are distinct, by position since the n-th settable
parameter is the only one with n of them up to its place (`RankExists`, `RankGrows`, `RankUnique`). And the conversions must agree: `FieldComesBack`
joins one lemma per type on what is read back from a field that was filled (`FilledHolds`, `DateIsRead`,
`TimeIsRead`, `TimestampIsRead`), `FieldAgrees` one per type on the text of a column (`TextAgrees`, `BytesAgree`, `IntegralAgrees`,
`DecimalAgrees`, `InstantAgrees`). From `MarshallingAssumption`: parameters have distinct names, as has a STRUCT its members;
the members of an argument have values of their field's type, texts have no NUL character in them, dates are of the years SAP has (1 to 9999); a
packed number has a digit. Whether the argument as a whole has the parameter's type is not assumed, the adapters test that.

The library's induction theorems cannot be used here, as they take an operator. What a recursive function computes in
`ReadTableRequest` is shown without them: `LeastNumber` and `Induction` are stated for sets of numbers, and follow from the
well-foundedness of `<`. `FlattensAt` .. `FlattenElements` do this for `FlattenSeq`.

Only model-checked: liveness (`ScanEnds`, `CallsEnd`, `CallsReturn`, `CatalogCallsReturn`, `ExecutionsEnd`),
since TLAPS does not reason about ENABLED here. All other properties of the passing runs are
proved.

## Not modelled

- The SDK's exit guard (the order of exit handlers is the C library's), telemetry (nothing depends on
  it), pragmas, and the helpers `duckdb_argument_helper.cpp` and `duckdb_serialization_helper.cpp`, which
  format text or are mostly unused.
- The metadata functions beyond the call and the cursor they share with `sap_rfc_invoke`: they reshape
  one result each.
- DuckDB's implicit cast of a member whose type is not its field's, the rounding of a DECFLOAT beyond its
  precision, and the width of packed numbers of more than nine digits, which hold every number here.
- Names and layout: connection parameters, trace messages, the encodings of the SDK's characters, scales
  of decimals and fractions of seconds.
- Quotes and blanks within the literals of pushed filters (finding 13), and texts with a NUL character in them.
- The trampoline's OpenSSL workaround and `PinSelf`.
- A table that changes during a scan: nothing in the code could give a consistent answer, and the check in
  `Step` reports only different counts.
- Torn reads of `read_table_function`, `enabled` and `level`, which are data races of the code and
  listed as hazards.

## Plan

Done: the scan with its inner reads, the backend, the tracer, the cursor of `sap_rfc_invoke`, the catalog, the
trampoline, the request of a table read, marshalling and conversion, and the theorems above.

Left, in order of importance:

1. `RfcMarshalling` with structures inside structures and tables inside tables.
2. The reshaping of results by the metadata functions.
