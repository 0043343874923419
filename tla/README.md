# Verification of mmw

mmw is a Go library and command-line tool for modular monoliths backed by
Postgres. `pkg/platform` runs modules, serves HTTP, keeps units of work, relays
outbox events and applies migrations; `pkg/scaffold` generates modules and
slices from templates (the code under `pkg/scaffold/_templates` is what every
generated service runs); `internal/pkg` and `cmd/mmw` hold the tool's own work:
a subset dump of a database, pre-commit checks, workspace commands.

This directory holds TLA+ modules translated from that code, TLC configurations
that check them on small instances, and TLAPS proofs. `PROJECT.json` lists
components, runs, the line ranges each definition stands for, the hazards the
properties are aimed at, and the theorems.

    tlc -config MCOutbox.cfg MCOutbox        # one model-checking run
    tlapm OutboxProofs.tla                   # the proofs of one module

## 1. Inventory

| Component | State | Operations | Interacts with | What is hard | What makes it correct |
|---|---|---|---|---|---|
| Outbox relay (`pkg/platform/db/outbox/relay.go`) | `<module>.event` rows, the locks and `eventIDs` of a batch | `Start`, `AsModule`, `processBatch` | Postgres, `SystemEventBus`, the runner's context | replicas, crash between publish and mark, a bus that fails, order | no row in two batches, at-least-once, only committed events, order within an aggregate |
| Outbox dispatcher (module template) | rows of the open transaction | `Dispatch` | the unit of work's executor | must write in the command's transaction | events and changes commit together |
| Unit of work (`pkg/platform/pg/uow`) | the transaction in the context, savepoints | `Executor`, `WithTransaction` | pgx pool | nesting, rollback on a context that is done, pool exhaustion | nil means durable, an error means all or nothing, no waiting for oneself |
| Delete command and repository (slice template) | entity rows, row locks | `Execute`, `FindByID`, `Delete` | unit of work, dispatcher | two requests for one row, a lost commit answer | one event for each row gone, one winner |
| Dump: row selection (`internal/pkg/dump`) | selected rows, work list, snapshot | `walk`, `expandSeed`, `closeSelection` | Postgres, YAML config | foreign-key cycles, concurrent writes, overlapping seeds | the selection is the least referentially closed set over the expanded seeds |
| Dump: script and file | temporary file, buffer, output | `Run`, `Dump`, `writeData` | file system, Postgres, psql | failing or killed halfway, sequences behind the loaded rows | old file intact or new file complete; a first insert does not collide |
| Event bus and handlers (`pkg/platform/events`) | in-memory channel of the process | `Publish`, `Handle`, ack, nack | relay, consumers | a stop loses what is in memory, redelivery | nothing vanishes in any other way |
| Runner, module lifecycle, HTTP server | shared context, goroutines, first error | `App.Run`, `HTTPServer.Start`, `Module.Start`, `main` | everything | shutdown timeout, errors racing cancellation, closing the pool under handlers | cancellation ends the process, the first failure is reported |
| Middleware and interceptors | response header, request context | auth, app authorization, logging, recovery, CORS, Connect error mapping | HTTP server, auth service, commands | order of the chain, panics after the header, exempt paths | the answer is true, the log says what was sent, only users act |
| Migrator and its CLI (`pkg/platform/db`) | goose's global file system and table name, version tables, scripts | `New`, `Up`, `Down`, `Fix`, `Reset`, `Status`, `Version`, `Create` | goose, Postgres, scaffolding | globals shared by several migrators, late or equal versions, a kill between scripts | a version table says what the database holds |
| Scaffolding (`pkg/scaffold`, `cmd/mmw/cmd/new`) | files of the workspace | module and slice generation, insertion at markers, registration | file system, go tools | one write of several fails, cleaning up, running again | no entry twice, none dangling, none silently missing |
| Pre-commit and CI checks (`internal/pkg/checks`) | selected files, results | select, check, fix, report | git, external tools, the developer | files that change under the checks, programs that err or die, text edge cases | passed means tidy, not tidy means reported |
| Gateway send (gateway slice template) | none durable | `Execute`, `Publish` | remote service, bus | remote call done, event lost | not modelled |
| Configuration (`pkg/platform/config`) | merged settings | `Load` | files, environment | which layer wins | not modelled |
| Architecture tests, workspace/test/version commands, logging and OS helpers | none | wrappers, formatting | go, git | nothing concurrent | not modelled |

## 2. Plan

Order: first what moves durable data, then what starts and stops the process,
then the developer tool.

1. **Outbox**, with the abstract **AtLeastOnce** it implements, and
   **EventFlow**, which composes it with the channel and the consumers (done,
   proved; liveness model-checked).
2. **UnitOfWork** (done, proved; liveness model-checked).
3. **DeleteCommand**, and **Request**, which composes it with the HTTP chain
   (done, proved).
4. **DumpWalk**, and **DumpScript**, which composes it with the output (done,
   proved; termination model-checked).
5. **Lifecycle** (done, proved; liveness model-checked).
6. **Migrator** and **Scaffold** (done, proved), **PreCommit** (done, proved
   from facts about its text algorithms that TLC evaluates).

Each composition EXTENDS the component and conjoins its actions, so that the
component's theorems carry over by a refinement that is proved
(`FlowImplementsOutbox`, `RequestImplementsDelete`, `DumpImplementsWalk`).

## 3. The modules and the code

### Outbox and AtLeastOnce

`row` is the life of a row of the event table: `new`, `inserted` (in a command
transaction that has not ended), `aborted`, `pending` (`published_at IS NULL`,
visible), `published`. `Dispatch` is `PostgresOutboxDispatcher.Dispatch`;
`CommandCommit` and `CommandRollback` are the two ends of the unit of work
around it. `processBatch` is split where another actor can come between:

| Action | Code (`relay.go`) |
|---|---|
| `Select` | Begin, the `SELECT ... ORDER BY occurred_at LIMIT ... FOR UPDATE SKIP LOCKED` |
| `IdleTick` | an empty batch: no UPDATE, COMMIT |
| `Publish` | one turn of the `rows.Next` loop |
| `MarkAndCommit` | UPDATE of `published_at`, COMMIT |
| `PublishFails`, `BatchFails` | the early returns and the deferred Rollback |
| `Cancel`, `Stop` | the runner's context ends; `Start` returns |
| `Crash`, `Restart` | the process and its supervisor (external) |
| `SessionEnds` | Postgres ends a session whose client is gone (external) |

`copies` and `wasted` are history: how often the bus took an event, and how
many of these belong to a batch that was rolled back. Publishing does not look
at the context (watermill's in-process channel takes none), so a batch already
read goes on after a cancellation, but its UPDATE fails. A bus reached over the
network may accept and lose the answer: `PublishFails(r, e, TRUE)`.

A batch that is given up, by the deferred Rollback, a failed statement or a
crash, either frees its rows or leaves them to a session without a client
(`orphaned`), because the Rollback did not reach the server or the server has
not noticed that the connection is dead. `SKIP LOCKED` goes past those rows,
and what it went past before the bus saw it is kept in `skipped`: it is the one
way in which the order of a command's events is lost.

`AtLeastOnce` has two variables, the stage of an event and its number of
deliveries. The refinement mapping is `Stage`: rows of a transaction not yet
committed, or rolled back, are absent.

### EventFlow

`inbox` is the GoChannel of each replica's process, `handled` the events a
consumer returned nil for, `lost` those that were in a channel when its process
ended. Each action of Outbox that hands an event to the bus is conjoined with
`Enqueue`, each that ends a process with `Forget`. `Handle` and `HandleFails`
are the function `events.Handle` makes, run by the router: an error is a nack
and the channel sends the message again. Only events in `Subscribed` have a
consumer; the generated router starts with none. Copies of one event are not
told apart: a consumer that handled one is done with the others.

### UnitOfWork

The program's view (`stack`: the frames of nested `WithTransaction` calls and
the writes each believes it made) and the server's (`layers`: savepoints and
the writes they hold) are kept apart, because a `ROLLBACK TO SAVEPOINT` may
never be sent. `live` counts the frames whose context is not done; a deadline
of an inner context (only with `NestedDeadlines`) ends frames from the top.
Each frame remembers its savepoint (`at`), as failed nested calls leave
savepoints on the server. `promised` and `dropped` record what callers were
told, with nil or with an error. `RootCommitFails` and a `RootCommit` whose
answer is lost return the same error, one with nothing and one with everything
durable; the write sets of both are in `doubtful`. `BeginRootFails` is the
failing `pool.Begin`. `ExecOnPool` is `Executor` outside a transaction.

### DeleteCommand

`Execute` of the generated delete command, one action per statement: `Begin`
(user, `ParseID`, BEGIN), `Find`, `Delete`, `Dispatch`, `Commit`, and `Abort`
from any point in the transaction. The isolation level is Postgres's default,
READ COMMITTED: `Find` reads committed rows, `Delete` waits for the holder of
the row and looks at it again.

### Request

The chain of a generated module in the order `NewHTTPServer` and
`newHTTPServer` build it. `rw` is the `responseWriter` of the logging
middleware, `wire` what net/http sent; they are two variables because they may
differ, and `LoggedIsSent` says they do not. `Authenticate` and `Authorize` take
the answer of the service as an input; `guarded` says whether the module added
the application check. `Execute` conjoins the actions of DeleteCommand, with
the user of the context; `allowed` is the requests the application check let
pass. `StatusOf` is the mapping of command errors to Connect codes and their
HTTP status in the Connect protocol. `Panic` may strike anywhere below
`Recovery`, in a health function too, and an open transaction is then rolled
back by the deferred call. Monitoring routes, preflights and unknown paths end
in `Arrive`.

### DumpWalk

`snap` is the REPEATABLE READ snapshot `withSnapshot` opens; `db` is what other
sessions see and change. A row is its ctid; a link `<<fk, child, parent>>` is a
non-null foreign-key value. `SelectSeed` and `ExpandLevel` are `expandSeed`,
`CloseTable` and `EndRound` are one table and one round of `closeSelection`,
`Children` and `Neighbours` are its queries. `Config` is a list of seeds with
`child_depth`, `children_per_parent` and its exceptions, and the excluded and
attached tables and the transformed columns; `ConfigAccepted` and
`TransformsKnown` are the validations at the head of `walk` and in the catalog.
A limited child query takes the newest rows (`keyOrder`: primary key descending);
rows are numbered in key order.

### DumpScript

`Run` and `Dump`, one action per call that can fail: `ReadConfig`, `Connect`,
`CreateTemp`, then `Select`, which is a step of DumpWalk, `Write`, one
statement at a time into the buffered writer, `Flush`, `CloseTemp`, `Chmod`,
`Rename`. A turn of `writeData`'s loops that continues without writing is the
statement `Skip`, which loads nothing. `written` is what the program handed to
the writer, `output` what is at the destination: the previous script until the
rename, or, on stdout, any prefix that the buffer let through (`Arrived`). The
errors of `os.Remove` are ignored, so the temporary file of a failed run may
stay. `Loaded` and `Setval` are what psql makes of a script; properties are
stated about that, not about its text.

### Lifecycle

`main` (`phase`, `exitCode`, `pool`), and for each module the goroutine of
`ListenAndServe` (`listener`), `HTTPServer.Start` (`server`), the relay and the
router. `Cancelled(m)` is the context the goroutines of a module are given: it
is derived from the errgroup of `Module.Start`, that of `App.Run` and the
signals. The `select` of `HTTPServer.Start` is modelled as Go runs it: blocked,
it takes what comes first; reached with both an error and a cancellation ready,
it takes either. `handler` is the requests under way, one of each `Protocol` per
module; the ones outside `Tracked` are those on connections h2c has hijacked,
which `Shutdown` does not know. A handler may take a connection as long as the
pool is open, and may go on after a shutdown that timed out. A hijacked
connection brings new requests also after the listener was closed.

### Migrator

`baseFS` and `tableName` are goose's process-wide settings: `New` sets the
first, each operation the second. An operation that runs several scripts is
`Start`, one step per script (goose runs each in a transaction with its version
row) and an end, so that a failure or a kill can come between; those of one
transaction are one action. `AddSlice` and `Create` are the two ways a script
comes to be, with the stamp each gives it: `MigrationStamps` looks at the
directory, `Create` at the local clock alone. `lenient` is WithAllowMissing,
which the command line sets and a module's `Migrate` does not.

### Scaffold

The workspace as far as the commands look at it: which parts of a module and of
a slice are there, how often a snippet, a table or a module is entered. `cmd`
walks through `runNewModule` or `runNewEntity` (a module is created with its
first slice, so the second is a suffix of the first): rendering, one
`InsertBefore` per snippet, the bungen list, go.work, mise.toml, the three
programs. Every write may fail or the command be killed before it, goplt may
stop after any file, and `os.WriteFile` may leave a file torn
(`InsertFails(TRUE)`, `WriteTorn`). Between commands the developer removes what
a failed one left, which is how `ValidateSlice` lets it run again.

### PreCommit

`head`, `index` and `work` are git's three trees. `StartPreCommit` resolves the
targets once, `CheckStep` is one turn of the loop of `RunPreCommit`, which reads
the working tree as it is by then; `FixStep` is one file of a `Fix`. The text
algorithms of the files check (`ScanLines`, `TrimRight`, `CheckFileContent`,
`FixFileContent`) work on real sequences of bytes. `TextAlgorithms` says what
they compute without recursion, and `MCPreCommit` evaluates it on every text of
up to five bytes, and of up to six without a NUL. Verdicts of
yamllint, go-toml, gofumpt and golangci-lint are part of a file's content.

Each checker returns an error (`Errs`) or a result (`Results`): the files it
names and whether it failed without naming one. golangci-lint only ever fails;
yamllint may break off, having named some files or none, with last words or
without (`YamlResults`, recorded in `run.cut`), and its exit status is not
looked at. `SniffLen` and `MaxLine` are the limits of `isBinary` and of the
scanner. `omitted` is what git's filter ACM leaves out as renamed or retyped.
The developer edits and stages at any moment; `touched` is the files he did it
to since the command started, and the properties speak of the others.

## 4. The runs

| Run | Instance | Shows |
|---|---|---|
| `outbox` | 2 relays, 3 events of 2 aggregates, `LIMIT` 2, one event subscribed, 2 faults, sessions that outlive their client | replica exclusion, the account of copies and of messages, refinement of AtLeastOnce, order in a batch and of a command (but for rows a dead client's session held), every committed event published and handled or lost with a process |
| `outbox_ties` (violation) | 2 events of one aggregate with equal `occurred_at` | one batch publishes them in either order |
| `uow` | 2 requests, 1 connection, depth 3, 2 writes, 3 nested calls, 2 faults, one context for the calls of a request | what returned nil is durable, an error left nothing or, if it was the COMMIT's, all or nothing; nested calls need no second connection: each call begins |
| `uow_deadline` (violation) | a nested call with a deadline of its own | its writes are committed by the caller although it failed |
| `lifecycle` | 2 modules, one request each | a failure or a signal ends everything with the right exit code, nothing runs on, no transaction is cut |
| `lifecycle_h2c` (violation) | 1 module, a tracked and an h2c request | exit code 0 with the h2c request under way |
| `request` | 2 requests of any kind, 2 rows and an invalid id, guarded or not | one event for each row gone, true answers, a faithful log, tokens sent, no anonymous or forbidden delete, every request answered |
| `dump` | 4 rows in 3 tables with a self-reference and a cycle, every content, 9 configs (6 refused), 1 concurrent write | closed and least selection, whole output, sequences past the rows, termination |
| `migrator` | 2 schemas, one migrator at a time, 3 scripts and more each, clock of 2 s, local time behind UTC, 1 fault | version tables agree with the database, a finished Up left nothing out, slices never block migrations |
| `migrator_shared` (violation) | 2 migrators held at once | the scripts of one schema are recorded in the other's table |
| `scaffold` | 1 module (absent or hand-written at first), 2 entities, 3 commands, 2 faults | no entry twice, no dangling snippet, nothing left out in silence, shapes fit the module |
| `precommit` | a Go, a YAML and a TOML file, 7 contents, texts of up to 4 bytes with a limit of 3, a sniffed length of 2, lines of up to 3, 2 edits, linters installed or not, yamllint breaking off | passed means tidy and every fault is reported, but for YAML errors if yamllint broke off; --fix settles texts without CRs; the hook guards what is committed as it was checked |

Bounds. Three events are enough for a batch cut by `LIMIT`, a command of two
events and one of another aggregate with an older timestamp that commits late;
two faults let one relay fail twice, or two relays once each. One subscribed
event keeps the run small and has both cases: an event without a consumer and
one that crosses replicas. Depth 3 is the least at which a released savepoint
lies between an open one and the root; three nested calls let one fail, one
succeed and one fail again. Two requests give contention for one row, two rows
a free one; the proofs cover any number. The dump's schema has every shape that
could keep `closeSelection` from ending or closing, its contents are
exhaustive, and the two configs with a transform and with a shared sequence
reach every form of setval. Two modules let one fail while the other serves.
Two seconds of clock let stamps collide and lie in the future
(`MigrationStamps` adds seconds) or, in local time, in the past. Three commands
are a module, an entity and a repetition of either after a failure; two faults
let the repetition fail as well. Three files of different kinds reach every
checker; the size limit of three makes a file that is too big and one that a
fix makes too big, the other two a NUL that is seen, one that is not, and a
lockfile's line that the scanner gives up on. `MaxFaults`, `MaxDepth`,
`MaxCalls`, `MaxWrites`, `MaxHeld`, `MaxClock`, `MaxScripts`, `MaxRuns` and
`MaxEdits` appear in guards only; `MaxScripts` lets a slice add its two scripts
to a directory just below it.

`CHECK_DEADLOCK FALSE` is set where the system stops by design: requests, a
dump and a process end, and the scaffolding commands run out. `migrator` and
`scaffold` use symmetry over schemas and entities, which their actions treat
alike; they check no liveness.

Fairness. `EventFlow`: the ticker fires and every call of `processBatch` returns
(weak fairness of `FlowBatch` and `Stop`), the router goes on offering a message
until its function takes it (weak fairness of `Handle`, so a consumer does not
fail for ever), and a process is started again by its supervisor; faults are
bounded, commands are not fair. `UnitOfWork`: pgxpool serves waiters in turn,
hence strong fairness of `Begin`; `fn` and the statements end. `Request`: the
goroutine of a request goes on, and Postgres queues waiters on a row lock, hence
strong fairness of `Serve`; statements need not fail. `DumpScript`: Run is one
goroutine whose calls return (weak fairness of `Step`). `Lifecycle`: goroutines
are scheduled, `Shutdown` returns by its timeout, a batch ends and a handler
gives its connection back; a handler need not end, and no signal is assumed.
`EventFlow` also assumes that the server ends sessions without a client: a TCP
keepalive or a timeout of its own finds them (weak fairness of `SessionEnds`).
`Migrator`, `Scaffold` and `PreCommit` state no fairness: their commands are
sequential and end by themselves.

### What the violations say

* `outbox_ties`: the project README promises "preserving intra-aggregate event
  order within a batch"; `ORDER BY occurred_at` has microseconds and no second
  key. With distinct timestamps the promise holds (`outbox`).
* `uow_deadline`: a comment says the nested rollback leaves the outer
  transaction intact; it is sent with the nested call's context, which may be
  done, and its error is dropped. When every call shares the root's context
  the promise holds (`uow`).
* `lifecycle_h2c`: `Start` "performs a graceful shutdown"; it does for the
  requests `http.Server` tracks (`lifecycle`), but connections that h2c
  hijacked are neither closed nor waited for.
* `migrator_shared`: a per-service table name "prevents version collisions when
  multiple services share the same database"; the file system goose reads is
  process-wide and set only by `New`, so of two migrators in one process the
  first runs the second's scripts. With one migrator at a time, as the
  generated commands have it, the promise holds (`migrator`).

### What the pre-commit checks do not promise

The properties of `precommit` carry four exceptions. Each is what the code does
where a sentence of the repository says more:

* "pre-commit: all checks passed" (`cmd/mmw/cmd/check/precommit.go:94`) is also
  printed when yamllint died without output: its exit status is looked at only
  if the context is done (`yaml.go:70`). Hence `Unheard` in `PassMeansTidy`,
  `NothingHidden` and `CommitIsTidy`.
* "All checks run even when an earlier one fails" (line 31) is true of a checker
  with violations, not of one that returns an error: the run stops and nothing
  that was found is printed. `NothingHidden` is about runs that end with
  violations.
* The "pre-commit gate" (`README.md:790`) over "files staged for commit"
  (`git.go:14`) takes only the names from the index and reads the working tree.
  `CommitIsTidy` is about files that are staged as they stand there.
* Trailing whitespace is said to be fixed by `--fix` (`README.md:893`); of
  blank, CR, blank at a line's end the first blank stays, and is reported.
  `FixSettles` is about texts that hold no CR after the fix.

Without its exception each of the four properties fails in TLC within a few
steps of the instance of `precommit`, with a text of five bytes for the last.

## 5. The proofs

| Module | Theorems | Argument |
|---|---|---|
| `OutboxProofs` | `TypeCorrect`, `ReplicasExclude`, `CopiesExplained`, `NoDualWrite`, `OutboxImplementsAtLeastOnce` | `OutboxInv` |
| | `BatchOrder`, `CommandOrderPreserved` (if `StampsIncrease`) | `OrderInv` |
| | `FlowImplementsOutbox`, `NothingVanishes`, `ConsumersSeeCommitted` | refinement, `FlowInv` |
| `UnitOfWorkProofs` | `PoolNeverOverdrawn`, `NilMeansDurable` | `UnitOfWorkInv` |
| | `ErrorMeansAllOrNothing` (if `~NestedDeadlines`) | `FailInv` |
| `RequestProofs` | `DeletedOnce`, `AtMostOneWinner` | `DeleteInv` |
| | `RequestImplementsDelete`, `RequestDeletesOnce`, `ClientIsToldTheTruth`, `LogIsFaithful`, `RenewedTokenReachesClient` | refinement, `RequestInv` |
| | `AnonymousNeverDeletes` | `RequestInv`, `AccessInv` |
| `DumpProofs` | `WalkTypeCorrect`, `DumpIsClosed`, `DumpIsMinimal`, `ExclusionHolds` | `WalkInv` |
| | `DumpImplementsWalk`, `WrittenSelectionIsLeast`, `FailureKeepsPrevious` | refinement, `FileInv` |
| | `DumpIsAllOrNothing`, `SequencesMoved` | `ScriptInv` |
| `LifecycleProofs` | `NothingRunning`, `NoneCut`, `ZeroMeansGraceful` | `LifecycleInv` |
| `MigratorProofs` | `TableNameIsCurrent` | `TypeInv` |
| | `TablesTellTheTruth`, `SlicesAlwaysApply`, `UpLeavesNothing` (if `MaxHeld = 1`) | `MigratorInv` |
| `ScaffoldProofs` | `CommandsWellTyped`, `NothingTwice`, `NamedSlicesExist`, `ShapesFit`, `ReportIsComplete` | `ScaffoldType`, `SliceInv`, `TraitsFit`, `Reported` |
| `PreCommitProofs` | `CommandsKeepTypes`, `PassIsEarned`, `ReportNamesAll`, `FixIsThorough`, `HookGuardsCommits` (if `TextAlgorithms(Seq(Byte))`) | `PreCommitInv` |

They hold for every value of the constants that satisfies the named
assumptions: `OutboxAssumption` (a finite set of numbered events, finitely many
relays, a positive limit), `SubscribedAssumption` (subscriptions are to events),
`UnitOfWorkAssumption` (a pool of at least one connection, depth at least one),
`DumpWalkAssumption` (every row has a table, links respect the schema),
`DumpScriptAssumption` (every table is in the order), `DeleteAssumption`
(invalid ids are ids, `Nobody` is no request), `LifecycleAssumption` (tracked
requests are requests, `NoModule` is no module), `MigratorAssumption` (`None` is
no schema, the time zone is a number, the clock can show its first second),
`ScaffoldAssumption` (bounds are numbers), `PreCommitAssumption` (finitely many
files, each of a kind, contents are texts with flaws). None assumes a number of
replicas, requests, modules, tables, rows or files, and the bounds on faults,
calls, runs and edits are any numbers.

Four results need a hypothesis of their own, which their statements carry:

* `StampsIncrease`: later events of an aggregate have later timestamps. The
  SELECT has no other key; `outbox_ties` shows that equal ones break the order.
* `~NestedDeadlines`: the calls of a request share one context. `uow_deadline`
  shows what a nested deadline does.
* `MaxHeld = 1`: a process holds one migrator, as the generated `migrate`
  command and a module's `Migrate` do. `migrator_shared` shows the contrary.
* `TextAlgorithms(Seq(Byte))`: the scan finds exactly the lines that end with
  blanks, the fix writes a text of which at most the size is reported. These
  are recursions over a text, which the prover cannot do induction on; TLC
  evaluates the same formula on all short texts at the start of `precommit`,
  and the algorithms look at one line at a time.

The inductive invariants:

* `OutboxInv` adds to the stated invariants that a relay has sent only rows it
  holds locked. Without it, `CopiesAccounted` is not inductive: marking a batch
  moves exactly the copies in flight of this relay to "published", and one
  needs exclusion to know that no other relay has them in flight too. The
  refinement uses it for `Acknowledge` (a marked row was delivered) and for
  `Deliver` (a locked row is committed).
* `FlowInv` is `FlowAccounted` with the type of `inbox`: only the two publishing
  actions change `copies`, and they enqueue what they count. That consumers see
  committed events only follows from it and `NoDualWrite` by the refinement.
* `OrderInv` says that a command is committed as a whole, that only a deployed
  replica's process holds locks, and that a sole replica which has locked an
  event has the earlier ones of its command and aggregate locked too, unless
  the bus has seen them or a SELECT went past them (`skipped`). The last is
  what a batch cut by `LIMIT` must keep: the earlier timestamps come first, so
  a cut never separates the later event from a pending earlier one. Exclusion
  between replicas is not enough for it, which is why `CommandOrderKept` speaks
  of one replica.
* `UnitOfWorkInv` relates the program's stack to the server's layers: a frame's
  savepoint lies within the layers and above that of the frame below, what a
  frame believes it wrote is in the layers between its savepoint and the next
  frame's, no write is in two layers or on two connections, and nothing of an
  open transaction is durable. Releasing, rolling back to and leaving a
  savepoint behind keep it; COMMIT then finds all that was promised. `FailInv`
  adds that the contexts of a request end together and that the server can hold
  a write of a failed call only above the innermost frame's savepoint in a
  transaction that is in the failed state, so that it can only be rolled back;
  and of the work of a root COMMIT that returned an error, all or nothing is
  durable.
* `DeleteInv` says that a request past its DELETE holds the row's lock and the
  row is still stored. It is what keeps the second of two requests from adding
  a second event.
* `RequestInv` ties the two records of a response together (`rw` has been
  written exactly when a status was sent, and it is the same), says that a
  request in a transaction has a user and has not answered, and that only the
  outcomes `ok` and `failed` may have committed. `AccessInv` adds that whoever
  reached the handler of a guarded module was allowed to. A 200 is then an
  `ok`, and the rest is `AtMostOneWinner` of the command.
* `WalkInv` says of the rows already settled that everything they must bring
  along is selected, and of every closed set containing the expanded seeds that
  it contains the selection. The first gives closure once no work is left, the
  second minimality. Both refer to the snapshot, so concurrent writes are
  stutters.
* `FileInv` says that the temporary file does not exist before it is created
  nor after a success, and that the output is the previous one until the rename.
* `ScriptInv` says that what was handed to the writer, and what reached stdout,
  is a beginning (`Part`) of the one script the finished selection has, and
  that all of it was flushed before the rename. Only the last statement
  commits, so a beginning either is the script or loads nothing; the script's
  COPY blocks together hold exactly the selection, and every setval follows
  them all, so that it sees each row whose column draws from its sequence.
* `LifecycleInv` says what each phase of `main` may rely on (nothing is started
  before the pool is open; on the way out either nothing was started or every
  module has ended), that a server past its select has no listener, and that a
  module which ended without an error left no tracked request. Exit code 0
  then follows back through the two errgroups to each server's `Shutdown`.
* `MigratorInv` says that with one migrator goose's file system and table name
  are those of the same schema, that a table holds scripts of its schema, each
  version once, and what the database holds (`TablesMatch`), that slices'
  scripts have versions of their own and are recorded or newer than everything
  recorded, and that a recorded slice's script came after older ones only. The
  last keeps the one before it inductive under `Down`, which undoes the row
  recorded last, not the newest: a slice's script that becomes pending again
  is still newer than all that stay recorded.
* `ScaffoldType` carries the list of snippets a command has yet to insert.
  `SliceInv` says that a command past its rendering has the slice whole,
  `TraitsFit` that the database it goes by is the module's, and `Reported` that
  what it no longer has to do is in place or on its report. `EnteredOnce` is
  about the files, and needs none of this: a repetition looks at the files too.
* `PreCommitInv` says of a pre-commit run under way that each fault of each
  target was reported by its checker or the checker is still in the list
  (`CheckInv`; YAML faults are excepted once yamllint broke off), of a hook that
  its targets are the staged files (`TargetInv`), of a fix that every target is
  settled or in the list (`FixInv`). All of it is about files that are not in
  `touched`, as an edit of the developer may spoil it.

Model-checked only: liveness (`EventuallyHandled`, `EveryCallBegins`,
`EveryRequestIsAnswered`, `DumpEnds`, `FailureEndsAll`, `SignalEndsAll`), which
is out of the prover's reach; what the text algorithms of the files check
compute (`TextAlgorithms`, `FixKeepsVisible`), which needs induction over a
text; and the four violations, which are counterexamples. Every other invariant
and action property of a passing run is stated by a theorem.

## 6. What is left out

* Payload encoding, trace identifiers, logging and metrics.
* Order of events across commands or across replicas: the code promises none.
* A row the bus refuses for ever, and a message no consumer can decode; there
  is no dead-letter path and the properties assume that faults stop.
* A broker in place of the in-process channel, which the template suggests for
  extracted modules: what survives a stop is then the broker's affair.
* Commands that call `Dispatch` more than once: the generated ones call it once.
* What an outer transaction can still do after a nested `fn` swallowed a
  statement's error: it stays in the failed state and its COMMIT fails, so no
  property about durable data is concerned.
* Foreign keys to tables owned by extensions: the dump never follows them.
* Overlapping seeds: a row an earlier seed took without its children is not
  expanded by a later one. The walk models it; no property says what it should
  do.
* `fsync` and media failure.
* `responseWriter.Flush`, which only streaming handlers call, and the statuses
  of gRPC and gRPC-Web, which answer 200 and put the code in trailers.
* Requests on kept-alive connections after `Accept` failed: the listener of
  Lifecycle has crashed by then, and `Start` returns its error.
* `migrate create` in the second of a slice's or seed's stamp: goose panics on
  two scripts of one version (`CollectPanics`). `SlicesNeverRefused` is about
  the scripts of slices among themselves and against what is recorded.
* A package of golangci-lint: all Go files are one, which any of them, its
  pattern or `./...` stands for.
* Panics outside request handlers, which end the process at once.
* `migrate fix` in a directory that holds scripts (it renames files), and Go
  migrations.
* `check lint` over every module of go.work and `check arch`: a loop over an
  external program's exit status.
* The text of templates and snippets, and whether generated code compiles.
* Gateway send: a remote call, then a publication without an outbox. The
  template documents at-most-once, and nothing but these two calls is there.
* Configuration, architecture tests, workspace, test and version commands,
  logging and OS helpers: sequential, without state that outlives a call.
* The libraries' own code. pgx, pgxpool, errgroup, watermill, goose, goplt,
  bufio, net/http and x/net's h2c are not in the repository; their steps state
  documented behaviour and were not compared with their sources. `uow_deadline`
  rests on what pgx does with a nested transaction, `lifecycle_h2c` on h2c
  hijacking connections, `migrator_shared` on goose's package-level settings: a
  test against the pinned versions would confirm them.
