# A verification of Tengu

TLA+ modules of [Tengu](../src/README.md), a wallet for several chains written in
Qt and C++, with the TLC configurations that check them and the TLAPS proofs
about them. Paths below are relative to the repository, where the program lives
under `src/src/`.

- [The program](#the-program): components, state, operations, what is hard
- [The modules](#the-modules): which module models what, and how it corresponds to the code
- [The runs](#the-runs): questions, bounds, fairness
- [The proofs](#the-proofs): theorems, assumptions, inductive invariants
- [What the models found](#what-the-models-found)
- [What is not modelled](#what-is-not-modelled) and [what could follow](#what-could-follow)

## The program

Tengu is a desktop program with one GUI thread, on which Qt's event loop runs
slots, timers and QCoro coroutines one after another, and a library of data
clients, of which some run on the event loop and some have threads of their own.
`Main.cpp` starts one instance (RunGuard), builds the managers (GlobalManager),
opens `tengu.db` and shows the windows.

| Component | State it keeps | Operations | Interacts through | What is hard | What makes it correct |
|---|---|---|---|---|---|
| `Utils/RunGuard`, `Main` | a shared memory segment, two system semaphores, both outliving the process | construct, `tryToRun`, `release` | the operating system; several processes | every look is a critical section of its own; kills | one instance; no refusal without one; no hang |
| `Forms/WalletDock`, `Wallets/Monitor`, `SettingManager` | the card's record, the watched address, a timer, requests under way, `config.toml` | select, remove, edit, refresh, answer, start, quit | signals of the database; the network | late answers; removals and edits elsewhere; a file written at the exit only, or not at all | card, monitor, timer and database agree; the file falls behind only if it was not written; a wrong balance does not stay |
| `Databases`, wallet forms | tables `wallets` and `addresses`; each form's copy of a record | create, rename, delete | SQLite; signals to the dock | failing statements, exceptions out of slots, kills between statements | a wallet has an address; names are distinct; nothing goes unasked |
| address forms, `AddressManager`, `AddressListWidget` | the table, and two copies of it | add (derived or typed), edit, delete, reopen | modal dialogs that share a manager | copies that fall behind; a rolled-back transaction | indices are unique; what is shown is stored and the other way round |
| `Hydra/WebSocketDataSource` | a socket, three timers, single shots, a list, a batch, prices | start, stop, set list; socket signals | network, Hydra's hub | two paths schedule reconnects, nothing cancels them | quiet when stopped; reconnects; true to its list |
| `Hydra/PriceDataSource` (and weather, block hash) | a timer, updates under way, a list, prices | start, stop, set list; replies | network, Hydra's hub | updates overtake each other and outlive a stop and a list | only prices of this list; converges |
| `gRPC/Core/StorageManager` | a queue, a flag, a stop token, RocksDB, statistics | store, get, back up, stop | worker thread; callers' threads | wakeups, the order of stop, failed writes, kills | a FIFO mailbox that ends; database and backups follow it |
| `gRPC/Core/FilterManager` | filters, hits, a mutex | add, remove, process a batch | `std::async` tasks within tasks, called by the workers below | a lock held while waiting | batches return |
| `gRPC/Core/DataSourceManager` (geyser) | per source a thread, a completion queue, a call, a batch, a flag; the map of sources | add, remove, health check, destructor; start, receive, stop | gRPC threads, the GUI thread, FilterManager, StorageManager | stop against pending calls; a failed call; an exception while a batch is handed over | nothing stored twice; what stop() and the health check lead to is known |
| `DatabaseContext` | the version, the schema and the rows of `tengu.db`, `db_backups` | back up (two ways), clean up, sync the schema, migrate, reset | SQLite through sqlite_orm, a backup thread, a nested event loop | no transaction around a rewrite; kills, failures, a newer release | the application finds its schema; what a rewrite loses is in a backup; it ends, and is not done twice |
| `Transaction/Solana` | a builder: instructions, payer, block hash | add, set, build, sign, serialise | libsodium, base58 | roles by position; casts to a byte; several signers | what the network reads is what was asked for |
| `gRPC/Core/NotificationManager` | a queue, plugins | notify, add, remove | worker thread | a plugin removed while a notification for it is queued | a task's plugin exists |
| `gRPC/HTTP/HttpServer` | routes, threads | start, stop, add a route | threads of asio | routes changed while served | a request sees a whole table |
| `Utils/AutoUpdater` | a version, a temporary file | check, download, install | network, file system | — | an installed file is whole |
| chain wallets, key derivation, Bitcoin transactions, encryption | none that lasts | pure functions | libraries | big numbers | agree with their standards |
| widgets, layouts, themes, scripting, configuration, metrics | geometry, views | painting, wrapping | Qt | — | — |

The gRPC core is a library of the same repository: the wallet's windows do not
instantiate it, `Tests/Test_gRPC.cpp` does. Hydra is used by the dock, the
global manager and `Tests/Test_Monitor.cpp`; the updater only by
`Tests/Test_QCoro.cpp`, and the Solana transactions by
`Tests/Test_Solana_Transaction.cpp`. Vendored and generated code (`src/src/3rd`,
`pkg/izanagi`, `pkg/geyser`, `tests/deps`, `tools/t2d/3rd`) and the separate
programs (`tests/pools`, `pkg/price-fetcher`, `pkg/random-splash`, `pkg/sol`)
are outside.

What a test of this code hardly reaches, line by line, is the list `hazards` of
`PROJECT.json`; each names the properties that are about it.

## The modules

```
TaskQueue  <--- implements --- TaskWorker <--- EXTENDS --- StorageWorker
(abstract)                     (thread)                    (RocksDB, restarts)

RunGuard     BalanceMonitor     WalletStore     AddressBook     (the wallet)
WebSocketSource     PriceSource                                 (Hydra)
DatabaseUpgrade     SolanaMessage                               (database, transactions)
DataSources --- EXTENDS ---> FilterManager                      (gRPC core)
```

`X` is the specification, `MCX` gives its constants values, `MCX.cfg` checks
it. The theorems about X are in `XProofs`, or beside those of a module it works
with: StorageWorkerProofs has those of TaskWorker and StorageWorker,
DataSourcesProofs those of FilterManager and DataSources, PollingProofs those of
BalanceMonitor and PriceSource, WalletProofs those of WalletStore and
AddressBook. An action stands for a whole handler, or
for as much of it as runs without being interrupted: a slot, a coroutine's
stretch between two `co_await`s, a critical section, a statement of SQLite, a
step of one thread. Definitions that model code are listed with their lines
under `map` of `PROJECT.json`. Beside some actions stands a mutant of it, the
action with a plausible mistake; none is part of a specification, and each is
there to show that a property notices it. Variables marked "history" remember
what happened for a property; no guard reads them but to bound the instance.

**TaskQueue, TaskWorker.** `StorageWorker` of `StorageManager.cpp`: `tasks_`,
`shouldRun_` and the stop token; `pc` is where the thread is. What a mutex
guards is one action (`Enqueue`, `SetFlag`, `MayProceed` and `Pop`, `Sleep`);
the test of the token, `request_stop()` and `join()`, which it does not guard,
are actions of their own; a wakeup may be spurious. `front()` of an empty queue
yields `Undefined`. TaskQueue is what the worker promises: tasks are taken once
and in order, a task is taken unless the worker ends, and a closed worker ends.

**StorageWorker.** TaskWorker with tasks of the three kinds, the database as the
sequence of batches that were written, backups, and the counters. A write may
fail, the process may be killed between any two steps, and `Reopen` starts the
next one on what is on disk. Optimising the database and the data race on the
two counters, which are only shown, are left out. `BackupHoldsEarlierBatches`
counts from the first request for a directory: one that is asked for again, and
whose second backup holds more, is held to no more than its first.

**RunGuard.** A process is at one of the three critical sections of a start, or
runs, or is on its way out; `holder` is who has `memLock_`, and `exists` and
`attached` are the shared memory. Under Unix a killed process leaves the segment
and gives back the semaphore; under Windows it is the other way round
(`unix` says which, for the whole behaviour).

**BalanceMonitor.** `stored` and `text` are the address rows, `card` is the
UserCard's record, a copy of a row (`Entry`), `settings` the one in
`config.toml`; `watched`, `timerOn` and the outstanding fetches are the
monitor's, and `display` is what the ValueCard shows. A removal and an edit of an
address change the row and, in the slot that hears of it, the copy and the
monitor. The address itself can change in the form of a smart wallet only, which
takes what it can check and what no row of the wallet holds (`MayHold`). The file
is written at the exit, by the last destructor (`Written`); it keeps what it had,
or is left empty, if it cannot be opened or if the process is killed
(`NotWritten`). `changed` and `lost` are history: whether this run changed the
row that the file names, and whether a run that did so did not write the file. An
answer carries the address it was asked for, comes in any order, and is shown
whatever is watched by then, as in the code.

**WalletStore.** The committed rows of both tables, and what is open on top: the
transaction of a creating form (`creating`), the record of an update form
(`record`), the removal between its two statements (`removing`). An exception
that no slot catches ends the process, as does a kill, and what was not
committed is gone. A name stands for its hash; a record has both, because the
code has both and they can differ.

**AddressBook.** The rows of one wallet, and the two copies that the update form
keeps of them: `manager` (AddressManager, which chooses the next index and finds
duplicates) and `view` (the list model), and `added`, the `addresses_` of the
dialog for smart wallets. `smart` tells which form the wallet has. A failing
transaction gives back the rows, and not the copies.

**WebSocketSource.** The states of a QWebSocket, the three timers, the number of
single shots to come, and the sets of symbols that are on the list, subscribed,
pending and published. `open()` replaces whatever the socket was without a
signal. The delay between attempts is left out: a shot comes at any time.

**PriceSource.** Each update under way is in a slot with the list it asked for,
its try, and what it awaits. A reply is read with the list of then, and holds the
prices of the tickers the server knows (`known`), which changes as the network
does.

**FilterManager.** The mutex with its holder, a task per transaction of each
calling thread, and a job per task and filter. A filter throws or returns. Its
callers are the sources of DataSources, with which it is checked; on its own it
is the specification that DataSourcesProofs shows the composition to keep.

**DataSources.** The composition of three actors: each source's thread, which
creates its queue, connects, calls, and reads; the FilterManager's tasks and
jobs; and the GUI thread, which adds, removes and checks the sources with the
manager's mutex locked, so that it does one thing at a time (`gui`). `stop()` is
its three steps, since the worker runs between them. Of gRPC it has what the
code relies on: the operation that was posted is delivered some time, with `ok`
or not, and posting to a queue that was shut down ends the process with a failed
assertion. What the health check does after its `erase`, reading an iterator
that may be the end and locking its own mutex, is the choice between the two
outcomes: the process dies or hangs. A batch is the bound `Size` in place of 100;
`stored` records which transactions `storeBatch` was given.

**DatabaseUpgrade.** The constructor of DatabaseContext, one action per
statement that reaches the disk. `rows` and `shape` are the rows of the tables
`addresses` and `wallets` and the release whose columns they have, `version` the
row of `migration`, `backups` the files in `db_backups`. How a table of one release differs
from that of another is a constant (`Change`), in the three ways that
`schema_status` of sqlite_orm tells apart; what it does then is translated
from the vendored header, since it is what decides about the rows. The backup
thread and the loop that waits for it are separate: a signal that comes before
`exec()` is lost. `End` may come anywhere, between the statements of `Reset` too. `lost`, `pushed`, `exposed` and `done`
are history.

**SolanaMessage.** `build()` as operators on the sequence of instructions that a
TransactionBuilder was given: the map of accounts with its merged roles, the
sorted list, the header, the indices; then `serialize()`, an element for each
byte, key or field. The other half is the reference: how the network reads a
transaction's bytes and takes roles from positions (marked external). Keys are
numbered in the order of their base58 strings; that of the system program is the
least there is. The run gives a byte 3 values instead of 256 and a group of the
compact lengths 2 instead of 128, so that both limits are met by small messages;
the properties say what holds on either side of them. `HeaderFits` is that the
counts of the header fit into a byte, `WithinAByte` that a position does.

## The runs

Twelve runs; eleven must pass and one must find the violation it describes.
All of them are complete searches. `tlc -config X.cfg MCX` repeats one.

| Run | Question | Bounds | States |
|---|---|---|---|
| `task_queue` | Does the worker thread implement its mailbox, wake whenever it has to, and end? | 2 kinds of tasks, 4 tasks | 1,388 |
| `storage` | Do the database, the counters and the backups follow the queue, through failures, kills and a restart? | 2 batches, 1 key, 1 directory, 3 tasks a session, 2 sessions | 217,400 |
| `run_guard` | One instance, justified refusals, and (Unix) no hang, for any kills? | 3 processes, 2 starts each, both systems | 82,999 |
| `balance` | Do card, monitor, timer and database agree, when does the file fall behind, and does a stale balance go away? | 2 wallets of which one is smart, 3 addresses, 2 chains of which one has a handler, 3 fetches | 59,170 |
| `websocket` | Is a stopped source quiet, a running one never forgotten, its list subscribed, and does it reconnect? | 2 symbols, 3 attempts, 3 shots | 11,744 |
| `prices` | Which prices are kept when updates overtake each other, and do they converge? | 2 tickers of which the server knows any, 2 updates under way, 2 tries, 2 shots | 154,992 |
| `data_sources` | What becomes of batches, of `stop()`, and of a lost connection? | 2 sources with 3 and 2 transactions and 2 and 1 calls, batches of 2, 2 filters of which one throws | 569,860 |
| `database` | Which schema does an application find, what may an upgrade lose, when is it repeated, and does it end? | 3 releases of which the migrations know 2, 1 wallet with an address, 2 backups, 5 starts, both kinds of backup | 112,250 |
| `solana_message` | Is what the network reads what was asked for? | 3 of 5 instructions, 6 keys of which 2 can pay | 3,280 |
| `wallets` | Do the tables keep their rules through failures and kills between statements? | 3 ids, 3 names, 2 keys, 2 addresses a wallet | 10,615 |
| `wallet_refusal` | *(violation)* Is a refused name harmless? | the same | — |
| `addresses` | Do the copies of the address table agree with it? | 3 rows, 4 ids, 3 names, 3 addresses, both kinds of wallets | 338,955 |

The type invariant of a module is a theorem (`TypeCorrect`, `StorageTypeCorrect`,
`PriceTypes`, `BookTypes`, `SourcesTypeCorrect`, `BuilderTypes`) and is not run
again.

**Why the bounds are enough.** Every bound is on a number that only has to be
large enough for the interesting case: two tasks in a queue while a third is
processed and `stop()` runs; a killed instance beside one that starts and one
that is refused; two addresses on a chain with a handler, so that an answer for
one arrives under the other, and a third on a chain without; two updates, so
that one overtakes, with a second try after which an update gives up (the code
has three, and its loop treats all but the last alike); a deleted address between two others, whose index is used
again. `MaxShots` cuts a source off that schedules ever more reconnects: three
reach both double scheduling and the exhaustion of the attempts. The theorems
below hold without bounds of the instance, for all that they cover. Symmetry is
used in `wallets` and `wallet_refusal` only, which check no liveness. In
`database`, one release alters `wallets`, so that dropping it cascades, and the
next adds a column to `addresses` and is not known to the migrations; five
starts are enough for an interrupted upgrade to push the only good backup out of
two. In `data_sources`, a source with three transactions has a batch and a
half, one with two calls has lost one, and the other source's batch meets the
lock.

**Deadlock** is checked except where the system may stop: a worker that was
joined, processes that used up their starts, a database whose starts are used
up, and the sources, where a process that has died or waits for its own lock is
the point.

**Fairness.** Safety needs none. Where a run checks liveness, weak fairness is
given to what the program's own scheduling performs, and never to users, the
network, kills, or failures:

- a runnable thread runs: the worker's steps, and the rest of a `stop()` that
  has begun (`task_queue`); the steps of a process (`run_guard`);
- an active timer fires and a posted shot is delivered, since Qt's event loop
  runs (`balance`, `websocket`, `prices`); a request ends, as every one has a
  timeout (`Answer`, `Resume`), and a socket reports how an attempt ends
  (`Signal`);
- the threads of the filters, and the one that waits for them, run
  (`data_sources`); nothing is assumed of the network or of the GUI thread;
- the GUI thread gets on with a constructor, the backup thread with its copy,
  and the single shot of 30 seconds fires (`database`). A step that fails ends
  the process, which `StartupEnds` allows for.

Liveness is stated under what the environment has to do: `Settles` and
`Converges` say what follows if the user leaves a choice alone and the server
answers, with prices of the same tickers each time; `Reconnects` if the server stays reachable and an attempt at it takes
less than the timeouts (`Timely`), and it leaves open that the attempts are used
up, after which the source gives up, as the code does.

**Mutants.** Each property is violated in its run by at least one of the
mutated actions (`mutants` of `PROJECT.json`).

## The proofs

Every safety property that a run checks, invariants and action properties alike,
is also a theorem, for any values of the constants. `tlapm XProofs.tla` checks
them; nothing is assumed but the `ASSUME`s of each module, which say what its
constants are (a task is not the mark for "no task", a maximum is a positive
number, the addresses of one wallet are on one chain, the system program is the
least key) and which TLC evaluates in every run. For the modules that have one,
the theorems are about the specification without fairness, of which the fair one
is a special case. Every invariance proof has the same three parts: what holds
initially, a step per action, and the theorems that follow from `[]Inv`.

- **TaskWorker** (StorageWorkerProofs). `FrontIsDefined` is not inductive: it
  holds because `stop()` clears the flag before it sets the token, and because a
  worker that was woken without a task then breaks. `StopOrder` says so. `Split`
  is the pointwise form of "taken, then queued" that the prover can work with;
  lemmas on `Append` and `Tail` carry it over a push and a pop. `MailboxSafety`
  is the refinement: each step of the worker is a step of TaskQueue or leaves it
  alone.
- **StorageWorker** (StorageWorkerProofs). `StoreFollowsQueue` relates three
  things that change at different moments: the tasks that were taken, the
  database, and the two counters. `DbFollowsQueue` says which write of this
  session is of which task, by counting, so that a step only appends to what it
  says; `CountersFollowDb` says that the counters are those of the writes, but
  for a batch that is written and not yet counted. They are inductive with
  `AtWork`, that the task under way is the last one taken and has not failed.
  The number of stored transactions is a fold over sizes; the lemmas before it
  say what the fold becomes when a batch is appended. `BackupsAreComplete` is an
  action property and adds `Split`: what was queued before the backup was taken
  before it.
- **RunGuardProofs.** One instance, for any number of processes, because whoever
  is attached is an owner or holds the semaphore at the moment (`Attachment`);
  a refusal has a witness because the constructor has removed a segment nobody
  is attached to, so one that is found later was created by an owner that the
  process has seen (`Witnessed`). Both systems are covered at once.
- **BalanceMonitor** (PollingProofs). The invariants of the run are inductive
  together with the types and the fact that a closed program has changed
  nothing: `OutdatedOnlyIfLost` needs it at the start, where the card becomes
  what the file holds. The work is in `ChangeAddressIsSafe` and `RefreshIsSafe`,
  one for each way into the monitor, and in a lemma for each slot of the dock,
  which shows that the card stays a copy of its row or was none before.
- **PriceSource** (PollingProofs). `PricesAreSound` is inductive with the types
  (`PriceInv`), for any number of updates that overtake one another: a reply
  cannot bring back a ticker that left the list, as it is read with the list of
  then.
- **WebSocketSourceProofs.** `NeverForgotten` is not inductive: a scheduled shot
  may find the attempts used up. `Lifeline` adds what excludes that: a source
  that lost its connection has its first of ten attempts to come, as `connected`
  cleared the counter.
- **FilterManager** (DataSourcesProofs). Jobs are only under way inside their
  task's wait (`JobsAreInside`), so a job that wants the mutex finds it held by
  the task that waits for it, and none is ever counted. `LockedForGood` is the
  deadlock as a safety property: once a filter has returned, the mutex never
  changes hands again.
- **DataSources** (DataSourcesProofs). First, the composition is a FilterManager
  (`UsesFilterManager`: every step is one of its steps or leaves it alone), so
  the theorems above hold with the sources that call it. `ThreadInv` then says
  what a thread has outstanding, and that its counters add up. Three theorems are
  about the future, as action properties: a worker whose queue was shut down at
  the wrong moment is never removed (`StopNeverReturns`), one that lost its
  connection stays unhealthy until it goes or the program does
  (`NeverHealthyAgain`), and a batch beside a filter that returned never comes
  back (`BatchesNeverReturn`, by `LockedForGood`).
- **DatabaseUpgradeProofs.** `VInv` is about the version: a table has the shape
  of the release once `sync_schema` is past it, and the version is only recorded
  behind both tables. `HInv` is about the rows: unless one of the exceptions
  holds, every row that is lost is in one of the first `pushed + 1` files, and
  while the tables are rewritten the newest file has what they hold and what
  was copied aside. `CleanupCovers` says that the files that are left are enough
  while `pushed` is less than their number.
- **WalletStore** (WalletProofs). `FormsAgree` connects the forms with the
  tables: one form at a time, a creating transaction whose id, name and key are
  not in the tables, and an update form whose hash is that of its name or one
  the unique index would refuse. The last is why names stay distinct although a
  refused name leaves its hash in the record.
- **AddressBook** (WalletProofs). There are three copies of a wallet's
  addresses. `BookInv` has, beside the types, that the table is never empty;
  that an open form's list has every row of the table, and nothing with the id
  of the first but the first (`Opened`), not even what a failed transaction
  left: this is why the one row that cannot be deleted is the right one; and,
  for a mnemonic's wallet, that the list is the table and the manager knows
  every index in use (`Plain`), which is why the next index is free and
  `IndicesAreUnique`, itself a part, is kept.
- **SolanaMessageProofs.** There is nothing to maintain here, the state is what
  was last built; the theorems are about what `build()` computes. `HasRoles`
  says what the fold over all accounts yields: the keys, and for each the union
  of the roles it was given, in whatever order it was met. A list is sorted by
  rank, from which `SortedFacts` gets that it has every key once, in order, and
  `FirstPositions` that a set fills the first positions exactly if it is below
  the rest, which is what the header presumes of the writable accounts. For the
  bytes, `Grouped` ties the groups of a compact number to what they stand for,
  `At` says where a sequence stands in another, and each reader is shown to
  return what stands at its cursor and to leave the cursor behind it
  (`ReadsNumber`, `ReadsSeq`, `ReadsInstruction`, `ReadsInstructions`,
  `ReadsTransaction`).

Recursion over numbers and sequences (folds, `FlattenSeq`, `Compact`, the
readers) is proved about in three steps: an equation that a solution satisfies
(`IsCompact`), a solution for every length by induction, and uniqueness where a
reader chooses one. Induction is `Induction`, or `Least` for a least
counterexample; both speak of the set of numbers for which something holds,
since the prover cannot instantiate the library's induction theorems, and are
derived from its theorem on well-founded relations.

Only model-checked: everything under fairness (`StopReturns`, `StartIsDecided`,
`Settles`, `Reconnects`, `Converges`, `BatchesComeBack`, `StartupEnds`, and the
liveness half of `ImplementsTaskQueue`), which the proof system cannot state.
No module uses a RECURSIVE operator.

## What the models found

1. **A refused name can end the program** (`wallet_refusal`).
   `UpdateWalletForm::ok` keeps the hash of a refused name in its record; if the
   user then restores the old name and changes the description, the update
   violates the unique index, throws, and nothing catches it.

The others have no run that fails; passing properties and theorems say exactly
where they begin and end.

2. **`processBatch` never returns** (`StuckForGood`, `BatchesComeBack`).
   `processTransaction` locks `mutex_` and waits for jobs that lock `mutex_`
   (`FilterManager.cpp:89-108`). It works only as long as every filter throws,
   or there is none; otherwise every source stops at its next batch.
3. **A source that loses its connection is lost** (`UnhealthyToTheEnd`). It calls
   again and receives, but `connected_` stays false; the health check erases it,
   reads the iterator behind it and locks a mutex it holds
   (`DataSourceManager.cpp:96-108`).
4. **`stop()` works at one place only** (`NoWayOut`). The queue is shut down
   before the stop is requested, and `Shutdown` waits for the operation that is
   always outstanding: a worker that is in `Next`, calling, or in a batch posts
   to a queue that was shut down, or is joined for ever.
5. **A batch whose processing throws is counted and gone** (`StoredOnce`): stored
   at most once, counted always (`DataSourceManager.hpp:196-198, 244`).
6. **An upgrade can lose rows** (`LossIsInABackup`). sqlite_orm rewrites a table
   outside of any transaction, dropping `wallets` cascades to addresses that were
   already rewritten, and a new column that is NOT NULL without a default makes
   it recreate the table empty. The backup is what remains, and the property
   lists the three ways in which there is none: it failed, and the upgrade goes
   on (an empty file counts as completed, as `backup_to` drops SQLite's answer);
   the version was 0; or an upgrade that is interrupted again and again
   has pushed it out with copies of what was already lost.
7. **A `targetVersion` above 2 is never reached** (`UpgradesOnce`):
   `applyMigrations` has to be extended with it, or every start upgrades.
8. **The roles of a Solana message depend on luck** (`RolesIffOrdered`,
   `TransferMarksTheProgram`, `AcceptedIffAlone`). Read-only accounts are not
   sorted behind the writable ones, which the header presumes: a plain transfer
   asks for a writable system program and a read-only recipient. Only one
   signature is ever made (`multiSign` is a TODO), and the payer need not be the
   first account. The two instructions of `createTokenWithATA` are modelled as
   they are: the mint is not created and does not sign, and the token account is
   asked for with data 17 from the token program.
9. **A smart wallet can hold an address twice**
   (`UpdateSmartWalletForm.cpp:263`). Its addresses all have index 0, so a
   deletion empties the manager that the dialog looks for duplicates in, and an
   edit does not reach it. AddressBook has the behaviours; its properties do not
   forbid them.
10. **A `config.toml` that was not written shows a removed address**
   (`OutdatedOnlyIfLost`). The dock's record is written when the program exits
   and only then, over the old file; `writeSettings` logs a failure, which
   nobody hears of (`SettingManager.cpp:244-248`). After that, or a kill, the next
   run starts with an address that was removed or edited meanwhile, without a
   look at the database, watches it, and writes it back at every orderly exit,
   until another is selected or this one is edited, or removed with its wallet. The property says that this is the only way to
   get there, and the run visits it.

Met on the way: after a failed transaction the dialog of a smart wallet keeps
what was rolled back (`NewSmartAddressForm.cpp:267`), so `ShownIsStored` holds
for wallets from a mnemonic only. `transactionRetrieved` is declared
(`StorageManager.hpp:54`) and never emitted, whatever the comment at
`StorageManager.cpp:174` says, so `Get` changes nothing.
`NotificationManager::addPlugin` reads a plugin it has moved from
(`NotificationManager.cpp:267`), and a queued notification holds a pointer to a
plugin that `removePlugin` may have erased (289, 274). `findProgramAddress`
(`Transaction.cpp:89`) asks libsodium whether a point is in the main subgroup,
where the network asks whether it is on the curve, and may settle on another bump.
`HttpServer` starts its threads before its last route (160) and writes a response
that is gone (96). The scheduled backups count their interval from each start of
the program and ignore the one they are given (`Database.cpp:562-612`).

What might have gone wrong and does not: the worker of StorageManager loses no
wakeup, although `stop()` touches the flag and the token at different moments;
RunGuard's two separate looks at the segment admit no second instance, as
`create()` decides; a price of an old list is never kept, as a reply is filtered
by the list of now; a WebSocket that is reconnected twice ends up connected once.

## What is not modelled

- **Data.** Prices, balances and texts are present or absent; hashes are the
  names they are of; keys and addresses are values that are equal or not. What
  JSON says, how a mnemonic derives a key, and what encryption yields is left
  to libraries.
- **Real time.** Timers and timeouts happen at any time after they are set.
- **Descriptions, labels, layouts, logging**, and getters that change nothing.
- **External parts** are modelled from their use and marked so: Qt's shared
  memory, semaphores, sockets and timers, the condition variable, SQLite's
  transactions, RocksDB's write, the network, and the operating system that
  kills processes.
- **Whole components** with status `not_modelled` in `PROJECT.json`, each with
  its reason: views and geometry; wrappers of libraries, among them all
  cryptography; and code that nothing but a test runs and whose faults are
  lifetimes or data races rather than orders of steps.
- **Most of the repository's lines** are vendored or generated (`src/src/3rd`,
  `src/pkg`); of those, only the parts of sqlite_orm that rewrite a table are
  modelled. The share of lines that `map` covers is small for that reason.

## What could follow

The twelve runs cover the parts in which state, order and failure matter, and
their safety is proved. Next would be the scheduled backups over DatabaseUpgrade's
backup thread, once a configuration turns them on; the block hash source, once
something creates one; and NotificationManager as a second use of the mailbox of
TaskQueue.
