# A TLA+ model of Halfmoon

This directory models, checks and proves properties of the code in this
repository: the Halfmoon client library for stateful serverless functions
(`workloads/workflow/optimal/pkg/cayonlib`), the workloads and the benchmark
client that run on it, the demo, and the two libraries it is compared with.
Paths below are relative to the root of the repository; `optimal/`, `boki/` and
`beldi/` abbreviate the directories under `workloads/workflow/`.

Contents: [the system](#the-system), [the modules](#the-modules),
[the runs](#the-runs), [fairness](#fairness), [the proofs](#the-proofs),
[findings](#findings), [exceptions](#exceptions-that-properties-name),
[not modelled](#what-is-not-modelled), [plan](#plan).

## The system

Halfmoon runs functions with *exactly-once* semantics on a serverless platform
that may run one invocation (an **instance**) several times: again after a
crash, and several executions at once. Everything an instance must remember is
in a shared log, which gives sequence numbers over the whole log and
sub-streams by tag; its implementation (a git submodule) is not in the
repository. Data is in DynamoDB tables.

| component | state | operations | what makes it correct |
|---|---|---|---|
| **intent log** (`loglib.go`, `Call` and `wrapperInternal` in `controlflow.go`) | the stream `IntentStepStreamTag(instance)`; per execution an `Env` (step number, cursor `SeqNum`, instruction) and an `IntentFsm` | `Call`, `Catch`, `applyLog`, `ProposeNextStep`, return of the handler | one entry per step; every execution is told the same outcomes; the cursor depends on the step only; success only if every step was seen; an execution eventually succeeds |
| **reads and writes** (`dblib.go`) | items by key and version; a stream of published versions per key | `WriteWithLog` and `ReadWithoutLog` (LoggingMode write), `WriteWithoutLog` and `ReadWithLog` (LoggingMode read), `Scan` | a read has one outcome; versions are published once, after their data, and never change; newer writes stay; an instance reads its writes |
| **locks** (`twopl.go` 14-150) | a stream per lock; a `LockFsm` per call; a cache of them per container | `Lock`, `Unlock`, `catch`, `storeBackLockFsm` | mutual exclusion between transactions; replaying never panics; replicas agree |
| **transactions** (`twopl.go` 152-206, `TPLCommit`, `TPLAbort`) | a stream of transaction logs, `env.TxnId`, `env.Instruction` | `BeginTxn`, `TPLRead`, `TPLWrite`, `CommitTxn`, `AbortTxn` | writes appear everywhere or nowhere; no update is lost; locks are released; nobody waits for ever |
| **invocation** (`SyncInvoke`, `AsyncInvoke`, `LogStepResultForCaller`) | the caller's PreInvoke entry, which the callee overwrites with its result | invoke, return, overwrite, replay | only the logged callee runs, from the logged cursor; the caller gets one result; its success includes its callees |
| **mode switching** (`switching.go`) | both kinds of versions | `ReadWithMode`, `WriteWithMode`, `WriteInTransition` | values survive a switch |
| **switching client** (`optimal/benchmark/switching`) | bounded channels, sets of running and transitional requests | the driver loop, the workers, the HTTP client's timeout | no deadlock; logged reads and logged writes never run together |
| **retwis** (`optimal/internal/retwis/core`) | users, posts, timelines | `Post`, `Publish`, `GetTimeline` | whatever is in a timeline can be read; a post is delivered to every follower once |
| **media** (`optimal/internal/media/core`) | the request being composed with its counter, reviews, lists of reviews | `UploadReq`, the five uploads, `TryComposeAndUpload`, `StoreReview`, `UploadUserReview`, `UploadMovieReview`, `ReadPage` | a review is composed once it is complete, and stays in the lists; a page returns |
| **other workloads** (hotel, `rw`, `singleop`, `recovery`) | tables of the applications | handlers | the reservation of the hotel is a transaction; the others are clients that read and write |
| **table set-up** (`*/internal/*/init`, `utility.go`, the scripts that call them) | the tables of DynamoDB and their rows | `clean`, `create`, `populate` | creation ends; a request finds its row; nothing is left behind |
| **BokiFlow** (`boki/pkg/cayonlib`) | intent logs by unconditional appends | the same API | one outcome per step; an instance's view of a key does not go back |
| **Beldi** (`beldi/pkg/beldilib`) | a linked list of DynamoDB rows per key (the linked DAAL), a read log, an intent table | the same API; a garbage collector | a write takes effect once; no value is lost; locks exclude; transactions are atomic |
| **demo** (`demo/cmd`) | in-memory log and database | `HMRead`, `HMWrite`, `halfmoonInit` | a retried monitor repeats its first outcome |
| **log memory monitor** (`demo/metrics`) | a counter behind a mutex | HTTP handlers | |
| **logging layer, experiments, deployment** | | | |

How they interact. A handler calls reads, writes, locks and invocations; all of
them but the log-free ones go through `ProposeNextStep`, which moves
`env.StepNumber` and the cursor `env.SeqNum`. The cursor is the only thing that
log-free reads and writes and the callees of an invocation learn of the order
of the log. Locks bypass the intent log: they append to a stream of their own
and set the cursor directly; transactions keep their writes in a third stream
until they end. A workload is a set of functions that invoke each other and
share tables; its init program writes the rows that its functions, and the load
generator's requests, take for granted. The switching client changes the mode
of the functions while requests run.

What is hard: executions of one instance race at every step (conditional append
decides), die between any two steps, and are run again; an execution that lost
a step keeps running until its handler notices; log-free operations are
repeated at other times with the same cursor; caches are stale; goroutines of
one handler share its `Env`; a client that gives up leaves a function running;
three copies of every workload have to agree with three copies of the
library. The list of hazards, each at its line and with the properties that
cover it, is in `PROJECT.json`.

## The modules

| module | models | source |
|---|---|---|
| `IntentLog` | the intent step log and the life of an execution | `loglib.go` 14-146, `controlflow.go` 101-117, 380-464 |
| `ExactlyOnce` | what the intent log promises: outcomes decided once, in order; executions follow, or are told they are late | (abstract) |
| `ReadWrite` | reads and writes in both logging modes, EXTENDS `IntentLog` | `dblib.go` |
| `Invoke` | functions that invoke functions, EXTENDS `IntentLog` | `controlflow.go` 119-309, 410-439, `loglib.go` 52-79, 125-132 |
| `LockLog` | locks | `twopl.go` 14-150 |
| `LockService` | what the locks promise: one owner per lock, a grant only to its owner | (abstract) |
| `Txn` | transactions over the locks that `LockService` promises, driven by the hotel reservation | `twopl.go` 152-206, `controlflow.go`, `hotel/main/frontend`, `hotel`, `flight` |
| `Switching` | the driver of the switching benchmark, its function, reads and writes with a mode | `benchmark/switching`, `internal/switching/main`, `switching.go` |
| `Retwis` | posts and timelines | `internal/retwis/core` |
| `Media`, `Page` | composing and listing a review; the goroutines of `ReadPage` | `internal/media/core` |
| `Demo` | the in-memory log and database, the two monitors | `demo/cmd` |
| `Boki` | the intent log, reads, writes and invocations of BokiFlow | `boki/pkg/cayonlib` |
| `BeldiDAAL` | the linked DAAL of Beldi and its garbage collector | `beldi/pkg/beldilib/dblib.go`, `gc.go`, `twopl.go` |
| `BeldiTxn` | transactions of Beldi, its invocations and locks, driven by its hotel reservation | `beldi/pkg/beldilib/twopl.go`, `controlflow.go` 146-429, `beldi/internal/hotel/main` |
| `Setup`, `TableCommands` | the commands of an init program against tables that take time; what they are made of | `utility.go`, the mains of the init programs, the scripts |
| `HalfmoonTables`, `BokiTables`, `BeldiTables` | the 24 init programs, and what the functions of each workload use | `*/internal/*/init`, `*/pkg/*/utility.go` |
| `IntentLog_proofs`, `ReadWrite_proofs`, `Invoke_proofs`, `BeldiDAAL_proofs`, `Switching_proofs` | theorems about the module of that name, which they extend | |
| `Txn_proofs` | theorems about `LockLog` and `Txn`, which use nothing of each other | |
| `Libraries_proofs` | theorems about `BeldiTxn`, `Boki` and `Setup`, which use nothing of each other | |
| `Workloads_proofs` | theorems about `Retwis`, `Media`, `Page` and `Demo` | |
| `MCIntentLog`, `MCReadWrite`, `MCInvoke`, `MCRetwis` | instances of one module for TLC | |
| `MCLockLog`, `MCLibraries`, `MCWorkloads` | instances of several modules in one run (see [the runs](#the-runs)) | |

**IntentLog.** `stream[i]` is the stream of instance `i`, `env[e]`, `fsm[e]`
and `pc[e]` are the `Env`, the `IntentFsm` and the control point of execution
`e`; `seen[e]` is a history of what `ProposeNextStep` returned to the handler.
`Call` makes a fresh `Env` and `IntentFsm`; `CatchNext` is one round of the
loop in `Catch`, so that other executions append between two rounds;
`ReplayStep`, `AppendStep` and `LoseStep` are the three ways through
`ProposeNextStep`, and `AppendPanic` is the panic in `applyLog` after a
successful append. A handler is any sequence of `NumSteps` proposals with any
data: a proposal that is repeated may carry other data, as a read of the clock
or of a table does. `ChecksExit` says whether the handler looks at
`env.Instruction` after a step (those of `media` do, those of `singleop`, `rw`
and `retwis` do not). The process of an execution and the platform that
restarts it are `Crash` and another `Call`. The step that only a root instance
proposes in `wrapperInternal`, and whose loss it checks itself, is step 0 when
`CallSeqNum = 0` (`IsRoot`, `Returns`).
The log is external: an append is atomic, its sequence number is fresh and
grows over all streams, and `SharedLogConditionalAppend` succeeds when the
position it names is free. `SharedLogConditionalAppend` writes a step entry
under several tags in one append (`PostWrite` adds the tag of the key), so
`Publish` in `ReadWrite` is part of the same action.

**ReadWrite.** `item[k]` maps versions of `k` to data, `version[k]` is the
VERSION attribute of the single-version item, `keyStream[k]` the entries tagged
with the key, `op[e]` where the handler is in its program, `told[i][j]` a
history of all answers operation `j` of instance `i` gave in any execution that
had not lost a step. One operation is several actions, split where other
processes run: `PreWrite`, `WriteItem`, `PostWrite`, or `FindVersion`,
`ReadItem`, or `FetchItem`, `PostRead`. `FieldMismatch` stands for the panic in
`CheckLogDataField` and the `log.Fatalf` in `ReadWithLog`. Each DynamoDB call is
atomic and reads are not stale, which the code does not ask for (no
`ConsistentRead`): see the hazards. `dep` marks writes made with
`dependent = true`, which publish version 0.

**Invoke.** A caller is an executor of `IntentLog`; `calls[e]` are its
unanswered invocations, `runs` the executions of callees (an `InputWrapper` and
how far they are), `told[i][s]` a history of what the invocation at step `s`
returned. `Program` says of each step whether it is `SyncInvoke` (`"sync"`),
`ProposeInvoke` with `AssignedSyncInvoke` in a goroutine (`"fork"`) or
`AsyncInvoke` (`"async"`): a sync or async invocation blocks the handler until
it is answered or accepted, forked ones are joined before the handler returns.
The log entry and the invocation are two actions, so a caller may die in
between. A callee is what `ExactlyOnce` promises: `CalleeDecides` fixes its
result once, any number of its executions may reach it (`CalleeLogs`, the
overwrite; `CalleeReturns`) or fail (`CalleeFails`, which sets the caller's
EXIT). An execution of a callee that was handed EXIT never logs a result.
`SharedLogOverwrite` is external: it replaces the data at a position and keeps
the sequence number. `HashCollision` is the `log.Fatalf` of `Catch`; the death
of other executions in the same container is left to `Die`.

**LockLog.** `stream[l]` is the stream of a lock, `lockFsms[n]` the cache of
container `n`, `fsm[p]` the copy a call works on, `has[p]` a history of the
locks a process was told it has. The two appends of `twopl.go` are
unconditional, so `Lock` is split into replay (`CatchNext`), decision
(`LockFree`, `LockTaken`), append (`AppendLock`), replay, and `Confirm`;
`Unlock` likewise. An invalid entry that takes effect sends the process to
`"panic"`. `Crash(n)` kills a container with its cache and processes.

**Txn.** `front[t]` is the `Env` of the frontend's execution for transaction
`t` and where it is, `job[t]` the call of a participant that it waits for;
`reserved`, `ended` and `applied` are what the step logs of frontend and
participants have, `callees` and `writes` their transaction logs, `owner` the
locks, `table` the rows. The first phase goes `InvokeReserve`, `LockToRead`
(`TPLRead`), `ReadLocked`, `TPLWrite`, `LogReserved`, `ReturnReserved`; the
second `InvokeEnd`, then `NextEntry`, `ApplyWrite`, `LogWrite`, `UnlockEntry`
for each entry of the participant's log, `LogEnded`, `ReturnEnded`;
`SeenReserve` and `SeenEnd` are the replays of a logged call. `CalleeDies` and
`FrontendDies` may come between any two steps. `lost` records that
`env.Instruction` was EXIT, which `CommitTxn` and `AbortTxn` clear. A value is
the set of the transactions it is based on, so a lost update is a value that
forgets one.

**Switching.** `cycle`, `transitional`, `running`, `reqChan`, `resChan` are the
variables of `main`; `idle` and `exited` the workers; `call[r]` a request with
its time stamp, by which `main` knows it; `server[r]` the execution of the
function. `Receive` is one round of the loop with what it sends on, `Stop` the
end of the loop, `Post`, `Answer`, `TimeOut` and `WorkerEnds` the worker and
its HTTP client. `single`, `multi` and `versions` are the two kinds of items
and the entries of the key. `WriteInTransition` starts two goroutines which
read `env.SeqNum` while `ProposeNextStep` moves it: `WriteItem` may take any
value the field has meanwhile, and `PostWrite` does not wait for it.

**Retwis.** `post[p]`, `publish[p]`, `view[q]` are executions of `Post`, of the
`Publish` that it invokes, and of `GetTimeline`; a `Publish` that died is executed
again with its input, or with that of a later execution of `Post`; `postLog` and `publishLog`
what their step logs have; `items`, `published`, `timeline`, `tlVersion` the
tables in either mode (`rMode`). The key of a post has the second of the
execution, `second`. **Media**: `composing[u]` and `lister[u][l]` are the
executions of an upload and of the function that adds a review to a list;
`compose`, `storage`, `list` the tables; which fields were there already is the
case (`mCase`). An update of a counter or of a list is made in place, as
`UpdateItem` does it. **Page**: `infoAt[e]` is the goroutine that fetches the
movie and then proposes two more steps, `wg[e]` the `WaitGroup`; the two
executions share the step log `pSteps`.

**Demo.** One action per statement of `main`, in its order; nothing runs beside it.

**Boki.** `bStream[i]` is the stream, `bFsm[e]` the `IntentFsm`, `bHeld[e]` what
the operation works with. `BPropose` appends without a condition, `BProposed`
reads on (`BCatchNext`, an entry at a time, so that others append meanwhile) to
the first entry of the step; `BWriteItem` is the conditional
update, `BLogResult` the callee's append to the caller's stream. `BDie` leaves a
callee behind as an orphan, which may log later.

**BeldiDAAL.** `rows` is the linked list: `logs` and `refused` are the entries
of LOGS by outcome, `logSize`, `gcSize`, `holder`, `next` the attributes.
`UpdateRow`, `RefuseRow` and `LookAtRow` are the outcomes of the conditional
update; `CopyValue`, `CreateRow`, `SwapRow`, `DropRow` append a row; `ClearRow`,
`StampRow`, `ClearDangling` are the collector. `since` stands for the time T:
what was under way when a row was unlinked is over before the row is deleted.

**BeldiTxn.** `request[t]` is the frontend's execution with its CALLEES,
`call[t]` the callee that it called last, `local[l]` the local table of a
participant, `holders` and `values` its item. `LogCallee` is `SyncInvoke` with
EXECUTE, `XLockToRead`, `XReadLocked`, `XLockToWrite`, `KeepWrite` the handler of
the participant, `XCommit`, `XAbort`, `ForgetTxn` its `TPLCommit` and `TPLAbort`,
`InvokeCallee` those of the frontend. Nothing is executed twice, as `RestartAll`
of Beldi's `collector.go` panics; a callee goes on after its caller has died
(`XFrontendDies`), and a caller dies with its callee (`XCalleeDies`). Operations
on an item are atomic, which is what `BeldiDAAL` is about, and rows do not fill
up: a lock on a full row is an exception of `DaalExclusion`.

**Setup.** A script calls an init program with `clean`, `create`, `populate`
and `clean`; `position` is the request of the command, `tables` the status of
each table, `refused` and `undeleted` what DynamoDB was asked for in vain. A
table is CREATING before it is ACTIVE and DELETING before it is gone; one
action per request (`CreateTable`, `DeleteTable`, `WaitUntilDeleted`,
`WaitUntilActive`, `Populate`), `Settle` for DynamoDB. The programs are data:
`HalfmoonTables`, `BokiTables` and `BeldiTables` say which requests each
command makes, with names, keys and ranges of rows as the code has them, and
`Uses` which rows the functions need that the requests of `workload.lua` call:
the rows that a request names, and those a function is led to by another table,
as the hotel's `search` reads in `rate` the ids that `geo` has returned. (`profile`
is filled too, but only its own function reads it, and no request calls that.)
`filled` is the rows that are in each table; `RequestsFindRows` compares it with
`uses` when the workload begins.

What the requests of one command have to do with those of another is stated
apart from the steps, as assumptions on `Program`, and TLC evaluates them on all
24 programs: `clean` names every table that `create` creates, and waits for all of
them or for none (`CleanAssumption`); `create` deletes before it creates, asks for
a table before it waits for it, waits for it before it fills it, and starts over
from a request that is not later (`CreateAssumption`); `populate` fills only tables
that `create` waited for, with the key they have (`PopulateAssumption`). So a table
name that is misspelt or a table that `clean` forgets is found there. That the rows
written are the rows needed is not assumed: it is in `RequestsFindRows`, which TLC
checks on the 24 programs, and which a loop that ends one row early breaks, with the
rows that the code does miss as named exceptions (`Strangers`).

## The runs

| run | question | instance | states |
|---|---|---|---|
| `intent` | one entry per step, replay agreement, cursors, panics, completeness, refinement of `ExactlyOnce`, liveness | a root instance with two executions that do not check EXIT, 3 steps, 2 data values, 1 crash | 10 k |
| `intent_panic` | a violation, see findings | the same | |
| `rw_writelog` | one outcome, data before publication, one publication that never changes | `i1`: two writes of `k1`, by two executions; `i2`: a write of `k2`, then a read of `k1`; 1 crash; no check of EXIT | 0.4 M |
| `rw_readlog` | an instance reads its writes in LoggingMode read, the write with the largest cursor wins | `i1`: write, read, write, read of `k1`, two writes of `k2` that share a cursor; `i2`: read, write, read of `k1`; 1 crash; EXIT checked | 0.46 M |
| `rw_own` | acknowledged writes are published | one instance with two writes of one key, a dependent write and two reads; 1 crash | 15 k |
| `rw_mismatch` | a violation, see findings | an instance that writes twice | |
| `invoke` | one result, only logged callees run, success includes callees | a caller with two racing executions that do not check EXIT, a sync, a fork and an async invocation; 1 crash; callees fail at will | 0.25 M |
| `invoke_collision` | a violation, see findings | one caller, one synchronous invocation | |
| `lock` | no panic, exclusion, agreement, refinement of `LockService`; transactions are atomic, lose nothing, unlock, end; those of Beldi are atomic | one lock, a transaction with one process and one with two, one container that crashes any number of times, 3 appends; two transactions over `hotel` and `flight`, 1 process dies; the same in Beldi, 2 processes die | 0.17 M |
| `libraries` | the baselines keep one outcome, order and values; tables are created, filled and taken away | `Boki`: two executions of one instance and one of another on a key, or two of a caller, 1 crash (0.66 M). `BeldiDAAL`: rows of one write and three executions, a lock, rows of two writes with refusals, 1 crash of an execution or the collector (0.31 M). `Setup`: 24 programs, tables that may be there, 1 request that fails (0.19 M) | 1.16 M |
| `workloads` | the application-level promises of each workload, the client of the switching benchmark, the demo | `Retwis`: two posts with a shared follower, who reads; both modes; 1 crash (0.28 M). `Media`: one request with three fields to come, or two with one; both modes; 1 crash. `Page`: two executions. `Switching`: two workers, one change of mode, 4 or 5 requests, one of which may time out or share a time stamp. `Demo`: as it is | 0.95 M |
| `timeline` | a violation, see findings | one post, one follower, one reader | |

Three runs hold several modules. Their modules share no variable; a variable
`layer`, `library` or `workload` is chosen initially and names the one whose
actions take place, and the others stay in one initial state, so the run's
states are the sum of its parts'. `lock` checks for deadlock in the part of the
locks; transactions, baselines, init programs and workloads may stop, which is
why their runs do not (transactions stutter, so that the part of the locks is
still checked).

Why these bounds are enough to be interesting. A race needs two executions, and
a third process in another instance to publish between their steps. Two steps
let an execution be behind by one and by two; the panic of `applyLog` needs
two, and three let a log grow past the entry it leaves. One crash (`MaxCrashes`)
already puts a dead execution's entry, item or cached copy at every point, and
two executions per instance supply further restarts, since an execution that
exits is called again. With three appends (`MaxSeq`) two transactions race for
one step, the winner unlocks, and the loser's dead entry is still in the
stream. In `invoke` a forked invocation is outstanding while the handler goes on
with an asynchronous one, and the synchronous one before them can be replayed,
lost or overwritten meanwhile. One output is enough, because answers are told
apart by the callee that gave them.
In `Txn` two participants are what atomicity needs, and one death (`MaxFaults`)
leaves a call logged, applied or unlocked but not finished, in either phase; a
third participant repeats the second. In `BeldiTxn` two deaths (`XMaxFaults`)
leave a callee without its frontend and then end the callee too. `Boki` has
three executions because the first entry of a step must survive a second append and a write of another
instance. In `BeldiDAAL`
`logSize` is 1 where rows have to fill up often and 2 where one row must hold
an entry and a refusal; `MaxRow` is the rows that the programs can append while
two processes race for one. Two posts, one shared follower and `MaxSecond = 1`
let a younger `Publish` overtake an older one and a post be executed again in
another second. Three fields to come let two uploads race with a third that
finds the counter full; two requests race for one list. Two workers and two
requests per mode let a late worker hold a request of the old mode across the
transition. `MaxRefusals = 1` fails each request of each program once.
`NumKeys` is 10 for 10000 (every range of keys starts at 0 and ends at
`NUM_KEYS`); users, hotels, flights and posts have the numbers of the code.
The proofs remove the bounds for the fourteen modules they are about: all but
the tables, which are instances.
`Symmetry` permutes executions of one instance, and callees, in runs without
liveness.

## Fairness

`FairSpec` assumes weak fairness of everything an executor does (`Execute`),
restarts included: a running process keeps running, and whoever invoked an
instance invokes it again until it succeeds, which is what the platform's
retries and the loop `runOnce` of `optimal/internal/recovery` do. Crashes are
not fair and their number is bounded: an execution that is always killed never
finishes. There is no fairness between the alternatives of a step: which of two
proposals wins is open.

`TxnFairness` is weaker: a frontend that runs goes on (`Running(t) /\
TxnStep(t)`), and nobody is assumed to call it, nor to call it again after it
has died. `TxnsEnd` therefore says that an execution ends, not that a
reservation is made.

`Setup` assumes that the init program runs and that what it waits for gets
done: DynamoDB finishes creating and deleting a table, and `DescribeTable` is
answered at last (`WF(SetupNext)`). Under that, `CreateEnds` says that `create`
neither waits for ever nor starts over for ever.

`PagesEnd` and `ClientNotStuck` are not temporal: they say of each state that
somebody can go on. As every goroutine of a page and every request of a client
has finitely many steps, this is what ends them.

## The proofs

Proved with TLAPS for every value of the constants, from the constants' named
assumptions (`InstanceOfAssumption`, ... in `IntentLog`; `NodeOfAssumption`,
... in `LockLog`; `WritesHaveValues` in `ReadWrite`; `ParticipantsAssumption`,
`NobodyAssumption`, `MaxFaultsAssumption` in `Txn`; `XParticipantsAssumption`,
`AvailableAssumption` in `BeldiTxn`; `BInstanceOfAssumption`,
`BProgramsAssumption` in `Boki`; `MaxRowAssumption`, `DScenariosAssumption`,
`NoHolderAssumption` in `BeldiDAAL`; `RetwisAssumption`; `MediaAssumption`;
`DemoAssumption`; `SwitchingAssumption` and `SwitchCasesAssumption` in `Switching`; `CommandsAssumption`,
`CleanAssumption`, `CreateAssumption`, `PopulateAssumption` in
`Setup`, see [above](#the-modules)). Five theorems about `ReadWrite` have further hypotheses about
programs and cursors, which are named with them below. Every inductive invariant
was checked by TLC on a small instance first.

`IntentLog_proofs`. The safety invariants are not inductive: that the stream
has one entry per step needs to know that a proposer that is not behind is at
the end of the stream. `IndInv` adds what each execution knows: its `IntentFsm`
is a prefix of the stream (`IsPrefix`), it is at the step it has been told
about (`AtStep`), and an execution past its `IntentFsm` has lost a step. Each
action has a lemma; `NextOfPrefix` (the next entry to read after a prefix is
the one behind it) and `AppendFacts` carry most of them. From
`Spec => []IndInv` follow

* `TypeCorrect`, `StepsAreUnique`, `ReplaysAgree`, `CursorsAgree`,
  `PanicsOnlyAfterExit`, `SuccessIsComplete`: the invariants of the runs;
* `ImplementsPromise`: every step of `IntentLog` is a step of `ExactlyOnce`
  under the mapping that reads decided outcomes off the log.

`ReadWrite_proofs`. `RWInv` relates four things. `LogOK`: an operation owns
fixed positions of the step log of its instance; a PostWrite entry follows the
PreWrite entry of the same operation and names its version, sequence numbers are
unique over all streams, and the stream of a key has exactly the PostWrite
entries of the logs (`KeyStreamOK`, `Published`). `ItemsOK`: every version in
the table is named by the PreWrite entry of a write of that key (`Owns`), and
what is published is there. `AliveOK`, `PastOK`: an execution that has not lost
a step is on track of its program (`OnTrack`), and holds what it read from an
entry or a version that does not change. `ToldOK`: an answer that was given is
the `Outcome` that log and cursor decide. From `RWSpec => []RWInv` follow

* `OneOutcomeHolds` (`OneOutcome`) for programs with `ReadsArePlain`: a key that
  is read without log has no dependent writes, which publish version 0 and
  change it in place. `rw_writelog` is of this kind;
* `AckedWritesHold` (`AckedWritesPublished`) in LoggingMode write, for
  `DependentValues`: dependent writes of a key put the same data there, as they
  replace one another;
* `LastCursorHolds` (`LastCursorWins`) in LoggingMode read: the item of a key is
  that of the write with the largest cursor of those that were made, and of the
  first of its instance with this cursor, whichever executions made them, in whatever
  order and however often. The invariant (`LastInv`) follows a write from the
  moment when it can no longer be missing: once a later step of its instance is
  in the log, or an execution that goes on is past it, VERSION has reached its cursor
  (`MadeOK`). The condition of the update is the smaller part: a cursor
  must be the same in all executions of an instance (`OnTrack`), and two writes
  with one cursor must be writes of one instance between the same logged steps
  (sequence numbers are unique). Hypotheses: handlers return after a lost
  step, and no cursor is 0, as an instance starts at the sequence number of its
  intent or of its caller's PreInvoke entry;
* `PublishedOnceHolds` (`PublishedOnce`) for finitely many instances, since the
  property counts versions;
* `ReadYourWritesHolds` (`ReadYourWrites`), for writes with different data
  (`WritesDiffer`: the property tells writes by their data). In LoggingMode
  write, a write before an operation that returned is in the log (`PastTold`), and
  the version at the cursor of a later read is that write's or a later one
  (`LastAtNotBefore`). In LoggingMode read the item is that of the write whose
  cursor VERSION is, VERSION has reached the cursors of the writes the instance
  is past, and so has whatever it fetched and logged since (`OwnInv`). That takes
  handlers that return after a lost step (finding 5), and a logged read between
  two log-free writes of a key (`CursorsDiffer`): without one they share a cursor,
  and the second is dropped (`dblib.go:248`).

`Invoke_proofs`. `IndInv` does not hold here: an entry may be overwritten by a
result, and an execution that reads one dies. `InvokeInv` carries it over to
such streams: what is overwritten stays a step at its sequence number
(`StreamOK`), an execution that lives has read entries only (`Follows`), and
an overwritten entry has the result of the callee it named (`Grows` says that
a stream changes in no other way). On top of this, an unanswered invocation is
one the log names (`CallOK`), so is an execution of a callee, with its cursor
(`RunOK`), what was returned is the callee's one result (`ToldOK`), and a
caller that is further has been told, or waits (`ProgressOK`). From
`InvokeSpec => []InvokeInv` follow `OneResultHolds` (`OneResult`) and
`SuccessHasCallees` (`SuccessIncludesCallees`).

`Txn_proofs`, `LockLog`. `LockInv` says that every entry of a stream was allowed by
the entry that took effect at the step before it (`EntryOK`), that every
`LockFsm`, in a process or in a cache, has applied exactly what took effect in
the part of the stream it has read (`FsmOK`), and that a process appends only
what its own copy allows. The argument: an append with the step number of a
stale copy is dead, because the step is taken; one with the step number of a
copy that is up to date was decided on the state it takes effect in. From
`Spec => []LockInv` follow `CatchNeverPanics`, `GrantsAreHeld`,
`ReplicasOfALockAgree` and `ImplementsService` (refinement of `LockService`).

`Txn_proofs`, `Txn`. `TxnInv` follows each transaction through its two phases. The
logs agree (`LogsOK`): the write that is logged is the one that is locked, a
participant with writes is called, and the frontend ends only what it began.
`ReserveOK` and `EndOK` say what the frontend and the call it waits for know of
them. `HoldsOK` is why no update is lost: from the read to the first
application the transaction owns the lock, so its write still covers the
table; only a write that its log names twice is applied without the lock. A
step of one transaction changes only its own logs and the locks it owns
(`StepOf`, `OthersKeep`). From `TxnSpec => []TxnInv` follow `CommitIsAtomic`
(`AtomicCommit`), `LocksAreReleased` (`LocksReleased`) and the action property
`NoUpdateIsLost` (`NoLostUpdate`). It was this proof that corrected the
exception of `NoLostUpdate`: with three transactions and two deaths a write may
also forget one that was applied twice itself.

`Libraries_proofs`, `BeldiTxn`. `XInv`: items have what was committed (`values = committed`);
a local write is held under the lock and based on the item until it is applied
(`KeptOK`, `Pending`); a participant is told to commit when all have agreed
(`CommitOK`), so where one shows a transaction the others show it or keep it
under its lock (`VisibleOK`). From it follows `BeldiIsAtomic` (`BeldiAtomic`).

`Libraries_proofs`, `Boki`. That executions agree is not inductive: they agree
because each has applied a part of one stream. `BInv` says of the stream that
an entry of a step comes after one of the step before and is the first of its
own unless there is one already (`EntryOK`), so the panic of `applyLog` cannot
happen; of an `IntentFsm`, that it has the first entry of each step that occurs
in what it has applied (`BFsmOK`); of an execution between its append and
`GetStepLog`, that an entry of the step is there (`BPcOK`). For the order it
adds that a write with a result, and whatever an execution was told, is in the
table or superseded there (`ResultOK`, `Passed`), whoever logged the result, so
what is proposed next is younger. Log and table only grow (`LogGrows`), which
is why others do not disturb an execution (`ExecutorKept`). From
`BokiSpec => []BInv` follow `SessionsAreOrdered` (`BokiSessionOrder`) and
`ExecutionsAgree` (`BokiOneOutcome`).

`BeldiDAAL_proofs`. Nothing that is said of values or logs can be shown before
it is known that the rows are a list. `RowsFrom` is the least set of rows that
NEXT does not leave, so that facts about walks follow from closed sets and need
no induction. `DaalInv` has five parts on top of the types:

* `Shape`: the rows from HEAD end, no two have the same next one and none comes
  back to HEAD (`ListOK`). Whoever works on a row has a path from it to the end,
  also on a row that the collector has unlinked, and is among those whom its
  deletion waits for (`WalkOK`); a row that was made and not linked yet belongs
  to one execution (`HoldsOK`); the collector's two rows are neighbours, or were
  until it took the second one out (`CollectorOK`).
* `LogsInv`: a row gets a next one only when it is full, and is empty when GCSIZE
  has reached LOGSIZE unless refusals were counted (`RowLogsOK`); so a write that
  took effect and was not forgotten is found from HEAD while its instance lives
  (`EffectsOK`), and an execution that repeats it finds it behind the row it is
  on, since it leaves only full rows that do not have it (`FindsOK`, `PlaceOK`).
* `ValuesOK`: the last row, there is only one, has the value of the last write;
  who appends a row took the value from one that was full already, which cannot
  change any more (`CopyOK`).
* `ReadsInv`: an instance that is at a step has made the writes before it, what
  it was told is not older than these, and is in the log table until the
  collector removes it, which is after the last execution (`ReadsOf`,
  `LoggedReads`, `ToldOK`).
* `GrantsOK`: who was told that it has the lock by a row is its HOLDER.

Lemmas class the steps by what they do to the list (no NEXT changes, a row is
linked behind the last one, one is unlinked, some are deleted), to the entries
and to the values (`StepRows`), so that each part is proved once per kind.
From `DaalSpec => []DaalInv` follow `DaalWritesOnce` (`DaalOnce`),
`DaalHasOneHolder` (`DaalExclusion`) and `DaalValueKept` (`DaalKeepsValue`). It
was this proof that corrected `DaalKeepsValue`: see the exception of `DaalOnce`
below.

`Workloads_proofs`, `Retwis`. That a timeline has only posts that can be read is not
inductive: `Publish` must know that the post it adds is there. `RInv` follows
a key through its life: an execution of `Post` that is past its write has
written the item, past its PostWrite entry has published it (`PostOK`); a
`Publish` was invoked for a key that is readable (`PublishOK`), also when the
`Post` that invoked it has been executed again in another second; and what a
`GetTimeline` still has to read was in a timeline (`ViewOK`). Items are only
added, and a key is published again only at the end of the log (`Grow`), so
what was readable at the end of the log stays so (`ReadableStays`). From
`RetwisSpec => []RInv` follow `EntriesAreReadable` (`PostsPrecedeEntries`), and
`ReadLogFindsPosts`: the finding of `timeline` needs logged writes. `DInv` adds
delivery: everybody that `Publish` is past, or whose write is in its step log,
has the post or was reached by a younger one (`DeliveryOK`); a post has one
key per timeline (`KeysOK`), with logged writes that of its PreWrite entry, and
without because VERSION reaches the number of its PreInvoke entry, which no
other post has, once. From it follows `PostsAreDeliveredOnce`
(`DeliveredOnce`), with any number of deaths, where the run has one.

`Workloads_proofs`, `Media`. `ReviewIsComposed` is not inductive: that the review
is stored when all uploads are done follows from who is still to look. As long as
the counter says that all fields are there, and none was counted twice, the review
is stored or there is an upload that will find it complete (`Completes`): the one
that wrote last is one, and stays one when it dies, as its read is not logged yet
or is that of the complete item. For that, what an upload has read is as old as
its counter (`ItemOK`), and it writes again only with logged writes and after a
crash (`UploadOK`). For the lists, a lister whose log says so has its review in
the list or was replaced by one that found none (`Kept`), and `writers` are the
listers that wrote since the list was last begun anew; without logged writes
the reads of the listers have different numbers, and the list has that of its last
writer (`ListerOK`); and reviews are counted by the listers that have added them,
and the crashes between update and entry (`ListOK`). From `MediaSpec => []MInv`
follow `ReviewsAreComposed` (`ReviewIsComposed`) and `ReviewsAreKept`
(`ListsKeepReviews`). Hypothesis (`MediaAssumption`): the fields are finitely
many, and at the start not all of those of a request are done.

`Switching_proofs`. `SwitchInv` is about the client: results and time stamps
belong to requests that were sent (`CallOK`, `ResultsOK`), a request that runs
on a server is known to `main` unless it was given up or shares its time stamp
(`Tracked`), and those that are not of the present mode are in
`transitionalReqs`, which is empty when the next mode begins (`Unmixed`). From it
follows `ModesAreNotMixed` (`NoMixedModes`). `StoreInv` adds the log and the
two kinds of items: a request that was sent after another had its result has
larger numbers (`BeforeOK`, `NumbersDiffer`); a write that has ended has
published its version and raised VERSION as far as its mode does (`WriteOK`);
items and versions are of requests that may have written them (`SingleOK`,
`MultiOK`, `VersionsOK`); and up to every number there is a last version
(`LastAt`, carried along instead of proved by induction). From
it follows `ReadsStayRegular` (`ReadsAreRegular`): a read finds the item of its
mode (`SingleIsRecent`, `VersionIsRecent`). The proof showed that the exception
of this property was too narrow and too wide: a change back hurts a read also
when the transition before it is not over yet, and a request that was given up,
or shares its time stamp, does no harm.

`Switching_proofs` also has `ClientGoesOn` (`ClientNotStuck`): each worker waits
for a request, for one that runs, or has returned, and main has started as many
requests as there are workers, one less when its time is over (`WorkersOK`); so
while a worker waits for a request, resChan has room for what it returns.

`Workloads_proofs`, `Page` and `Demo`. `PagesDoEnd` (`PagesEnd`): the counter of
the WaitGroup is the number of goroutines that are still to count down, if the
three that the movie info stands for are counted with it (`CounterOK`). `main` of
the demo is sequential, and `DemoInv` says what is in the log and in the database
at each of its steps; hence `MonitorIsSafe` (`MonitorRetriesSafely`), for any
metrics and any threshold.

`Libraries_proofs`, `Setup`. `SetupInv` says of each request that is over (`Done`)
what is left of it. While no request has failed, a table that was asked for is there,
and one that was waited for is active (`CreatedOK`); without this, that `populate`
panics only after a failure is not inductive (`PanicOK`). A table that was filled
keeps its rows until `clean` (`FilledOK`), and one that `clean` deleted is gone, going,
or was refused (`CleanedOK`). A `create` that starts
over makes its requests again, so fewer of them are over. From
`SetupSpec => []SetupInv` follow `TablesAreRemoved` (`CleanLeavesNothing`) and
`TablesAreFilled` (`PopulateIsComplete`, the first conjunct of `RequestsFindRows`),
for any programs that the assumptions of `Setup` allow, any tables that an earlier
run has left, and any number of faults. The other conjunct, that the rows written
are the rows the requests need, is about the 24 programs and not about steps.

Only model-checked. Liveness (`EventuallyDone`, `TxnsEnd`, `CreateEnds`) is out of
this prover's reach. That the 24 programs satisfy the assumptions of `Setup`, and
write the rows that their requests need (`RequestsFindRows`), is evaluated by TLC.

## Findings

1. `intent_panic`: the assertion of `applyLog` (`loglib.go:45`) fails. An
   execution that loses a step is only marked; if its handler does not look at
   `env.Instruction`, its next proposal can still win, and the process panics
   after the entry is in the log. `PanicOnlyAfterExit` (proved) says this is
   the only way to the panic, and `EventuallyDone` that a later execution still
   completes.
2. `rw_mismatch`: the loser of a `PreWrite` returns (`dblib.go:209`) without
   consuming the step number of the `PostWrite`. If its handler goes on, its
   next `PreWrite` can take the position of the winner's `PostWrite`; from then
   on every execution of the instance panics in `CheckLogDataField`.
3. `invoke_collision`: `LogStepResultForCaller` overwrites the caller's entry
   with JSON that is no `IntentLogEntry` and whose `instanceId` is the callee's.
   An execution of the caller that starts after that takes it for the entry of
   another instance and dies in `log.Fatalf` (`loglib.go:75`), as will every
   later one; `controlflow.go:138-141`, which would use the result, is never
   reached. This rests on what `SharedLogOverwrite` is taken to do.
4. `timeline`: with logged writes `GetTimeline` reads a timeline as it is now
   and the posts in it at its own cursor; a post published in between is nil,
   and the type assertion (`timeline.go:49`) panics.
5. Not a run, since no document says otherwise: in LoggingMode read a handler
   that goes on after a lost step can log a stale read at the next position
   before it panics, and later executions replay it (`dblib.go:326`).
   `rw_readlog` therefore checks `ReadYourWrites` for handlers that return.

## Exceptions that properties name

Where the code does not keep a promise in a known case, and no document says
that it should, the property states the case as an exception, and its comment
says why. These are the ones a reader should know:

* `NoLostUpdate`: a transaction whose frontend was executed again after a
  callee was logged has that callee twice in its log, commits there twice, and
  the second time after it has unlocked; a participant that was executed again
  has its write twice. Updates of such a transaction, and updates based on it,
  may be lost. `AtomicCommit` and `LocksReleased`
  speak of frontends that were not told EXIT: a participant that dies while it
  commits is skipped, and the frontend still answers success. A lock taken by
  `TPLRead` alone is in no log and is not released.
* `DeliveredOnce`: without logged writes an older `Publish` that is overtaken is
  dropped. (A `Post` that is executed again in another second has another key,
  and two timelines may get different ones, but no timeline gets both.)
* `ReviewIsComposed`, `ListsKeepReviews`: without logged writes an upload that
  is overtaken is dropped and the counter never fills; with them an execution
  that dies between its update and its PostWrite entry counts or adds twice. An
  instance that read before there was a list, and writes after it, begins it anew:
  what was added before is gone, and `ListsKeepReviews` asks for all that was
  added since.
* `PagesEnd`: an execution that loses the step of the cast or of the plot waits
  for ever (`page.go:45`, `page.go:52`).
* `NoMixedModes`: a request that the HTTP client gave up, and two requests of one
  microsecond. `ReadsAreRegular`: a change back to logged reads after the write,
  or before a transition is over, since a read then takes an item that writes
  of the other mode left alone; a write in transition, whose entry does not wait
  for its item.
* `DaalOnce`: GCSIZE counts refusals and LOGSIZE does not, so a row with live
  entries may be unlinked. The writes in it are forgotten; a forgotten write that
  is made again is later than what its instance has read meanwhile, so
  `DaalKeepsValue` excepts these too. `DaalExclusion` speaks of one row: a new row is
  created without HOLDER, so a lock is free again when its row is full.
* `CreateEnds` excepts a table whose creation was refused and never asked for
  again; `CleanLeavesNothing` the programs that do not wait, and the tables
  `nop*` that Beldi's `singleop` creates and does not clean.
* `RequestsFindRows`: the user `user10000`, whom the requests of retwis name and
  nobody writes; and the hotel 80, which `geo` has (`init.go:52`, `i <= 80`) and
  `rate` has not (`init.go:221`, `i < 80`). `search` may ask `rate` for it, in all three
  libraries; `rate` leaves out a hotel without a plan (`rate.go:18` and `:23`), so
  the answer lacks a hotel that is near and nothing fails. No document
  says that it should be there.
* `BeldiAtomic`: a transaction that aborts keeps its locks, because `TPLAbort`
  reads CALLEES only (`controlflow.go:344`), and one that died is never finished:
  its writes stay in the local tables and its locks held, so that nobody reads
  the rest of it from before.

Further hazards that have no place in the list of `PROJECT.json`: two
executions of one transaction, of which one unlocks while the other believes it
holds the lock (`twopl.go:125`); reads without `ConsistentRead`, which
may return an older item (`dblib.go:27`); two writes without log at one cursor, of which the
second is dropped (`dblib.go:248`); versions decoded as `float64`
(`dblib.go:277`); a conditional update of a table that does not exist is taken
for a lost race (`dblib.go:382`); keys of `shortuuid` that a re-execution draws
again (`hotel/main/order/order.go`, media's `uniqueId.go`).

## What is not modelled

* Reads and writes: `Scan` and `LibScan`. JSON, compression and hashing of tags
  (two instances have different streams); `env.LogSize` and logging; the HTTP
  and DynamoDB clients and their errors other than those named above.
* Transactions: executions of one frontend that race; a callee that goes on
  after its caller died; orders of keys other than the hotel's.
* Workloads: functions that look up one item (`Login`, `Profile`, `ReadReviews`,
  `ReadUserReviews`, `ReadMovieReviews`, the read path of the hotel), `rw`,
  `singleop` and `recovery` as handlers: they are programs of steps, which
  `IntentLog` and `ReadWrite` take to be arbitrary. Executions of one upload or
  post that race (`IntentLog` is about those). The copies of the workloads
  under `boki/` and `beldi/` except for their tables.
* Functions of the type BASELINE, which log nothing and promise nothing.
* BokiFlow: its locks and transactions, which have the form of `LockLog` and
  `Txn`, `ProposeInvoke`, `Scan`.
* Beldi: the replay of an invocation, in which the step numbers of the caller
  depend on how far its callee was (`beldi/pkg/beldilib/controlflow.go`
  166-176), and an asynchronous one whose caller died between the intent and the
  call; nothing replays them, because the collector of intents is commented out.
  `Scan`, and the hotel as BASELINE, which is what the experiments run.
* `demo/metrics`: one mutex around one integer. The logging layer is a
  submodule outside the repository. Experiments, scripts, Docker and Kubernetes
  files have no state of their own; the order in which scripts call the init
  programs is in `Setup`.

The modules stand for about a third of the implementation's lines. Most of the
rest is read-only handlers, data and serialization of the workloads, in three
near-identical copies, and statistics.

## Plan

1. Composition of locks with log-free reads, and `Txn` with executions of a
   frontend that race.
2. Refinement of an abstract key-value register by `BeldiDAAL`, and the composition
   of `BeldiTxn` with rows that fill up.
