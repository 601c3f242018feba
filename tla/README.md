# withdrawal_service: specifications, model checks and proofs

`withdrawal_service` imports the statements that marketplaces (Shopee, TikTok,
Mengantar) publish about the money a shop has earned and withdrawn. Version 1
queues a statement as a task and imports it in the background into the order
and finance tables of a Postgres database. Version 2 reads the statement inside
the request and tells other services (revenue, order, ads expense) what it
found. This directory holds TLA+ modules of both, TLC configurations that check
them on small instances, and proofs, checked by TLAPS, of what holds for every
instance. `PROJECT.json` lists components, runs, the lines each definition
models, hazards and theorems in machine-readable form.

## 1. The system

| Part | Code | State | Operations | Talks to |
|---|---|---|---|---|
| v1 service | `service.go`, `register.go` | one mutex, one context per process | `SubmitWithdrawal`, `Run`, `Stop`, `GetTaskList`, `HealthCheck` | task store, runner |
| task store and source | `store.go` | task table (id, status, `last_processed_at`) | `Add`, `SetProcess`, `SetFinish`, `SetErr`, `EmptyTask`, `taskSource.process` | Postgres, the first stage |
| runner pipeline | `runner.go` | one task per stage, unbuffered channels | `Set Process`, initialise, check shop, check orders, iterate, `Set Finish`, sweep | source, importer, error pipeline |
| error pipeline | `error_pipeline.go` | channel with room for 100 | `errEmitter`, the marking goroutine | task store |
| importer | `wd_importer_processor.go` | the withdrawal, rows and adjustments of the current group | `OrderFund`, `OrderAdjustment`, `Unknown`, `Withdrawal`, `Check` | order queries |
| order and inventory queries | `order_query/`, `inventory_query/` | withdrawals with `diff_amount`, adjustments, orders, returns | locks, updates, `DataQuery`, `SetWithdrawal` | Postgres, the publisher |
| marketplace queries | `marketplace_query/` | bank account and holding asset of each shop | `CheckBankAccount`, `CheckHoldAsset`, `FirstOrder` | Postgres |
| v1 readers | `datasource/`, `models/stream_update.go` | the position in a statement, what is left of each day, which withdrawals have been handed | `Iterate`, `GetRefIDs`, `GetShopUsername` | importer, v2 service |
| v2 service | `v2/withdrawal/` | `v2_withdrawal_logs` | `SubmitWithdrawalTiktok`, `SubmitWithdrawalShopee`, `SubmitWithdrawal` | revenue, order and ads services, v1 service |
| order lookup | `v2/order_repo.go` | none | `OrderByExternalID` | Postgres |
| v2 readers | `v2/datasource/`, `v2/datasource_shopee/` | withdrawals and their earnings, linked newest to oldest; the position in a workbook | `IterateValidWithdrawal`, `ValidWithdrawal`, `Iterate` | v2 service |
| v2 document service | `v2/document_service/` | a bucket and its rows | `Upload` | storage, Postgres |

How they interact. A v1 submission inserts a task row and calls `Run`, which
either takes the process mutex and starts a goroutine (source, stages, error
pipeline, sweep) or is refused because one is running; the active runner is
then relied on to find the new row. Several processes (the service runs on
Cloud Run) share the table and nothing else. The importer is called back for
every row of a statement and works in transactions, except that the finance
queries it uses run outside them. A v2 submission is a sequence of inserts and
calls that nothing rolls back; the user repeats it when it fails.

What is hard about it:

- **Concurrency.** The source, each stage and the error pipeline are goroutines
  that update one row of the table with whole-row saves and column updates;
  `Run`, `Stop` and the end of a runner meet at one mutex and one context; two
  processes have two mutexes and one table, and may give a shop its accounts and
  enter its withdrawals, or import the same statement, at the same time; two v2
  requests may submit overlapping files.
- **Failure and restart.** Any database, storage or service call may fail, at
  some places in the middle of a sequence; a process may die anywhere; tasks in
  `PROCESS` are taken again after six hours.
- **Ordering.** The source hands a task on before it saves that it did; a
  completion is published before its transaction commits; a v2 handler moves
  orders before it knows that the file is good, another queues the file before
  it has read it; a TikTok workbook is read by two readers in different orders.
- **Timeouts.** The source closes when a minute has passed since a task was last
  seen, while a new task may be arriving.
- **Arithmetic.** `diff_amount` is a running sum over separate transactions and
  repeated imports; the v2 readers find out by sums which earnings a withdrawal
  paid, the v1 TikTok reader by counting each day's amount down to zero.

What makes each part correct: a queue that loses no task, imports none more
often than it must, keeps its promise to run and gives its mutex back; an
importer whose difference always agrees with the statement, however often and
with whatever interruptions it is imported; a shop that has one pair of accounts
and every withdrawal under it once; a reader that hands every row once and under
the withdrawal that paid it out, the right one; a submission whose entries appear
in order, all of them, and once per request, and that never tells another service
of what no import is queued for.

## 2. Modules

| Module | Models | Lines it stands for |
|---|---|---|
| `TaskQueue` | v1 service, task store and source, the stages as far as they move or drop tasks, error pipeline | `service.go`, `store.go`, `runner.go`, `error_pipeline.go` |
| `MCTaskQueue` | symmetry of instances, for TLC | |
| `Jobs` | what the queue promises its clients; `TaskQueue` implements it | |
| `TaskQueueProofs` | proofs about `TaskQueue` | |
| `StatementReaders` | the v1 readers, and the handler that passes what they read to the importer | `datasource/`, `models/stream_update.go`, `runner.go` |
| `SubmitStream` | `StatementReaders` with the v2 `SubmitWithdrawal`, which queues a statement and streams it | `v2/withdrawal/submit_withdrawal.go`, `v2/datasource/tiktok_wd_excel.go`, `v2/order_repo.go` |
| `MCStatementReaders` | short statements of each marketplace, derived from what happened | |
| `Importer` | the importer and the queries it calls | `wd_importer_processor.go`, `order_query/`, `inventory_query/` |
| `MCImporter` | a ledger of eleven rows and its statements | |
| `TwoImporters` | the import that runs and the one that waits, over one database | `runner.go`, `order_query/order_ref_ids.go` |
| `MCTwoImporters` | a ledger of seven rows and three statements that overlap | |
| `Ranks` | the n-th of some numbers, for the rows a reader keeps in a slice of its own | `datasource/`, `v2/datasource_shopee/` |
| `Sums` | facts about sums over finite sets and about ranks, for the proofs | |
| `ImporterProofs`, `TwoImportersProofs` | proofs about `Importer` and `TwoImporters` | |
| `TiktokFunding` | the v2 TikTok reader from rows to earnings of withdrawals | `v2/datasource/` |
| `MCTiktokFunding` | every short history of a shop and the workbooks cut from it | |
| `ReaderProofs` | proofs about `StatementReaders`, `SubmitStream` and `TiktokFunding` | |
| `ShopeeFunding` | both v2 Shopee readers, from rows to earnings of withdrawals | `v2/datasource_shopee/` |
| `MCShopeeFunding` | every short history of a shop's balance and the statements cut from it | |
| `ShopeeFundingProofs` | proofs about `ShopeeFunding` | |
| `ShopAccounts` | the stages that check the shop and its orders, and how the import enters a withdrawal | `runner.go`, `marketplace_query/`, `order_query/mp_withdrawal.go`, `order_ref_ids.go` |
| `MCShopAccounts` | tasks that compete for one or two shops | |
| `ShopAccountsProofs` | proofs about `ShopAccounts` | |
| `Submit` | the v2 TikTok and Shopee handlers | `v2/withdrawal/` |
| `MCSubmit` | files of a TikTok and a Shopee shop that overlap | |
| `SubmitProofs` | proofs about `Submit` | |

Definitions that begin with "Mutant" in their comment are not part of the
model: each is a plausible bug (a dropped guard, a swapped order) of the
definition that follows, used to see that the properties notice it.

How they fit. A task of `TaskQueue` passes the stages that `ShopAccounts` models
in detail; its iterate stage reads a statement as in `StatementReaders` and does
with each row what `Importer` says. `SubmitStream` extends `StatementReaders` by
the second reader of the same statements. `TiktokFunding` and `ShopeeFunding` make
the withdrawals that are the input of `Submit`. Each of the modules takes from the
one before only what it names as a constant: a retry is another task in
`ShopAccounts` and another import in `Importer`, the files of `Importer` and
`Submit` are what readers may make.

### TaskQueue

*State.* The table is `lastId`, `status` (`"none"` for no row) and `stale` (rows
in `PROCESS` for six hours). Per process: `calling` (requests between `Add` and
`Run`), `runner` (where the goroutine that holds the mutex is), `ctx`, `source`
and `row` (where `taskSource.process` is and what it read), `quiet` (its last
query since the timer was set found nothing), `pipe` (what each stage holds,
before or after its function), `errs` (the error channel).

*Actions.* `Add`, `SubmitRun`, `Run`, `SetCtx`, `Stop` are the handlers, split
where another goroutine can come between; `Start`, `Sweep`, `Unlock` the
goroutine of `Run`; `Poll`, `Send`, `Save`, `Timeout`, `SeeCancel` the source;
`StageSetProcess`, `StageWork`, `StageSetFinish`, `Pass`, `StageFails` and their
like the stages; `MarkError` the error pipeline. `...Fails` variants are the
error path of a call. `Crash` empties a process. Stage 1 is "Set Process",
`LastStage` is "Set Finish"; the stages between touch no queue state.

*Abstraction.* `Promise` in `TaskQueue` is the queue as its clients see it (the
module `Jobs`): what has been submitted, is listed in the table, has been imported,
has been reported. `ImplementsJobs` is the refinement.

*External behaviour assumed.* yenstream connects maps by unbuffered channels, a
map whose function fails drops the item, and `CreatePipeline` returns when the
source and its maps are done. Go 1.23 timers: `Reset` leaves no stale tick. A
single SQL statement is atomic. `Stop` before the first `Run` panics its own
request only.

### Importer

*State.* `made`, `diff`, `lost`, `valid` are the withdrawal rows, their
`diff_amount`, the rows of `wd_order_not_founds` and of `wd_valids`; `logged`,
`log`, `fundAt` the adjustments; `orders`, `fundedAt`, `returns`, `announced`
the orders, their open return transactions and what has been published. `pc`,
`file`, `pos`, `wd`, `counting`, `from`, `adjs` are the importer's fields.

*Actions.* One per step that becomes visible at once: an increment (outside any
transaction, because `DataQuery` ignores the one it is given) or a commit.
`OrderFund` is `IncOrder` then `CommitOrder`; `Unknown` locks the withdrawal row
in its transaction and then increments it on another connection, which waits for
the first (`UnknownBlocks`); `Check` is `Check`, `Publish`, `CommitSettle`.
`Abort` is a failing call or a dying process at any point; `OrderChanges` is
somebody who enters an order or makes it a problem or a completed return. An order
that is one of these is found and funded like any other (`order_ref_id.go:26`
refuses cancelled ones only) but never completed (`CompletedIDs`).

*Rows without a reference.* `Nameless` is the row that `Unknown` counts without
looking for an order; a commission or a compensation without a reference is looked
for like any other row, is not found unless the team has an order of the empty
reference, and goes to `AddOrderNotFound`, where an empty reference matches any lost
row of the withdrawal (`HasLost`). So `Ref`, the references, are `Order` and the empty
one, which `GroupOrders` keeps as well.

*Abstraction.* A withdrawal is named by its time, as the code looks it up. A
statement is cut from a ledger (`LedgerAssumption`): its balances follow from its
amounts, in whole rupiah. What `pub.Send` sends is delivered.

### TwoImporters

*State.* The variables of `Importer`, which are the database and the import that
runs, and `other`, the state of the import that waits for its turn. As history:
`finished`, the statements imported to their end, `cut`, whether an import was cut
off since nobody imported, and `again`, orders whose completion was published twice.

*Actions.* `Step` is a step of `Importer` by the import that runs, `Turn` lets the
other go on; between any two steps the turn may change. A step that wants the row of
an order that the other holds (`Free`: `Wants` and `Holds`, the orders locked by the
open transaction) cannot be taken, only aborted: the locks are `NOWAIT`. The row of a
withdrawal is locked by nobody who reads it. An import that is blocked holds its
withdrawal's row, so the other does not change it (`Waits`).

*Bound on the claim.* `SettledTogether` speaks of rows that the statements agree on
(`Whole`): every statement that shows the order shows it below the withdrawal that
paid it, and each that shows that withdrawal shows the row. Where statements are cut
differently, an import may attribute a row to what it alone has seen.

### StatementReaders

*State.* `file` is the statement: for TikTok the two sheets, for Shopee and
Mengantar their rows. `pos` is the row that `Iterate` reads next, `top` the earnings
row on top of its stack (`w.ind`), `left` what is left of each earnings row,
`emitted` the days whose withdrawal has been handed, `last` the row before, and
`got` the calls of the handler so far.

*Actions.* `MapSheet` (the sheet is read and balances are computed), `TiktokRow`,
`TiktokSkip` (an order of 0), `TiktokStray` (a row of no day that is left),
`TiktokPanic` (the stack is read before its first element), `TiktokRest` (withdrawals
that have no rows); `OpenReport`, `ShopeeRow`, `ShopeeSkip` (failed, refunded,
repeated), `ShopeeInProcess` (refused); `OpenCsv`, `MengantarRow`. `Unsupported` is
`createImporter` for any other marketplace, `Hand` the `switch` of
`iterateWithdrawal`: a row of a type it has no case for goes nowhere.

*Inputs.* `MCStatementReaders` derives statements from what happened (which
withdrawal paid which rows, which row is a copy), so that the truth is known. For a
TikTok workbook `earned` is that truth. `StatementsAssumption` says what is known of the
lists: the sheet of a workbook is newest first (`NewestFirst`) and every order belongs
to an earnings row of its day, in the order of the sheet (`Attributed`); a copy in a
Shopee report stands below the succeeded withdrawal it repeats (`Listed`).
`FiguresAssumption` says what is known of the figures: an earnings row brings what its
orders bring (`SheetAddsUp`), and a balance is the one before it and the amount of the
row (`BalancesAddUp`). Only `ToldBalances` rests on the second.

*Abstraction.* Days stand for times of a day's precision. A description is the set
of phrases in it that the classification looks for. Cells can be parsed, except that
a Mengantar row may not.

### SubmitStream

*State.* Besides the reader's: `asked`, `tasks` in the v1 queue, `told`, how often
each event was sent to the revenue service, by type and row. `pc` goes on in the steps of the handler.

*Actions.* `QueueTask` (the v1 `SubmitWithdrawal`), `CheckShop` (the document, the
reader, the shop), `StreamRow` (`OldReader` for Shopee and Mengantar; `OrderRow`,
`WithdrawalRow`, `SheetEnd` of the v2 reader for TikTok), each with its failure,
`Close`, and `AskAgain`, the user who uploads the file again. `Import` is a task that
reads the same statement.

### TiktokFunding

*State.* `row` and `wds`, `invos`, `getted` are the loop of `IterateWithdrawal`
and what it builds; `next`, `funded` the loop of `IterateValidWithdrawal`; `phase`
says which of the two runs. The
recursion of `FundedEarning` over older withdrawals is a recursive function.

*Inputs.* `MCTiktokFunding` generates histories (a day's earnings, an ads
deduction, a withdrawal that leaves the newest earnings behind) and derives the
two sheets from them, so that the truth is known: `of`, the row that a detail is part
of, and `payer`, the withdrawal that paid out a row. No other fact about a workbook is
built into it; what the properties need is stated of these by predicates:

- `OneRowADay`: of a day with two rows of earnings, both get all its orders.
- `Itemised`: every row of earnings is the sum of its details, and the payments of
  deductions are listed in the order of the deductions. A day brings something: one
  that brings nothing at the border of two withdrawals fits into either.
- `Complete`: a withdrawal pays out all it can but for the newest days' earnings,
  which the next one pays out, and the workbook goes back to the first earning.
- `Traceable`: no withdrawal that pays out what another left behind leaves something
  itself, and no deduction comes in a workbook in which something is left behind.

`AddsUp` and `PaidOnce` need the first, `PaidOnce` of the oldest withdrawal needs
`Complete`, and `TrueFunding` all.

### ShopeeFunding

*State.* `file`, `items`, `next`, `result` are the loops of `ValidWithdrawal`. A
result counts how often a withdrawal got each row, because a row can be given
twice to one withdrawal.

*Actions.* `ReadFile` (`Iterate`, with its duplicate rule and its refusal of
withdrawals in process) and `EndOfFiles`; for one file `TraceSingle`; for several
`Sort`, `CheckRest`, `TraceMulti` (back to a balance of zero) and `ReplaceFailed`.
The recursions over older withdrawals are definitions over the sorted rows.

*Inputs.* As for TikTok; a statement has every row's balance, withdrawals may
fail and be refunded, be in process, or be listed twice. What really happened comes with
the files: `ledger`, the changes of the shop's balance that they show, and of each
change `taker`, the withdrawal that took it out of the balance, `payer`, the one it was
paid out with, and `of`, the withdrawal it is a refund of. Predicates state what
`TrueFunding` needs of them:

- `Balanced`: balances follow from the changes; a withdrawal takes what older ones have
  left, and of the newer changes all but the newest.
- `Settled`: a refund brings back just what a withdrawal that failed had taken, once,
  and that is paid out with the refund.
- `Listed`: each file shows changes in their order, no change is in two files, and
  together they are the newest ones; of several files, no two changes have one date.
- `OrderlyOne`, `OrderlyMany`: what the reader of one file and that of several cannot
  tell apart does not occur; see the v2 readers in section 3.
- `Whole`: the files go back to the first change.

*Abstraction.* Amounts are whole rupiah, which float64 adds exactly. Rows of one date
come out of `sort.Slice` in any order: `Sort` numbers the rows that share their date
with another one (`Tied`) in every way.

### ShopAccounts

*State.* The tables: `assets`, `banks` (the asset of each account), `shop` (ids
of account and holding asset of each marketplace), `orderShop` (`NoShop` for an order
that is not entered), `rows` (the
withdrawals with the two asset histories) and `lock`, the task whose transaction
has a marketplace's row. Per task `pc`, `made` (the id it has just been given),
`accounts`, `pos`; and as history `changed`, the orders that somebody else has
entered or moved since the task compared its own.

*Actions.* One per statement of `CheckBankAccount` (`ReadBank`, `NewBank`,
`SaveBank`, `SetBank`) and `CheckHoldAsset`, which run in no transaction;
`CountOrders` and `MoveOrders`; `LockShop` (`FOR UPDATE NOWAIT`: refused when
locked), `FindWithdrawal` and `EnterWithdrawal`, the transaction of
`SetWithdrawal`. `Fail` is a failing call, `CountFails` the one whose error is not
looked at, `Panic` the nil `HoldAssetID`, taken to kill the process with its
tasks. `ChangeOrder` is somebody who enters an order or moves it to another shop.

*Abstraction.* Within one instance every stage has at most one task, which is how
the pipeline of `TaskQueue` works; a retry is another task. What the import does
with rows is `Importer`. All tasks are of one team. The orders of a file (`refs`) are
those whose reference is in its raw column, which is what `GetRefIDs` collects; an
order that a row names in its description only is none of them. A missing TikTok shop gets an asset and an account that belong to
nobody, as in the code.

### Submit

*State.* Per request `file`, `pc`, `wd`, `row`; `place` of each order; `made`,
how often each entry of each withdrawal (log row, revenue withdrawal, one per
row) has been made; `completed` orders; as history `late`, the orders that were
entered or moved elsewhere after a Shopee request had moved those of its file.

*Actions.* One per insert, call or decision: `Log`, `Revenue`, `Pay`, `Spend`,
`Complete`, `SkipRow`, `RefuseRow`; reading is `ReadTiktok`, or `ReadShopee`,
`Move`, `Parse`. `Fail` is a failing call or a dying process, with or without the
call's effect. `EnterOrder` and `CancelOrder` are the order service, which also
decides freely whether a payment's reply asks for a completion; `TakeOrder` moves an
order to another shop, as a request for that shop does. `Move` is the update of a
Shopee request: it takes the orders of its team (`Team`) whose reference is in the raw
column of the file (`refs`). The rows name others too, because `Iterate` cuts a FLEXI
reference in two and reads order ids out of descriptions, and `OrderByExternalID`
finds orders of any team: these are paid and never moved. `Complete` completes the
order that was looked up (`LookedUp`); a TikTok row for which none was names order
id 0.

*Abstraction.* A file is the list of its withdrawals and its raw references, whether
they can be traced being part of it. All requests are of one team. Texts and amounts
are left out. A row whose payment is
of -350 is sent as a return: wording only.

## 3. Runs

| Run | Question | Bounds |
|---|---|---|
| `queue_one` | Is a deleted row ever restored, is a finished or failed row reopened by the wrong hand, and is a waiting task taken in the end, although a call fails, the process dies and `Stop` is called? | 1 process, 2 tasks, 3 stages, 1 fault, 1 crash, 1 stop |
| `queue_two` | Is a task ever imported too often, and does the queue keep what `Jobs` promises, when two processes share the table? | 2 processes, 1 task, 1 fault, 1 crash, rows grow stale once |
| `queue_calm` | Does a started runner look for its task, is the mutex given back, is every task imported or reported, although the error channel fills and runners are stopped? | 3 tasks, 4 stages, channel of 1, 1 stop |
| `queue_mark` | Does a task marked as failed read `ERROR`? **No**: see below | 2 tasks, nothing fails |
| `import` | Do differences, adjustments, orders and lost rows agree with the statement over two interrupted imports, what does a repeated import change, and does an import end? | every window of an eleven-row ledger that ends at its second withdrawal or later, 2 imports, 2 orders that others enter or make a problem at any time |
| `import_two` | Do two imports at a time leave every row as one import would, and publish no completion twice? | 3 statements of a seven-row ledger, 2 imports on each side |
| `readers` | Are statements read completely, in order, every row under its withdrawal and with balances that follow from each other; does the stream tell what the import imports, and nothing that no task is queued for? | TikTok sheets of 4 rows, Shopee histories of 5, Mengantar files of 3; streams of 3, 3 and 2 rows, 2 requests |
| `shops` | Is a shop given one pair of accounts, is every withdrawal entered once and between its shop's accounts, is the shop ready when the import begins, does nobody wait for ever for a row? | 2 tasks, 1 or 2 processes, 2 shops, 2 orders, one of which others enter and move any number of times, 1 or 2 withdrawals a file, 1 fault, any number of panics |
| `tiktok_books` | Are earnings attributed once, completely and rightly? | histories of 5 events, amounts 1 and 2, workbooks without the oldest 0 to 2 events |
| `shopee_files` | The same for Shopee | one file: histories of 6 changes, up to 2 left behind, without the oldest 0 to 2. Two files: histories of 5, up to 1 left behind, 0 or 1 in both files, at most two orders of one date, three rows of it where the files overlap |
| `shopee_refund` | Is a refund among a withdrawal's rows found and replaced? **No**: see below | two files, histories of 4 |
| `submit` | Are entries made in order, completely, once per request, under the right shop, and is a second upload accepted, across failures and overlapping requests? | 2 requests, 2 orders, one of them of another team, 4 withdrawals in 8 files, one of which names its orders in descriptions only, 2 failing calls |

*Why the bounds suffice.* In the queue the interesting races are between one
task's save, mark, finish and sweep and one more task that keeps the source
alive: two tasks (one, with two processes), three stages (first, working, last)
and a channel of one show every such meeting; `queue_calm` adds a third task and
a fourth stage so that the channel fills while a stage waits behind another. The
ledger of `MCImporter` has groups with known, unknown, missing and cancelled
orders, orders that become a problem, a commission without a reference, repeated adjustments, a balance left behind and a headless group; two
imports show what a repeat does; more are left to the proofs. The ledger of
`MCTwoImporters` has a settled and an unsettled group, an order that is paid, one
that is not known, one that is a problem, and rows that two or three statements share; every step of one import meets
every step of the other. Four rows of a TikTok sheet hold two withdrawals with
earnings between and below, a day that is split, one of each status; five changes
of a Shopee balance hold a failure with its refund, a copy, and two withdrawals. One
task of a process is giving accounts at a time, so two tasks show every meeting of two
processes, and of a task that gives accounts with one that is further on; meetings
of three processes are left to the proofs. Histories of five TikTok events
contain two withdrawals with what one leaves to the other; six and seven events,
with fewer amounts, were tried and hold too. Five Shopee changes hold a withdrawal
that fails, its refund and the withdrawal that pays it out with an order on each
side; longer histories are left to the proofs. Two requests over files that share a withdrawal show every overlap of
submissions. Requests are interchangeable, and so are the processes of `queue_two`:
both runs use that symmetry, and neither has a liveness property.

*Deadlock.* Checked in the runs of the queue, where somebody can always submit
or run. Off in the others: an idle importer whose imports are used up, tasks that
have ended, a file that has been read and requests that have ended really stop.

*Fairness.* `FairSpec` of `TaskQueue` lets every goroutine of a live process
keep running and a set timer fire, which the Go scheduler and runtime do; it
makes no client call. `RetrySpec` adds a client (in production a scheduler) that
calls `Run` when no runner is active; `JobsServed` has it as its hypothesis. `FairSpec` of `Importer` keeps the import's
goroutine running; aborting is never fair. `LockReleased` rests on the import
stage ending, and `import` shows when it does not. `FairSpec` of `ShopAccounts`
keeps every task's goroutine running and has the source, which waits in its send
until the first stage is free, deliver its task in the end; failing is never fair.

### What the violations show

`queue_mark`: the source sends a task to the first stage and only afterwards
saves the whole row with the status `PROCESS` (`store.go:167`, then `175-177`).
If the stages fail the task fast enough, `SetErr` comes first and is overwritten:
the task reads `PROCESS`, without anything having failed in the queue itself, and
is tried again after six hours.

`shopee_refund`: among the rows of a withdrawal the reader of several files
searches the refund of a failed one ("search jika ada yang gagal",
`shopee_wd_excel_multi.go:212`) and takes position 0 for not found (line 224),
where the refund is when it is the newest row. The rows of the failed withdrawal
are then never put in its place, and the orders it failed to pay are paid with no
withdrawal.

### Behaviour worth knowing that is not contradicted by any document

The properties are stated around the following, each where its comment says so.

The v1 import:

- `Unknown` (`wd_importer_processor.go:149`) can wait for its own transaction
  until the database or the request's end breaks it; `import` admits the state.
- Importing a settled withdrawal again adds the older balance again
  (`SettledAgain`), so its difference is no longer 0 and the next import counts it
  from the start.
- An order that is a problem or a completed return is funded by its withdrawal and
  never completed; `GroupSettled` says of a paid order that it is not left open.
- A commission or compensation without a reference that is not found is not listed
  when the withdrawal has any other lost row (`wd_importer_processor.go:338`): gorm
  leaves the empty reference out of the condition. `LostListed` says so.
- A row of `wd_order_not_founds` is never removed, also when its order has been
  entered and imported since.
- Rows below the shop's first order have no `i.wd`. Their group may be attributed
  to a newer withdrawal whose difference happens to equal its sum.
- Of two imports at a time one usually fails, because locks do not wait. What is
  left of both is right except `diff_amount`, which both start again and both count.
- `*market.HoldAssetID` (`order_query.go:291`) is dereferenced for the task's
  `mp_id`; the stage that gives a shop its accounts looks a Shopee shop up by the
  username in the file (`runner.go:149`). When the file is of another shop and the
  task's shop never had accounts, the process dies (`Panic` of `ShopAccounts`).

The v1 readers:

- A TikTok withdrawal without rows is handed after all others, and the next older
  one was told a balance that counts it. A second withdrawal of one day is never
  handed.
- A trailing row of amount 0 that is not an order refuses the statement, after its
  rows have been handed. One above the first earnings row reads `w.data[-1]` and
  panics.
- A row of amount 0 counts nothing down: an earnings row whose rows are all like that
  stays on top, a second one of that day has its orders handed under the withdrawal of
  the first, and a row of another day refuses the statement. The proof of
  `RowsUnderTheirWithdrawal` needed that the last order of an earnings row has an
  amount, and TLC then found the case; `CountsDown` excepts it.
- A row that cannot be parsed ends a Mengantar file there, without an error.
- A Shopee statement with a withdrawal in process is refused when that row is met;
  the rows above it have been handed.
- Rows of types that `iterateWithdrawal` has no case for (a negative TikTok order is
  a "return") reach neither the importer nor the revenue service.
- A v2 stream that fails leaves its task queued and its rows told, and the next
  upload queues and tells them again. That a TikTok withdrawal is in process is
  only found out after all orders have been streamed.
- The document service ignores the error of closing its object; a request for such
  a document fails when it is read.

The v2 readers:

- The oldest withdrawal of a TikTok workbook that does not go back to the first
  earning can be given earnings that the withdrawal after it got too; `PaidOnce`
  excepts just this case.
- A TikTok withdrawal that pays out what the one before left behind and leaves
  something behind itself is refused, or given other days of the same total. So
  is one with an ads deduction while something is left behind.
- A TikTok workbook with one withdrawal and no earnings panics.
- The reader of one Shopee file does not know failed withdrawals and refunds: it
  treats each as a withdrawal. A withdrawal that pays out what the one before left
  and leaves as much itself, a withdrawal that repeats the amount of the one just
  above it, and the reader of several files as soon as a withdrawal leaves
  something, are not told apart from other rows; `Orderly` in `ShopeeFunding` is
  what `TrueFunding` needs. `AddsUp` needs less.
- Failed withdrawals are kept by their amount (`failedMap`), the oldest of each. When
  the one that was refunded cannot be traced in the files, a later one of its amount that
  failed too is taken for it. If that one had paid out the very refund, the refund is
  paid out a second time.

Shops and submissions:

- Two processes that give one shop its accounts at the same time make two holding
  assets. Withdrawals entered under the first are not found again under the second
  and are entered twice, which is why `AlwaysFound` is stated for shops that one
  process works for; `EnteredOnce` holds always.
- When counting the orders of a Shopee or Mengantar file fails, the error is not
  looked at: the orders are not moved and the import goes on.
- `DeleteWithdrawal` of the order queries is called by nobody and would leave the
  asset histories.
- A Shopee request whose file cannot be read panics instead of reporting it.
- An order entered, or moved to another shop, while a Shopee file that contains it is
  being submitted may be paid under a shop it does not belong to. So may an order
  that the file names by half a FLEXI reference or in a description, and one of
  another team: the request pays them and does not move them. `PaidInShop` is stated
  for the others.
- The orders of a v1 task are compared once, before its import. An order that is
  entered under another shop or moved after that is imported all the same, and so is
  one that a row names in its description only, which `GetRefIDs` does not collect;
  `ReadyToImport` is stated for the others.
- A TikTok adjustment whose order was not looked up is sent with order id 0, and so
  is its completion, should the reply ask for one.
- A completion whose call failed is made only if a later upload's payment is
  answered the same way.

## 4. Proofs

All theorems hold for any number of processes, tasks, stages (at least three),
faults, crashes and stops; of requests, orders, withdrawals and files; of
instances and shops; for any ledger and any statements cut from it; and, of the v2
readers and the stream, for workbooks and files of any length. They assume
only what the modules assume of their constants: `QueueAssumption`,
`InstancesAssumption`, `FilesAssumption`, `WithdrawalsAssumption`,
`ShopAssumption`, `ImporterAssumption`, `LedgerAssumption`, `StatementsAssumption`,
`FiguresAssumption`, `UploadsAssumption` and the two `BooksAssumption`, each of which TLC evaluates in a
run. `InstancesAssumption` and `WithdrawalsAssumption` say that there are finitely
many processes and requests, that a withdrawal belongs to one market, and that a file
lists it once; only the proofs that count need them. `StatementsAssumption`,
`FiguresAssumption` and, for the files of the v2 service, `UploadsAssumption` say what
`MCStatementReaders` derives; see `StatementReaders` in section 3.

**The queue** (`TaskQueueProofs`).

- `TypeInvariant`: `TypeOK`, which includes that an error channel never exceeds its
  capacity. One step per action; what the pipeline and the channel hold is in lemmas
  (`SendType`, `PassType`, `EmitType`, ...).
- `TasksAreNotLost`: no row leaves the table before its import. Not inductive: a row
  may be deleted when its status is `FINISH`, so one must know that `FINISH` implies
  an import, and that what reaches the last stage has been imported. `ImportedFirst`
  is the conjunction of the three.
- `QueueImplementsJobs`: `ImplementsJobs`, that `TaskQueue` refines `Jobs` with any
  number of processes. Every step is mapped to a step of `Jobs` or to none
  (`JobsStep`, one case per action; `MarksKeepTheList` for those that write a
  status). It needs `ImportedFirst`, so that the sweep forgets imported tasks only,
  and `SubmittedOnly`, so that rows, sources and stages hold tasks that were
  submitted.
- `PromisesAreKept`: `PromiseKept`. `PromiseInv` adds that only a running runner has
  a source, that promises concern inserted rows, and that the context of an
  uninterrupted runner is live.
- `DeletedRowsStayDeleted`: `StaysDeleted`, assuming there is one process.
  `ReadRowExists`: the row the source is about to save is still in the table.
- `AttemptsAreBounded`: `AttemptsBounded`. Besides the imports of a task,
  `AttemptsInv` counts the attempts under way (`Slots` of the pipeline, `Holders` of
  the row) and those still possible (`Takers`: the task is eligible and the process
  neither holds it nor has just sent it), and bounds the total by one per process and
  round. Each action moves one attempt on, drops some, or begins a round. `UnbornInv`:
  a task that was not submitted is nowhere, so the first round begins empty.
- `SettledIsReopenedBySource`: `ReopenedBySource`, assuming there is one process.
  Only two steps write `PROCESS`, the source's Save and the first stage, so one must
  know that the stage does not find a settled row. `SentOnce`: as long as no stamp of
  a task grew stale and no Save of it was lost, it is sent once: what waits in the
  table is nowhere in the pipeline, what the source holds is nowhere else, and what
  arrives at the first stage is in no other stage and in no error channel, so that
  nobody else can have settled it.

**The importer** (`ImporterProofs`, resting on `Sums`).

- `TypeCorrect`, `MoneyIsTracked`, `MoneyBalances`, `GroupsAreSettled`,
  `LostAreListed`, `SettledStays`: every invariant that `import` checks, while orders
  are entered and become a problem at any step. They are
  about rows handled steps ago, so none is inductive alone, and they are proved
  together as `IInv`, which adds where the import stands. `Shape`: which rows the
  cursor can be on at each step. `Headed`: the rows from `from` down to the cursor
  contain no withdrawal, and the row above them is the withdrawal in `i.wd`, unless
  that one is older than the shop's first order. `Connected`: the adjustments
  gathered are those of the rows that were not missed, and their orders are known.
  `Ledger`: the balance after the first row of the group is the sum of its amounts
  plus the balance after the row to come; this is where `LedgerAssumption` enters,
  and what makes `Balanced` follow when the older withdrawal is reached.
- `Sums`: `SumFunctionOnSet` folds a function over a set by `CHOOSE`. `SumWithout`,
  `SumAdds` and `SumOfUnion` say that any element may be taken out first and that
  disjoint parts add up. They are proved without induction over data: inclusion is
  well founded on finite sets, and a smallest set that refutes the claim is refuted.
  `SetSizes` is the step of every proof that counts: how the size of a set changes
  with one element.

**Two imports** (`TwoImportersProofs`, the last part of `ImporterProofs`).

- `TwoSettleTogether`, `TwoPublishOnce`: `SettledTogether`, `PublishedOnce`, from
  `TwoInvariant`. `Apart`: what an import relies on (`OwnInv`) is that of `IInv` which
  another import cannot disturb: of the database it relies on nothing but what only
  grows (`Grows`), and on the sums of `diff_amount` not at all. Every lemma about the
  import that runs is used for the one that waits through a change of turn.
- `Claims`: the rows that an import has passed are settled, or `Owed`: one of the two
  is busy with their order and settles them when it commits, unless it is cut off,
  which `cut` records. This holds from the first row on and so, at the end of the
  statement, for all of it.
- `Published`: what is published is completed, or about to be by the import that
  holds the row of the order; the `NOWAIT` lock makes that one import.

**Shops** (`ShopAccountsProofs`).

- `TypeInvariant`, `WithdrawalsEnteredOnce`, `AccountsAreOwn`: `TypeOK` (every id
  names a row), `EnteredOnce`, `OwnAccounts`. `IInv` adds five facts. `Locked`: a
  task in its transaction has its shop's row, so no other is at a withdrawal of that
  shop. `Entering`: what it is about to enter is still not there, which the lock
  preserves. `MadeOwn` and `ShopOwn`: an id goes from the asset to the account to the
  shop it was made for, whoever overwrites whose. `ShopFound`: a task that makes a
  holding asset has found its shop.
- `ImportsAreReady`: `ReadyToImport`. `Supplied`: an account once given is replaced
  but never removed. `Gathered`: from the count on, an order in the reference column
  of a file that is in the tables and not in the file's shop is one that was entered
  or moved since, which is what `changed` records (`OrdersChanged`, `ChangesMissed`).
- `WithdrawalsAreFound`: `AlwaysFound`. A process checks one task at a time
  (`OneChecking`), so a shop that only it works for is given a holding asset when it
  has none (`HoldOnce`), and all its withdrawals are under it (`FromHold`).

**Submissions** (`SubmitProofs`).

- `TypeInvariant`: `TypeOK`, with the position of every request in its file.
- `CompletionsArePaid`: `CompletedIsPaid`. A request about to complete an order has
  already made the payment entry of that row.
- `PaymentsAreInShop`: `PaidInShop`, an action property. `MovedOrders`: past its
  `Move` a request finds no order that it may move elsewhere, but for those of `late`
  (`MovedKept`, `MovedStep`). `EntersAccepted`: a step that makes a row's entry is one
  of a request whose row was accepted, so its order is in the table.
- `EarlierEntriesFirst`, `EveryEntryCounted`: `EarlierFirst`, `EntriesCounted`. Every
  step of a request makes the entry it is at, stays, begins with a withdrawal or
  stops (`RequestMoves`), so the number of times an entry was made is compared with
  the size of a set of requests: those between the earlier entry and the later
  (`Between`, in `EarlierInv`), those past it (`Through` and `Reached`, in `CountInv`).
- `SecondUploadsPass`: `SecondUpload`. `AcceptedInv`: the orders of the rows that a
  request has passed are known to the order service, and entered orders stay entered.

**The v1 readers** (`ReaderProofs`).

- `RowsGoUnder`: `RowsUnderTheirWithdrawal`. An item's place depends on what was handed
  before it, so the invariant speaks of the reader's own state: `Counted` says how far
  the sheet is counted down, `Handing` that the withdrawals handed are those of rows
  read, in the order of the sheet, and that `emitted` has just their days. From
  `Counted` follows that the row of the sheet the reader takes an order for is the one
  it belongs to (`StackIsOwn`: by its day, and of two rows of one day by what is
  left); from `Handing` that a withdrawal which is not due is the last one handed
  (`FundsBefore`). `CountsOn`, `HandsWithFund` and `HandsAlone` carry both over a row.
- `OrderlyIsReadInOrder`: `ReadInOrder`, for the three formats. `ReadInv` says that
  while rows are read, what has been handed is just what the reader has passed
  (`Passed`: the items of rows above the cursor, and the withdrawals they are due to),
  in order; for a report it also says which row `lastitem` is. A step hands items that
  are `InTurn`: what is expected before each is what was handed and the items before
  it. In a workbook that is so because no withdrawal comes twice and none is skipped
  between two rows that are handed.
- `BalancesAreTold`: `ToldBalances`. In a workbook the withdrawals handed are those of
  the days emitted, each before the rows it paid out and after those of newer ones
  (`Follows`), so what comes between two of them is what the older one's earnings
  rows brought. `SheetAddsUp` turns their amounts, of which `mapWithdrawal` computes
  the balances, into those of the orders (`EarningsBring`, `DiffIs`, `AfterIs`). In a
  report, `Level` compares the balances of two rows with what the rows between them
  bring; it holds of a row and itself and is carried down the report row by row, the
  least row it fails of being none.

**The v2 stream** (`ReaderProofs`).

- `EventsHaveTasks`: `ToldIsQueued`. Not inductive, because a request could tell again
  what all tasks have told. `Ahead`: a request that has its task finds each row it has
  still to come to told less often than there are tasks. Asking again makes a task
  before it tells; `Place` orders the rows of the two sheets as one request meets them.
- `StreamTellsTheImport`: `TellsWhatIsImported`. `TellInv`: an event has the type, the
  amount and the order that `Expected` has for its row (`Truthful`), and of a workbook
  each was told once, all those behind the cursor that have an amount (`BooksTold`:
  the stream leaves out those of 0). For the two lists `ReadInv` says so already,
  since the v1 readers read them.

**The v2 TikTok reader** (`ReaderProofs`).

- `EarningsAddUp`: `AddsUp`. `Gathered`: a row of earnings has orders of its day, one
  of ads deductions has payments no other has, so that lists of different rows have
  nothing in common, which is what `OneRowADay` is needed for (a day with two rows
  gives both all its orders). Then a list's amount is the sum of its rows', and
  `Need`, `List` and `Left` add up. `FundedEarningIs` shows that the
  recursive function has the value its definition says: of the withdrawals for which
  it had none, consider the oldest.
- `NothingIsPaidTwice`: `PaidOnce`. What a withdrawal takes from the one before it, that
  one has left, and withdrawals further apart have rows of different days
  (`InsideOnce`). Only the oldest is traced in two ways: its own list from the oldest
  row up (`Oldest`), what the one after takes of it from the newest down (`Newest`).
  Were a row in both, it would be a deduction at which both sums are met exactly; but
  above and below it there are rows that did not fit (`Holes`), and they bring more
  (`HolesSum`, by induction up the sheet) than the oldest withdrawal left behind
  (`NeverBoth`). That each withdrawal's own rows come to its amount, less what it left
  behind and with what it caught, is `TrueAmounts`.
- `TracedIsTrue`: `TrueFunding`. `Filed`: a row that has been read has just its own
  details. For a deduction that is `Deducts`: the payments of the deductions above have
  been given (`getted = Spent`), and one more payment than its own would exceed it.
  `LaggingIs` and `TruePaid`: what the `k`-th withdrawal paid out is its own earnings
  without those it left behind, and those the one before left behind (`Caught`). If all
  rows bring something, an amount determines which of the oldest rows, or of the
  newest, come to it (`SplitIsFound`), so the withdrawals that leave something are
  traced by themselves (`LeaverIsTraced`), and the others after them (`AllAreTraced`):
  the recursion is never more than one withdrawal deep. `Smooth`: no step meets an
  error, and the last withdrawal is returned. `TracingInvariant` is the inductive
  invariant, `FundInv /\ Filed /\ Smooth`.

**The v2 Shopee readers** (`ShopeeFundingProofs`).

- `RowsAddUp`: `AddsUp`, for both readers. `Backed`: a withdrawal as it is traced got
  its rows once, and they add up to it. Ranks show that `Sort` permutes the
  rows and that the n-th withdrawal is one (`Nth`). When a refund is replaced, what
  the failed withdrawal got takes the place of a row of the same amount. The
  proof did not go through at first, and showed why: the failed withdrawal found may
  itself have paid out that refund, which is then given twice; see the v2 readers in
  section 3. `AddsUp` excepts that case, and `MCShopeeFunding` has statements in which
  it happens (`Part`).
- `PaidByTheLedger`: `TrueFunding`, for both readers. `TrueInvariant` is the inductive
  invariant: to `FundInv` above it adds that of orderly files the reader is `Following`
  the ledger. `ReadSoFar`: each file adds its changes, none of which was there. Then the
  rows are `Restored`: the n-th row is the n-th change, in one file because it lists
  them so (`InOrderIsTop`), in several because they are sorted by their dates
  (`SortRestores`). `Returned`: each withdrawal traced so far got what it took.
- That what is traced is what was taken rests on the balances. What the balance is after
  a change is what no withdrawal has taken by then (`BalanceIsUnpaid`, by the oldest
  change for which it were not), so what remains after a withdrawal is what it left.
  *One file:* `NotFundedIsLeft` (if changes bring money, only what it left comes to
  that), `AddUpIfSettled` (the rows add up just if the withdrawal left nothing and took
  nothing that the one before had left, which is why none may leave what the one before
  left), `TracedIsTaken`. *Several:* `FundedIsTaken`, back to a balance of zero, which
  only a withdrawal leaves.
- Several files, `ReplacedIsRight`: a refund is found among the rows of a withdrawal just
  if it took one (`RefundFound`), the failed withdrawal found by its amount is the one it
  is a refund of (`FailedFound`), and each order is then given to its payer
  (`PayersAreGiven`). If none is found, the files are not whole (`ReplaceFails`).

*Only model-checked.* Every safety property of a run that passes has a theorem.
Liveness under fairness (`LockReleased`, `JobsServed`, `WaitingIsTaken`, `ImportEnds`,
`TasksEnd`) is outside what the proof system does here, and so is what a recursive definition
computes for every input where no smallest counterexample can be argued away.

## 5. Not modelled

- Spreadsheet parsing, cell formats, cells that cannot be read, texts and logging.
  Permissions, and teams beyond the orders of another team in `Submit`. Amounts are integers: the sheets have whole rupiah, which
  float64 adds exactly.
- `GetRefIDs` and `GetShopUsername`: one pass over the file that collects a column;
  what they return is part of a task of `ShopAccounts`.
- The document service writes an object and then a row, in one function and with
  nothing to interleave with.
- `compute.go`, the data frames of the Shopee reader, `SubsetIndex`,
  `ComboIndices`, `NotFundedAmount`, the two `DeleteWithdrawal`, the locks of
  `marketplace_query`: called by no handler.
- The shipped-order readers and their row types, the agent and the commands: no
  state of their own, or not reached by the services. `alive_keeper.go` only sends
  pings. Migrations are table definitions.
- The data race on `w.ctx` and `w.cancelCtx`: `Stop` reads the old or the new one,
  and both are behaviours of `Stop` before or after `SetCtx`.

## 6. Where it could go on

1. A ledger whose withdrawal rows are functions of the statement, implemented by
   `Importer` for imports that are not cut off.
2. `StatementReaders` and `Importer` composed: statements that a reader makes as the
   `Files` of an import.
