# Delim: formal models and proofs

Delim keeps the shared expenses of groups of people inside the MAX messenger:
who paid what for whom, who owes whom, and who should pay whom to be even. This
directory holds TLA+ models of its services, the TLC configurations that check
them on small instances, and TLAPS proofs of what matters most for every
instance. Everything is translated from the source; `PROJECT.json` names the
lines behind each definition.

    tlc -workers 2 -config MCChatGroups.cfg MCChatGroups     # one run
    tlapm CoreGroupsProofs.tla                               # one module of proofs

## 1. The system

    Mini App ──HTTP──▶ Gateway ──gRPC──▶ Core      (groups, money)      PostgreSQL
    MAX ──webhook────▶         ──gRPC──▶ Document  (receipts, exports)  PostgreSQL + MinIO
        ◀─messages───

| Component | State | Operations | What is hard | What makes it correct |
|---|---|---|---|---|
| Core: groups (`internal/core`, Go) | `groups`, `group_members`, `audit_log` | create, join, add members, change a role, archive | the locking statement reads roles from its snapshot and the group's row after the lock | one owner; the audit log explains roles and status; an archived group is frozen |
| Core: money | `expenses`, `allocations`, `settlements`, `adjustments`, `audit_log` | prepare/create/update/confirm/cancel an expense, adjust, settle, confirm; read an expense or a ledger | several statements outside a transaction before the one that writes; optimistic versions; reads in several statements | no lost update; parts add up; refunds within the expense; settled rows stay; reads that count are whole |
| Core: arithmetic (`domain/ledger.go`, `domain/split`) | none (pure) | divide an expense, balances, breakdown, settlement plan | remainders, int64, arbitrary order of a Go map, a greedy loop | whole and fair division; exact balances; a plan that settles everybody |
| Core: users; gRPC service | `users` | upsert of a login; the operations as calls, errors as codes | a call whose answer is lost | an error code tells the truth about what was written |
| Gateway: notifications | `gateway_notifications`, subscriptions | enqueue, claim, send, complete/fail | several workers, stopped workers, lost answers, repeated events | held by one; sent or given up in the end; outcomes are final |
| Gateway: MAX updates | `gateway_max_updates`, chats, subscriptions | ingest, claim with leases, dispatch, complete/fail | leases run out while work goes on; duplicates; reordering | the newest event wins; attempts explain outcomes; nothing is lost |
| Gateway: rate limiter | an in-memory map of token buckets | Allow, purge, Retry-After | bounded memory, rounding | never more than the rate; obeying Retry-After is enough |
| Gateway: chat bindings, member synchronisation | `gateway_max_chat_groups` | bind, unbind, take a chat's people into the group | calls MAX and Core in turn while people, roles, bindings and the group change | a group has one chat, bound by a manager; a synchronisation takes in exactly who stayed |
| Gateway: sessions, invites, launches, export capabilities | none (signed statements) | issue, verify | statements made from statements; nothing revokes them; roles change between check and use | nobody joins without an invite of a manager; nothing outlives the sum of its lifetimes |
| Gateway: HTTP handlers, clients | none | one request to one or several calls; the notifications after a write | calls that time out, lose their answer or commit late; clients that are gone and ask again | an answer never deceives; a notification tells what was committed; a retry changes nothing twice; a report is whole and its message is sent once |
| Document: receipts (`src/document`, Python) | `document_receipts`, `document_jobs`, `document_ocr_results`, object storage | upload, delete, remove original, retry; OCR worker; retention; recovery at start | storage and database change apart; crashes, cancelled requests; a worker interleaved with handlers at every await | records tell the truth about the storage; one active job; deleted and finished stay so; jobs end |
| Document: exports | `document_exports`, object storage | create, store, expire, read | storage and database change apart; retention removes what is being read | records tell the truth about the storage |
| Document: recognition, gRPC, metrics | none | image and text processing | — | outside |
| Mini App (TypeScript) | form and session state | screens | double submission, session expiry | planned in part |

How they interact: the Gateway calls Core for every operation on money, and after
Core has committed it enqueues notifications (`NotifyPersonal`); a MAX update with
a button press calls Core's `ConfirmSettlement`; Document is asked by the Gateway
and shares nothing with Core but user and group ids. Inside Core all sharing is
through PostgreSQL rows; inside Document the handlers, the OCR worker and the
retention worker share one event loop, the database and the storage.

The hazards of this code, each at its line with the properties that would catch
it, are in `PROJECT.json`.

## 2. Modules

| Module | Models | Actions and code |
|---|---|---|
| `CoreGroups` | `repository/postgres/group.go`, `domain/group.go` | `LookupAdd/LookupRole/LookupArchive` are the snapshot of `FOR UPDATE OF g`; `AddGroupMembers`, `UpdateMemberRole`, `ArchiveGroup` run with the lock; `CreateGroup`, `JoinGroup` are one step; `EndGroupCall` is every error path. `groupTrail`/`memberTrail` are the `audit_log` |
| `CoreLedger` (EXTENDS `CoreGroups`, `Balances`) | expenses, adjustments, settlements, the two reads | `PrepareCreate` → `CreateExpense`; `ReadForUpdate` → `PrepareUpdate` → `UpdateExpense`; `LookupAdjustment` → `CreateAdjustment`; `ChangeExpenseStatus`, `CreateSettlement`, `ConfirmSettlement` in one transaction; `ReadExpenseRow` → `LoadExpenseDetails`; `BeginLoadLedger` → `LoadLedgerStep` (three statements) |
| `CoreRecords` | abstract: what Core promises its callers, each operation on money one step | `CoreLedger` implements it (`ImplementsRecords`), `GatewayRequests` runs on it |
| `Balances` | what a ledger means: the net amount of a user (`domain/ledger.go`) | operators only; what the arithmetic is compared with |
| `LedgerArithmetic` | `CalculateBalances`, `CalculateBalanceBreakdown` | one action per operation counted and per entry of the Go map, in any order; integers of fixed width |
| `SettlementPlan` | `PlanSettlements` | one action per turn of the outer and the inner loop; negation wraps as in int64 |
| `GetSettlementPlan` (EXTENDS the two) | `usecase/ledger.go` | the request: `LedgerArithmetic` counts, `CallPlanSettlements` starts `SettlementPlan` with the balances it has found |
| `Clearing` | abstract: any payment from a debtor to a creditor that overshoots neither | `GetSettlementPlan` implements it (`ImplementsClearing`): what is owed is the net of the ledger until the balances are handed over, the rest of the debts after it |
| `Split` | `domain/split/split.go`, the participants part of `usecase/expense.go` | one operator per split type; remainders by rank of the user id |
| `ExpenseToPlan` (EXTENDS `GetSettlementPlan`, instantiates `Split`) | the chain from a request to a plan | a request is divided; the parts become an expense of a ledger, which `GetSettlementPlan` counts and plans |
| `NotificationOutbox` | `notifications/*.go`, `store.go` 324-401 | `ListSubscriptions` → `EnqueueNotification`; `ClaimNotifications` → `Send` → `Record`; `EnqueueFails`, `ClaimFails`, `SendFails`, `RecordFails`, `Stop` for statements and processes that die |
| `UpdateInbox` | `maxupdate/*.go`, `webhook.go`, `store.go` 32-151 | `IngestUpdate`; `ClaimUpdates` → `Dispatch` → `Record`; `LeaseRunsOut` |
| `RateLimiter` | `ratelimit/limiter.go`, `delivery/http/ratelimit.go` | `Allow` = `Serve`, `Refuse` or `RejectNew`, each with the purge |
| `TokenBuckets` | abstract: an unbounded map of buckets, one per key | `RateLimiter` implements it (`ImplementsTokenBuckets`) |
| `ReceiptProcessing` | `service/document.py`, `worker/*.py`, `repository/*.py`, start-up in `app.py` | every statement and every storage call is an action: `Put`, `InsertReceipt`, `CreateJob`, `MarkQueued` of an upload, its compensation `UndoReceipt`, `DropObject`; handlers; the worker from `ClaimPending` to `MarkCompleted` or `FailReceipt`; `Sweep*`; `Crash` and `Start` |
| `ReportExport` | `gateway/delivery/http/exports.go`, `create_export`, `download_export` and retention of `service/document.py` and `worker/retention.py`, `repository/export.py`, the listings of Core it reads | `BeginExport` → `ListGroupMembers` → `ListExpenses`… → `ListGroupAdjustments` → `ListSettlements`… is `buildExportRows`, one call of Core per action, a page is a set of rows; `Insert` → `MarkProcessing` → `PutExport` → `MarkReady` and the compensation `DropExport` → `MarkFailed`; `StartPass` → `DeleteExport` → `MarkExportPurged`; `OpenStream` → `Receive` → `UploadFile` → `SendMessage` |

The Gateway is composed with Core:

| Module | Models | Actions and code |
|---|---|---|
| `GatewayAccess` (EXTENDS `CoreGroups`) | `auth.go`, `session.go`, `invites.go`, `joinGroup`, the links of `exports.go`; `auth`, `invite`, `launch`, `exportcap`, `maxauth` | a statement that is signed becomes a member of a set with the time it has left; a handler checks first (`SessionAuth`, `LaunchParam`, ...), waits at most `Deadline` and calls Core afterwards |
| `ChatGroups` (EXTENDS `CoreGroups`) | `maxchat.go`, `membersync/service.go`, `pkg/maxapi/chat.go`, the bindings in `store.go` | `BindGroupMaxChat` → `IsChatActive` → `BindChatGroup`; `UnbindGroupMaxChat` → `GetChatByGroup` → `UnbindChatGroup`; `SyncGroupMaxChat` → … → `GetBotMembership` → `GetChatMembers` per page → `UpsertUsers` → `LookupAdd` → `AddGroupMembers`; `ComeOrGo`, `BotComesOrGoes` are MAX's side |
| `GatewayRoutes` | every registered route of `router.go` | a handler is the sequence of its steps: checks with their statuses, calls, notification, answer |
| `GatewayRequests` (EXTENDS `CoreRecords`, `GatewayRoutes`) | the handlers at work, `downstream.go`, `notifications.go`, `notifier.go`, `service/error.go` | `Receive`, `Asked`, `Send` → `Commit`/`Repeat`/`TurnDown` → `Reply`/`ReplyRefused`/`ReplyLost`, then `Named`, `Listed`, `Enqueue`; `CutOff` at any time. `Press` is the call of Core that a settlement's button in a chat leads to (`maxupdate/callbacks.go`), and races the Mini App |

The `MC*` modules hold the instances. The `*Proofs` modules hold theorems.
Operators marked "Variant" in the modules are the wrong versions of a definition
that the properties were tried against (`PROJECT.json`, `mutants`): each property
is violated by at least one of them under its own configuration.

What the models abstract: names, texts, dates, descriptions and listings are left
out; a transaction that locks what it decides on is one step; time is "due or not
due", "expired or not", except in the rate limiter where it counts; OCR and MAX
answer anything. History variables (`delivered`, `applied`, `committed`,
`admitted`, `promised`) record what an outside observer would have seen and guide
no step.

## 3. Runs

| Run | Question | Instance |
|---|---|---|
| `access` | Does anybody get into a group without an invite of its managers, or is anything handed out good for longer than the sum of its lifetimes? | 2 users, 1 group, 1 session, 2 invites, lifetimes of 1 and 2, calls of 1 |
| `chats` | Do stale roles let a group end up with no or two owners, an audit log that lies, or an archived group that changes? Do racing bindings give a group two chats, does a synchronisation miss somebody who stayed or let in who never was there? | 3 users, 2 overlapping callers; three workloads: management, bindings of 2 chats and 2 groups, synchronisations of 1 chat |
| `ledger_writes` | Do two clients lose an update, break an expense's parts, refund more than was spent, or write into an archived group? Does every interleaving look like one step per operation? | 2 users, 1 group that may be archived, 1 expense, 2 adjustments, 2 clients, versions up to 2 |
| `ledger_reads` | Is what the multi-statement reads return usable, and is the audit log the history of each expense and settlement? | 2 users, 1 of each row, parts of 0 and 1, 1 writer, 1 reader, updates |
| `expense_to_plan` | From a request to a plan: is every division whole, fair and independent of the listing order, does the code compute what the ledger means in every order of the map and near the limits of an integer, and does the greedy match end, settle everybody and never overshoot? | about 130000 requests, valid and invalid, of up to 5 units and 3 participants; some 1900 ledgers of 3 users in 2 currencies, integers of four bits |
| `requests` | What may a client conclude from its answer, and do members read what was committed? | every route and the button; 2 slots, 4 workloads on 1 group, 1 expense, 1 adjustment, 1 settlement |
| `inbox` | What do duplicates, reordering, retries and lost leases of MAX updates do? | 2 updates of a chat and a button, 2 workers, 2 attempts, 1 fault |
| `outbox` | Is a notification in one hand, explained by its tries, final, and settled? | 1 user, 1 event and the welcome, 2 workers, 2 attempts, 2 faults |
| `outbox_durable` | Does a stopped worker give its notifications back? (No: see finding) | 1 fault |
| `rate_limiter` | Does forgetting buckets ever give more than the rate? | 3 keys in a table of 2, more than one full refill |
| `receipts` | Storage against records, jobs, deletion, retention, crashes | 1 receipt, 3 jobs, 2 handlers, 2 attempts, 1 fault |
| `exports` | Is a report assembled in several calls whole, does its row tell the truth about the storage, is its message sent once? | 2 expenses, a refund, 2 settlements, a member who joins meanwhile, pages of 1 row, 1 export, 1 reader, a file of 2 chunks, 2 faults |

Bounds. The workloads of `chats` and `requests` say which requests reach a system in
one behaviour; TLC starts from each of them. `MaxTrail`, `MaxVersion`, `MaxJobs` and the sets of ids stop counters
that the code lets grow; they stand in the guards of *requests*, never of what
follows a request, with one exception: `MaxJobs` stands in the steps that insert a job.
The upload's step never meets it, since with one receipt its job is the first; the
second step of a retry (`CreateRetry`) does, and waits there where the code would go on. `MaxFaults` (`MaxFailures` of the receipts) bounds failures: one fault at any step of any actor
is what separates the interesting histories; the outbox, which is small, has two,
and so has `exports`: the second failure is the one inside the compensation. Pages
of one row put a committed operation between any two pages.
Two users are the fewest with a payer and another participant, three the fewest
for which a greedy match, a remainder and a stale role have more than one outcome.
Two concurrent callers make every pairwise race. `Horizon` is more than a full
refill of a bucket. `MaxInt = 7` makes integers of four bits, in which
sums overflow and `MinInt` has no negation. `Parts` are the parts a division may give
somebody; with more of them than 1 a part of zero occurs. The reductions by
symmetry permute users, callers, groups and currencies, which no guard compares,
and are used only where no liveness is checked.

Deadlock is checked except where the program ends: the pure functions, the clock's
horizon, and the receipts and exports, whose bounds can stop everybody. `exports`,
`requests`, `access` and `chats` have no liveness property: a request that is cut off
is not taken up again.

Fairness. `FairOutboxSpec` and `FairInboxSpec`: a worker's loop runs every second
as long as the process lives and time passes (`Tick`), so each worker's next step
is weakly fair; nothing forces a user, a notifier or MAX to act, and nothing makes
a fault happen. `FairReceiptSpec`: the event loop runs any task that can go on (an
upload once begun, the OCR worker, the retention pass), the supervisor starts the
process again, the time of a postponed job comes; handlers of other requests are not
forced, and no receipt need ever come of age: what is deleted must be purged for its
deletion alone.
`FairSpec` of
`GetSettlementPlan`: a function runs on. The liveness properties say what holds when
faults stop a chain: `EventuallySettled` and `JobsSettle` exempt behaviours with
a fault, since the code then does *not* guarantee an end (section 5);
`NoneLost` and `DeletedIsPurged` need no such exemption, because leases and
retention take over.

## 4. Theorems

Proved by TLAPS for every value of the constants, from the assumptions named in the
modules (constants are natural numbers, positive where the code's are).

* **`CoreGroupsProofs`** — `GroupTypeCorrect`, `OneOwnerAlways`, `AuditExplains`,
  `GroupsRatchet`. `OneOwner` is not inductive: `UpdateMemberRole` decides on roles
  read earlier. `GroupInv` adds what a waiting call may rely on: `SnapshotHolds` (the
  member a waiting role change is about still exists and, if it is the owner, was
  read as the owner: such a change is refused), `CallsGrounded` (a call names an
  existing group) and `Unborn` (a group without a row has no members). Each action
  has its lemma. `AuditExplains` rests on the story of each group and member: the
  last record of a trail is the state of the row.
* **`NotificationOutboxProofs`** — `OutboxTypeCorrect`, `HeldByOneAlways`,
  `TriesExplainAlways`, `OutcomesAreFinal`. `OutboxInv` adds that a held row's
  attempts are those of the table (`HeldFresh`, `SentFresh`), that hands are
  disjoint (`Apart`), that a pending row has an attempt left (`AttemptLeft`). It
  shows why the statements that name no owner are safe: only 'pending' rows are
  claimed. The same fact is the cause of the finding below.
* **`GatewayProofs`**, the inbox — `InboxTypeCorrect`, `NewestEventWinsAlways`,
  `OutcomesStay`, `AttemptsExplainAlways`. Nothing in the inbox says who holds a
  copy: a lease that runs out leaves an old copy in a worker's hands next to a new
  one. `QueueInv` is what makes that harmless: how far a copy lags behind the row is
  bounded by the faults there have been (`CopiesYoung`), and so is how far the
  attempts of a row can pass `MaxAttempts`, which the code never compares when it
  claims (`Spare`). `EffectInv` says what has been applied; `AttemptsInv` counts:
  the dispatches of an update and the copies in hand are at most its attempts.
* **`GatewayProofs`**, the limiter — `LimiterTypeCorrect`, `LimiterImplementsTokenBuckets`
  (a purged bucket was full, and a missing bucket counts as full, so purging is a
  stutter), `WithinRateAlways` (`RateInv`: what is left in the bucket plus what was
  admitted since any moment is at most the burst and the refill), and
  `RetryFindsTokenAlways` (`RetryInv`: a refusal promised no earlier than the level
  reaches a token).
* **`GatewayProofs`**, the requests — `AnswersAlwaysTrue`, `NotificationsAlwaysTrue`,
  `RetriesTakeEffectOnce`, for any users, slots, ids, inputs and sums, and for any
  workload of requests that a client can form (`RequestsAssumption`: a request names a
  registered route and carries the intent of that route; an input names a group).
  `RequestsInv` has four parts. `JobsTrue`: what is left of a handler is `Ordered`,
  that is, no check and no call stands after its write and its answer stands last, which
  is proved for every route of the router (`RoutesOrdered`); the
  outcome of the call decides what has been answered (`AnswerTrue`) and what is being
  told (`TellingTrue`). `HistoryTrue`: every committed event agrees with the rows as
  they are now, and no two events share a dedupe key. `OutboxTrue`: what is queued
  repeats the history. `RecordsTrue` is the shape of the rows. Core's steps only add
  rows and never reopen one (`Grow`), so that what was asked for, once recorded, stays
  recorded (`RecordedStays`).
* **`DocumentProofs`**, the exports — `ExportTypeCorrect`, `ExportsTellTruthAlways`,
  `SentOnceAlways`, `ReportAlwaysWhole`. `TruthInv` says what is in the row and in the
  storage at each step of a request (`ExportTrue`): a compensation runs only after a
  failure and leaves the object behind only after a second one; a row grows old only when
  its request is over, so retention never meets a request at work; and the pass marks
  only what it has deleted (`PassTrue`). `SentInv` says that only a whole file is
  uploaded and that nothing has been sent before the last try. `ReportInv` says what
  has been listed page by page while Core goes on: every row that counted when the
  report was begun is in the pages read or ahead of the cursor, and an id belongs to
  one row.
* **`DocumentProofs`**, the receipts — `ReceiptTypeCorrect`, `RecordsAlwaysTellTruth`,
  `FinishedStaysFinished`. `ReceiptInv` relates each row to the storage and to its jobs
  (`RowsTrue`, `JobsTrue`) and says what the worker may rely on in the middle of a job
  while handlers, retention and crashes change the rows under it (`WorkerTrue`).
* **`CoreLedgerProofs`** — `LedgerTypeCorrect`, `AllocationsAlwaysBalance`,
  `AdjustmentsAlwaysBelong`, `TablesFinite`, `AdjustmentsAlwaysFit`, `NoUpdateLost`,
  `AuditAlwaysExplains`, `SettledAlwaysReadWhole`, `LedgerReadsAlwaysBounded`,
  `LedgerUsesGroups` and `LedgerImplementsRecords`, the
  refinement of `CoreRecords`. `LedgerInv` is the type, `GroupInv`, and two parts
  about the calls under way: `CallsRead` (a client that has read an expense for an
  update holds a version that the row has had, in the group the row still is in)
  and `Received` (what a reader has got so far is a row as it was at some version, and
  a settled row never changed since). `NoLostUpdate` follows step by step from it, and
  every step of the detailed ledger is one of `CoreRecords` or leaves its state alone. `AdjustmentsFit`
  needs that an expense with refunds is confirmed, so that its amount stands still
  (`AdjustmentsBelong`), and that the tables are finite (`FiniteTables`): the ids have
  no bound in the proof, and a sum over infinitely many rows would mean nothing. For
  `LedgerReadBounded`, `RowsStay` says that rows which count are neither changed nor
  removed, so that what a reader has is between what counted when it began and what counts now
  (`Bounded`), and that each row found is well formed (`PartsComputable`); that
  such rows always close is `LedgerCloses`.
* **`BalancesProofs`** — `LedgerCloses`: the net amounts of any ledger of balanced rows,
  over any finite set of users, add up to zero in every currency. It rests on laws of
  sums over finite sets (`SumAdd`, `SumSame`, `SumPlus`, `SumMonotone`, `SumRenamed`,
  ...), and on sums that may be taken by rows or by users (`SumTable`). The prover has no
  usable induction, so each law is proved from a least counterexample: a finite set on
  which the law fails has a subset on which it fails and no smaller one
  (`MinimalSubset`, from the well-foundedness of `\subset` on finite sets), and
  removing one element of it gives a contradiction.
* **`PlanProofs`**, dividing an expense — `RequestsDivideFairly`, `OrderChangesNothing`, for
  any request a message can carry (`RequestsAssumption`). Rounding down leaves less than
  one unit for each member (`Rounded`: the total weight times what is left is the sum of
  the remainders), so that one unit for each of the first members by id hands out all of
  it (`HandedSum`). The parts depend on the users and their values alone (`Reordered`).
* **`PlanProofs`**, balances — `BalancesExact`, `BreakdownAddsUp`. `ArithmeticInv` says that the
  map is the net amount of the rows counted so far (`CountInv`), and each total the
  sum of the entries the loop over the map has reached (`TotalsInv`). That the rows of a
  ledger close (`LedgerCloses`) then makes the totals zero. A ledger that fits is never
  refused: no entry, on the way or at the end, exceeds the amounts counted so far
  (`WeightGrows`, `NetBound`). A breakdown shows at most two entries of an operation, and
  together they are its effect (`EntriesAre`, `ShownSum`).
* **`PlanProofs`**, the plan — `PlanSettles`, `PlanClears` (the refinement of `Clearing`). In
  `PlanInv`, `Paying` says that what has been paid and what is left make up each balance,
  that what is left adds up to zero, and that each transfer has settled a user, the last
  one two; `Sides` says that the queues hold exactly the debtors and the creditors that
  are left, and that no amount is the smallest integer, so that negating one wraps
  nothing. When one queue is empty the sum leaves nothing for the other
  (`BothExhausted`): this is what the code trusts when it stops.
* **`GatewayAccessProofs`**, access — `GatewayUsesCore`, `GatewayKeepsOneOwner`,
  `JoinedOnInviteAlways`, `AccessLapsesAlways`. The first two carry the theorems of
  `CoreGroupsProofs` over to the composed system. The others rest on what each
  request in a handler's hands has been checked against, and on an account of age:
  a statement's age and what it has left never exceed the lifetimes it goes back to.
* **`GatewayAccessProofs`**, chats — `ChatsUseCore`, `ChatsKeepOneOwner`, `BindingsAlwaysHold`,
  `SyncsAlwaysWhole`. `GoodList` says what a list read page by page is worth while
  people come and go: whoever stayed is ahead or found, and whoever was found was
  seen; `GoodFor` that a request comes from somebody who was a manager when it began.

Assumptions on constants beyond the types: the people are finitely many
(`UsersAssumption`, `PlanAssumption`, which says the same of the currencies); the ids
of rows may be infinitely many. Requests and ledgers are given as sets of inputs:
`RequestsAssumption` is the shape of a message, and `OthersAssumption` says of the rest of
a ledger what the queries return: rows with distinct keys (an id of each kind once), whose
amounts are integers and whose users are users.

Only model-checked: the liveness properties (`NoneLost`, `EventuallySettled`, `JobsSettle`,
`DeletedIsPurged`, `Terminates`; fairness is out of the prover's reach). Every invariant and
every action property of a passing run has a theorem, and so has every refinement. The
type invariants of the modules with proofs are proved and stand in no run; nor do
`OutcomesStay`, `OutcomesAreFinal` and `AdjustmentsAlwaysBelong`, which are proved alone.

## 5. What was found

**A stopped worker keeps its notifications for ever** (run `outbox_durable`).
`ClaimNotifications` marks rows 'processing' with a lease but claims only 'pending'
rows; `ClaimUpdates` in the same file also claims 'processing' rows whose lease has
run out. A worker that stops, or whose `CompleteNotification`/`FailNotification`
fails, between the claim and the outcome leaves the row behind, although the
package promises "durable" delivery.

Known deviations, seen while modelling, that have no run of their own; the
models contain the behaviour and no property claims its absence:

* `group.go:114` — a caller demoted while `AddGroupMembers` waits for the lock still
  adds members: the role is the snapshot's. `domain/group_test.go:18` states the
  rule for current managers.
* `domain/ledger.go:254` — the plan need not have the fewest transfers: balances
  -2, -1, +1, +2 of users 1 to 4 take three transfers where two do. `README.md:15`
  of the repository promises a minimal set. The bound that holds, one transfer
  less than users, is part of `PlanSettlesLedger`.
* `repository/job.py:151` — `recover_stale` keeps the attempts of an interrupted job,
  so one interrupted in its last attempt is pending for ever (`docs/runbook.md:152`
  says interrupted jobs are taken up again).
* `service/document.py:152` — `create_receipt` writes QUEUED after the job can be
  claimed and overwrites the READY or FAILED of a fast worker.
* `service/document.py:141` — an upload that dies between the storage and the INSERT
  leaves an object without a row, which retention cannot find.
* `service/document.py:228` — an export whose request is cut off (the Gateway waits
  10 s) stays 'processing' for ever and may leave an object whose key no row names.
  A lost answer of `mark_ready` followed by a failure of `mark_failed` leaves a
  READY row without its object.
* `exports.go:181` — a download whose stream breaks after the first chunk ends like a
  complete one: status 200 and a shorter file.
* `notifications.go:19` — the notifications after a write are made within the request,
  one call of Core and one statement per member: a slow list of members or a slow
  database delays the answer of a write that is done, past the `write_timeout` of
  `configs/gateway.yaml:10` if need be, and the client repeats it.
* A create or an upload that is repeated after a lost answer is made twice: nothing in
  the request identifies it. A repeated update is refused with 409 although the first
  one took effect; the client has to read the expense to know.
* A confirmation of an expense that is repeated by another member succeeds, and the
  notification, if the first one was lost, names the repeater as the actor.
* `store.go:298` — `UnbindChatGroup` names the chat alone: a chat that has been bound to
  another group since the lookup loses the new binding.
* `store.go:218` — an unbound row keeps its `group_id`, so `UNIQUE (group_id)`
  (`migrations/gateway/002_chat_group_bindings.sql:10`) refuses the group to every other
  chat for ever, though the code only looks for active bindings.
* `docs/runbook.md:136` says of an unavailable Core that the Gateway answers 503 and the
  ledger does not change. A connection that breaks, or an answer that is lost, after
  Core has the call is answered 503 (or 504) too, and the transaction may commit
  afterwards: `AnswersTrue` leaves every 5xx open.
* `maxupdate/callbacks.go:38` — any error of `ConfirmSettlement` is answered "cannot
  confirm this settlement" and counted as rejected, a lost answer as well, after
  which the settlement may be confirmed. Pressing again tells the truth.
* `exports.go:331` — operations of a member who joins after the members were listed
  carry no name; a refund can stand next to an expense listed before the refund.

## 6. What is not modelled

- The order of row locks: transactions are atomic, so the deadlock between
  `CreateAdjustment` and `UpdateExpense` (which PostgreSQL breaks with an error) and the
  interleavings of a failed statement inside a transaction are not seen.
- `middleware.go` (request ids, security headers, logs), metrics, health of Document
  and configuration decide nothing the properties speak of. `maxchat.go` is modelled
  though `router.go` does not register it; its `getGroupMaxChat` only reads.
- Image processing, OCR heuristics and renderers are numeric or layout code;
  `ReceiptProcessing` takes any outcome of recognition.
- Signatures are sound by assumption; a callback's token appears by its effect only.
  Floating-point rounding in the rate limiter is left out.
- The Mini App: screens and form state. What a double submission does is modelled on
  the server's side, as repeated requests.
- Generated gRPC code (some 9000 lines of accessors and descriptors), the tools
  `smoke`, `perfcheck` and `devseed`, tests and deployment files.

## 7. Plan

1. `RowLocks`: the transactions of `CoreLedger` with explicit row locks, for the
   deadlock hazard, refining the atomic version.
2. The session states and the forms of the Mini App on top of `GatewayRequests`.
