# Verification of credits, jobs and the desktop's runners

TLA+ models of the parts of this repository where something can go wrong between
two steps: the credit accounts of the backend and everything that spends from
them, the orders that fill them, the long jobs that freeze, settle and refund
credits, and the programs of the desktop that work through tasks, schedules,
edicts and local services. TLC checks the models on small instances; TLAPS proves
their main safety properties for all values of the constants.

Paths below are relative to `src/backend/src/modules/`, or to
`src/desktop/electron/main/` where a file of the desktop is named (marked *d:*).
`PROJECT.json` maps every definition to the lines it models.

## 1. Inventory

The repository is a NestJS backend (`src/backend`), an Electron desktop client
(`src/desktop`), web pages (`src/frontend`), a bundled video program
(`src/video-claw`) and deployment files. The backend keeps everything in MySQL
through TypeORM and takes per-user locks in Redis. The desktop runs agents and
services as child processes and keeps its boards in files.

| Component | State | Operations | Hard behaviour | What makes it correct |
|---|---|---|---|---|
| Credit accounts (`credits/services/credits.service.ts`) | one account row per user, transaction rows | recharge, reward, deduct, adjust, freeze, settle, refund; the two `...FromManager` operations run in somebody else's transaction | a Redis lock with a time to live around a transaction with a row lock; callers without the Redis lock; the freeze row is read before the row lock | no lost update, no overdraft, a hold is closed once, balances agree with the rows |
| Recharge orders (`credits/services/recharge.service.ts`, `payment/`) | order row, payment record | checkout, sweep of expired orders, notices | repeated, late and concurrent notices; a sweep while a payment is on its way | credits are added once and only for money; a payer gets them in the end |
| Refunds (`admin-finance`, `admin-user`) | the same rows | two handlers on one route | provider call before the transaction; lost answers; two administrators | money back and claw-back once, order and payment record agree |
| Reconciliation (`reconciliation/`) | difference rows | two nightly rules, adjust, ignore | rules compare tables written at different moments | no difference when the books are right |
| Media jobs (`media-generation/`) | job row, a loop and a watchdog timer in memory | image, video, polling, recovery at start | watchdog against a late answer; crash between freeze, row and closing call | every hold is closed, delivered is paid, failed is refunded, no orphan |
| Oral workshop (`oral-workshop/`) | job row, step rows | create, cancel, advance, retry, render, delete; an executor | whole rows saved from stale reads; cancel against a running step; draft and render | steps in order, delivered is paid, no forgotten hold, every job ends |
| Market (`market/`) | purchase rows | purchase | look-up, freeze, settle and insert without a transaction or a unique key | an item is paid once, owned means paid |
| Chat, tool and skill billing (`chat/`, `skill-store/`) | a circuit breaker in memory | freeze, work, settle or refund within one request | swallowed errors, un-awaited calls, upstreams that fail | one closing call per hold, billed is served |
| API key pool (`api-key-pool/`) | key rows with quotas | choose, deduct, edit, reset | unlocked counters against edits | usage adds up |
| Membership (`payment/services/membership.service.ts`) | membership rows, redeem codes | redeem, grant, revoke | unlocked read-modify-writes | a code counts once |
| Briefs (`briefs/`) | brief row, task rows | create, update, confirm, redispatch, cancel, a background dispatch | crash in the background part; stale saves over a cancel | tasks are created once, no brief stays pending |
| Scheduled tasks (`scheduled-tasks/`, *d:* `cron-engine.ts`) | task rows with a firing lease | update, remove, fire, fired; the clients' tick | a lease outlived by its run, receipts without token, lost receipts, several clients | a due task runs once per date and is served in the end |
| Step runner (*d:* `hermes-orchestrator.ts`, `index.ts`) | a coroutine per task, the task's row on the server | submit, pause, resume, stop, decide, auto-confirm, delete | window calls between any two awaits; failed reports | completed means approved; a stop is heeded; runs end |
| Edict board (*d:* `edict-orchestrator.ts`, `edict-bridge.ts`, the script `kanban_update.py`) | the board's file, pipelines, a table of running tasks | move, confirm, block, cancel; pipeline, stall detector | each command is checked twice with anything between; two pipelines over one task | nothing unapproved is executed, nothing unexecuted is done, ends stay |
| Desktop services (*d:* `service-manager.ts`, `service-registry/row-executor.ts`) | status, one tracked process, flags, a runtime directory | start, stop, restart, install, automatic restart | nothing serialises the calls; events of processes that are no longer tracked | a stopped service stays stopped, a runtime is kept, calls return |
| Tokens, channels, knowledge, workflows, plugins, MCP, administration, pages, `src/video-claw` | records and external services | queries and edits | little | not modelled |

In the backend the components meet in the credit service: payment callbacks and
refunds change an account inside their own transaction; the job services call
`freezeCredits`, keep the returned id (`frozenTxnId`) in their row, and later call
`settleCredits` or `refundCredits` with it, once, they hope; purchases, chats, tools
and skills keep that id in a local variable only. The desktop meets the server
in rows it patches and claims: tasks (step runner) and schedules. The hazards of
`PROJECT.json` list what can go wrong at which line.

## 2. The modules

```
CreditLedger  <--refines--  CreditsService      CreditsService_proofs
   |   \--INSTANCE-- RechargeOrders             RechargeOrders_proofs
CreditCalls
   |-- MediaJobs                                Jobs_proofs
   |-- Spending                                 Jobs_proofs
   \-- OralWorkshop                             OralWorkshop_proofs
Briefs                                          Tasks_proofs
EdictBoard                                      Tasks_proofs
Schedules                                       Schedules_proofs
StepRunner                                      Desktop_proofs
Services                                        Desktop_proofs

HoldSums (sums over the holds)                  itself; used by CreditsService_proofs, Jobs_proofs
```

Each has a module `MC...` and a configuration per run. Two modules whose proofs share a
module have names of their own (`RunnerInit`, `BriefSpec`, `SpendingTypeOK`). In all of them a step ends
at an await: what the code does between two awaits is one step, because Node runs
it without interruption, and everything may happen at the await. "History"
variables only remember what happened, for the properties.

**CreditLedger** is the abstract specification: what an account promises. Three
kinds of state, `available`, `reserved` and the status of every hold; five
atomic operations, `Credit`, `Debit`, `Reserve`, `Settle`, `Refund`. The other
modules use these operations where the code calls the credit service.

**CreditsService** is `credits.service.ts` for one user, as the concurrent
program it is. A request goes through the Redis lock (`AcquireLock`, `LockBusy`
with `LOCK_RETRY` attempts), reads the freeze row unlocked when it closes a hold
(`ReadHold`), waits for the row (`SelectAccount`, or `SelectNothing` and
`InsertAccount` for a new user), and commits (`Write...`) or rolls back
(`Rollback`); then it releases the lock by its own token. `ExpireLock` is the
10 second time to live: with `MayExpire` it may run out under a living holder,
without it only after a crash (`Crash`); the history `overrun` names the requests whose
lock ran out while they worked. `callback` and `clawback` are the two
operations that run without the Redis lock. Guard, writes and commit are one
step because a transaction's writes are invisible before the commit and nobody
else writes a row it has locked.

**RechargeOrders** follows the orders of one user from `createRecharge` through
notices and sweeps to a refund. `CreateAtGateway` and `SaveOrder` are separate:
the provider knows the order before the database does. `HandlePaid` is one
transaction with the order row locked. A finance refund is `RequestRefund` (the
unlocked check), `GatewayRefund` (money goes back; `GatewayRefundFails` when it
does not or the answer is lost), `LockOrder` (lock, check again, read the
balance), `ClawBack` or `Abandon`. The other endpoint is `RequestMark`,
`MarkOrder`, `MarkPayment`: it only sets statuses. Both are registered for
`POST /admin/recharge-orders/:id/refund`; the router serves the one of the module
imported first, which is admin-user's. The constant `Endpoints` says which are
served, and the run serves both, as a different import order would.

**CreditCalls** is what a job service sees of the credit service: a closing call
returns at once if the hold is closed, and ends `"ok"`, `"refused"` (an
exception, nothing done: the lock is busy) or `"unsure"` (done, and then an
exception). The runs use the first two; the theorems allow what `Outcomes`
allows.

**MediaJobs** is `media-generation.service.ts`: an image request is one handler
(`Charge`, `CreateRow`, `Generate`, save, settle or refund), a video a loop that
submits and polls (`PollProcessing`, `PollError` with its streak of three,
`PollDone`, `PollFailed`, `PollTimeout`), beside it a watchdog timer
(`WatchdogFires`, `WatchdogSaves`, `WatchdogRefunds`). Each save, each closing
call and each database read between two awaits is a step of its own. A crash
loses loops and timers; `RecoverSave` and `RecoverRefund` are `onModuleInit`. The
history `refused` names the jobs whose closing call threw.

**OralWorkshop** is one workshop job. The executor picks the first pending step
(`Pick`), reads the job (`Start`), claims the step with a conditional update
(`Claim`), saves the job (`Begin`), works, and reports: `ReadDone`,
`FinishLoad`, `FinishSave`, `SettleAll`, `SaveProgress`, `Pause` and, for a
draft, `ReadDraft`, `SettleDraft`, `SaveDraft`; or `ReadFail`, `FailLoad`,
`FailSave`, `SaveRetry` or `SaveFailed` and the refund. `save(entity)` writes the
whole row as the actor read it (`mine`, `copy`): that is what TypeORM does with
the columns that differ from the database at that moment, and it is the source
of most of what can go wrong here. Only the claim and the cancellation are
conditional updates (`job' = [job EXCEPT ...]`). The requests are `create`,
`cancel`, `advance`, `retry`, `render`; `Overlapping` says which of them are made
while something else is under way, the others are made between two steps of
the executor. The pipeline has `NSteps` steps; its position `DraftStep` is
digitalHuman, after which a draft waits.

**Spending** has the requests that spend within one call: `purchase` of
`market.service.ts`, `chargeTool` of `chat-accounting.service.ts`, `execute` of
`skill-runner.service.ts` and the stream of `llm-proxy.service.ts`. `Freeze` is
common; a purchase or tool then settles (`SettlePrice`) and a purchase inserts
(`Insert`); a skill settles or refunds and writes its log (`WriteLog`, in the finally
block); a chat passes the circuit breaker of `llm-client.service.ts` (`Connect`,
`Fetch`, `Recorded`, `RecordedFailure`), streams (`SettleChat`, `ReadFails`,
`PriceFails`), and deducts from the pooled key (`ReadKey`, `WriteKey`) that an
administrator edits (`EditRead`, `EditWrite`, `ResetErrors`). `Unhandled` is a
rejection nobody waits for: no handler is registered and Node ends the process, with
every request in it (`Dies`); `Killed` is the end of the process at any other point. `left`, `raced`, `mixed` remember the named exceptions.

**Briefs** is one brief: requests that read the row (`ReadBrief`) and save it whole
(`Save`), and the dispatch that confirm and redispatch start (`Answer`, `NoAnswer`,
`Throw`, `PersistTasks`, `SaveInDispatch`, `Report`, `Rescue`), on the same object.
When the save of the last catch branch fails too (`RescueThrows`), nothing handles the
rejection, and the server ends.
`batches` counts how often tasks were inserted.

**Schedules** is one task row with the server's `fire` (`Fire`: one conditional
update), `fired` (`ReceiptRead`, `ReceiptSave`), `update` (`Edit`, `EditSave`) and
`remove`, and the desktops that claim, run and report (`Finish`, `ReceiptLost`,
`GiveUp`, `Crash`). Time is counted down: `next`, `dueAt`, `lease` and `mark` (the next
daily time) are ticks that are left, so there is no clock to bound. An edit may change
the status, the kind and the time.

**StepRunner** is `createStepRunner`: its program counter rests at its awaits (`Plan`,
`List`, `Mark`, `Exec`, `Review`, `Ask`, `Report`), and the calls of the window
(`Submit`, `Decide`, `Pause`, `Resume`, `Stop`, `SetAuto`, `Delete`) come between. `task`
and `shown` are the row on the server, `nodes` the runner's own list.

**EdictBoard** is one edict. A command is asked for (`Ask`, the check of the main
process) and carried out later by the script under the file's lock (`Kanban`, which
checks again). Two pipelines may run: the one in
`runningTasks` and the one of `edict:run`, which is not in that table. The stall
detector retries, escalates and blocks; its budgets are never given back.

**Services** is one local service: each call of start, stop, restart and install, and
each automatic restart, is a chain of awaits (`flow`); the processes (`proc`) listen,
die and raise exit events (`Exit`) that find whichever process is tracked then.
A start that fails installs the runtime anew and starts once more, which the flag
`attempted` (`autoInstallAttempted`) limits.

## 3. What the runs check

| Run | Question | Bounds |
|---|---|---|
| CreditsSafe | With a lock that lives long enough: frozen balance = sum of open holds, and the service implements the ledger | 2 requests, 2 holds, 4 operations, costs below and above the frozen amount |
| CreditsExpiry | With a lock that may expire under its holder: the books balance, two operations overlap only when the lock of one ran out, every request returns | 2 requests, 1 hold, 3 operations |
| Recharge | Credits once; claw-back once, for returned money and never more than is there; order and payment record agree; a paid order stays paid; a payer gets the credits | 2 orders, 2 administrators, both endpoints |
| MediaCrash | Images billed for what was delivered; no video processes for ever, though loops may hang; holds are closed if loops run | an image and a video, 2 crashes, refused calls, 4 polls |
| WorkshopHolds | No step of a live job is left to nobody, no hold forgotten or open at the end, every job ends or waits, while create and cancel race with everything | 1 executor, 2 users, 3 requests, 2 steps, 1 retry, 3 holds |
| WorkshopEdit | Delivered is paid, after each render too, and is what was asked for last | all requests, all modes, 3 steps, 4 requests, 1 crash, refused calls |
| Spending | An open hold has its request on the way to it; owned or logged agrees with billed; one payment per item; the key's numbers add up | 3 requests, a quota of 0 or 3 when the key is made, threshold 2, 1 edit, 1 crash, refused calls |
| Briefs | Done has tasks, and once; a waiting brief comes to an outcome | 4 requests, cancel overlaps, 3 kinds of failure, 1 crash |
| StepRunner | Completed is approved; a stop lets one more agent start at most; a run ends, asks or pauses | 2 nodes, 2 retries, 2 runs, 2 failed requests, 1 quit |
| Schedules | A due task runs again only after a lapse; done was run; due is served | 2 clients, period 3, lease 2, 1 edit, 1 lost message, 1 crash |
| EdictBoard | Nothing unapproved is executed, nothing unexecuted is done, unless the user moved the card; while the agents return, the task ends or is blocked | 1 veto round, 8 turns, 1 stall retry, 1 escalation, 2 commands, 1 fault |
| Services | A stop holds, a runtime is kept, shown as running means backed, every call whose download ends returns | 2 calls, 1 automatic restart, 2 processes, MaxRestarts 1, 2 commands |

*Why the bounds are enough.* The races here are between two actors that share one
row, one hold or one process, so two requests (or an executor and a request), two
orders, two clients, two pipelines, two calls and two or three holds show them; a
further actor repeats what one of the two does. Four operations let a hold be
opened, closed, closed again and the balance be spent meanwhile; four requests let
a brief be confirmed, fail, be redispatched and cancelled. A retry, a veto, an
escalation and a restart each occur once and are refused once, which shows the limit
being reached; 8 turns of the pipeline's loop are more than it makes with one veto
and one escalation, as 20 are for the real limits. In `Schedules` a lease of 2 in
a period of 3 has both a run within the lease and one beyond it. In `Spending` a
threshold of 2 lets the breaker open, half-open and close among three chats; the
requests take their names in order, since they are alike. All bounds are constants
and each appears in a guard. Amounts are one or two numbers because the properties
ask which sums are equal, not how large they are; `Costs` has one below and one
above the frozen amount where settlement's two branches matter. EdictBoard (1.2
million states) and Spending (3.1 million) are the largest runs; they and Schedules take
one to three minutes.

Deadlock is checked in the credit runs (`Rest` is the idle system) and in Schedules,
where time passes. In the others the system stops for a good reason: all orders are over, all jobs have
ended, the bound on requests is used up.

*Every property has a mutant*: a plausible bug (a dropped guard, an off-by-one, a
missing reset, a swapped order) in a definition of the model, defined just
before the definition it stands for and marked `Mutant`. With it TLC finds the
property violated.

*What is stated and not run.* Properties that section 4 proves for all constants and
that add nothing to a run are left to the proofs: the type invariants of the modules
with proofs, mutual exclusion and single closing of holds, the order of a workshop job's
steps, and others listed there. Properties that TLC refutes belong to section 5.

### Fairness

- `CreditsService!FairSpec`: weak fairness of every request's steps and of the
  expiry of the lock. Node runs a callback whose promise is settled, MySQL
  grants a row lock or times the wait out, and Redis expires keys. A crash is
  never fair, and nobody has to start a request.
- `RechargeOrders!FairSpec`: weak fairness of the notice only. The provider repeats
  it until it is answered with success, and the controllers answer an exception
  with an error status. Payments, sweeps, refunds need never happen.
- `MediaJobs!HangSpec`: only timers fire and a started process finishes booting; a
  loop may hang for ever, which is what the watchdog is for. `EveryHoldCloses` has
  the premise `LoopsRun`, that loops go on, and nothing else does.
- `OralWorkshop!FairSpec`: the interval timer keeps starting ticks, a step's calls
  return or time out, a request once begun goes on, a start completes.
- `Briefs!FairSpec`: a request once read and a dispatch once started go on; the
  language model answers or its fetch times out. `DispatchEnds` has the premise
  that the server does not die.
- `StepRunner!FairSpec`: the runner goes on where its await ends: an agent is killed
  after ten minutes, a request of the server after 15 seconds. Waiting for the user
  and pausing are not fair.
- `Schedules!FairSpec`: some client polls every 30 seconds, a run and its report end
  or time out, the server finishes a request it has begun, time passes. No client
  has to come back after a crash, some client has to be on.
- `EdictBoard!FairSpec`: a pipeline that is not waiting for an agent goes on, a script
  that was started returns, the detector's timer fires. Agents need not answer:
  `runHermes` has no time-out. `TaskEnds` therefore has the premise `AgentsReturn`, that
  no agent of the registered pipeline hangs for ever; agents of the other one may. The
  user does nothing he is not asked for.
- `Services!FairSpec`: every await of a call ends (timers bound them) but that of a
  download, which `downloadOnce` does not bound: `EveryCallReturns` has for each call the
  premise that it does not stay in one. Of processes nothing is assumed: they may hang
  or never listen.
- `Spending` states no liveness: a request that loses its hold ends as well.

## 4. What is proved

TLAPS checks the theorems for every value of the constants, under the named
assumptions of the modules: amounts are positive naturals, costs naturals, `None`
is no member of the other sets, bounds are naturals, `LockRetry` is at least one,
`Funds` is a natural, `Outcomes` contains `"ok"`, a lease is shorter than the
period of its task. TLC evaluates the same assumptions in each run. Every model has its
type theorem (`TypeCorrect`, `RunnerTypeCorrect`, `BriefTypeCorrect`,
`SpendingTypeCorrect`). Invariants were first checked by TLC on an instance of the runs'
size, and then proved.

**HoldSums.** Frozen credits are a sum over the holds, taken by a recursion on sets that
the community modules define with CHOOSE. The lemma `TotalChange` (of arithmetic, not of
the system) is what the theorems about sums rest on: a sum over a finite set changes
by what one of its terms changes by. Under it are the existence and uniqueness of the
partial sums, and that the order of summation does not matter (`AnyOrder`), by induction
over the cardinality of a subset; the induction is `WFMin` for sets of numbers, because
a lemma that takes a predicate as parameter cannot be used here.

**CreditsService_proofs.** `TypeCorrect` is inductive by itself. `NoLostUpdate`
(`NoStaleRead`) needs `RowInv`: in addition to the freshness of what a writer has
read, a missing account row reads as zeros, or the first commit after
`InsertAccount` could change more than it read. Its argument is that only the
owner of the row writes it, so the version check can never fail; it holds with
and without an expiring lock. `NeverOverdrawn` and `BooksBalance` follow step by
step from what each write does to balance, frozen balance and rows (the
`...Effect` lemmas). `OverlapsOnlyAfterOverrun` needs `OwnInv`: whoever is inside and has
not been overrun holds the lock; a release by token and a crash take it from nobody
else. Under the assumption `MayExpire = FALSE`, stated in the
theorems, nobody is ever overrun, so that whoever is inside holds the lock (`LockInv`);
this gives `MutualExclusion`.
`ClosedAtMostOnce` needs `PendingInv` besides: between its unlocked read and its
write, a closing request knows that its hold is open, because it holds the Redis
lock and the operations that do not take the lock close no hold. From the two,
`Refinement`: under the mapping that reads balance, frozen balance and hold
status from the rows, every step of the service is a step of `CreditLedger` or
changes nothing there. `FrozenIsBacked`, under the same assumption and for finitely many
holds, follows from `PendingInv` and `HoldInv` (a closed hold was written, and is closed
once) with `TotalChange` of `HoldSums`: a commit changes the frozen balance and the
part of it that one hold's row stands for by the same amount. That
assumption is not idle: section 5, 1.

**RechargeOrders_proofs.** One invariant, `IInv`, carries all the theorems:
`Recorded` ties the stages of checkout to the rows that exist, `Earned` ties the
credited amount to status and provider, `Refunding` says what an administrator
in the middle of a refund knows and holds (the lock of the order row, a
deduction not above the balance). `CreditsOnce`, `CreditNeedsPayment`,
`NoticeFindsOrder`, `ClawsBackOnce`, `NeverOverdrawn` follow from it, for any
number of orders and administrators and either endpoint. `RecordsAgree` adds
`Marking` (who is about to mark a payment has marked its order) to
`PaymentMatchesOrder`; `PaidStays`, about each step alone, needs `IInv` for what a
sweep and a claw-back find. `OrdersMoveLedger` is the refinement: whatever happens to
orders, the user's balance moves as `CreditLedger` says, where a claw-back is a debit of
at most the plan's credits (it needs `Refunding` for that) or nothing.

**Jobs_proofs**, of the ledger itself: `LedgerIsWhole`, in `CreditLedger` nobody is
overdrawn and what is reserved is the sum of the open holds, by `TotalChange`. Of
*MediaJobs*: `SafeInv` adds to the types that a row's status follows its
loop (`RowFollowsRunner`) and that nothing runs while the server boots
(`BootIsAlone`); it gives `NoOrphans` for any number of crashes. `BillInv` adds
what a hold's status says about where an image request is; it gives
`ImagesBilled`, under the assumption that a call that throws has done nothing
(`"unsure" \notin Outcomes`). `CloserInv` adds that only the runner saves a job as
done; it gives `OpenHoldsAreWatched`: without a crash an open hold whose closing
call was not refused has somebody who will close it.
Of *Spending*, with all four kinds of request, any outcomes and any number of crashes:
`RequestInv` says for every point of a request what its hold, its row, its log and its
answer are. It contains `OpenHoldIsWatched` and `ServedAsBilled`, which are inductive
only with it (`OpenHoldsOfRequests`, `BilledAsServed`). `ItemPaidOnce` needs `LoneInv`:
of the purchases that began while no other was under way, at most one is paid or on its
way. `KeysAddUp` needs `KeyInv`: what a chat or an edit has read of the key still adds
up, even when it is stale. `SpendingTypeCorrect` has the premise that there are finitely
many holds: that `reserved` never falls below zero is no matter of types, it follows from
its being the sum of the open holds (`LedgerInv`).

**OralWorkshop_proofs.** Four invariants, for any pipeline, number of requests, retries
and crashes.
`TypeInv` describes where executors and requests are and what they are there for; it gives
`TypeCorrect`, with it the bound of a step's retries, for any number of racing executors.
`PaidInv` says what the job's row promises of its hold (`RowPaid`) and that every copy of
the row about to be saved promises as much; it gives `JobDoneIsPaid` and `JobDoneIsWhole`
under the premise `Alone` (one executor, requests that do not overlap), whatever ends
the closing calls have.
`OrderInv` says that all steps before the one that runs are done and none after it begun,
and, label by label, what the step that runs looks like; it gives `StepsRunInOrder`
and `StepsAreTended` (`NoStepStranded`: a claimed or failed step of a live job is one
the executor is at) under the premise `Unrendered` (one executor, no render, only
creations and cancellations overlap).
`HoldInv`, on top of it, says who has an open hold at each point until the first crash:
the row, or a request that froze it and has not yet handed it over (`Carries`), and that a
job that is over has an open hold only while somebody is about to refund it; it gives
`OpenHoldsNamed`, under `Unrendered` and with closing calls that succeed.
The premises are those of the runs, and the properties need them. With `cancel`
overlapping, or with two executors, TLC refutes `DeliveredIsPaid`; with two executors,
an overlapping retry or any render, `StepsInOrder`; with an overlapping `advance`,
`NoStepStranded`; with an overlapping render,
`DoneIsWhole` and `OpenHoldNamed` (section 5).

**Tasks_proofs**, of *Briefs*: `DoneIsBacked` needs `DoneInv`: not only the row, every object a
request or dispatch is about to save says done only over stored tasks.
`EditingIsSafe` holds when no two requests but a cancel overlap (the premise
`Overlapping \subseteq {"cancel"}`); `EditInv` says what each request in the middle of
its save may still write. `StoredOnce` adds, under the same premise, `OnceInv`: until
a dispatch meets an exception at most one request makes tasks, and what redispatch
accepts has none.
Of *EdictBoard*: `MenxiaIsHeard` and `WorkPrecedesDone` rest on `ApprovalInv` and
`ExecutionInv`: as long as the user has moved nothing himself, either the consent was
given (the work was done), or state, pipelines and every command under way are still
in front of it. `EndsStay` (`EndIsFinal`) is about each step alone: the script checks
again under its lock.

**Schedules_proofs.** `RunsAgainOnlyAfterLapse` needs `RunInv`: while nothing lapsed
or was mixed up, a task that has begun to run and is still due is claimed.
`OneRuns` (`Exclusion`: two clients never run one task together unless a lease was
outlived or a claim cleared) needs `HoldInv`: the row's lease is the one of the client
that runs. `DoneSucceeded` needs `KindInv` and `DoneInv`: as long as no edit met a run,
every receipt under way is of the task's kind, no update makes a task done, and what
they say of success is backed.

**Desktop_proofs**, of *StepRunner*: the invariant `Inv` describes each await: `Progress` (nodes
before the current one are done and approved), `Endings` (a runner on its way out
will patch or has patched), `Asking` (the row agrees while the user is asked),
`StopHeld` (how many agents a stopped run has started, by place). From it
`CompletedWasApproved`, `EndsFinal`, `AsksWhatIsShown` and `StopHeeded`, for plans
of any length and any number of retries.
Of *Services*: `IInv` is `FlowInv` (the shape of every call and `FlagHasOwner`),
the remaining types, `QuietInv` (as long as a service rests after a stop, the intention
to stop has not been revoked), `KeptInv` (a runtime that is missing is among the
backups of a call that will restore it) and `BackedInv` (a process whose exit nobody
listens to is being killed). They give `StopsHold`, `RuntimesAreKept`, `OneOwner` and
`RunningHasProcess`, for any number of calls, restarts and processes.

*Only model-checked:* the liveness properties (`EveryRequestReturns`, `PaidEventuallyCredited`, `ProcessingEnds`, `EveryHoldCloses`, `JobEnds`, `DispatchEnds`,
`RunEnds`, `DueIsServed`, `TaskEnds`, `EveryCallReturns`), since fairness and ENABLED are
out of the prover's reach. Every safety property of the runs is proved.

## 5. Findings

Disagreements between the code and what it, its comments or its own interface say.
No run stands for them; each can be seen with TLC by checking the named definition
with the named constants.

1. *Double close* (`ClosedOnce`, `ImplementsLedger` with `MayExpire = TRUE`). The Redis
   lock lives 10 seconds, a wait for a row lock in MySQL up to 50. `settleCredits` and
   `refundCredits`, "idempotent", test `settledAt` before that wait, so two of them may
   close one hold.
2. *Refund without money* (`RefundReturnsMoney` with `Endpoints = {"admin-user"}`). The
   route is served by admin-user's handler, which marks the order and does not ask
   the provider.
3. *Watchdog race* (`MediaJobs!DoneSettledFailedRefunded`). The loop saves the row it
   read before the download over the watchdog's: a video is delivered after its
   price was refunded.
4. *Frozen for ever* (`NoPermanentFreeze` with one crash). A crash after the freeze and
   before the row, or after the last save and before the closing call, leaves a hold
   that the recovery never looks at.
5. *Drafts cannot be rendered* (`DraftCanBeRendered` with `Modes <- AutoDraft`).
   `syncJobProgress` has set `currentStep = 'videoEdit'` and `status = 'processing'`,
   and `onDraftReady` leaves both, which is how `render` recognises a render under way.
6. *Nightly rule.* `reconcileBalanceVsTransactions` sums recharge, reward,
   admin_adjust and settle rows. A claw-back is a negative row of type refund, so
   a user whose recharge was refunded shows a difference. `Accounted` is the
   rule with the claw-backs, and is proved.
7. *Cancelled edicts go on* (`EdictBoard!CancelHolds`). A cancel from Doing, Menxia and
   others waits as PendingConfirm (`kanban_update.py:388`), which nobody is asked to
   confirm; the agent that finishes, or the detector's escalation, moves the task on.
   The monitor panel says "任务已取消".
8. *Stopped tasks complete* (`StepRunner!StoppedFails`). `hermes-orchestrator.ts:409` says
   a stop interrupts at once and the task is marked failed; `abortCurrent` is not
   provided by `index.ts`, the flag is read at the head of a node, and a task stopped
   in its last node completes. A stop while a review waits for the user waits for ever;
   a stop in a pause starts one more agent.
9. *Two processes of one service* (`Services!OneProcess`, `StoppedStays`). Two overlapping
   starts, or a restart that waits and a start, spawn two processes; the first is
   forgotten and a stop leaves it running. A stop during a start is followed by the
   start's own installation and another start, and a slow start, which
   `row-executor.ts:379` keeps as 'starting', is killed by it.
10. *A hung agent* (`EdictBoard!NeverHangs`). `runHermes` (`edict-bridge.ts:319-353`)
   spawns the CLI without a time-out. An agent that neither answers nor exits keeps its
   task in `runningTasks`, `applyStallRecovery` returns at once for such a task
   (line 829), and the task hangs until the desktop is restarted, against
   "重试（≤2 次）→ 升级（≤3 级）→ 标记 Blocked 人工介入" (line 819).
11. *A stalled download* (`Services!EveryCallReturns` without its premise). `downloadOnce`
   (`runtime-downloader.ts:712-888`) sets neither a time-out nor an idle limit. A server
   that stops sending holds the call, the service's flag and every call that joined the
   download, until a user cancels it.

More of this kind, which the models show when the runs' constants are widened or which
the properties except by name:

- *Workshop.* With `render` among the requests `OpenHoldNamed` fails: a render of a job
  with an open hold replaces the id in the row, and the old amount stays frozen. With
  `cancel` overlapping, `DeliveredIsPaid` fails: a cancel that commits after
  `markStepDone` has read the job is overwritten. With two executors a step is run
  twice, since stale step rows are saved over a claimed one. With overlapping retries
  both freeze, and one amount is forgotten. With overlapping `advance`, `NoStepStranded`
  fails: an advance that read the job while a step ran, and is saved after that step has
  failed for good, brings the failed and refunded job back, and it waits for ever with
  a step that nobody picks. With a crash, a retried job whose steps
  are all done (or were never saved) stays pending for ever with its price frozen.
  With a video given at creation, `render` lets a failed job be edited although an
  earlier step failed. For this reason WorkshopHolds leaves `render` out and lets only
  `create` and `cancel` overlap, and WorkshopEdit makes its requests one at a time.
- *Purchases* (`raced`). Two overlapping purchases of an item are both charged, against
  "幂等：已购买直接返回，不重复扣费" (`market/market.service.ts:92`); a purchase that dies
  or fails between settlement and insert is paid again by the next.
- *Chats* (`left`). A fetch that fails, an open circuit, an answer without a body or a
  price that cannot be read makes `streamChat` throw without a callback: the estimate
  stays frozen. A refused settlement is swallowed with the same result. The refund of
  `onError` and the settlement after tool calls are not awaited: a rejection there ends
  the process. A client that leaves does not matter, the stream is read on.
- *Skills.* A log that cannot be written, in the finally block, hides a success that
  was paid.
- *Keys* (`mixed`). `deductQuota` writes totals from a row read before: another chat's
  deduction is lost, and an edit between leaves numbers that do not add up;
  `resetErrors` reactivates a used-up key, and a key that was given quota may stay
  exhausted.
- *Briefs* (`Overlapping`, `thrown`). Two overlapping confirms dispatch twice, against
  "天然防并发重复派发" (`briefs/services/brief.service.ts:163`); a cancel during a dispatch
  is overwritten by the dispatch's save, and a stale update undoes a cancel; after a crash
  a brief stays pending, which redispatch refuses, and the server itself ends when the
  save of the last catch branch fails (`sync.gateway.ts:76` names that risk, and no handler
  is registered); an exception after the insertion leads
  to a second batch by redispatch.
- *Schedules* (`lapsed`, `mixed`). `fired` does not compare tokens, so the receipt of one
  run clears the claim of another; a daily task paused during its run is active again
  after the receipt; a stale update clears a claim, runs a once task again, and inserts
  a removed row again; a success whose answer is lost may end as failed. `runNow`, said
  not to depend on `nextRunAt` (`cron-engine.ts:199`), goes through `fire`, which
  requires it.
- *Edicts.* `block` is refused by the second command of `edictBlock` for Zhongshu, which
  answers failure over a task that is blocked. `edict:run` is not in `runningTasks`, so
  two pipelines may run. A block by the user during an agent's run is undone when the
  agent ends. Once the budgets of retries and escalations are used, a task in a state
  that cannot be blocked (Menxia, Review, PendingConfirm, Taizi) hangs, against
  `edict-bridge.ts:819`.
- *Step runner.* A failed report after "completed" turns the task into failed; a quit of
  the desktop leaves it in_progress, with neither start nor delete offered.
- *Services.* The count of restarts is reset whenever the service is ready, so that a
  crash loop restarts for ever, against `service-manager.ts:7`; after an automatic
  restart that times out the status stays 'starting'; the exit handler deletes
  whichever process is tracked; a quit in the middle of an installation leaves the
  runtime among the backups.

## 6. Not modelled

- One user. Accounts of different users share nothing but code.
- `version` and the row lock are both modelled; MySQL's isolation level matters only
  in that a `FOR UPDATE` read sees the last commit.
- Database errors inside a handler, other than the ones named above, unbilled and
  free jobs, provider formats, prices, discounts, uploads and notifications.
- Two servers at once. The repository's deployment starts one; where code prepares
  for several (claims, conditional updates) section 5 says what the model shows.
- `save` is one step: TypeORM reads the row again and writes the differences, and
  what happens between these two statements is not looked at.
- Workshop: deletion (a flag the executor ignores, saved with a stale row), batch
  creation (several creates), assets, rewriting, publishing.
- Spending: free items and tools, packages, several items and keys, the retries within
  a fetch, daily and monthly counters of a key.
- Schedules: creation (the initial states), lists, weekly dates (as daily ones), the time
  a changed task's former kind went by (an edit that changes it back names one anew).
- Briefs: a failed look-up of the members between the save of a confirmation and its
  dispatch (`brief.service.ts:216-217`), which leaves the brief as a crash there does.
- Step runner: what plans, agents and reviews say; the older one-shot orchestrator.
- Edict board: the writes of the main process that take no file lock, tokens, flow
  logs and notices.
- Services: a process foreign to the desktop that has the port at the start, the repair of
  n8n, module packages, pruning of backups; a port check and what follows it up to
  the next await are one step; a kill succeeds.
- Membership and tokens: small unlocked read-modify-writes and library calls, left to a
  later module. Channels, knowledge, workflows, plugins, MCP and administration are
  records and wrappers of services whose protocol is elsewhere; pages show what the
  server answers. Two thirds of the repository's lines are such pages, forms, provider
  adapters and text, which have no state of their own to check. Each component has
  its reason in `PROJECT.json`.

## 7. What could come next

1. **Membership**: redeem, grant and revoke, with two readers of one code.
2. **More of the workshop's holds**: what remains true of them after a crash and when a
   closing call is refused, where `OpenHoldsNamed` says nothing.
3. Adjusting and ignoring a difference of the reconciliation; deletion of workshop jobs.
