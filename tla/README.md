# TradeGateway: models, checks and proofs

TradeGateway is a national single window for trade: a TypeScript server (tRPC
routers, webhooks and background workers over PostgreSQL), Go, Rust and Python
services beside it, a Mojaloop payment switch and a TigerBeetle ledger behind
it. This directory holds TLA+ models of its core, the TLC runs that check them
and TLAPS proofs about them.

Read this file first, then `TransferLedger.tla` and `PaymentQueue.tla`, then
`DeclarationLifecycle.tla`, `OgaPermits.tla`, and the three ways a duty is paid
through the switch: `SwitchSettlement.tla` with `SwitchCallbacks.tla` and
`PaymentConfirmation.tla`, put together in `SwitchConfirmation.tla` (the TypeScript
server), `TwoPhaseSettlement.tla` with `MojaloopGateway.tla`, and
`OutboxDelivery.tla` with `DutySettlement.tla` (the Go services). The `_proofs`
modules follow the models.

## 1. The system

| part | state | operations | talks to | what is hard |
|---|---|---|---|---|
| Payment queue worker, `server/paymentWorker.ts` | `payment_queue`, `payment_accounts` (the balance mirror) | a cycle every 5 s: recover stuck rows, claim a batch, per row prepare and fulfil at the switch, commit or fail, post the mirror | the switch over HTTP | cycles overlap within a replica and between replicas; crashes; answers lost; statements that raise after they were applied |
| Payment queue procedures, `server/routers/batchPayments.ts` | rows of `payment_queue`, idempotency keys | enqueue, retryDeadLetters | the worker, through the table | SELECT then UPDATE by id |
| Declarations router, `server/routers/declarations.ts` | `declarations` | create, submit, assessDuty, cancel, updateStatus, bulkUpdateStatus | risk scorer, tariff engine, Permify, Kafka | every procedure decides on a copy and writes by id; others write the status of the same row |
| State machine, `server/businessRules.ts` | none | VALID_TRANSITIONS, assertValidTransition, duty and permit rules | used by the routers | a second copy of the table lives in the Go engine |
| Declaration engine, `services/declaration-engine` | the same `declarations` row (its comment SW-14) | Submit, Assess, Clear, UpdateDeclarationStatus | gRPC callers | two services, one row |
| Payments router, `server/routers/payments.ts` | `payments`, `payment_queue`, the declaration's status | initiate, confirm, cancel | Temporal, Redis locks | initiate writes two tables in a transaction and the queue after it |
| Distributed lock, `server/_core/distributedLock.ts` | keys in Redis | acquire with expiry, release by token | payments, fund flow | expiry while the holder works; locks nobody takes |
| Mojaloop router, `server/routers/mojaloop.ts` | `mojaloop_transactions`, event ids | initiatePayment, webhookCallback | switch, ledger bridge | callbacks duplicated, concurrent, out of order; posting retried without a key |
| Mojaloop gateway, `services/go/mojaloop-gateway` | `mojaloop_payments` and its copy in memory; waiters and stored conditions, in memory only | a pipeline of eight steps per payment; the switch's quote and transfer callbacks | switch, bridge, Kafka | callbacks early, late, repeated; answers lost; a restart forgets goroutines, waiters and conditions |
| TigerBeetle bridge, `services/go/tigerbeetle-bridge` | accounts, transfers | pending, post, void | gateway, routers | the simulated backend against the real ledger |
| Ledger router, `server/routers/ledger.ts` | none of its own | postPending, voidPending, by id | bridge | an officer closes a reserve the pipeline may still close |
| Duty payment service, `services/go/payment-service` | `payments`, `payment_outbox` | createPayment, the settlement callback, the outbox drainer | switch, bridge, Kafka | callbacks overlap; crash between ledger, database and answer; two drainers; rows sent and not marked |
| Invoice payment service, `microservices/payment-service` | `payment_invoices` | initiate, confirm, refund, the switch's callback | switch, ledger | initiations overwrite each other's transaction id |
| OGA permits, `server/routers/oga.ts`, `ogaBulkApprove.ts`, `ogaPermitAudit.ts`, `webhooks/oga.ts`, `webhooks/dedupe.ts` | `oga_permits`, `webhook_receipts` | approve, reject, bulk, agency callbacks, the permit gate of clearance | the declaration's status | delivery recorded before it is processed; two decisions at once; permits read before the clearance is written |
| Sanctions webhook, `server/webhooks/sanctions.ts` | alerts, `webhook_receipts`, the declaration's status | hold a declaration | declarations | writes over any status |
| Fund flow, `server/routers/fund-flow.ts` | idempotency keys in Redis | collect duty, refunds, bonds | Temporal | key set before the workflow starts |
| Settlement sagas, `microservices/temporal-worker`, `services/go/workflow-service` | workflow histories | confirm, settle, compensate | ledger, database | compensation order |
| Balance drift check, payment archival | reports, archived rows | compare, archive | mirror, queue | read what the worker is writing |

What makes each part correct:

- *Queue*: one cycle at a time works on a row; the switch sees one condition
  per transfer; the mirror is posted once and never ahead of the committed
  rows; a committed row is settled and stays so; a queued row is decided.
- *Declaration*: the status moves along the table; a yellow or red lane is
  examined, an outage's score reviewed, and the duty paid or the goods examined
  before clearance; terminal states are final; one payment for a duty.
- *Permits*: a decided permit is final; a clearance rests on approvals; a
  callback is applied once, and acknowledged in the end.
- *Gateway, bridge*: one reserve per payment, settled only if the switch
  committed; what is confirmed has settled; the totals of the accounts are those
  of their transfers; no pipeline waits for ever.
- *Duty payment service*: `payment.confirmed` stands for money that moved; a
  completed payment has its event; a row leaves the outbox, published or given up
  after its whole budget.
- *Mojaloop router*: the row, the ledger and its mirror say what the switch
  decided; a row is settled once, after the ledger, and in the end.
- *Confirmation, its lock and its key*: two requests are past the lock only if it
  ran out under one; a workflow is submitted once unless something was lost, and
  only for a transfer that is settled for good.
- *Fund flow, sagas*: a key that is set means a workflow that runs; what a saga
  did is completed or undone.

The web and mobile clients, infrastructure, migrations generated from the
schema, and the scoring arithmetic of the Python and Rust services are left
out: they keep no state these questions are about.

## 2. Modules

| module | what it is |
|---|---|
| `TransferLedger` | abstract: what the queue promises of a transfer |
| `PaymentQueue` | the queue, the worker's cycles, the procedures that insert and retry, the switch as the worker sees it |
| `MCPaymentQueue` | values and symmetry for TLC |
| `PaymentQueueClaims` | the queue with a history variable: how a row comes into the hands of two cycles, without any proviso |
| `PaymentQueue_proofs` | invariants, theorems and the refinement of `TransferLedger` |
| `DeclarationLifecycle` | one declaration, the server's procedures, the engine's handlers, the writers that ask nobody |
| `MCDeclarationLifecycle` | values and symmetry for TLC |
| `DeclarationLifecycle_proofs` | invariants and theorems |
| `OgaPermits` | the permits of one declaration, everybody who decides them, and what clears the declaration from them |
| `MCOgaPermits` | values and symmetry for TLC |
| `OgaPermits_proofs` | invariants and theorems |
| `TwoPhaseSettlement` | abstract: what a payment through the switch promises of the trader's money |
| `MojaloopGateway` | the gateway's pipeline, waiters and callbacks, the bridge's pending transfers, the officers who close them |
| `MojaloopGateway_proofs` | invariants, theorems and the refinement of `TwoPhaseSettlement` |
| `OutboxDelivery` | abstract: what the outbox promises those who read `payment.confirmed` |
| `DutySettlement` | the duty payment service: creation, settlement callback, outbox |
| `DutySettlement_proofs` | invariants, theorems and the refinement of `OutboxDelivery` |
| `SwitchSettlement` | abstract: what the Mojaloop router's rows promise those who read them |
| `SwitchCallbacks` | the Mojaloop router: initiation, the switch's callbacks, the bridge and its mirror |
| `MCSwitchCallbacks` | values for TLC |
| `SwitchCallbacks_proofs` | invariants, theorems and the refinement of `SwitchSettlement` |
| `PaymentConfirmation` | `confirm` and `cancel` of payments with the distributed lock and its idempotency keys, over `SwitchSettlement` |
| `MCPaymentConfirmation` | symmetry for TLC |
| `PaymentConfirmation_proofs` | invariants and theorems |
| `SwitchConfirmation` | `SwitchCallbacks` and `PaymentConfirmation` side by side, on one set of rows |
| `MCSwitchConfirmation` | values for TLC |
| `SwitchConfirmation_proofs` | that the composition implements `PaymentConfirmation`, and what holds from end to end |

The components meet in the database and at the switch. Where two of those
modelled write the same row, one module holds both: in `DeclarationLifecycle` the
engine and everybody in `server/` who writes a declaration's status, the agencies'
callback and `bulkApprove` among them; in `OgaPermits` officers, agencies and the
clearance gate; in `MojaloopGateway` the gateway, the bridge and the finance
officers. Callback and `bulkApprove` are in two modules, which share no state:
`OgaPermits` has when the permits make them decide the declaration, and keeps of
it only whether it is open, cleared or rejected; `DeclarationLifecycle` has what
that does to its status, and lets it happen at any time. (Go and Python services
with UPDATE statements of their own on `declarations` are in section 6.)
`PaymentConfirmation` reads the rows that
`SwitchCallbacks` writes and writes none of them, so it is composed with the
abstract `SwitchSettlement`, whose steps interleave with its own.
`SwitchConfirmation` puts `confirm` on the router's own state instead, where every
step is one of the router or one of `confirm`; that it implements
`PaymentConfirmation` carries what is proved over the abstract rows to the real
ones.

### PaymentQueue

`row` is the table; the other columns of a row are its attempt count, whether
`next_retry_at` is null, ahead or reached (`due`), whether its last write is
older than the heartbeat timeout (`aged`), and the stored preimage as a number.
A cycle is `pc`, the rows it holds (`todo`), the row in hand (`item`) and its
copies (`snap`). Every await ends a step:

| code | actions |
|---|---|
| `recoverStuckItems` | `Start` |
| the claiming UPDATE | `Claim` |
| `ensureIlpPreimage` | `EnsurePreimage`, `EnsurePreimageFails` |
| `callMojaloopTransfer` | `Prepare`, `Fulfil`, `CallFails` |
| `processItem`, success | `Commit`, `PostDebit`, `PostCredit`, `PostFails` |
| `processItem`, failure | `Fail` |
| catch clause of the loop | `WriteFails`, `Requeue` |
| process death | `Crash` |
| `batchPayments.enqueue`, `payments.initiate` | `Enqueue`, `EnqueueInitiated` |
| `retryDeadLetters` | `SelectDeadLetters`, `RetrySelected` |
| clocks | `BackoffElapses`, `Age` |
| the switch | `SwitchExpires`, `SwitchDecides` (external: a switch keeps a transfer's first condition, lets a reservation lapse, and settles at most once) |

A claim is one step: PostgreSQL makes the second of two concurrent claims wait
and check the status again. It may then get fewer rows than it looked for; it
gets them in a later claim, which the model has too. The order of the claim
(oldest first) is left open. A statement that raises may have been applied:
both outcomes are steps. An insert that fails inserts nothing here: a row that
was inserted although the client saw an error is `Enqueue`.

Two constants say what surrounds the worker. `SlowCycles`: a row may outlast the
60 s heartbeat in a live cycle. `AsyncSwitch`: the switch answers a fulfil with
202 and decides later. `Timely` (no slow cycles, one administrator retrying) is
the proviso of the safety theorems that need it. The code does not enforce it:
see section 5. `PaymentQueueClaims` does without: `outrun` records the rows that
outlasted the heartbeat in the hands of a cycle, or were retried as dead letters
meanwhile, and `ExclusiveUnlessOutrun` says that no row gets into two hands in any
other way.

### DeclarationLifecycle

`decl` is the row: status, lane, and of `ai_explanation` who scored it, whether
a manual review is recorded and how the duty was assessed. `call` holds the
requests between their read and their write, each with the copy it decides on.
`Begin` is the first half of each procedure (`Admits` has one clause per
procedure: its checks of the copy), one action per procedure is the second half
(what it writes, whatever the row is by then), and `Refuse` is any later check
that turns the request down, which covers identity, role, KYC, permits and
Permify: checks that look at neither the row nor other requests. `passed`,
`examined` and `strayed` (its status was written, past `submit`, before it was
scored) are history.

| code | actions |
|---|---|
| `declarations.ts`: `submit`, `assessDuty`, `updateStatus`, `cancel` | `Begin`, then `Submit`, `AssessDuty`, `UpdateStatus`, `Cancel`, or `Refuse` |
| `payments.ts`: `initiate` | `Begin`, then `Initiate`, or `Refuse` |
| engine: `SubmitDeclaration`, `AssessDeclaration` | `Begin`, then `EngineSubmit`, `EngineAssess`, or `Refuse` |
| engine: `ClearDeclaration`, `UpdateDeclarationStatus` | `Begin`, then `EngineSetsStatus`, or `Refuse` |
| `declarations.ts`: `bulkUpdateStatus` | `BulkUpdateStatus`: one UPDATE by id |
| `ogaBulkApprove.ts`: `bulkApprove` | `Begin`, which only asks that the copy is not cleared, then `BulkApprove`, or `Refuse` |
| `webhooks/oga.ts` | `OgaCallback`: `rejected` or `cleared` by id; the declaration is not read |
| `webhooks/sanctions.ts` | `SanctionsHit` |

The last four ask neither table nor gates; a step of one of them is an
`UnaskedWrite`. These are all the statements of `server/` and of the engine that
write a declaration's status: those of `declarationAmendments.ts`,
`officerWorkload.ts`, and `declarations.ts:500` and `2152`, write other columns.

The engine works on the same row, as its comments claim ("status vocabulary
unified with the PG declaration_status enum"). Its `ClearDeclaration` writes two
columns that no migration creates; it is modelled as written, for a database
that has them. An assessment sent to the engine may come from a model or not and
carries no review. `initiate` is the production configuration: it refuses an
unverified duty estimate.

`Entries`, `EngineTargets` and `Overlap` choose which entry points are in use and
whether two requests on the declaration may be under way at once (nothing in the
code prevents it: `lockDeclarationForTransition` has no caller). `Orderly` (no
overlap; nobody clears past the server's own procedure) is the proviso of
`HoldDischarged` and `ReviewRecorded`. The other guarantees have none: they hold
with every entry point in use and at any overlap, and name the steps by which the
code leaves them.

### OgaPermits

`permit` is the table, a row for each agency and each call of
`createForDeclaration`; of a row it keeps the status, whether it has a number,
and whether its expiry date is unset, ahead or over. `delivery` is an agency's
callback and how far its handler is, `job` a `bulkApprove` or `updateStatus`
request between two of its statements. `receipts` is `webhook_receipts`.
`approvedOnce`, `touched` (written by somebody who did not test the status),
`clearedOver` (the rows the last clearance was decided on) and `applied` are
history.

| code | actions |
|---|---|
| `oga.createForDeclaration` | `CreateForDeclaration`, `CreateOgaPermit` per insert |
| `oga.approve`, `oga.reject` over `transitionOgaPermit` | `Approve`, `Reject`: one guarded UPDATE |
| `bulkReject` of `ogaBulkApprove.ts`, `bulkApprovePermits` of `ogaPermitAudit.ts` | `BulkReject`, `BulkApprovePermits`: one UPDATE by id |
| `bulkApprove` of `ogaBulkApprove.ts` | `BulkSelect`, `BulkWrite`, `BulkReadDeclaration`, `BulkReadPermits`, `Clear` |
| the permit gate of `declarations.updateStatus` | `GateRead`, `GateCheck`, `Clear` |
| `webhooks/oga.ts` with `dedupe.ts` | `Receive`, `AckDuplicate`, `UpdatePermit`, `ReadPermits`, `UpdateDeclaration` |
| a statement throws, the process dies | `JobFails`, `HandlerFails` |
| the agency, the calendar | `Send`, `Expire` |

A callback that finds several rows of its agency updates any one of them: the
query has a LIMIT and no ORDER BY. A callback that finds none is answered 404
and its receipt stays.

### MojaloopGateway

`step` is where the goroutine of `executePipeline` is, `status` the record in
memory and `row` its row, which an error may leave behind: after a step,
`persistPayment` only logs. `waiter` has the two waiters of a payment, from the
start of the goroutine that registers one (`"starting"`) to its outcome;
`conditions` is `pendingILP`; `handling` is a COMMITTED callback past the check of
the fulfilment. The bridge is `reserve`, the pending transfer of the payment, and
`held` and `posted`, its share of the accounts' totals.

| code | actions |
|---|---|
| `InitiatePayment` | `InitiatePayment` |
| the eight steps of `executePipeline` | `DutyAssessment`, `RequestQuote`, `ReceiveQuote`, `SendTransfer` with `TransferSent` or `TransferUnsent`, `TigerBeetleReserve`, `ReceiveFulfilment`, `TigerBeetlePost`, `PublishConfirmation`, `Confirm` |
| `AwaitQuote`, `AwaitTransfer` and their contexts | `Register`, `Expire` |
| quote callbacks | `HandleQuoteCallback` |
| transfer callbacks | `CommittedArrives` then `HandleTransferCommitted`; `HandleTransferAborted`, `HandleTransferError` |
| process restart | `Restart` |
| `ledger.ts` | `OfficerPosts`, `OfficerVoids` |
| the switch | `HubDecides` (external: it decides a transfer once, and may call back any number of times) |

Sending the transfer is two steps because callbacks may come before the answer
to the POST, and the condition is stored only after it. A call that fails may
have taken effect. `Careful` is the proviso that an officer closes a reserve
once, after its pipeline, and as the switch decided: neither endpoint nor
simulated backend looks.

### DutySettlement

`creating` is where `createPayment` is, `at` where each delivery of a payment's
callback is (two may overlap), `postings` what the ledger has. `event`, `rowsOf` and
`attempts` are `payment_outbox`; `work` is the open transaction of a drainer: the
rows it has locked and what it will mark them. `late` has the sends that outlived
their transaction. `sent` (a number of messages) and `dlq` are Kafka, which no
rollback undoes.

| code | actions |
|---|---|
| `createPayment` | `CreatePayment`, `InitiateTransfer`, `MarkRefused`, `StoreTransferId` |
| `handleMojaloopWebhook` | `Replay`, `Resolve`, `PostSettlementToLedger`, `LedgerUnavailable`, `AbortPayment` |
| `completePaymentWithOutbox` | `CompletePaymentWithOutbox`, committed or not, answered or not |
| `Drain` | `Select`, `Publish`, `PublishFails`, `Commit`; `Rollback` when a statement fails |
| the 30 s of `loop`, or the connection, end while `SendMessage` runs | `Expire`, then `SendReturns` |
| process death | `Crash` |

`BeginTx(ctx)` lets `database/sql` roll the transaction back as soon as the context
ends, and the locks go with it; `SendMessage` takes no context and retries on its
own. So `Expire` frees the rows and leaves the replica in `late`: other replicas may
take the row, and the message may still arrive, before or after it is closed.
The replica's loop is one goroutine, which starts no drain before its send has
returned (`Idle`); then its mark fails, since the transaction is over. When the
process dies, its sends end with it: what the broker already has by then is
`Publish` or `SendReturns` before `Crash`.

A callback refused with 404 or 409 changes nothing and is no step. The batch is
larger than the outbox of an instance, so a drain takes every unlocked row.

### SwitchCallbacks

`tx` is the status column of `mojaloop_transactions`, `keyed` the keys in
`payment_idempotency_keys`, `seen` the event ids in the same table; `asking` is how
far a call of `initiatePayment` is, `handler` a callback request: where it is, what
the switch said, whether it carries an event id, and the id the bridge answered
with. `ledger` is the sequence of transfers the bridge made, `mirrored` the rows of
`tigerbeetle_ledger_entries`, `acked` what the switch was answered 200 for.

| code | actions |
|---|---|
| `initiatePayment` | `CheckKey`, `CreateTransaction`, `StoreKey`, `ForwardToSwitch` |
| `webhookCallback`: event id | `Receive`, `RecordEvent` |
| `webhookCallback`: row and terminal check | `LookUp` |
| `webhookCallback`: bridge and mirror | `PostToBridge`, `MirrorEntry` |
| `updateMojaloopTransaction` | `UpdateTransaction` |
| a statement or the bridge fails, the process dies | `Stop` |
| the switch | `SwitchDecides` (external: it reserves or aborts, and commits only what it reserved) |

Signatures and fulfilments that do not verify are answered with an error and
change nothing: the callbacks here are the switch's own. RECEIVED is treated by
the code as RESERVED is, and not kept apart. Neither is a value of the column
(`schema.ts:968-970`), so `UpdateTransaction` has them fail there.

### PaymentConfirmation

`lock` is the Redis key `lock:payment:update:p` with the token in it, `cache` the
stored answers of `confirm`, `request` a call of it with the payment and transfer it
names, `payment` the status column. Payments and transfers are those of one
declaration: any transfer of the declaration is accepted for any payment of it.
`lapsed`, `again` and `disturbed` are history: requests whose lock ran out under
them, workflows started a second time, and pairs for which a lock or key ran out,
an answer was lost or a server stopped.

| code | actions |
|---|---|
| `acquireLock` | `AcquireLock` |
| `getIdempotencyKey`, `setIdempotencyKey` | `GetIdempotencyKey`, `SetIdempotencyKey` |
| `confirm` | `ReadPayment`, `ReadTransfer`, `StartWorkflow`, `FailStatement` |
| `releaseLock`, in the finally clause | `ReleaseLock` |
| `cancel` | `CancelPayment` |
| time to live of lock and key | `LockExpires`, `KeyExpires` |
| process death | `Crash` |

The lock lives 30 s; three attempts of 10 s at the workflow and the waits between
them take longer, so `LockExpires` may happen under a request at work. Without
Redis, `acquireLock` fails (no step), a key reads as absent and is not
stored, and a release leaves the lock to run out.

## 3. The runs

`CHECK_DEADLOCK FALSE` is in every cfg: a queue whose rows are all decided, a
declaration in a terminal state, permits that are decided, a payment that is
settled have nothing left to do, and that is no error.

| run | what it shows |
|---|---|
| `queue_timely` | `TypeOK`, `ExclusiveClaim`, `OneCondition`, `CommittedIsSettled`, `ImplementsLedger` under two cycles, two transfers, two faults |
| `queue_async` | `MirrorBacked`, `CommittedIsFinal` with a switch that decides later; `QueuedIsDecided` under fairness |
| `declaration_orderly` | `TypeOK`, `HoldDischarged`, `ReviewRecorded`: server and engine take turns, nobody else clears |
| `declaration_overlap` | `ClearanceIsEarned`, `StatusFollowsTable`: two requests overlap, of the server or the engine, the engine's clearance included, next to the callback and the bulk procedures |
| `declaration_open` | `ReviewHadExamination`, `ClearedWasAssessed`: the examination procedures at any overlap, next to all four writers that ask nobody |
| `oga_requests` | `DecidedIsFinal`, `ClearanceBacked`: officers, bulk procedures, the gate and a callback in every order |
| `oga_callbacks` | `TypeOK`, `AppliedOnce`, and `DeliveryAcknowledged` under fairness: two callbacks overlap, fail and are repeated |
| `gateway_pipeline` | `TypeOK`, `ConfirmedIsSettled`, `ConfirmationIsBacked`, `BooksMatchReserves`, `ImplementsSettlement`, and `PipelineEnds` under fairness |
| `settlement_outbox` | `TypeOK`, `EventsAreBacked`, `CompletedHasEvent`, `SendsAreCounted`, `ImplementsOutbox`, and `EventsLeaveOutbox`, `CommittedLeavesFlight` under fairness |
| `switch_callbacks` | `SwitchTypeOK`, `SettlementIsBacked`, `ImplementsSettlement`, and `CommittedIsRecorded` under fairness: submissions with one key, deliveries that overlap, fail and are repeated |
| `payment_confirm` | `TypeOK`, `SubmittedOnce`, `SubmissionBacked`: three requests, locks that run out, transfers that settle meanwhile |
| `gateway_abort` | a violation: section 5 |

`SwitchConfirmation_end_to_end` is a further configuration, of `MCSwitchConfirmation`:
one transfer with two overlapping deliveries and a fault beside two requests for
one payment, 2 958 660 states. It checks `ImplementsConfirmation`,
`SubmissionIsPaid` and `NeverTakenBack`, and finds no error. `PaymentQueueClaims_slow`, of
`PaymentQueueClaims`, checks `ExclusiveUnlessOutrun` with what `Timely` rules out: one
row, two cycles that may be slow, two administrators, two faults; 332 905 states,
no error.

Bounds. *Queue*: two transfers are enough for a batch of which one row waits
while the other is worked on, and two cycles for every race between a cycle and
a recovery or a claim; `MaxAttempts = 2` gives a first failure and a last one;
`MaxFaults` bounds crashes and raising statements (two: a crash and a fault in
the cycle that repairs it). The number of preimages drawn is bounded by the
attempts, those of the dead letters by `MaxAttempts` and the retries, which keep
the stored preimage. *Declaration*: two requests suffice for a stale write; three
would only add a second one. `MaxPayments` bounds `initiate`. `declaration_orderly` has
all four lanes. The two larger runs have one each: their properties do not speak
of lanes, so it is enough that clearance is reached, past no hold in
`declaration_overlap` (blue) and through the examination in `declaration_open` (red).
They also leave out entry points (`OverlapEntries`, `OpenEntries`): the first
`initiate`, `assessDuty`, the engine's submission and assessment and the sanctions
hold, the second the engine and the trader's other procedures. The theorems have
all of them in use.
*Permits*: two agencies
are the least with which one permit can hold back another; one round, because
a second row of an agency only adds a row to read. `oga_requests` has two
requests and one callback, for every race between a request and a writer;
`oga_callbacks` has two callbacks and the guarded procedures. `Payloads` are
chosen so that a callback can settle, reopen and overturn a permit, and bring its
number or not. *Gateway*: payments share only the totals of the accounts, which
the model keeps by payment, so one payment is enough here, and the proof covers
any set of them. Two restarts: one before the switch decides, one after.
*Settlement*: one payment with two overlapping deliveries; each can insert at
most one outbox row, so two rows are never exhausted; two drainers for every
race between replicas. `MaxAttempts` is 3 where the code has 5: a first, a middle
and a last attempt. `MaxFaults = 2`: a crash and a fault in the repetition that
follows it, or two replicas that lose one row in turn, each with a message on its
way. The run has 193 357 states. *Mojaloop router*: two submissions with one key, for the gap between
looking the key up and storing it; two overlapping deliveries of one transfer's
callback, for every pair of a read and a write, and one of the other's; one
fault, so that a delivery stops anywhere and the next repairs it. *Confirmation*:
the lock and everything behind it belong to one payment, so one is enough; two
transfers, because the key is of payment and transfer; three requests, so that a
late release meets the lock of a second while a third is refused or gets in.
Symmetry is used where the identifiers are interchangeable and no
liveness is checked.

Fairness (`FairSpec`).

- *Queue.* `WF(CycleStep(c))`: setInterval starts cycles for ever and the runtime
  resumes the one that awaits, since each call has a timeout; `WF(BackoffElapses)`,
  `WF(Age)`: clocks advance. Nobody is obliged to enqueue, to retry dead letters,
  to crash, and the switch is not obliged to decide.
- *Permits.* The server answers what it received (`Receive`, `AckDuplicate`,
  `UpdatePermit`, `ReadPermits`, `UpdateDeclaration`: awaits of a running
  process), and the agency sends again what was answered with an error, which
  the handler's 5xx answers ask for. Nobody is obliged to send a first callback,
  and no handler is obliged to fail or not to.
- *Gateway.* Goroutines run, a waiter's goroutine registers it and its context
  has a deadline. For `AbortReleases` also: the callback of an aborted transfer
  comes. The switch is not obliged to answer a quote or decide a transfer.
- *Settlement.* The ticker of each replica calls `Drain`, and a send that outlived
  its transaction returns (the producer's retries are bounded); requests run on;
  the switch delivers a callback until it is acknowledged. Faults are bounded, which
  stands for faults that end. `Expire` is one of them: `EventsLeaveOutbox` says nothing
  of a broker so slow that every drain runs out of time, which rolls back for ever
  and counts no attempt.
- *Mojaloop router* (`SwitchFairSpec`). `WF(Redeliver(d))`: the switch delivers
  COMMITTED until it is answered 200; `WF(Proceed(d))`: a handler goes on, since
  its calls have timeouts. The switch is not obliged to decide, nor an initiation
  to reach it. Nothing is claimed for ABORTED: see section 5.

Every property of a passing run has a mutant: a bug one could write in the
definition named "of" in `PROJECT.json` and that the run catches.

## 4. The proofs

All theorems are for every value of the constants: any number of transfers,
cycles, administrators, requests and faults, any attempt limit.

**Queue.** The properties are not inductive. `QueueInv` in `PaymentQueue_proofs`
adds to `TypeOK` and `ExclusiveClaim`:

- `HandsInv`: what `pc` says of `todo` and `item`;
- `StatusInv`: how far a cycle is with a row says the row's status, and no row a
  cycle holds is aged: that is what `Timely` buys, and why `Start` cannot take a
  row from a live cycle;
- `SelectedInv`: the rows an administrator selected are still dead letters, which
  needs that there is one administrator;
- `PreimageInv`: a copy and its row agree on the preimage, and every condition
  the switch has seen, or that is on its way, is that of the stored preimage;
- `PostingInv`: which postings a row has, by its status and its holder's `pc`;
- `SettledInv`: a cycle about to commit, and a committed row, have a settled
  transfer (only where the switch settles before it answers).

From it follow, when `Timely`, `ConditionsAgree`, `MirrorIsBacked` and
`CommittedRowsAreFinal`. Four results stand beside it:

- `ClaimsAreExclusive` needs no proviso. Slow cycles and second administrators are
  what takes a row from a live cycle, so `PaymentQueueClaims` records them in `outrun`
  instead of excluding them, and the theorem says that there is no other way: a row
  in one hand, not outrun, is `processing` and young (`RowInHand`), so neither a claim
  nor a recovery takes it. With `Timely`, `ExclusiveClaim` itself is part of
  `QueueInv`.

- `CommittedRowsAreSettled` needs `HandsInv` and `SettledInv` only, and so no
  `Timely`: a cycle that lost its row to another still commits nothing the switch
  did not settle.
- `CreditsFollowDebits` needs no proviso. Two cycles that hold one row may post it
  twice; `OwedInv` counts the credits still owed by cycles past their debit, and
  each has a debit that was posted.
- `DeadLettersNeedFaults` (when `Timely`): `AttemptInv` says that a row that may
  still be tried has had at most as many attempts as there were faults. A failed
  row is never selected again (`PaymentQueue_retry`, section 5), so only crashes
  and failed statements use attempts up, and a refusing switch alone never fills
  the dead letters.

`QueueImplementsLedger` (when `Timely`, with a switch that settles before it answers): every
action of the queue maps to `Settle`, `Debit`, `Credit` or `CloseShort`, or leaves
`TransferLedger`'s variables alone; the mapping reads `closed` as *committed and
held by nobody*, because a cycle can still take its own commit back when the
answer to its write is lost.

**Declaration.** Two theorems assume `Orderly`, one that requests do not overlap; the
others hold for every entry point and any overlap. The invariants:

- `EarnedInv`, for `ClearancesAreEarned`: a row in a status from which the table leads
  to clearance has passed payment or examination, and so has every row a request
  that asks the table means to clear. The request's copy matters: stale as it is,
  it once was the row, and `passed` only grows. A cleared row need not have paid:
  the writers that ask nobody clear what they like, which is why the property is
  about the step that clears.
- `ReviewInv`, for `ReviewsHadExamination`: the same for a recorded review, in the
  row or in a copy, and the examination before it.
- `AssessedInv`, for `ClearancesWereAssessed`: a row that nobody moved on unscored
  and that has no score is in draft, cancelled or held, and a request whose copy
  has no score is one that read such a row; so the server's procedures take no
  draft past its assessment, and no explanation rebuilt from a copy loses the
  score.
- `AdmittedInv`, for `TableIsFollowed`: what a request of server or engine will write
  is a move of the table from the status of its copy. So a move off the table is
  by a writer that asks nobody, or the status is no longer that of the copy.
- `FreshInv`, for `TerminalStatesAreFinal` (no overlap): the copy of the one request
  under way is the row. The table leads nowhere from a terminal
  state; what else ends one is an `UnaskedWrite`.
- `OrderInv`, for `HoldsAreDischarged` and `ReviewsAreRecorded` (`Orderly`): the copy of
  the one request under way is the row itself, so the gates looked at the lane and
  the explanation that are cleared.

**Permits.** Three independent arguments over the same typing:

- `DecisionsAreFinal` needs no invariant: a step that changes the status of a
  decided row is one of the writers that put the row in `touched`.
- `ClearanceInv`, for `ClearancesAreBacked`: an approved row was approved once
  (`Recorded`); a callback past its write has approved its own row
  (`OwnBacked`); and every request or callback about to clear holds rows that are
  backed already (`PendingBacked`). The last is why the clearance may be written
  long after the permits were read: backing only grows until somebody touches
  the row, and touching is recorded.
- `ReceiptInv`, for `CallbacksApplyOnce`: a handler past `Receive` has its receipt
  and has applied nothing before `UpdatePermit`; a receipt is never removed, so no
  second handler comes that far.

**Gateway.** `Inv` is `PaymentOK` for every payment: what the pipeline's step says
of the switch and of the reserve (`Position`), that a step that waits has its
waiter (`Waiting`), that nothing but a committed transfer is answered well or
posted, what a confirmation rests on (`Confirmed`) and, with careful officers
only, the books (`Tidy`). `Frame` keeps it for the payments an action does not name.
Three theorems hold whatever the officers do: `TypeCorrect`;
`ConfirmationsArePaid`, that a confirmed payment was committed by the switch and
posted at least once; `WaitsAreAttended`, that no pipeline waits without a
waiter, the safety half of `PipelineEnds`. Four assume `Careful`: `BooksMatch`,
`ConfirmationsAreBacked` (posted exactly once, and not voided since),
`ConfirmedAreSettled`, and `GatewayImplementsSettlement`, in which each action is
`Decide`, `Reserve`, `Settle`, `Release` or leaves `TwoPhaseSettlement`'s variables
alone.

**Settlement.** `Inv` is `PaymentOK` for every payment (what a handler past the
ledger has seen; an outbox row only for a committed and posted transfer; a
completed or acknowledged payment has one) and `RowOK` for every row: it belongs
to a payment (`Owned`), at most one open transaction holds it (`Exclusive`), what
its holder will mark it is earned (`Earned`), and its messages, those on their way
included, are at most its attempts, its holder's and one for each fault
(`Counted`). `OneSend` says that a replica with a send that outlived its transaction
holds no row: it loses at most one row at a time, so that each `Expire` pays for
the one message it leaves behind. `SendsAreCounted` is not inductive without
`Exclusive`, which is where the row locks enter. They do not keep two replicas from
sending a row side by side: once the drain of one has run out of time in the
middle of a send, another takes the row. `Combine` frames both parts.

`SettlementImplementsOutbox`: with `settled` read as *committed by the switch and in
the ledger*, every action is `Settle`, `Record`, `Deliver`, `Lose`, `Arrive`, `Stop` or
`Attempt` of `OutboxDelivery`, or leaves its variables alone. Messages are counted
there, so a message of a closed event is a step, and it is allowed in one case: a
replica lost the event in the middle of a send (`Lose`), and this one message
comes (`Arrive`). A drain's marks are invisible until its transaction ends, so a
commit ends the attempts of several rows at once; it maps to one step because
`Attempt` is of a set of rows. `OutcomesEarned`, about one state, is stated besides.
`PostingsAccounted` has an account for each payment, `AccountInv`: an event, and a
handler about to record one, has a posting of its own; a handler that asked the
ledger is charged with one posting until the payment leaves flight, after which
no handler starts to post; and a fault excuses every handler. It needs that a
payment has finitely many callbacks under way.

**Mojaloop router.** `Inv` is `TransferOK` for every transfer (how far `initiatePayment`
is and what the switch has, against the row; a committed row is in the ledger),
`HandlerOK` for every delivery (what it says is what the switch says or has said;
past the bridge, its transfer is in the ledger at the id it holds) and
`RecordsOK` (mirror, event ids and answers). No delivery excludes another, and a
handler writes a row it read long ago; the argument is that the switch decides
once, so whatever two handlers write of an outcome is the same.
`SettlementsBacked` is read off `Inv`; `SettlementRefined` maps each action
to `Create`, `Post`, `Commit`, `Abort`, or to no change: a second post, or a second
write of the same outcome. `EntriesAccounted` bounds what `SwitchCallbacks_replay`
(section 5) shows to be more than one: each entry of a transfer is charged to a
delivery that cannot post again (it has, or the row is COMMITTED), or to a fault
that sent one back to the start, so that the number of repetitions does not
matter.

**Confirmation.** `Inv` is `RequestOK` for every request (inside the section it has
its payment's lock or has lapsed; past `ReadTransfer` the transfer is committed;
past `StartWorkflow` the workflow was started; before it, it was not, or the pair
is disturbed) and `PairOK` for every pair (a started workflow is in the cache, or
about to be put there by a request, or its pair is disturbed). The lemma `Alone` is
the heart: two requests for one undisturbed pair are the same request, so whoever
finds no key knows that nobody is between start and store of that pair.
`Exclusion` (two requests are past the lock of a payment only if it ran out under
one of them), `OnceUnlessDisturbed` and `SubmissionsBacked` follow.

**From the switch to the workflow.** `SwitchConfirmation_proofs` proves nothing twice:
a step of the router is one of `SwitchSettlement` (`SettlementRefined`) and leaves
`confirm`'s variables alone, so the composition implements `PaymentConfirmation`
(`ConfirmationImplemented`, no proviso) and has its theorems, cited through the
instance. `SubmissionsArePaid` joins them with the router's `Inv`: a workflow
started for a transfer means that the switch itself committed it and that the
bridge has an entry. `NothingIsTakenBack` is the same about what comes after. Both
assume `NoneIsNobody`, that the value for *no request* is no request, payment or
transfer, which is what `ConfirmAssumption` asks of it.

Only model-checked: liveness (`QueuedIsDecided`, `DeliveryAcknowledged`,
`PipelineEnds`, `EventsLeaveOutbox`, `CommittedLeavesFlight`, `CommittedIsRecorded`)
and the violations: the provers here do not treat fairness or ENABLED. Of
`EventsLeaveOutbox`, `CommittedIsRecorded` and `PipelineEnds` the proofs have the safety
half: what leaves has earned it, what is recorded is true, who waits is attended.
The 46 theorems are in eight modules. The theorem modules have no RECURSIVE operator and rest on
`QueueAssumption`, `LifecycleAssumption`, `PermitAssumption`, `GatewayAssumption`,
`SettlementAssumption`, `SwitchAssumption` and `ConfirmAssumption`, which say of what
kind the constants are.

## 5. Where code and text disagree

One run ends in the violation of something the code's own text says:
`gateway_abort`. The callback of an aborted transfer voids by the transfer's id, the
bridge knows only the id it drew, and the reserve stays.

Seventeen further configurations show a violation each. To see one, run TLC on the
module with the cfg of that name:

| cfg | module | property | in short |
|---|---|---|---|
| `PaymentQueue_slow_claim` | `MCPaymentQueue` | `ExclusiveClaim` | recovery goes by age: a batch slower than 60 s loses rows to a second cycle, which pays them again |
| `PaymentQueue_retry` | `MCPaymentQueue` | `FailedIsRetried` | a failed row is never selected again, although a retry time is set |
| `PaymentQueue_initiated` | `MCPaymentQueue` | `InitiatedIsProcessed` | rows from `payments.initiate` have no `next_retry_at` and are never claimed |
| `DeclarationLifecycle_race` | `MCDeclarationLifecycle` | `TerminalIsFinal` | a cancellation overwrites a clearance it did not see |
| `DeclarationLifecycle_engine_hold` | `MCDeclarationLifecycle` | `HoldDischarged` | the engine's UpdateDeclarationStatus clears past the inspection hold |
| `DeclarationLifecycle_lost_review` | `MCDeclarationLifecycle` | `ReviewRecorded` | assessDuty writes an old explanation over the record of a review |
| `DeclarationLifecycle_two_payments` | `MCDeclarationLifecycle` | `OnePayment` | `payments.initiate` admits a second payment of the same duty |
| `DeclarationLifecycle_permits_clear` | `MCDeclarationLifecycle` | `HoldDischarged` | a yellow or red declaration is cleared by the agencies' callback or by `bulkApprove` (`webhooks/oga.ts:176-181`, `ogaBulkApprove.ts:101-105`) with no examination, review or payment: approved permits are all they ask for |
| `DeclarationLifecycle_permits_reject` | `MCDeclarationLifecycle` | `TerminalIsFinal` | the callback writes `rejected` over a cleared declaration (`webhooks/oga.ts:166-171`), although no request overlaps with it |
| `OgaPermits_reapply` | `MCOgaPermits` | `ReapplicationCounts` | "a rejected permit must be re-applied as a new request and approved first" (`declarations.ts:1114-1115`), but the gate asks every row, the rejected one too |
| `OgaPermits_acked` | `MCOgaPermits` | `AcknowledgedIsProcessed` | "Delivery already processed" (`webhooks/oga.ts:103`) is answered to every repetition of a callback that failed after its receipt was recorded (`dedupe.ts:36-41`) |
| `MojaloopGateway_restart` | `MojaloopGateway` | `RestartFailsClosed` | "a restart fails the pending pipeline step closed with a typed timeout error" (`cmd/main.go:151-154`): nothing takes the row up again |
| `DutySettlement_retry` | `DutySettlement` | `RetrySettles` | after one refusal of the ledger the payment is `ledger_unavailable`, and every later callback is answered 409 |
| `DutySettlement_late_send` | `DutySettlement` | `ClosedEventsAreQuiet` | a drain runs out of time in the middle of a send, another replica sends and closes the row, and then the first message arrives |
| `SwitchCallbacks_replay` | `MCSwitchCallbacks` | `OneLedgerEntry` | "replays never mint a second ledger entry" (`mojaloop.ts:630-631`): two deliveries that overlap both read PENDING and both post |
| `SwitchCallbacks_duplicate` | `MCSwitchCallbacks` | `DuplicateRejected` | "duplicate submissions within 24h are rejected" (`mojaloop.ts:441`): the key is looked up in one statement and stored in a later one, and a conflict is ignored |
| `PaymentConfirmation_cancel` | `MCPaymentConfirmation` | `CancelledNotSubmitted` | `cancel` takes no lock, so a payment is cancelled between the read and the workflow |

The same models show, with other values of the constants: with `SlowCycles =
TRUE`, `OneCondition` fails (two cycles draw two preimages); with `AsyncSwitch =
TRUE`, `CommittedIsSettled` fails (a 202 is recorded as committed); with
`"bulkUpdateStatus"` in `Entries` of the orderly run, `HoldDischarged` fails (it clears
an unexamined yellow lane); with `Overlap = TRUE` there, `HoldDischarged` fails too (a clearance whose
gates saw the old lane is written over a row the engine has assessed anew); with `"cleared"` in `EngineTargets` and a blue lane, `ReviewRecorded` fails (the
engine knows no review); with `Careful = FALSE`, `BooksMatchReserves` and
`ImplementsSettlement` fail (the simulated backend posts or voids a pending
transfer as often as it is asked to).

What reading and modelling these parts brought up besides:

- *Clearance past the gates.* `declarations.updateStatus` clears only what the table
  allows, with the hold discharged, the review recorded and the permits valid.
  `webhooks/oga.ts:166-181` and `ogaBulkApprove.ts:97-105` write the same column
  with none of that: a declaration clears, from any status, when the last of its
  permits is approved, be it in draft, unpaid, unexamined, unscored, cancelled or held
  for sanctions; and a rejected permit takes back a clearance. The comment
  of `bulkApprove` has this as its purpose ("when ALL permits for the declaration
  are approved, the declaration clears"), so it is reported as two rules that
  disagree. `bulkUpdateStatus` is a third such writer.
- *Permits.* `oga.ts:63-67` calls approved and rejected terminal; the webhook,
  `bulkApprove`, `bulkReject` and `bulkApprovePermits` write over both, which is why
  `DecidedIsFinal` excepts the rows in `touched`. Two callbacks that overlap may
  leave the declaration cleared beside a rejected permit: the one that read
  before the other's write updates the declaration last. Rows the webhook or the
  bulk procedures approve lack an expiry date, and often a number, so the gate of
  `updateStatus` refuses them. The webhook writes back the number it read before.
- *Gateway.* `HandleTransferCommitted` publishes `payment.confirmed` although its own
  post names an id the bridge does not know. A pipeline may end FAILED after the
  switch committed or the bridge posted. A fulfilment is accepted unverified when
  its callback comes before the condition is stored. The waiter is registered
  inside the goroutine, so that a fast answer finds nobody. The gateway sends no
  Authorization header, which the bridge's service authentication requires; the
  model takes the calls to be let through.
- *Duty payments.* A delivery whose ledger call failed may write
  `ledger_unavailable` over the completion of another, and a payment that is
  posted twice has two transfers in the ledger: each call draws an id. An error
  of the dead letter publish is only logged, so a row may be given up without an
  envelope. ABORTED is acknowledged even if the status was not written. A
  rollback at the end of the drain's half minute forgets the attempts of the
  whole batch, so a broker that is slow every time uses up no budget and the rows
  are never given up; and since `SendMessage` is not told, its message may arrive
  after another replica has closed the row, also as failed with an envelope
  in the dead letters. The service sends amounts as decimals, which the bridge's integer
  parser refuses; the model keeps no amounts, and a refusal is one of its
  outcomes.
- *Mojaloop router.* An ABORTED callback whose event was not recorded after the row
  was written is answered 409 at every repetition: only COMMITTED is accepted
  again. A RESERVED or RECEIVED callback passes the checks and fails at the
  column's type. A transfer whose forwarding failed stays PENDING, and nothing
  sends it again, while its key refuses a new submission; the lookup does not
  compare the key's `expiresAt`, so it refuses it after a day as well.
- *Confirmation.* The key reads as absent when Redis is away, so a repetition may
  submit the workflow again; Temporal lets a workflow id be used again once the
  first has ended. The lock may run out under the holder, whose release then does
  nothing, as the token is another's.

## 6. Not modelled, and the plan

In the order in which they would be taken up:

1. `fund-flow.ts` as a second user of the idempotency keys: keys set before the
   work is done.
2. The circuit breaker of `server/_core/middlewareClients.ts`: its half-open state
   and what its header says of it.
3. The invoice payment service: a second initiation overwrites `mojaloop_tx_id`,
   and a callback then finds no payment; a refund that is asked for twice.
4. Settlement sagas and their order of compensation; payment archival.
5. The second writers of permits in Go (`services/oga-hub`,
   `services/go/oga-service`, `microservices/oga-service`), as further entry points of
   `OgaPermits`.
6. The services that write `declarations` with statements of their own:
   `services/go/declaration-service` (`grpc_server.go:151`, `main.go:282` and `464`),
   `microservices/declaration-service` (`internal/store/store.go:117`, from its REST
   handlers and its Kafka events), `microservices/temporal-worker`
   (`activities.go:134-153`) write the status by id, some of them `cleared`, after a
   check of their own or none; `services/risk-engine/main.go:236` and
   `microservices/risk-engine/main.py:382` write the lane. Nothing in `server/` calls
   them, and some name columns the schema lacks. Where one of them runs on the
   same table, its writes are as unasked as those of section 2, and the guarantees of
   `DeclarationLifecycle` do not cover them.
7. The bridge over the live ledger, and a restart of its simulated backend, which
   forgets every transfer.

Left abstract everywhere: roles, KYC, Permify, signatures, notifications and the
audit trail. They refuse or inform, and change none of the state modelled here;
a refusal is a step that may happen at any time. The duty and currency
arithmetic of `businessRules.ts` is a candidate for operators checked over
bounded inputs.

The models cover a small share of the repository's lines. Most of these are
screens of the web client, routers that read and list, seed data, generated
schema and one-table CRUD services: they keep no state that several steps or
actors could bring out of order. What moves money or decides a clearance is in
the tables of section 1, and each part that is left is named there.
