# TLA+ models of the IAT protocol back end

IAT is a marketplace of agents: a buyer agent orders a service, pays it in IAT
tokens on Solana, a seller agent executes it, the result is sealed for the
buyer, and the seller's share of the escrow is released. The modules here
model what moves orders and money, the workers behind it, and the rules by
which sellers, agents, merchants and the protocol itself are governed. Line
numbers are those of the repository this directory belongs to (`PROJECT.json`
names the source lines of every definition).

## 1. The system

| Component | State it keeps | Operations | Interacts with |
|---|---|---|---|
| Universal checkout (`iat/api/checkout_api.py`, `checkout.py`, `checkout_verifier.py`) | `universal_checkout_quotes`, payment columns of `orders` | create a quote under a reservation lock, prepare, authorize, submit, confirm, reconcile | quote signer, chain, delivery |
| Delivery worker (`iat/checkout_delivery.py`) | `universal_checkout_deliveries`, delivery columns of `orders` | enqueue, claim a lease, execute, finish, settlement sweep, redrive, resume, accelerate | providers, settlement, receipts, compensation |
| Compensation (`iat/checkout_compensation.py`) | `universal_checkout_compensations` | request, decide | delivery row, receipt |
| Receipts and inbox (`iat/checkout_receipt.py`) | `universal_checkout_delivery_receipts`, their events | configure a channel, rebind, seal, repair, open, accept or dispute, notify, take the provider's events | delivery, webhooks, email provider, release gate |
| Direct orders (`iat/api/agent_b_api.py`) | `orders`, `processed_txs`, `buyers`, `seller_connector_tasks` | verify a payment, execute or queue for the connector, verify its result, finalize | chain, seller, Foundation |
| Settlement allocation, ledger (`iat/checkout_settlement.py`, `ledger.py`) | a `settlements` row, ledger transactions | allocate once per order | delivery |
| Settlement workflow and execution (`iat/api/db.py` 11087-13590, `iat/action_engine/adapters/settlement_atomic.py`) | status, claim and signature columns of `settlements` | advance, orchestrate, supervise, claim, broadcast, recover | permits, wallet sidecar, chain |
| Protocol evidence and permits (`iat/api/protocol_evidence.py`) | one table per link of the chain from evidence to permit | validate, plan, authorize, simulate, issue a permit | scheduler, settlement execution |
| Buyer scheduler (`iat/buyer_agent_scheduler.py`) | jobs, a hash-chained journal, anchors | schedule, run what is due, attest, publish, carry an anchor through nine phases | evidence service, wallet |
| Hosted buyer jobs (`iat/hosted_buyer_jobs.py`, `hosted_buyer_worker.py`) | a job row, a hash-chained journal | enqueue, claim, requeue expired leases, finish, verify the journal | checkout API |
| Action engine (`iat/action_engine`) | `action_queue`, workers, claims, dead letters | enqueue, process, heartbeat, expire, plan and execute recovery | settlements, deliveries |
| Foundation decision (`iat/api/db.py`, `multi_exec.py`) | none for a decision, `foundation_decision_queue`, supply sessions | research, verify claims, decide, authorize a release, queue and review decisions | agents, release |
| Seller accounts (`iat/api/db.py`) | `sellers`, `seller_recovery_requests` | approve, reject, lapse, risk events, governed transitions, recovery | agents of the seller |
| Seller factory (`iat/api/db.py`) | `seller_agent_factory_requests`, reviews, approvals, runs | review, approve, sandbox, simulate, generate | accounts, agents |
| Seller agents (`iat/api/db.py`) | `seller_agents`, `agents`, activation approvals | activate, contain, reactivate, probe, freeze, thaw, route | factory, accounts |
| Threat memory and responses (`iat/api/db.py`) | `threat_memory`, recorded responses | forecast, reinforce, propagate, decay; plan, limit and apply responses | accounts |
| Protocol adaptation (`iat/api/db.py`) | `protocol_adaptations`, reviews, snapshots, monitors | propose, review, apply, monitor, roll back | agents' order limits |
| Protocol learning (`iat/api/db.py`) | `protocol_memory`, `protocol_knowledge`, hypotheses, experiments | store, observe, falsify, decay, promote, evaluate | adaptation |
| GOIA partnerships (`iat/goia/partnership_*.py`, `repository.py`) | merchants, proofs, opportunities, outbox, suppressions | prepare, claim, send, retry, answer, opt out | collection |
| GOIA collection (`iat/goia/collector_worker.py`, `repository.py`) | jobs, candidates, observations, prospects | claim, collect, review, ingest, retry, decide | merchants |
| On-chain program (`programs/iat-checkout`) | payment intents | pay a quote once, before it expires | checkout |
| Quote signer (`iat/quote_signer*.py`) | none | cosign a transaction of the buyer | checkout |
| Growth, sandbox, explorer, SDK, site | none of the above | not modelled | |

What is hard in it:

* **Concurrency.** API requests and the poller threads of every replica run the
  same functions on the same rows. The database offers single transactions;
  everything longer (the provider call, the question to the Solana node, the
  broadcast) happens between a read and a write. Almost every endpoint of the
  seller and protocol governance reads, decides, and writes by key without
  looking again.
* **Failure.** A process may die between any two transactions. A lease may end
  under a run that still works. A broadcast may have happened although its
  answer never came.
* **Ordering.** Orders, delivery rows, settlements, receipts and compensations
  are written in separate transactions, and each write is guarded by a
  different condition. Journals are chained by hashes but sorted by seconds.
* **Time.** Quotes, leases, backoffs, permits, proofs and responses expire.

What makes each component correct: no quote exceeds what the treasury may sell
and one payment settles one quote; a verdict on a payment agrees with the
chain; a payment is never lost, submitted or not; a paid order is delivered or
given up with its budget spent; a buyer does not get service and refund; the
inbox, the row and the order hold one result; a buyer's decision on it stands;
a completed delivery leaves an allocation; the escrow is released by one
transaction, on evidence that the scheduler really obtained and a decision that
rests on its claims; a seller that is ruled out stays out, its agents are
generated, routed and exposed only on their reviews; automatic responses keep
to their budgets; a merchant that opted out is left alone, and what the index
holds was approved. `PROJECT.json` lists the hazards at their lines, with the
properties that watch over them, or the reason why none does.

## 2. Modules

| Module | What it is |
|---|---|
| `CheckoutQuotes` | quotes and payments, the reconciliation sweep and the loop of the worker |
| `CheckoutDelivery` | one paid order: delivery, allocation, receipt, compensation |
| `PaidOrder` | what a paid order promises its buyer, without runs, leases or attempts; `CheckoutDelivery` implements it |
| `SettlementExecution` | one settlement: workflow, claim, permit, broadcast, recovery |
| `Faults` | what goes wrong, with one bound for the modules below |
| `StaffCalls` | calls that read in one step and write in another |
| `EvidenceChain`, `BuyerScheduler` | the eight records from evidence to permit, and the scheduler that asks for them |
| `HostedJobs` | the queue of hosted buyers and its journal |
| `ActionQueue` | the action engine with its supervisor |
| `DeliveryReceipts` | the receipt of one order with repair, notifications and the buyer's decision |
| `ManagedOrders` | orders paid directly, and the seller's connector |
| `SellerAccounts`, `SellerFactory`, `SellerAgents` | a seller's account, how it gets agents, and one of these at work |
| `ThreatResponse` | threat memory, and the responses to it |
| `ProtocolAdaptation`, `ProtocolLearning` | one adaptation with its rollback; memory, knowledge, hypotheses |
| `GoiaPartnerships`, `GoiaCollection` | proposals to merchants; collection of offers |
| `FoundationRulings`, `ReleaseAuthority` | the decision queue and supply sessions; one decision from evidence to release |
| `MCCheckoutQuotes` | its instances for TLC: symmetry sets and prices (the refinement mapping of the delivery is `CheckoutDelivery!Promise`) |
| `MCBackgroundWork`, `MCProtocolCalls` | several systems in one run; the variable `system` says which one moves |
| `CheckoutDeliveryProofs`, `CheckoutQuotesProofs`, `SettlementExecutionProofs` | theorems and proofs about the module they are named after |
| `BackgroundWorkProofs` | about each of the systems of `MCBackgroundWork` (`BuyerScheduler`, `EvidenceChain`, `HostedJobs`, `ActionQueue`, `DeliveryReceipts`, `GoiaCollection`), and about their composition |
| `ProtocolCallsProofs`, `SellersProofs` | about each of the systems of calls: `SellersProofs` about `SellerFactory` and `SellerAgents`, `ProtocolCallsProofs` about the others |
| `MCProtocolCallsProofs` | about `ReleaseAuthority`, and about the composition of the calls, `MCProtocolCalls` |
| `Sums` | induction over numbers and finite sets, and sums over finite sets, for the proofs |

Definitions marked "(Not the code: ...)" are plausible bugs. They are used by
no specification; substituting one for the definition that follows it must
break a property (`mutants` in `PROJECT.json`), which shows that the property
depends on that piece of the code.

### CheckoutDelivery

`delivery`, `order`, `allocation`, `receipt` and `compensation` are rows;
`run[w]` is where a run of `run_checkout_delivery` or `run_settlement_sweep`
stands and what it holds in local variables. One action is one transaction or
the provider call: `Claim` (`_claim`), `Load`, `Execute`, `Allocate`,
`MarkOrder` (`_mark_order`), `Finish` (`_finish`), `Publish`, `Compensate`;
`SelectSettlement`, `Reallocate`, `RecordSettlement` for the sweep; requests of
the buyer and of operators; `LeaseExpires`, `BackoffElapses`, `Crash`. A request
for compensation is two steps, as nothing is locked between its SELECT and its
INSERT: `ReadGround` puts what it read into `requests`, and `OpenCompensation`
inserts the review for one of these grounds, whatever the row has become since.
A redrive or a late run may come between: `PaidOrder` promises that a review was
asked for on a ground the order had at that time, no more.

Abstractions: no transaction touches the rows of two quotes, so one quote is
modelled. Time is what the code compares: `due` for `next_attempt_at <= now`,
`leased` for `lease_until >= now`; the reads of the row and of the order at the
start of a run are one step (nothing between them distinguishes their order).
Orders are never deleted, so `order_missing` cannot be reached. Left out: audit
events, the seller's reputation, the repair of receipts sealed by older
releases, notifications, the older `/verify-payment` flow and the seller
connector's `update_order_db`.

### CheckoutQuotes

`quotes`, `orders`, `rows` are tables, `chain` the transactions the buyer
signed, `lock` the advisory lock, `proc[p]` what a request or the worker is in
the middle of, `sweep` the loop of the worker. Creating a quote (`BeginQuote`,
`InsertQuote`) and confirming a payment (`Confirm`, then `Finalize` or `Reject`,
then `TryDelivery`) read first and write later, so they are several steps.
`Prepare`, `Authorize`, `Submit` and the attachment of a found signature are one
compare-and-swap each, so they are one step. `Land` is the program on chain.

Abstractions: the treasury route only (the Raydium route has no payment intent
to reconcile), one day and one wallet, so the wallet's and the treasury's cap
coincide. A replayed idempotency key returns the earlier row and changes
nothing. `processed_txs` is implied by the compare-and-swap on the quote. A dead
process drops the advisory lock with its connection. A sweep takes
`SweepLimit` quotes (the code takes 5), submitted ones first, then by
`updated_at`, within `Lookback` of their creation; the limit of candidate
signatures is left out. `Attempt` is one attempt to deliver, with the ends
`CheckoutDelivery` shows it to have: delivered, tried in vain with the row still
due, closed because its attempts are spent or Foundation blocks it, and the
order possibly held. `DeliverNext` makes one for every row that was due
(`DueOrders`), `TryDelivery` one at the end of a confirmation.

### SettlementExecution

`status`, `claim`, `sig` are columns of one `settlements` row (`sig` has the
commission's and the payout's signature: the code writes both at once, an
administrator either), `permit` the execution permits of its evidence chains, `chain` the release
transactions, `run[w]` the request at work. A request reads and decides
(`Advance`, `Orchestrate`, `AdminTransition`, `RecoverWallets`, `Reconcile`,
`RetryRelease`), then `Move` validates against a status read again and `Write`
compares and swaps. `LookPermit`, `ClaimExecution`, `Send`, `Record`,
`RecordFails`, `MarkUnknown` are the release; `Reconcile`, `Recover` and
`RecoverNothing` the recovery of a broadcast whose outcome is unknown.

`AdminTransition` is both endpoints of the administrator: any transition of the
table, a confirmation included, with any signature, of a transaction or `Typed`,
in either column, and no look at the chain. `byHand` remembers what was vouched
for so; `MaxByHand` bounds how often.

Abstractions: payload patches, the retry counter and wallets are left out; a
rejected request changes nothing. Policy evaluations are a free choice. The claim token is the one of the only claim there is: a claim is never
given back. The legacy release path carries no permit and never broadcasts. The
node may fail to answer at any time.

### EvidenceChain and BuyerScheduler

`chain[d]` holds the eight records the evidence service keeps per purchase; an
operation of the service is the set of responses it may give (the row it leaves
and its answer). `job` and `anchor` are rows of the scheduler's SQLite file,
`job.length` its journal, `turn[r]` what a worker process has claimed and asked.
`Schedule` and `Resume` are requests of the buyer; `RunDueOnce` claims a due job
or an anchor. The claim of a job and the run's own read of it are two steps
(`ClaimOne`, `ReadClaimed`): a claim also stops a job whose attempts are used up
and returns it, and the run goes on with it if it was resumed meanwhile;
`job.joined` remembers that one did. `SchedulerWork` is one step of the run: the request, then
the write, which names the row and not the lease. `LeaseEnds` ends the lease of a
dead worker, `LeaseOverrun` that of a live one, `ServiceTime` lets an
authorization or permit expire. The head an anchor attests is a number; the
wallet's signature, amounts and addresses are left out, and so are the deadlines
`next_run_at`: a row that is not due is one that is claimed later.

### HostedJobs

One job: `hosted` is its row, `journal` the events in the order their readers
sort them by (second, then random id), `shift[w]` what a worker claimed,
`second` the clock. `EnqueueHostedBuyerJob`, `ClaimHostedBuyerJob` (which first
requeues ended leases) and `FinishHostedBuyerJob` are one transaction each.
What the checkout answers is a free choice. `JournalIsValid` and `EventCount`
are `verify_hosted_buyer_job_events`, event by event.

### ActionQueue

`queue`, `workers`, `claims`, `dlq`, `history` are tables. Each statement of
`process_next_action` commits by itself, so `Process(t)` is one statement of a
thread: select, take, execute, record, complete, then look for a claim, insert
it and release it. `SelectWorker` and `ProcessWithoutWorker` begin a request;
`LeaseLapses`, `HeartbeatActionClaim`, `HeartbeatActionWorker` are time and
heartbeats; `SuperviseExpiry`, `PlanRecoveryActions`, `ExecuteRecoveryPlan` the
supervisor, which lists a bounded number of items: `crowd` counts the pages of
other items in front. What an executor does is a free choice; the supervisor's
governance and the delays of retries are left out.

### DeliveryReceipts

The receipt of one order, which is bound to one of its quotes. `request[t]` is
what a request or the notification sweep has read and is about to write:
`Arrive` begins a configuration, publication, opening, decision or provider
event, `Proceed` does its next transaction, `ListDue` and `Dispatch` are the
sweep, which lists and then reads the row again to send, `OpenInbox` and `ConfigureSigning` take one step, `RequestFails` ends a request anywhere.
The states the code reads but never writes (`payload_ready`, `pending_dispatch`,
`dispatched`) do not occur. Signatures and payloads of notifications are left
out; `CheckoutDelivery` assumes of the receipt only that it is sealed once.

### StaffCalls and Faults

The endpoints of the seller protocol read some rows, decide, and write what they
decided by key. `StaffCalls` gives a call its two steps: `Takes`/`Decides` put
the decision on `desk[t]`, `Writes(t, ...)` writes it. A call whose reading
another has meanwhile written over is in `outdated`; once one of these writes,
`overlapped` is true for ever. Properties about what a race may break say
"unless `overlapped`"; the rest of them holds in spite of it. A second call at
once is a fault, like a death; `MaxFaults` bounds both. Statements that
read and write at once (`WritesAtOnce`) are single steps.

### ManagedOrders

`direct` are the orders' rows, `claimedFor` is `processed_txs`, `passes[x]` the
orders whose check of sender, receiver, amount, time and memo a transaction
passes (without a memo it passes for every order of its price), `connector` the
task of an order. A call verifies, claims the payment (`ClaimPayment`), and
either enqueues a task (`Enqueue`, `MarkPending`) or executes (`Execute`,
`RecordExecution`, `RecordFailure`, `SettleDirect`); `CallAgents` and
`RecordMulticall` are the multi-call path; `CloseTask` and `PublishVerdict` the
verification of a connector's result; `ExecuteFinal` and `RecordFinal` the
finalization. Scores, prices and bans lifted by hand are left out.

### SellerAccounts, SellerFactory, SellerAgents

`SellerAccounts`: one account with one agent. Approval, onboarding, the
deadline, risk events, governed moves and decisions on recovery read first and
write later (`Begin...`, then the write); `RejectAccount` is one statement.
`ActivateParentAccount` is the administrator's activation of a seller over one of
its agents, which asks for nothing; `RegisterCapability` writes an agent as the
seller was when the endpoint authenticated it; `SetCapability` is whatever the
calls may write that look at the agent and not at its seller (`SellerAgents` has
them one by one). `risk` is the band the engine tells apart. `ruledOut`,
`forced`, `relit`, `torn` remember what the properties except.

`SellerFactory`: one request. Each stage (factory, sandbox, simulation) has
reviews, an approval and a run; `BeginGeneration`, `GenerateAgent`,
`RefuseAgent`, `EndGeneration` create the agents one transaction at a time.
Review scores are a free choice of the outcome.

`SellerAgents`: one agent as its `seller_agents` row and what routing reads of
its `agents` row. Activation reviews, warnings, probes and the capacity engine
are two steps; containment, reactivation, disabling, reconciliation and reports
are one. `WriteRegistry` is whatever the writers of its `agents` row leave there
that do not touch `seller_agents`: failed orders, staff's reactivation,
unstaking, endpoints that write the row back. `Routed` is the query of the
router, with its exception for test metadata, which a seller gives its agent at
registration (`origin`); `Offered` that of the checkout, which has no such
exception. The statuses that take an agent out of service are merged into one.
`reset_test_seller_risk_db` (`db.py:26881`) and
`force_activate_api_registered_seller_agent_db` (19374) are called from nowhere
and are no actions.

### ThreatResponse

`threat` are the rows of one attack vector; of confidence and strength only
whether both are low enough to archive. Forecast, reinforcement, propagation and
decay read and write in two steps. A turn of the heartbeat (`BeginTurn`,
`Authorize` or `Forgo`, `Respond`, `RecordApplied`) plans a response, passes the
safety check, applies a risk event and records it, in that order and in separate
transactions. `footing[s]` is what account and memories come to and moves
freely; node scores are left out, so any response may be recommended. Memories
and responses meet only through these scores, so each has a next-state relation.

### ProtocolAdaptation and ProtocolLearning

`ProtocolAdaptation`: one adaptation of one seller, with its reviews and those
of its rollback, the raises the agents' limits hold, snapshots, and the monitor
with its cycle. `RollBack` answers "executed" and keeps its transaction `open`,
as the code does; `RestartServer` closes it.

`ProtocolLearning`: the rows of one memory signature, and of one hypothesis with
its experiments. Scores are kept as a side of their threshold, and what a call
adds may move them across or not. `lessons` counts what was truly seen, of the
memories or of the hypotheses: each half has a specification of its own,
`MemorySpec` and `HypothesesSpec`.

### GoiaPartnerships and GoiaCollection

`GoiaPartnerships`: `manifest`, `proof`, `permission`, `suppressed`, `outbox`,
`relation` are columns of the tables of a merchant; dispatchers select, claim,
send and finish proposals in separate steps, `RecoverDelivery` takes a lease
back, and a response or an opt-out is recorded in two. To finish a delivery is a
read under the lease (`CheckLease`) and a write (`FinishDelivery`) of the row by
its lease and of all else in any case. Responses that decline or
ask for information are handled as an acceptance.

`GoiaCollection`: `page` are jobs, `candidate` what was found, by job and
contents, `indexed` the published observations. `Collect(c)` is one transaction
of a collector: claim (with the recovery of ended leases), store candidates,
review, ingest, mark, schedule retries, finish. An operator decides beside it.
`prospect` has a next-state relation of its own, and `CollectionSpec` takes steps of
either.

### FoundationRulings and ReleaseAuthority

`FoundationRulings`: decisions wait in `queue` until they are reviewed or
overdue (`QueueNext`); the supply pipeline, or staff, starts, runs and verifies
sessions of an order, and the decision counts them (`SupplyNext`). The order's
connector task (`connectorTask`) is queued, leased, answered and verified; its
verification stores a session (`StoreContribution`), verifies it
(`VerifyContribution`) and marks the task (`MarkTask`) in three transactions, of
which `supplier[x]` remembers whose session `x` is.

`ReleaseAuthority`: nothing of a decision is stored, so a behaviour is one run
of it: `Gather` the evidence of the agents, `SearchDirectly` or `KeepEvidence`,
`Decide` verdict and confidence, then `Deliver` or `Authorize` a release, and
`DecideAgain`. Verdicts, caps, adjustments, medium and high risk, and the
policy table are functions of the same thresholds, in hundredths. Of a
consensus only how it ended and how many agents answered is kept. How many
claims a verification finds of each kind, what it deducts and the confidence it
ends with are constants (`VerifiedClaims` and those after it), a few values for
TLC, and any set of numbers for the theorems.

## 3. Runs

| Run | Instance | Shows |
|---|---|---|
| `DeliveryCrashes` | 2 runs, 2 results, 3 attempts, 2 crashes, 1 redrive, 1 failing allocation, no overrun; fairness | one result in inbox, row and order, and no refund of what was delivered (`OneOutcome`); one run at work; `PaidOrder` is implemented; every delivery ends, every completed one is sealed, and a failed allocation that was recorded is retried until it succeeds (`DeliveryConcludes`) |
| `DeliveryOverruns` | 2 runs, 1 result, 2 attempts, 1 lease that ends under its run, 1 redrive, 1 failing allocation, no crash; fairness | what survives overtaking runs, and pollers that retry an allocation beside them: delivered orders and final rows stay, completed means delivered, and a row tells of no allocation that does not exist (`ReportedIsDelivered`); the budget is really spent; and `DeliveryConcludes` |
| `DeliveryTwoRuns` | 1 overrun | **violated**: two replicas execute one order |
| `DeliveryLostAllocation` | 1 crash, 1 failing allocation | **violated**: an allocation is lost for ever |
| `QuotesSafety` | 2 quotes, orders, callers, transactions, 1 crash, 1 attempt at a delivery, clock 0..2; symmetry | reservations within the cap; one live quote per order and one payment for one quote (`QuotesAreExclusive`); verdicts agree with the chain and paid means enqueued (`OutcomeIsTrue`) |
| `QuotesRecovery` | 2 quotes of 1 order, sweeps of 1 quote, 2 attempts at a delivery, 1 crash, PostgreSQL; fairness | unreported payments are recovered and paid orders brought to an end, delivered or closed (`PaymentIsServed`), final quotes stay |
| `QuotesHaltedWorker` | the same without crash | **violated**: a second payment of one order halts the worker, and the order is never brought to an end (`PaidIsConcluded`) |
| `ProtocolCalls` | thirteen systems, one per behaviour (section 2): direct, factory, agents, accounts, threats, responses, adaptation, partners, memory, hypotheses, rulings, supply, authority; symmetry, view | safety of what calls bring about: `CallsTypeOK`, `PaymentIsKept`, `AgentsAreEarned`, `RoutedIsTrusted`, `SellerIsGoverned`, `ResponsesAreBounded`, `ExposureIsGoverned`, `OutreachIsPermitted`, `LearningIsEarned`, `FoundationIsConsistent`, `ReleaseIsEarned` |
| `BackgroundWork` | six systems, one per behaviour: scheduler, hosted, actions, receipts, collection, prospects; fairness | `WorkersTypeOK`, `ClaimsAreBacked`, `JournalIsSealed` (scheduler), `HostedJournalVerifies`, `RequeueFollowsOverlap`, `ReceiptIsFinal`, `ReleaseRestsOnDecision`, `CollectionIsReviewed`; and `WorkEnds`: pending work of scheduler, hosted jobs, actions, notifications and collection ends |
| `SettlementRelease` | 1 permit, 2 transactions, 2 requests, 1 crash, 1 transition by which an administrator vouches for something; fairness | the escrow is released once (`ReleasedOnce`), what is recorded of it is true and final as far as no administrator says otherwise (`ReleaseIsRecorded`, `SignatureIsFinal`); a release that landed is recorded (`LandedIsRecorded`) |
| `SettlementUngoverned` | no crash; administrator fair too, 1 transition that vouches | **violated**: the settlement of a checkout cannot be released |
| `SettlementFailedRelease` | no crash; fairness | **violated**: a failed release is not marked |

`BackgroundWork` and `ProtocolCalls` are the unions of systems whose properties
read no table of another: `system` is chosen once, so a run explores each of
them alone and a property of one is trivially kept by the others. They have
about 0.42 and 1.73 million states. In `ProtocolCalls` the threads of `Staff`
are interchangeable (symmetry; its properties are invariants and properties of
single steps), and the view `Moving` leaves out the tables that stand still.

**Bounds.** The rows interact through single compare-and-swaps, or through a
read and a later write. Two actors overtaking each other, with one of them dead
at any step, produce every pairwise order of these writes; the second crash of
`DeliveryCrashes` also kills the run that repairs the first. Two results,
signatures and quotes are what it takes to confuse one with another.
`MaxAttempts` 2 and 3 leave a retry before exhaustion. `DeliveryOverruns` has no
crash: to the others, a run that died is a run that takes no further step; that
a worker starts another run after a crash is in `DeliveryCrashes`, and both
together in the theorems, whose safety is for any number of crashes and
overruns. A settlement is claimed only once, so one permit is enough for the
recovery of its release; several of them are left to the theorems of
`SettlementExecutionProofs`. There an administrator passes any signatures, with
or without a transaction behind them (`Typed`); in the run they are those of the
two transactions, sent or not. In
`CheckoutQuotes` the clock passes every expiry (`Ttl` 1) and every lookback
(`Lookback` 1), and of two quotes a sweep takes one (`SweepLimit` 1, for 5), so
that one submitted for ever starves the other; two attempts at a delivery
(`MaxAttempts`) fail once before the last.

| System | Bound | Why it is enough |
|---|---|---|
| all of `BackgroundWork`, `ProtocolCalls` | `MaxFaults` 1, `MaxCrashes` 1 | the hazards are one death, or one overlap, at the wrong step; the theorems of section 5 are for any number |
| scheduler | 1 purchase, 2 runners, 1 attempt at a job, budget 2, 2 attempts at a phase, `MaxOverruns` 1 | purchases share no row; a phase fails, is retried and gives up |
| hosted | 2 workers, 2 attempts, seconds 0..2 | a lease ends, is requeued, and two events fall into one second |
| actions | 1 action, 2 threads, 1 worker, 1 requeue, `crowd` 0..2 | listings hold 50 and 100 items: the action is seen by both, one or none |
| receipts | 2 quotes, 2 requests, 1 sweeper, 2 attempts to notify, API or email | a rebinding, a decision beside a repair, a late provider event |
| collection | 2 collectors, 2 jobs, 1 contents, 2 attempts, 1 retry | a retry is a second job |
| accounts, threats, responses | 1 account, 1 agent, 1 recovery request; 2 sellers, 3 rows; limits of 3 and 2 responses, which stand for 20 and 5 | rows can be passed on, and the limits bind before the instance ends |
| direct | 2 calls, 2 orders, one with a connector, 2 payments | two payments of one order, one payment that passes for two |
| factory, agents, adaptation | 2 agents requested of 3 allowed; 1 agent; 1 adaptation, 1 monitor | two generations that overlap exceed the allowance |
| partners | 1 merchant, 2 markets, 1 manifest | two proposals to one merchant; a manifest is withdrawn and published again |
| memory, hypotheses | 2 rows, 2 experiments, 3 lessons | a validation takes three, duplicates take two rows |
| rulings, supply | 2 targets, 2 decisions, 2 sessions | a duplicate, and two contributions to agree |
| authority | verified claims 0, 2, 5, rejected 0, 1, uncertain 0, 1, 2, 6, deductions 0 and 20, confidences 45, 65 and 80, on either side of each limit | every threshold of verdict, risk and policy is crossed |

After an overlap `SellerAccounts`, `ThreatResponse` (memories) and
`ProtocolLearning` begin no more calls: most of their properties except it. In
`ProtocolCalls` the systems agents and partners stop there as well, and of the
calls about an agent that read first one is at work at a time, beside those that
write at once; their theorems have neither bound. Runs of `BackgroundWork` are
shortened where things are alike: the next runner to claim is a fixed one of the
idle (`NextRunner`), as are the quote of the first request (`FirstQuote`), the
next payment and the first market of `ProtocolCalls` (`NextPayment`,
`FirstMarket`); what nothing else reads happens at the end or the beginning
(`OpenedLast` for the opening of the inbox, `InDirectOrder` for creating and
paying orders). Once a job that was resumed has its anchor, nothing fails any
more (`AnchorOfResumed`); the first anchor meets every fault, and the theorems
of `BackgroundWorkProofs` have no such bound.
Deadlock is not checked: orders, quotes, settlements and jobs reach final states
and nothing need happen then.

**Fairness.** Poller threads loop for ever and a started request goes on (weak
fairness of its steps), which assumes that the providers, the node and the
database it calls answer in the end, be it with an error; leases, backoffs and
intervals elapse. In
`CheckoutDelivery` the buyer keeps asking for the delivery, which resumes legacy
reviews and syncs the receipt. In `SettlementExecution` nothing in the code
calls the supervisor: operators do, through the API, and the node does not fail
every time, so `Reconcile` and `Recover` are strongly fair; the instance
`SettlementUngoverned` moreover lets the administrator try every transition for
ever, so that its counterexample does not rest on idle people. Nothing makes a
transaction land, nobody need pay, decide or acknowledge. In `BackgroundWork`
each system has the fairness of its module while it is the one that moves (one
condition per process says it of all systems, since only one of them moves): the
scheduler's and the hosted workers wake again and again, leases of the dead end,
time passes, a thread that has taken an action and a request that has begun go
on, the notification sweep comes round, and collectors go on claiming and
collecting pages. Nothing forces a purchase, a supervisor's cycle, an operator's
review or an opening. The systems of `ProtocolCalls` have none: they
are moved by calls nobody need make, and no liveness is claimed for them.

**Exceptions written into the properties.** Each names behaviour that the code
has, not a case the model leaves out.

* `PaymentIsServed` leaves out payments misnamed by the client (`Misnamed`),
  older than the lookback (`Overlooked`), kept from the sweep by as many quotes
  in front for ever (`Crowded`), or behind a second payment of an order that
  halts the worker (`Halted`); what it claims of a paid order is that it is
  delivered or its row closed. `LandedIsRecorded` leaves out claims whose request
  died before marking them (`Orphaned`) and settlements an administrator signed.
* `ReleaseIsRecorded` and `SignatureIsFinal` speak of signatures and of a
  confirmation as long as no administrator passed the one or made the other
  (`byHand`); a signature is never cleared even so, and what is submitted has
  both.
* The retry in `DeliveryConcludes` is about failures a run lived to record;
  `DeliveryLostAllocation` is the other case.
* `OneOutcome` speaks of refunds of rows nobody redrove.
* `JournalIsSealed` is about behaviours without an overrun, and not about the
  journal of a job that was resumed between the two looks of a run that had
  stopped it (`joined`);
  `HostedJournalVerifies` counts the events only when no two of queueing and
  claims fell into one second (`Crowded`); `RequeueFollowsOverlap` is about
  queues that fit the listing (`crowd = 0`).
* `ReceiptIsFinal` lets the repair of an unsigned seal, and a provider event
  computed from an earlier read, undo a decision.
* `AgentsAreEarned`, `RoutedIsTrusted`, `ExposureIsGoverned`, `PaymentIsKept`,
  `OutreachIsPermitted`, `LearningIsEarned`, `SellerIsGoverned`,
  `ResponsesAreBounded` and `FoundationIsConsistent` except, in the parts that
  say so, behaviours where a call has written over what it had not read
  (`overlapped`).
* `PaymentIsKept` also excepts orders one of whose calls died, payments that
  were answered by an error, and orders paid twice; `CollectionIsReviewed`
  candidates decided by two at once or whose collector died, and rulings that a
  qualification overwrote; `SellerIsGoverned` rulings a risk event has
  overwritten, sellers an administrator activated over an agent (`forced`), agents
  made available without a look at their seller (`relit`), and recovery decisions
  that died half-way; `ResponsesAreBounded` two turns about one seller at once, responses
  never recorded, and modes that override the budgets; `FoundationIsConsistent`
  sessions that staff instructed, a connector's second session when a verification
  of its task began between the transactions of an earlier one (`repeated`), and
  decisions whose time came under a review. `RoutedIsTrusted` excepts agents
  registered with test metadata from the router's half, and not from the
  checkout's.

## 4. Disagreements between code and documentation

1. `DeliveryTwoRuns`: leases are not renewed, so two replicas can execute one
   order at once, against `HYBRID_CHECKOUT.md:105-106`.
2. `DeliveryLostAllocation`: a crash after a failed allocation completes the
   row with the settlement still `pending`, which no sweep selects.
3. `QuotesHaltedWorker`: on PostgreSQL the exception of a second paid quote of
   an order ends every turn of the worker before it delivers anything
   (`PaidIsConcluded`, which `PaymentIsServed` weakens by `Halted`).
4. `SettlementUngoverned`: `pending_escrow_release`, the status of every
   checkout settlement, has no transition and no handler.
5. `SettlementFailedRelease`: the handler answers `release_failed`, which the
   transition table does not allow from `ready_for_release`.

Counterexamples of 1 to 3 and 5 need one or two actors and at most one fault;
4 is a behaviour in which nothing is wrong but the table.

The models follow the code in the differences below too. They were met while
modelling; no run is kept for them, and most are exceptions of section 3.

**Checkout and settlements.**

* A compensation may be opened for an order that an operator has redriven, or a
  late run delivered, after the request for it had read the row
  (`checkout_compensation.py:151-206`).
* A sweep of the reconciliation takes the same quotes first every time: five
  submitted ones whose transaction never lands keep all others from it.
* The administrator's transitions (`agent_b_api.py:7120-7137`, 7797-7817) store
  any signature, over a recorded one too, and confirm a release, without asking
  the chain.
* A claim of the scheduler that stops a job returns it as if it had claimed it; a
  job resumed at that moment gets two runs (`buyer_agent_scheduler.py:1746`).

**Receipts, hosted jobs, actions.**

* "Once recorded, an acceptance cannot be changed into a dispute"
  (`DELIVERY_PROTOCOL.md`): the repair of an unsigned seal
  (`checkout_receipt.py:486`) and a late provider event (1141) reset the state.
* Hosted transitions are "idempotente et récupérable"
  (`HOSTED_BUYER_ORCHESTRATOR.md`): a job set to waiting is never claimed again,
  and events of one second may fork the journal.
* An action whose thread died before its claim stays `dequeued`; the recovery
  plan does not see it. Behind a crowded listing the plan executes completed
  actions again. A worker that finds the queue empty stays `busy`.

**Direct orders.**

* A call that dies, or fails, between the claim of the payment and the delivery
  leaves the order unserved; the answer asks the buyer to retry, and the retry
  finds the payment processed and bans the buyer.
* `verify_payment` delivers the fallback the Foundation did not authorize;
  `finalize` requires the authorization (docstring at `agent_b_api.py:5169`).
* `seller_result_manual_review` has no exit; a late verification sets a delivered
  order back; a task enqueued before the order is marked lets its verdict be
  overwritten with `pending`; a second payment of a pending order is swallowed.
* A direct on-chain release names the settlement `legacy_verify_payment:<order>`,
  which has no row to claim.

**Sellers and their agents.**

* `SELLER_ALLOWED_TRANSITIONS` lets nobody out of rejection or a ban without an
  override, but a risk event of .35 or more writes the status anyway; an
  approval writes over a concurrent rejection. `limited` has no transition out,
  and a rejection asks for no status.
* "Explicitly disabled capabilities must remain disabled" (`db.py:18999`): a
  low-risk event makes all agents of an active seller available, and a heartbeat
  that listed an agent before it was disabled enables it again.
* `admin_activate_seller_runtime_parent` (`agent_b_api.py:7402`) vouches for a
  seller without its proofs, and lifts a ban; an agent registered with `"test":
  true` in its metadata is routed to while it is disabled or contained
  (`db.py:19511`).
* The onboarding review compares a score between 0 and 1 with 50.
* The approval of a recovery request commits the transition before its mark.
* Generation asks for the stages and not for `governance_status`; a sandbox run
  that overlaps a rejection revives the request; a simulation repeated after a
  generation allows a second one; generated agents that wait count against the
  maximum in one place and not in the other.
* Registered agents are routed to without an activation approval until the next
  reconciliation. One failed probe disables an agent, so that the quarantine
  after three is not reached by probes. A failed order makes an agent available.

**Threat memory, adaptation, learning.**

* Propagated memories are "advisory-only, never automatic guilt transfer"
  (`db.py:14859`), but feed the synchronization that makes risk events of them; a memory can be passed
  back to where it came from, and two rows that look confirmed put the seller in
  the mode that overrides every budget.
* An orchestration applies the same memory at every execution; observing an
  archived memory revives it, and so does, in the protocol memory, a report that
  it is false. Knowledge is not retired with its memory.
* `rollback_protocol_adaptation_db` (`db.py:3402-3590`) answers "executed" and
  neither commits nor releases its connection. A veto after the approval is not
  looked at when the adaptation is applied.
* The evaluation of an experiment is lost if its call dies between two commits.

**GOIA.**

* Deliveries "stop after three attempts" (`GOIA_PARTNERSHIPS.md`): the recovery of
  stale leases does not count. A dispatcher that finishes without its lease
  raises out of its loop.
* Suppression has "absolute precedence" (`GOIA_PARTNERSHIPS.md:192`): an acceptance recorded beside an opt-out
  overwrites the relationship; the claim, which asks for the permission, still
  refuses to contact the merchant.
* An observation may be published for a candidate that is pending, quarantined or
  rejected (`GOIA_COLLECTION.md:74-75`, `161-163`), when two decide at once or a
  collector dies between ingestion and approval. Each retry's own candidate has
  three retries again (77-79). A qualification may overwrite a ruling.

**The Foundation's decision.**

* A package of evidence that passes every check is itself "decision ready with
  caution", which lowers the policy, so an automatic release needs an incomplete
  plan and evidence of the direct search alone.
* The "direct cross-source" verification duplicates each source
  (`multi_exec.py:1430`), so a title supports itself. When the direct search
  stands in for the agents, the claims they had rejected are gone.
* The verification of a connector's answer, repeated after a crash before its task
  was marked, adds a second verified contribution (`db.py:8321-8357`).
* "Limited" payouts and decisions of medium risk are never authorized. Sellers'
  consensus needs two sessions of one order, which the pipeline does not make.
* A release runs a decision of its own; a delivery may rest on a stored one.

## 5. Proofs

All proofs hold for every value of the constants that satisfies the module's
assumption (`ConstantsAssumption`, `ReceiptsAssumption`, `SchedulerBounds`,
`ActionsAssumption`, `HostedAssumption`, `FactoryAssumption`,
`RulingsAssumption`, `DirectAssumption`, `LearningAssumption`,
`ResponsesAssumption`, `AuthorityAssumption`, `CollectionAssumption`, and
`FaultsAssumption`, that the bound on faults is a number). Those say that
bounds, prices, budgets and numbers of claims are numbers (a confidence at most
100), that a null is none of the things it stands for, and that threads,
sessions, payments, sellers and the rows of a table are finitely many where they
are counted. Theorems that need more say so: no lease ends under its run
(`MaxOverruns = 0`) in `LeasesExcludeRuns`, `OrdersHaveOneOutcome` and
`DeliveryKeepsPromise`, and no allocation fails, or no run dies or loses its
lease, in `AllocationsAreRetried`. `DeliveryTwoRuns` and
`DeliveryLostAllocation` are what happens without.

* **`CheckoutDeliveryProofs`.** `TypeCorrect`. `ReportsAreOfDeliveries`:
  `_finish` is guarded by the lease and `_mark_order` is not, so the property is
  not inductive; `DeliveredInv` adds what every run knows where it stands
  (`RunKnowsDelivery`: a run about to finish as completed, or to seal, has seen
  the order used) and that a used order stays used. `DeliveredOrdersAreFinal`.
  `BudgetIsSpent`: `BudgetInv` ties the count a run read to the count of the row
  for as long as it holds it. `FinalRowsStay`: claim, redrive and resumption
  look at the state, and a late run has lost the row it would finish. These hold
  with overruns. Without them, `LeasesExcludeRuns`: `SoleInv` says that whoever
  works holds an unexpired lease. From it, `OrdersHaveOneOutcome`: `OutcomeInv`
  follows the one result from the run that has it in hand into order, row and
  inbox, and the refund along with it. `DeliveryKeepsPromise` is the refinement:
  with `SoleInv`, `OutcomeInv` and `DeliveredInv` at hand every action maps to a
  step of `PaidOrder` or to a stutter; a request that has read maps to `Ask` and
  its insert to `OpenReview`, wherever the order is by then. `AllocationsAreRetried` has a proof for
  each of its assumptions: `AllocatedInv` (a run past its allocation has one)
  and `UninterruptedInv` (the run that saw an allocation fail still holds the
  row). `AllocationsAreSettled` needs neither: `SettledInv` says that whoever is
  about to write `completed` as the settlement has made or found one, and a
  settlement is never deleted; it is the third part of `ReportsAreOfDeliveries`.
* **`CheckoutQuotesProofs`.** `TypeCorrect` (with what the handlers hold in
  hand); `OutcomesAreTrue`, from `OutcomesAreGenuine` (`Verified`: a request
  about to finalize or reject has seen the verdict, and the chain never takes
  one back) and `PaymentsAreEnqueued`; `QuotesAreApart`: one payment for one
  quote, and one live quote per order (the holder of the lock is the only
  request about to insert); `ReservationsAreCovered`: the live quotes of a day
  never sell more than the cap. A request compares before it inserts, so
  `Covered` says that what is reserved and what each request about to insert was
  promised fit together, which holds because there is one such request and all
  others only free reservations; `FinalQuotesStay`: what is decided a step
  earlier is written only while the quote is still in the state it was read in.
* **`SettlementExecutionProofs`.** The inductive invariant `IInv` consists of
  types, of `Sound` (what a request at each program counter has in hand: a
  permit to claim, the claim it owns and nothing sent, the transaction it sent,
  a verified signature before it confirms), of `Consistent` (an unclaimed
  settlement has sent nothing; unless an administrator passed one, the signature
  recorded is the transaction sent) and of the permits that were spent. From it
  follow `OneRelease`, which no hand can break, `ReleaseRecorded` and
  `SignatureFinal`.
* **`BackgroundWorkProofs`.** `SchedulerClaimsAreBacked`: the records of a
  purchase only grow (`ChainGrows`), every answer a run has in hand is on record
  (`OnRecord`), and so is what a row claims (`BackedInv`), whatever overlaps.
  `SchedulerJournalIsSealed` is about behaviours without an overrun: `SealedInv`
  adds that a row under lease has a single run, but for a run that joined it. `RequeuesFollowOverlaps` is
  about the action engine: `ActionsInv` says that a claim, live or expired, is
  made only after its action was completed (`Performed`), so that one the
  recovery plan sees with a claim and not completed was taken twice.
  `CollectionStaysReviewed` is about the collection of offers: the properties
  allow for candidates that two decided on at once or that a collector died
  over, so `DecisionInv` says of all others that whoever is to decide on one is
  right that it is pending (`DecidersSeePending`) and that somebody is at what
  is pending (`PendingIsHeld`). `RetryInv` says that the keys of the retries
  have no gap and end one after the count only where a collector has died; how
  many there are follows from a bijection with their numbers (`RetriesCounted`).
  `ReceiptsReleaseRestsOnDecision`, `ReceiptsFinal`: a request writes what it
  read earlier, so nothing about the row alone is inductive. `RowSound` is about
  the row (what is sealed is the quote it is bound to, a decision is among those
  recorded), `RequestSound` about what each request has read: enough of it is
  still true when it writes. `OwnJournalVerifies`: the verification of a hosted
  job's journal walks from event to event and counts, over a list that is sorted
  by seconds and not by the order of writing. `HostedInv` says what an event
  sorted in anywhere cannot disturb: each event that has once been the last is
  the one its successor names (`HeadsKept`), and unless two events fell into one
  second no two name the same (`Alone`). That the walk then visits every event
  is an induction over the length of the journal. `WorkersTypeCorrect` and
  `WorkersStaySafe` carry these results to the specification the run checks,
  where one system moves per behaviour but all of them share `faults`. An
  invariant reads `faults` as a bound that only rises, so the steps of the
  others keep it; the collection's says that retries are numbered by its own
  faults, so while another system moves it has to be known not to have begun
  (`Uncollected`).
* **`ProtocolCallsProofs`.** Seven modules of calls, with lemmas on `StaffCalls`
  in common (what `Takes`, `Writes`, a death and a fault do to the other calls).
  `OutreachStaysPermitted`: in `PartnersInv`, whoever is suppressed was found
  and contacted, one proposal to a merchant is at work unless calls overlapped,
  its attempts are within its budget or a lease was taken back.
  `FoundationStaysConsistent`: in `RulingsInv`, every call that executes or
  verifies for the connector has a session of its own, of which there are enough;
  the verified ones are those counted; and while no calls overlapped, whoever is
  about to contribute for the pipeline, or for a task that no earlier verification
  left unmarked, is the first. `ExposureStaysGoverned`: in `AdaptationInv`, whoever approves,
  applies or raises has the endorsement, limits are raised once and restorably
  unless calls overlapped, and before a fault one call at most is at work.
  `PaymentsAreKept`: in `DirectInv`, what a call has in hand of payment and task
  stays true whoever writes (`PaymentsInv`); a payment has one claimant, which
  finds its order untouched; from then on the order is on record, and delivered,
  finalizable, left to a person or queued with its task (`OrdersInv`).
  `MemoryStaysEarned` and `HypothesesStayEarned` are the two halves of
  `LearningIsEarned`: in `MemoryInv` a row that counts less or more than was
  seen needs a call that wrote over what another had read; in `HypothesesInv`
  what was seen is what a hypothesis counts and what ended experiments have
  still to write (`Unwritten`), a cardinality, which is why the calls are
  finitely many. `SellersStayGoverned`: in `AccountsInv`, whoever approves has
  seen the proofs, which are not taken back (`AccountWorkRests`), a blocked seller
  has no agent available but by a call that did not look (`relit`), and one call decides a request
  (`RecoveryIsSingle`). `ThreatsStayDistinct` and `ResponsesStayBounded` are the
  two halves of `ResponsesAreBounded`. In `ThreatsInv` a call that is about to
  store a forecast or to pass a memory on is right which active rows the seller
  has (`ThreatReads`). In `ResponsesInv`, of a seller about whom no two turns
  met and no turn died, what was made is what was recorded but for the response
  in hand (`Books`), and what the check found left of the budget is still left
  (`WithinOwn`, and `WithinAll` for the budget all sellers share). What budgets
  compare are sums, of the severities of a seller's responses and of the
  responses to all sellers. In all of them what a current call has read still
  holds.
* **`SellersProofs`.** `GeneratedAgentsAreEarned`: `FactoryInv` says that what a
  call is about to write rests on the approvals and runs there are, which are
  never removed (`WorkRests`), and, as long as no call has overlapped, on the
  row as it is (`RowFresh`, `WorkFresh`). `RoutedAgentsAreTrusted`: `AgentsInv`
  adds what calls of staff, probes and capacity runs have read of the agent they
  are about to write, for as long as `StaffCalls` has not counted it as
  outdated, and that an agent that was taken out of service is not active, fit or
  available again, whichever of these keeps it out, until it is put back.
* **`MCProtocolCallsProofs`.** `ReleasesAreEarned`, for any numbers of claims:
  `AuthorizedIs` reduces the functions from a verification to an authorization
  to inequalities (`ReleaseEarned`), from which follows what a release rests on;
  and each of these functions is monotone in what it takes (`Inferior`:
  `SupportFalls`, `ConfidenceFalls`, `RiskRises`, `EarnedByBetter`), so nothing
  worse would have been released where this was not. `ReleaseInv` adds that what
  is authorized was computed from the evaluation and the signals there are.
  `CallsTypeCorrect` completes the types of the calls. Three bounds in it are no
  invariant of any row: a call that is outdated is at work (`OutdatedAtWork`);
  as a call that begins beside another is a fault, calls at work are at most one
  more than faults, and so are the responses to a seller, made and in the making
  (`ResponsesFew`); and what was seen or is about to be passes the bound at
  which no more begin by the faults at most (`LessonsFew`: a sum over the rows,
  and a row or its copy in a call counts no more than was seen of it). `CallsStaySafe` is the
  composition: the system that moves follows its own specification
  (`DirectMoves` and those after it, by which the bounds of `MCProtocolCalls`
  only remove behaviours), and the others keep their properties at rest.

The inductive invariants were also checked by TLC: on instances with two or
three calls and up to three faults, more than the runs allow, for the systems of
single rows; with two faults for threats, responses, memories and hypotheses;
and on the instances of the runs for `Covered`, `ReleaseInv` and `WorkersInv`.

Sums and journals take induction over data. The induction theorems of the
library have an operator as their parameter, which none of the provers
instantiates; `Sums` derives induction over the numbers and over finite sets
from `WellFoundedInduction!WFMin`, which is about sets: the set of the numbers
(or subsets) of which a statement holds takes the operator's place. From it come
the laws of sums the proofs use (without one element, of a part, of equal
weights).

Only model-checked is liveness: `DeliveryConcludes`, `PaymentIsServed`, `LandedIsRecorded` and `WorkEnds`, because the prover handles neither fairness
nor ENABLED. Every invariant and every action property of the passing runs is
stated by a theorem.

## 6. What is left, in order

1. The composition of `EvidenceChain` with `SettlementExecution`: its permits are
   issued and expire freely there. The amounts and wallets a permit binds.
2. `DeliveryReceipts` as an implementation of what `CheckoutDelivery` assumes of
   the receipt.
3. The ledger (one transaction per allocation); agents' reputation and stake.

Not modelled: byte-level checks of transactions by the signer and the sidecar;
pricing, and the computation of scores from texts or statistics, of which the
models keep the thresholds; language-model calls; the Raydium route; growth, the
explorer, the SDK and the site. They are computation or I/O without shared state
that other parts rely on.
