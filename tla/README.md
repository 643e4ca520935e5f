# Verification of sub2api

TLA+ models, TLC runs and TLAPS proofs about the concurrent core of the gateway
in `src/sub2api/backend/internal` (called `internal/` below): the part that
takes money, limits what runs and bills what ran.  The rest of the repository
is listed under *Not modelled*.

## 1. The system

sub2api sells access to AI providers.  A user buys balance or a subscription
(payment orders), calls the API with a key (authentication, billing check,
concurrency slots, choice of an upstream account, forwarding), and is billed
for what the upstream reported.  Any number of server instances share one
PostgreSQL and one Redis; each request is a goroutine, and each instance runs
background services on timers.  There is no in-process owner of an order, an
account or a balance: everything that must not happen twice is guarded by a
conditional `UPDATE`, a unique index, a Lua script in Redis or a lock with an
expiry.

| component | state | operations | hard behaviour |
|---|---|---|---|
| payment orders and fulfilment | `payment_orders` row, redeem code, audit log, payment at the provider, the group of a subscription | CreateOrder, webhook, query, cancel, expire, fulfil, retry | any two handlers on one order, redelivery, every statement may fail, crashes |
| refunds | the same row, user balance, audit log, refund at the provider | RequestRefund, ExecuteRefund, QueryAndFinalizeRefund, RollbackRefund | asynchronous refunds that are asked for again, balance deducted and rolled back around them, stale audit rows |
| idempotency coordinator | `idempotency_records` | CreateProcessing, TryReclaim, MarkSucceeded, MarkFailedRetryable, clean-up | an owner slower than its lock, reclaim, clean-up of expired rows |
| concurrency slots | Redis sorted sets and wait counters | acquire, release, wait-queue increment and decrement, start-up clean-up | slots that expire while their request runs, restarts of one of several processes |
| usage billing | dedup keys, balance, subscription usage, quotas, usage log | eligibility check, Apply, cache write, log | retried and concurrent applies, overdraft, archive of dedup keys, lost replies |
| OAuth token refresh | account credentials, refresh lock, token cache | RefreshIfNeeded, token providers, background refresh | single-use refresh tokens, lock expiry, stale read under the lock |
| user message queue | Redis lock and last-completed time per account | acquire, release, orphan clean-up | lock expiry, release by a former owner |
| scheduler snapshot | outbox, Redis snapshot versions, bucket lock, watermark | rebuild, outbox poll, full rebuild | concurrent rebuilds, lost outbox rows, watermark |
| billing cache | Redis balance and subscription cache, write queues | read through, deduct, invalidate | writes that overtake each other, a value that was loaded before an invalidation, dropped tasks |
| platform quota flusher | Redis usage, dirty set, database row | increment, flush | crash between pop and write |
| system-operation lock | one idempotency record as a lock | acquire, renew, release | a record that another operation created, a renewal that fails, a process that dies |
| leader locks | Redis and PostgreSQL locks | try, release | two leaders after an expiry |
| WebSocket pool | upstream connections per account | acquire, release, evict, prewarm | limits under concurrent dials |
| usage workers, usage clean-up, timing wheel, deferred writer | in-memory queues | submit, stop, run | overflow policies, shutdown |

How they interact: a completed payment order credits the balance that usage
billing reduces, and starts the subscriptions that its quotas are charged to; a
refund takes the credit back.  The gateway asks the billing cache whether a
user may call, takes a concurrency slot for the user and one for the account
that the scheduler snapshot proposes, asks OAuth refresh for the account's
token, and hands the usage to the usage workers, which call usage billing.
Usage billing and the administrator's changes of accounts write the outbox the
snapshot is rebuilt from.  Administrative requests (creating users, codes,
accounts) pass the idempotency coordinator; updates and restarts of the system
hold the system-operation lock, which is a record of the same table.

### What makes each component correct

| component | properties | where |
|---|---|---|
| payment orders | one handler fulfils an order; nothing is granted, settled or completed before the provider holds the accepted amount; a balance is credited once; COMPLETED means granted and the rebate settled; the order's claim accrues one rebate; no cancellation takes a paid order back; a recorded subscription extension is not repeated; a payment ends as a completed order unless it is forfeited | `PaymentFulfillment`, `PaidOrder` |
| refunds | REFUNDED means the provider paid back, and once where it can be relied on; one handler executes a refund; each deduction of a refundable order is on record and none is made twice; REFUNDED is final | `PaymentRefund` |
| idempotency | one owner and one effect for a key until its record expires; no key is abandoned in processing unless something failed; nobody is answered with the response to another payload | `Idempotency` |
| system-operation lock | operations exclude each other; a lock that is held is renewed in time | `SystemOperationLock` |
| concurrency slots | the limit holds over all servers; no slot leaks; the wait counter is exact without failures and off by one for each failure | `ConcurrencySlots` |
| usage billing, billing cache | a claim is charged once, also after it moved to the archive; the balance and the claims agree; a balance that is used up is known to the cache; a recharge is seen | `UsageBilling` |
| OAuth refresh | one worker refreshes at a time as long as the lock lives; the refresh token that the provider accepts is in the row or with exactly one worker; no account is disabled without cause; a due account is renewed | `OAuthRefresh` |
| scheduler snapshot | the list never goes back to an older load; when the outbox is consumed the list is of a load that read the last change; the full rebuilds repair what was missed | `SchedulerSnapshot` |
| user message queue, quota flusher, leader locks, WebSocket pool, usage workers, clean-up tasks | not modelled, for the reasons in section 6 | |

## 2. Modules

| module | what it is |
|---|---|
| `PaymentFulfillment` | orders from CreateOrder to COMPLETED |
| `PaidOrder` | abstract: what a balance order promises |
| `PaymentRefund` | refunds of completed balance orders |
| `IdempotencyRecords` | the table `idempotency_records` and its statements; has no specification of its own |
| `Idempotency` | IdempotencyCoordinator.Execute, composed with the table and its clean-up |
| `SystemOperationLock` | Acquire, Release and the renewal loop, composed with the same table |
| `ConcurrencySlots` | slots and wait counters in Redis |
| `UsageBilling` | from the balance check of a request to its usage log, with the billing cache, recharges, profile saves and the archive of claims |
| `OAuthRefresh` | RefreshIfNeeded under the background cycle and the token provider of requests |
| `SchedulerSnapshot` | outbox, polls, full rebuilds and the numbered snapshots in Redis |
| `MC...` | instances for TLC: model values and symmetry |
| `...Proofs` | the theorems about the module of that name |

### How the models are built

*Actors.*  A worker (`Workers`, `Callers`, `Operations`) is a goroutine in one
handler: `pc` is where it is, `job` what it holds in local variables, that is,
what it has read and may be stale.  Which server it runs on matters
in `ConcurrencySlots`, where servers start, clean up and die, in `OAuthRefresh`,
where each has a mutex, and in `UsageBilling`, where each has a channel of cache
writes (`Host`).

*Steps.*  An action is one SQL statement or transaction, one Redis script or
command, or one provider call, with the control flow up to the next.  A handler
is the sequence of its actions, and handlers interleave between them.

*Failures.*  A failing call is `Fault` with what the code does about the error.
Where a call can take effect although its caller sees an error (a commit or a
reply that is lost), there is an alternative that does both (`LostReplies` in
the payment modules; always in the others).  A crash ends a worker
between two of its steps and leaves the stored state as it is.

*Time.*  `PaymentFulfillment` has no clock; deadlines are events (`overdue`,
`fresh`, `late`).  `PaymentRefund` needs none.  In `UsageBilling`,
`OAuthRefresh` and `SchedulerSnapshot` a key of Redis, a lock or a block may
expire at any moment, which allows more than the clock does.  The other modules
have one clock `now` for the servers, the database and Redis, and every caller
uses the same lease and TTL.

*Data.*  Amounts are reduced to what decides (the accepted amount or another),
payloads to model values.  History variables record events that end a promise
(`late`, `byHand`, `doubt`, `unsure`, `finalized`, `contended`, `lapsed`, `overrun`, `reused`,
`evicted`, `adrift`, and the set `excuses` of the three newer modules); no guard
reads them.  An excuse names one accident, such as a lost reply; the properties
say which accidents they allow for, and everything else that may fail (any
statement, any process at any place) is not one.

### Payment fulfilment

State: the row (`status`, `paidAt`, `tradeNo`, `fresh` and `overdue` for
updated_at and expires_at), the payment and the webhook at the provider
(`upstream`, `notif`), the redeem code, the audit rows SUBSCRIPTION_ASSIGNED
(`assigned`) and AFFILIATE_REBATE_APPLIED or _SKIPPED (`settled`, the claim of the
rebate), whether the group of a subscription is there and active (`groupActive`),
and the two effects, `grants` and `rebates`, the latter as often as the inviter's
rebate was accrued.  The entry actions are the handlers:
`CreateOrder`, `Webhook`, `CancelOrder`, `ExpireTimedOutOrder`,
`ReconcilePendingWxpayOrder`, `VerifyOrderByOutTradeNo`, `RetryFulfillment`.
The other actions have the names of the code where it has one: `InvokeProvider`
and `AbortCreate` for creation; `QueryUpstream`, `CancelPayment`,
`MarkCancelled` for checkPaid and cancelCore; `PersistTradeNo`,
`ConfirmPayment`, `AlreadyProcessed` for confirmPayment and toPaid;
`LoadOrder`, `LockRecharging`, `Resolve`, `CreateCode`, `Redeem`,
`AssignOrExtendSubscription`, `RecordAssigned`, `ApplyAffiliateRebate`,
`MarkCompleted`, `MarkFailed` for fulfilment.  Redeeming a code and extending a
subscription are transactions of other services, modelled by their effect.

Two things happen beside the handlers.  `RedeemByHand`: the user redeems the code
of his order himself; Redeem then accrues a rebate of its own, without the claim
that applyAffiliateRebateForOrder asks for, and drops an error of it.  The history
`byHand` records this.  `GroupSwitched`: an administrator switches the group of a
subscription off and on (UpdateGroup) or deletes it; while it is off `Resolve` fails
on every attempt, without a fault, and CreateOrder is refused.

`PaidOrder` is the promise without handlers: pay, credit, settle the rebate,
finish, each once and in this order; its `HandOut` is the credit by the user's own
redemption, which may pay one rebate more.  The refinement maps `paid` to the
payments the provider holds, `credit`, `settled` and `rebate` to the two effects and
the claim, `done` to COMPLETED and what follows.

### Refunds

State: the order's status, the net number of deductions from the balance, the
three audit rows the code reads back, and the refunds at the provider, a sequence in
which the place of a refund is its id.  `Outcomes` is what a call of Refund may do, by
the adapter: WeChat Pay and Airwallex derive the refund's number from the payment and
the amount (`keyed`), so that a repeated call finds the first refund (`SameRefund`);
Stripe sends no idempotency key (`fresh`) and Alipay and EasyPay a new number or none
(`blind`; they have no QueryRefund), so that each call makes another refund as long
as the payment covers it (`NewRefund`).  Whether it does is left open, since a partial
refund leaves room for another one.  The row REFUND_PENDING keeps the id of the first
pending refund, because (order, action) is unique; the finalizer asks for that id, or
without one for the latest refund (`Asked`).  `PrepareRefund` starts an executor; lock, deduction, provider call, rollback
and the final status follow as single steps.  `QueryAndFinalizeRefund` starts a
finalizer.  `ProviderSettles` lets a pending refund succeed or be refused.  The
properties say for which orders they hold: those without a finalizer, those
that no two handlers worked on at a time, those whose records or replies were not
lost (`doubt` for the deduction, `unsure` for the provider).

### Idempotency and the system-operation lock

`IdempotencyRecords` has one operator for each statement of
`idempotency_repo.go`, with its WHERE clause as guard and the number of rows as
an argument of the caller; the clean-up is two steps, because
DeleteExpired selects ids in a snapshot and deletes by id.  `Idempotency` adds
the coordinator: claim, read, decide by fingerprint and status, reclaim,
execute, mark.  `SystemOperationLock` adds Acquire, Release and the renewal
loop, which lives on after its operation and is therefore in a variable of its
own.

### Concurrency slots

State: a sorted set and a counter with the expiry of their keys for each pool
(a user or an account), the servers and how far the start-up clean-up of each
has got, and the callers.  A caller is one acquisition: `Try`, then `Count`
(the increment), rounds of `Poll`, `GiveUp` on timeout or disconnect, `Uncount`
(the decrement) and `Release`.  `Acquire` is the acquire script with its three
outcomes.  `Prune` is every script that drops expired members.  `CleanupSlots`
and `DeleteCounter` visit the pools one by one, as the SCAN loops do.

### Usage billing and the billing cache

State: `balance`, the claims in `usage_billing_dedup` and in its archive, the
usage log, the balance cached in Redis, the cache writes that wait in the
channel of each server, and a user object that somebody is about to save.  A
request is `Arrive` (checkBalanceEligibility on the cache), `Load` on a miss,
the transaction of Apply as `Insert`, `Compare`, `Look` and `Apply` (its
statements, since READ COMMITTED lets others in between), `Finalize`
(syncBalanceCacheAfterDeduction) and `Log`; `RollBack` ends a transaction that
fails.  Two requests may have one key, with equal or different fingerprints:
that is how retries arrive.  `WriteCache` takes from the channels in any order,
as ten workers do.  `Credit` and `Notice` are a recharge and its invalidation,
`OpenForm` and `SaveForm` the services that read a user and store the whole row,
`Archive` is the clean-up of old claims.

### OAuth token refresh

Credentials are numbered: the n-th refresh token, access token and version.
State: the account's row, the lock and the cached token in Redis, and at the
provider the one refresh token it still accepts.  `StartCycle` and
`StartRequest` are the two callers.  `Enter`, `LockHeld`, `Reread`, `Call`,
`Refused`, `CallFails`, `Recover`, `Persist` and `Release` are RefreshIfNeeded;
`AfterCycle` says how refreshWithRetry goes on, to `PostRefresh`, `Disable` or
`Block`, and `AfterRequest` how GetAccessToken does, to `Check` (the version)
and `Fill` (the cache).  `acc` is the account object of the caller, which may be
old, `fresh` the one read under the lock.

### Scheduler snapshot

An account is its generation; the list of the active snapshot is the generation
it was loaded from.  `Change`, `Insert` and `Commit` are a writer: the account's
row, then the event, which a pending event of the same key absorbs; either two
statements or one transaction.  A poller goes through the names of pollOutbox,
`ReadWatermark`, `ListEvents`, `ReadAccount`, the rebuild, `SetOutboxWatermark`,
`Cleanup`, `CheckOutboxLag`; a rebuild through `LockBucket`, `LoadAccounts`,
`TakeNumber`, `Activate`, `UnlockBucket`; a request that missed the cache through
the middle three, without the lock.  Versions count only by their order: `number`
is how far a snapshot's version is above the active one's.

The properties are about the *list* of the snapshot.  What GetSnapshot answers with
are the copies of the accounts that the list names (scheduler_cache.go:129-147).  They
have no version, and SetSnapshot overwrites them (166) before the script compares the
versions (54-57): a writer whose list is refused has already stored its older copies.
They are left out, so nothing is claimed about them.

## 3. Runs

Every run stops without deadlock checking: a system whose users have left and
whose orders are settled may stop.

| run | bounds | what it shows |
|---|---|---|
| `payment_balance` | 1 order, 2 handlers, 2 faults with or without effect, 1 crash, the code redeemed by hand | all safety properties of a balance order and the refinement of `PaidOrder` |
| `payment_subscription` | 1 order, 2 handlers, 1 fault, a group that goes and comes, fairness | a payment is honoured unless it is forfeited; a recorded extension is not repeated |
| `refund_safety` | 1 order, each kind of provider, 2 refunds it may make, 2 handlers, 2 faults with or without effect, 1 crash | all safety properties of refunds |
| `refund_race` | 2 handlers, no fault | finding 1 |
| `idempotency` | 1 key, 2 requests, 2 payloads, lease 1, backoff 1, TTL 3, clock to 4, 1 fault, 1 crash | all properties of the coordinator |
| `system_lock` | 2 operations, lease 6, TTL 7, clock to 9, 1 fault, 1 crash | exclusion, and renewal in time until a record is reused |
| `system_lock_reused` | as before, no fault, no crash | finding 2 |
| `concurrency_slots` | 1 pool with 1 slot and 1 seat, 3 callers, 2 servers, 3 tickets, both TTLs 2, wait 1, clock to 3, 1 fault | limit, leaks, queue |
| `oauth_refresh` | a cycle and a request on one server, a cycle on another, 2 attempts, 2 renewals, 2 faults, fairness | all properties of a refresh |
| `usage_billing` | 3 requests on 2 servers, two of them with one claim; prices 1 and 2, balance 1, reserve 1, channel 1; 1 recharge of 1, 1 fault, fairness | all properties of billing but that no save overwrites the balance |
| `billing_overwritten` | as before, without fairness | finding 3 |
| `scheduler_snapshot` | a statement and a transaction, a poller and a goroutine that rebuilds or serves, 2 event keys, 2 changes, 1 fault, fairness | all properties of the snapshot |

Why these bounds are enough to be worth running:

- *Orders, keys and pools do not interact* in these components: no guard or
  effect reads a second one, so one instance meets every interleaving of one.
- *Two handlers* meet every race of a compare-and-set: the loser's whole
  behaviour follows from what the winner left.  The third party (provider,
  expiry, clean-up, clock) is a process of its own.  In `ConcurrencySlots` a
  third caller is needed for one that runs, one that waits and one that finds
  the queue full.
- *Faults.*  One fault ends an attempt; the second hits its error path
  (markFailed, the rollback), which is where the code gives up.
- *Refunds.*  Two refunds of one order are what it takes to pay back twice; a third
  adds none that differs.
- *Refresh.*  Two workers on one server meet the mutex, the third the lock; the
  first of two renewals makes a token old, and the second makes it old again for
  a worker that still has it.
- *Billing.*  One claim is tried twice, by a retry on another server; the other
  claim takes the balance below zero.  With a price above the balance, a reserve
  and a recharge, the threshold is crossed downwards and upwards.
- *Snapshot.*  With two changes a list can be older than another old one.  Two
  workers are a poll and a rebuild, or two lists in either order of load, number
  and activation.
- *Time.*  The clock passes every deadline at least once, and a record or slot
  that expired can be taken again and be used.  The lease of the lock is 6 to
  leave room for renewal intervals of a third of it, as in the code.
- *Tickets* are never short: with three an acquisition that has room always
  finds a free one.

Each property of a passing run was also run against an operator with a plausible
mistake (the definitions marked *(bug)* in the modules) and is violated by it.

### Fairness

*Payments* (`payment_subscription`).  Handlers go on (`WF` on their steps): they are goroutines with timeouts on
every call.  Orders time out and grace periods run out.  The provider redelivers
an unacknowledged webhook, the expiry service comes round every minute, and the
administrator retries failed orders: strong fairness, because a server always
has a goroutine for a new call, while the two workers of the instance may be
busy whenever the call would be possible.  Nothing is assumed of users,
cancellations, or of statements that fail, which the budget bounds.  Two
conditions on the environment are built into the actions: the URL to pay at
reaches the payer when CreateOrder has returned, and an order, which lives for
minutes, does not time out during the provider call that creates it.

*Refresh.*  A worker runs on, the cycle starts again by its ticker (weak: nothing
takes the due account away from it but a renewal or a block), and the lock and
the block expire.  Nothing makes a request arrive or a token age.

*Billing.*  Requests and cache workers run on, a recharge's goroutine is
scheduled, keys of Redis expire.  A charge renews the time to live, but each
claim is charged once, so that the key expires in the end.

*Snapshot.*  Writers and workers go on and the lock expires.  Full rebuilds start
by the clock in a goroutine of their own: strong fairness, because the few
workers of the instance may be busy now and then.  Nothing is assumed of polls.

### Findings

1. `refund_race`: QueryAndFinalizeRefund checks the status it read, and markRefundOk
   updates without a condition.  In the trace one finalizer reads REFUND_PENDING, asks
   the provider and deducts; meanwhile a second ExecuteRefund locks the order
   (REFUND_PENDING to REFUNDING), and the finalizer then marks an order REFUNDED that
   is being refunded again, although "only refund pending orders can be finalized"
   (payment_refund.go:407).  It takes one finalization and one deduction.
2. `system_lock_reused`: a reclaimed lock record keeps the fingerprint of the
   operation that created it, the renewal asks for the caller's, finds no row and
   stops; the lease ends while the operation runs.
3. `billing_overwritten`: the comment of addOrVerifyNotifyEmail has a duplicate
   entry as the worst outcome of saves side by side; userRepository.Update stores
   the balance that was read as well, and a charge or a recharge in between is
   undone.

These came up while the models were written, and are visible as an excuse, an
exception or a missing guard in them, or in the code beside them; no run is
devoted to them:

- a webhook for an order that expired before the grace period is acknowledged,
  and nothing asks the provider again; storing the trade number renews
  updated_at, from which the grace period counts;
- when the update of markFailed fails too, an order stays RECHARGING, which no
  handler can lock, retry or fulfil again;
- a retry of a refund that skips the deduction, because the last rollback
  failed, and is left pending records its empty rollback as done; the finalizer
  then deducts a second time;
- a code that is redeemed by hand before its order is fulfilled accrues the inviter's
  rebate (redeem_service.go:510-513, 564-582), and the order accrues it again
  (applyAffiliateRebateForOrder): `byHand` in `CompletedIsGranted`;
- a subscription order whose group is gone or inactive fails on every retry
  (payment_fulfillment.go:430), and stays paid and unanswered until the group is
  back; with a failing markFailed it is stranded;
- with Stripe, Alipay and EasyPay a lost reply, or executing an order again that is
  REFUND_PENDING, can pay back twice if the payment covers it (payment_refund.go:350,
  alipay.go:340, stripe.go:228): `unsure` in `RefundedIsPaidBack`;
- a second pending refund keeps the audit row of the first: with Stripe the finalizer
  asks about the first, and marks REFUND_FAILED although the second may have paid;
- two retries that both read an expired idempotency record may each execute;
  Release of the system-operation lock names the record by id only;
- a commit of Apply whose reply is lost is charged and never logged (`replyLost`
  in `UsageBilling`), and later turns of a WebSocket are not checked against the
  balance (`NextTurn`);
- between CheckTokenVersion and the write of the cache an old token can be stored
  over the removal by a refresh (`Check`, `Fill` in `OAuthRefresh`); it lasts until
  its key expires;
- an event whose transaction commits after a poll has passed its id is never read
  (`unnoticed` in `SchedulerSnapshot`), nor is one whose bucket was locked; both
  wait for the next full rebuild;
- every server polls the outbox and stores the last id it has read, without
  looking at the watermark again: the slower of two polls sets it back, events
  are read twice, and an event that committed below the mark of a poll stays
  pending and absorbs later changes until it is read (`Passed`).

## 4. Proofs

The proofs hold for any number of orders, workers, keys, payloads, operations,
pools, callers, requests and servers, any durations, and any bounds on the clock, on
faults and on crashes.  They assume only what the modules name:

- the budgets and durations are naturals, leases, TTLs and limits positive;
- `NoJob`, `NoRow`, `NoSlot`, `NoLoop` differ from the values they stand beside;
- `Subscription` is a set of orders, `LockKey` one of the keys, the switches
  are Booleans;
- in `UsageBilling`, that prices are positive, and recharges, the reserve and the
  channel not negative (`AmountAssumption`);
- in `OAuthRefresh`, that every worker is on a server (`WorkerAssumption`);
- in `ConcurrencySlots` and `SchedulerSnapshot`, that the callers and workers are
  finitely many, because their models count them; in the latter also that
  transactions are writers, pollers workers, and the key without a payload a key
  (`SchedulerAssumption`).

Two theorems have a hypothesis of their own, because the code keeps the property
against one failure only: `ExtendedOnce` and `RenewedInTime` assume `MaxFaults <=
1`, and the latter a lease of at least four ticks that does not outlast the
record (`Patient`; the code has 30 s and an hour, and a tick is what no statement
takes longer than).

Each `...Proofs` module has a theorem `TypeCorrect` and an inductive invariant for
each group of theorems.  TLC checked every one of these invariants on an instance
before it was proved.

| theorem | says for every instance | from |
|---|---|---|
| `PaymentFulfillmentProofs!MutualExclusion` | one handler is between the lock and COMPLETED or FAILED | `IInv` |
| `PaidFirst` | nothing is granted, settled or completed before the provider holds the amount | `IInv` |
| `CreditedOnce` | a balance order is credited at most once | `IInv` |
| `CompletedGranted` | COMPLETED means granted and its rebate settled; the order's claim accrues one rebate, and only a redemption by hand another | `IInv` |
| `NeverTakenBack` | no cancellation or expiry takes a paid order back | `IInv` |
| `KeepsPromise` | balance orders implement `PaidOrder` | `IInv` |
| `ExtendedOnce` | an extension on record is not repeated, with one fault at most | `IInv`, `OnceInv` |
| `PaymentRefundProofs!PaidBack` | REFUNDED means the provider paid back; it pays back once, where the adapter identifies the refund, and elsewhere unless a reply was lost, a pending refund was refunded again or a finalizer was asked for | `PaidInv`, `OnceInv` |
| `MutualExclusion` | one executor of a refund | `IInv` |
| `Accounted` | what is deducted of a refundable order is on record | `IInv` |
| `FinalRefund` | REFUNDED is final | `IInv` |
| `DeductedOnce` | handlers that take turns, the finalizer among them, deduct once | `TurnsInv` |
| `IdempotencyProofs!Ownership` | one owner of a key | `LifeInv` |
| `ExecutedOnce` | one effect of a key | `LifeInv` |
| `NeverAbandoned` | a record in processing has its owner while nothing fails | `LifeInv` |
| `MatchingAnswers` | an answer belongs to the payload of its request | `AnswerInv` |
| `SystemOperationLockProofs!Exclusion` | system operations exclude each other until one outlives its lock | `LockInv` |
| `RenewedInTime` | the loop keeps the lock, with one fault at most and a lease of four ticks, until a record is reused | `LockInv`, `RenewInv` |
| `ConcurrencySlotsProofs!LimitHolds` | entitled callers are within the limit | `SlotInv` |
| `NothingLeaks` | without failures every slot has its caller | `NoLeak` itself |
| `CounterIsExact`, `QueueIsBounded` | the counter is exact without failures, and the queue exceeds it by at most one for each fault | `QueueInv` |
| `OAuthRefreshProofs!OneRefreshes` | two workers call the provider at once only on two servers and after the lock lapsed or could not be asked | `IInv` |
| `TokenIsKept` | the valid refresh token is in the row or with exactly one worker | `IInv` |
| `AlarmsAreTrue` | no account is disabled while its authorisation is intact and nothing failed | `IInv` |
| `UsageBillingProofs!ClaimsAreChargedOnce` | a claim is charged once | `OnceInv` |
| `ExhaustionIsKnown` | the cache knows, or is told, that a balance is used up | `KInv` |
| `TheBooksAgree` | the balance is what was paid in less the price of every claim until a save overwrites it, and only claims are logged | `BooksInv`, `OnceInv` |
| `SchedulerSnapshotProofs!TypeCorrect` | ids, generations and version numbers stay within the bounds that changes, workers and faults set | `IInv` |
| `NoStaleActivation` | the scheduler's list goes back only by an old load that took a new number | `IInv` |
| `QuietAndFresh` | when all events are read and nobody works, the list is of a load that read the last change, for any number of polls side by side | `IInv` |

Why the properties are not inductive alone, and what is added:

*Payment fulfilment.*  `SingleFulfiller` counts handlers; that a second one
cannot take the lock follows only from what the place of the first says about
the row: `WorkerInv` has RECHARGING for all of them.  The one exception,
markFailed after somebody else completed the order, is why it is stated place
by place.  `OrderInv` relates the row to the provider and the grants: every way
into an accepted status goes through a confirmed payment, a code exists only
for a paid order, and a used code is the credit, which is what makes a second
execution harmless.  `SingleCreator` keeps a creation that fails apart from
another handler of the same order.  The refinement needs nothing beyond `IInv`:
each step either moves one of the mapped values in the promised order or
stutters.  `OnceInv` follows the one permitted failure: without it an order
whose extension is on record cannot come back from RECHARGING, so the handler
that resolves the order anew finds the failure spent and reads the record.

*Refunds.*  `PaidInv` follows the provider's answer from the call to the update.
`OnceInv` is why it pays back once: an order that may be locked without being
REFUND_PENDING, and one whose executor has not been answered yet, has no refund that
is pending or done (`OnceRow`, `OnceWorker`); the call itself has the order to itself by
`SingleRefunder`, and a provider that identifies the refund has one at most.
`IInv` is about orders without a finalizer; it states the books at every place
of an executor: what is deducted is the `Debt` of an earlier attempt (the row
REFUND_ROLLBACK_FAILED) or the executor's own deduction, never both.  Orders whose records were lost are
excepted from the books by `doubt`, not from mutual exclusion.  `TurnsInv` is
about finalizers as well: with one handler of an order at a time and no failure,
the place of that handler says what is deducted (`Turn`), and only the update to
REFUNDED lets it end with the balance reduced (`AtRest`).

*Idempotency.*  `LifeInv` has three parts.  Until a record has expired it is
reclaimed only from `failed` and never selected by the clean-up (`ExpiryInv`),
so its owner's row is still there and in processing (`OwnerInv`), and whoever
may still execute has not executed (`EffectInv`).  `AnswerInv` holds without
that condition: ids are never used again, so an owner whose record was deleted
and created anew for another payload updates nothing.

*System-operation lock.*  `OneOperation` says little alone; the invariant adds
that every running operation has the lock until one of them loses it, and
`BeginsUnlocked` that a new operation starts only when no other can have it.
That the loop renews in time is arithmetic: `Renewed` puts the next round at
most one tick (Acquire), one interval and one failed round after the lock was
written, three intervals fit in a lease, and nobody else writes the record of an
operation that created it.  The assumption `Patient` names what this needs.

*Concurrency slots.*  The limit is a statement about callers, the scripts check
a sorted set.  `SlotInv` maps the entitled callers one to one into the unexpired
members: the key outlives them (`StoredInv`), what a caller holds is still
there (`HeldInv`), and two callers do not hold one member (`DistinctInv`, from
the uniqueness of request ids).  For the queue, that the counter is
close to the number of waiters is not inductive: a fault may leave the counter
without its expiry renewed.  `QueueAt` therefore also bounds the waiters whose
deadline the counter's key does not outlive (`Late`).

*OAuth refresh.*  `Sound` says what the place of one worker implies: inside the
mutex it has the lock or the lock has lapsed, and a worker that stores a token
stores the latest one, which the row does not have yet.  From this, `Rotation`:
the row has the latest token, or it was lost, or exactly one worker stores it.
A second call cannot come in between, because the provider accepts only the
latest token and no row holds it; this is why the theorem needs no lock.  For
`NoFalseAlarm` the object read under the lock is the row's as long as nothing
happened, so that a refusal means a withdrawn authorisation.

*Usage billing.*  `OnceInv` counts: a key is charged once if it is in one of the
two tables and never otherwise (`Counted`).  It needs that only one request
holds an inserted, uncommitted claim (`Exclusive`), and that the claim is in
neither table when it charges (`Unclaimed`), which the order insert, then
archive, guarantees against the clean-up moving it in between.  `KInv` adds to
`ExhaustedIsKnown` that queued deductions are not negative: a cache write can
then raise the cached balance only by a value loaded earlier, which is the excuse
`lateSet`.  `BooksInv` adds to the books that no key is in both tables, so that the
archive moves a price and does not change it, and that whoever is about to log has
found or made the claim.  `OnceInv` makes the charge add exactly one price.  The sum
itself is a recursive definition, and the library's induction theorems are out of
reach; what the books need of it (that the fold exists, depends only on the values,
and grows by the value of a new member whatever the order) is shown on a smallest
subset for which it would fail, which `WFMin` and the well-foundedness of strict
inclusion provide without an operator as a parameter.

*Scheduler snapshot.*  Each step of a worker has one of nine forms and each step of a
writer one of four; the invariants are proved form by form.  `BoundsInv` is the
counting behind the types: an id that the sequence gave is paid for by a change, a
fault or the one transaction that commits it (`SequenceInv`; the row lock admits one,
`RowLockInv`), and the numbers above the active version are different and leave no
more gaps than there were faults (`NumbersInv`), since only a worker that fails or
dies drops a number, and an activation takes its number off all others.  `OrderInv`: the
numbers are in the order of the loads, and above the list's, until an old load takes
a new number (the excuse `misnumbered`); with it an activation brings a later load.
`FreshInv` answers, for every place, which change may be missing where: a list or a
load lacks a change only if the event of some change is still to come to whoever reads
from the watermark, or from the last id of the poll that rebuilds (`Fresh`).  A pending
event is above every mark and watermark, so what an event absorbs will be loaded.

The first attempt at this proof failed on the last statement: two polls, the slower of
which sets the watermark back, can leave a pending event below the mark of the other,
and TLC confirmed it with two polls and five changes.  The excuse `unnoticed` did not
cover that event.  It now counts marks as well (`Passed`), which for a single poll
says the same as before.

## 5. Only model-checked

- `PaymentIsHonoured` (a payment ends as a completed order), `DueIsServed` (a due
  account is renewed), `RechargeIsSeen` (a recharge is seen) and `FreshInTheEnd`
  (the list is of a load that read the last change, for good), because they are liveness:
  fairness and ENABLED are out of the prover's reach.  All invariants and action
  properties of the runs are proved.
- The findings: a counterexample is an execution, found on an instance.

No model needs recursion.

## 6. Limits

Common to the models:

- One clock.  The code compares times of the application, of PostgreSQL and of
  Redis; skew between them is not modelled.
- A statement, transaction or script is atomic and durable.  Redis does not lose
  what it acknowledged; the client does not repeat a script by itself.
- Faults and crashes are bounded in the runs (not in the proofs, two apart).
- The promises end where the code's own conditions end, which history variables
  record: for example a key whose record expired while its owner ran (`lapsed`).

Payment fulfilment: a provider may be asked, may take the money late and may
notify any number of times; it does not confuse orders.  An administrator's
changes of an order by hand are limited to the retry.  The model has a user with an
inviter and rebates switched on; without them nothing is accrued.  Users that are
deleted, codes that an administrator deletes or expires, and groups that lose the type
of a subscription are left out.  A payment is forfeited in four ways, which
`Forfeited` names: it came too late, its webhook was acknowledged for a cancelled order
without being handled, the group is not active, the order is stranded in RECHARGING.

Refunds: every attempt on an order asks for the same amount, so that a provider that
identifies refunds by payment and amount does so.  An attempt with another amount is
another refund for it.

Idempotency: the handler behind a key succeeds with its effect or fails without
it.  A request without a key passes through and is not protected.  The branch that
executes without a record when the store is unavailable
(handler/admin/idempotency_helper.go 94-103) is not modelled: no handler asks for it.

System-operation lock: every operation has an id of its own, and an operation
that is retried starts after its former loop has ended.  The coordinator, which
lets one request per key through, is in front of it in the code.

Concurrency slots: the limit holds for callers that have run for less than the
TTL of a slot and were not evicted by the start-up clean-up of another server
(`evicted`); both are what the code does, and the second is visible to users
when one of several servers restarts.  The queue properties hold for pools whose
counter outlives a wait (`Patient`): 30 s against 120 s for users.  For accounts
the TTL equals the configured wait of sticky sessions, so they are not covered.
Counters that a starting server deleted below waiting callers are excepted
(`adrift`).

Usage billing: one user in balance mode.  The counters of keys and accounts in
the same transaction, subscription quotas and the platform quota are left out;
so are the other accidents of the cache (circuit breaker, merging of concurrent
loads).  A price is positive, since a free request is not billed.  The cached
balance is advice: several requests that passed the check together may take the
balance below zero, as in the code, whose debt is bounded by nothing else than
the number of requests under way.

OAuth refresh: a provider with single-use refresh tokens.  An administrator who
renews an authorisation, synchronisation from another installation and the
back-fill of project ids are left out; the latter two write the whole
credentials without the lock.  A caller that waits for the mutex of its process
is not interrupted by its context.

Scheduler snapshot: one bucket and one account; one poller in the run, any number in
the proofs.  The copies of single accounts, events of groups and of last use, and the minute for which an old
snapshot stays readable are left out.  The bucket is a registered one: a full rebuild
skips the others (scheduler_snapshot_service.go:601-620), and requests for them fall
back to the database.  A batch has all events above the
watermark (200 in the code).

Not modelled, and why (the components are those of section 1 and of
`PROJECT.json`):

| part | reason |
|---|---|
| forwarding, failover and format conversion of requests | I/O and data transformation; the state they share is in the components above |
| choice of an account, scores, cool-down times | arithmetic over data outside the models; its protocol part is the snapshot |
| user message queue | a lock that expires and is released by its owner's id in one script, and a time that only delays the next message; off by default |
| platform quota flusher | a soft limit, off by default; the comments accept what a crash loses |
| leader locks | their jobs are idempotent; release is a compare-and-delete |
| WebSocket pool | in memory under one mutex per account; scores and queue lengths decide, which no small instance shows |
| usage record workers, deferred writer, timing wheel | queues in memory; `UsageBilling` has what others see of them, a task that runs or dies with its process |
| usage clean-up tasks | deletion of old rows by an administrator, on which nothing depends |
| authentication, users, keys, settings | operations on single rows, without a protocol |
| subscriptions, rebates | only their part in fulfilment is modelled |
| monitoring, dashboards, reports | statistics |
| payment providers | external; how the adapters identify a refund is in `PaymentRefund`, otherwise the models say what may be answered |
| HTTP server, wiring, configuration | no state of its own |
| generated code (`ent/`), web frontend, deployment files and scripts | no logic of the server |

## 7. Plan

The order was by what goes wrong when it goes wrong: money, then limits, then
credentials, then advice.  Modelled, in this order: `PaymentFulfillment` with
`PaidOrder`; `PaymentRefund`; `IdempotencyRecords`, `Idempotency` and
`SystemOperationLock`; `ConcurrencySlots`; `UsageBilling`; `OAuthRefresh`;
`SchedulerSnapshot`.

What could follow:

- an abstract lock with leases, refined by the lock of `OAuthRefresh` until it
  lapses and by `SystemOperationLock` until `overrun`;
- subscription refunds, a second kind of deduction with its own rollback;
- subscription mode and quotas in `UsageBilling`, composed with the event that a
  used-up quota puts into the outbox of `SchedulerSnapshot`;
- the flusher of platform quotas, should it be switched on by default.
