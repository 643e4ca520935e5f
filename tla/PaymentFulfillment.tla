------------------------- MODULE PaymentFulfillment -------------------------
(***************************************************************************)
(* The life of a payment order from CreateOrder to COMPLETED: creation at  *)
(* the provider, webhook delivery, reconciliation, cancellation, expiry,   *)
(* fulfilment and the administrator's retry                                *)
(* (service/payment_order.go, payment_order_lifecycle.go and               *)
(* payment_fulfillment.go).                                                *)
(*                                                                         *)
(* A worker is a goroutine that runs one handler.  Every action is one     *)
(* database statement, one transaction or one call of the provider, so     *)
(* handlers of any number of server instances interleave between them.     *)
(* Refunds are the subject of PaymentRefund; here they only take a         *)
(* completed order away.                                                   *)
(***************************************************************************)
EXTENDS Naturals, FiniteSets

CONSTANTS
    Orders,         \* payment orders
    Subscription,   \* the orders of type "subscription"; the others are balance orders
    Workers,        \* concurrent handlers
    NoJob,          \* what an idle worker works on
    MaxFaults,      \* bound: statements and provider calls that return an error
    MaxCrashes,     \* bound: handlers that die half way
    LostReplies,    \* BOOLEAN: may a statement commit although its caller sees an error?
    HandRedeem      \* BOOLEAN: does the administrator hand out the codes of orders?

Balance == Orders \ Subscription

Vias == {"create", "webhook", "cancel", "expire", "reconcile", "retry"}
Job  == [order : Orders, via : Vias, knows : BOOLEAN]

ASSUME SubscriptionAssumption == Subscription \subseteq Orders
ASSUME BudgetAssumption == MaxFaults \in Nat /\ MaxCrashes \in Nat
ASSUME SwitchAssumption == LostReplies \in BOOLEAN /\ HandRedeem \in BOOLEAN
ASSUME NoJobAssumption == NoJob \notin Job

VARIABLES
    status,     \* payment_orders.status, "NEW" before the row exists
    paidAt,     \* payment_orders.paid_at is set
    tradeNo,    \* the row already holds the trade number the provider reports
    fresh,      \* updated_at is within paymentGraceMinutes
    overdue,    \* expires_at has passed
    late,       \* history: the grace period of the expired order has run out once
    upstream,   \* the payment at the provider
    notif,      \* the provider's webhook: not due, due (it keeps retrying), acknowledged
    code,       \* the redeem code that carries a balance order's credit
    grants,     \* how often the user got what the order is for
    assigned,   \* audit row SUBSCRIPTION_ASSIGNED exists
    groupActive,\* the group a subscription order is for exists and is active
    settled,    \* audit row AFFILIATE_REBATE_APPLIED or _SKIPPED exists
    rebates,    \* how often the inviter's rebate was accrued for what this order paid
    byHand,     \* history: the user redeemed the code of the order himself
    pc, job,    \* where each worker is, and on what
    faults, crashes

rowVars    == <<status, paidAt, tradeNo, fresh, late>>
rebateVars == <<settled, rebates, byHand>>
grantVars  == <<code, grants, assigned, groupActive, rebateVars>>
workVars   == <<pc, job>>
budget     == <<faults, crashes>>
vars == <<rowVars, grantVars, overdue, upstream, notif, workVars, budget>>

Statuses == {"NEW", "PENDING", "PAID", "RECHARGING", "COMPLETED",
             "EXPIRED", "CANCELLED", "FAILED", "REFUNDING"}

\* Program points between lock and markFailed: what doBalance and doSub do.
Fulfilling == {"resolve", "mint", "redeem", "assign", "record", "rebate", "complete", "fail"}

Places == {"idle", "invoke", "abort", "query", "close", "cancel", "persist",
           "confirm", "recheck", "load", "lock", "reset"} \cup Fulfilling

RowType ==
    /\ status \in [Orders -> Statuses]
    /\ paidAt \in [Orders -> BOOLEAN]
    /\ tradeNo \in [Orders -> BOOLEAN]
    /\ fresh \in [Orders -> BOOLEAN]
    /\ late \in [Orders -> BOOLEAN]
    /\ overdue \in [Orders -> BOOLEAN]
    /\ upstream \in [Orders -> {"none", "open", "paid", "short", "closed"}]
    /\ notif \in [Orders -> {"none", "due", "acked"}]

GrantType ==
    /\ code \in [Orders -> {"none", "unused", "used"}]
    /\ grants \in [Orders -> Nat]
    /\ assigned \in [Orders -> BOOLEAN]
    /\ groupActive \in [Orders -> BOOLEAN]
    /\ settled \in [Orders -> BOOLEAN]
    /\ rebates \in [Orders -> Nat]
    /\ byHand \in [Orders -> BOOLEAN]

WorkType ==
    /\ pc \in [Workers -> Places]
    /\ job \in [Workers -> Job \cup {NoJob}]
    /\ \A w \in Workers : pc[w] = "idle" <=> job[w] = NoJob

BudgetType == faults \in 0 .. MaxFaults /\ crashes \in 0 .. MaxCrashes

\* Every variable has its type, and a worker holds an order exactly while it runs.
TypeOK == RowType /\ GrantType /\ WorkType /\ BudgetType

Init ==
    /\ status = [o \in Orders |-> "NEW"]
    /\ paidAt = [o \in Orders |-> FALSE]
    /\ tradeNo \in [Orders -> BOOLEAN]
    /\ fresh = [o \in Orders |-> TRUE]
    /\ late = [o \in Orders |-> FALSE]
    /\ overdue = [o \in Orders |-> FALSE]
    /\ upstream = [o \in Orders |-> "none"]
    /\ notif = [o \in Orders |-> "none"]
    /\ code = [o \in Orders |-> "none"]
    /\ grants = [o \in Orders |-> 0]
    /\ assigned = [o \in Orders |-> FALSE]
    /\ groupActive = [o \in Orders |-> TRUE]
    /\ settled = [o \in Orders |-> FALSE]
    /\ rebates = [o \in Orders |-> 0]
    /\ byHand = [o \in Orders |-> FALSE]
    /\ pc = [w \in Workers |-> "idle"]
    /\ job = [w \in Workers |-> NoJob]
    /\ faults = 0
    /\ crashes = 0

-----------------------------------------------------------------------------
(* Control of a handler. *)

Start(w, o, via, place) ==
    /\ pc[w] = "idle"
    /\ pc' = [pc EXCEPT ![w] = place]
    /\ job' = [job EXCEPT ![w] = [order |-> o, via |-> via, knows |-> tradeNo[o]]]

Goto(w, place) == pc' = [pc EXCEPT ![w] = place] /\ UNCHANGED <<job, notif>>

\* (bug) The worker is idle again but still holds its order.
ReturnHoldingJob(w, result) ==
    /\ pc' = [pc EXCEPT ![w] = "idle"]
    /\ UNCHANGED <<job, notif>>

\* The handler returns; a webhook that returns nil is answered 2xx and is over
\* for the provider, one that returns an error is answered 500 and redelivered.
Return(w, result) ==
    /\ pc' = [pc EXCEPT ![w] = "idle"]
    /\ job' = [job EXCEPT ![w] = NoJob]
    /\ notif' = IF job[w].via = "webhook" /\ result = "nil"
                  THEN [notif EXCEPT ![job[w].order] = "acked"] ELSE notif

NoFault == UNCHANGED faults
Fault   == faults < MaxFaults /\ faults' = faults + 1

\* A statement of an update that matched, and its effect on updated_at.
SetStatus(o, s) ==
    /\ status' = [status EXCEPT ![o] = s]
    /\ fresh' = [fresh EXCEPT ![o] = TRUE]

\* (bug) The update lost its condition on the status.
MoveAnyStatus(o, from, to) == SetStatus(o, to)

\* An UPDATE ... WHERE status IN from SET status = to, ignoring the row count.
MoveStatus(o, from, to) ==
    IF status[o] \in from THEN SetStatus(o, to) ELSE UNCHANGED <<status, fresh>>

-----------------------------------------------------------------------------
(* CreateOrder. *)

\* validateSubOrder asks for an active group; createOrderInTx commits the PENDING row.
CreateOrder(w, o) ==
    /\ status[o] = "NEW"
    /\ o \in Subscription => groupActive[o]
    /\ SetStatus(o, "PENDING")
    /\ Start(w, o, "create", "invoke")
    /\ UNCHANGED <<paidAt, tradeNo, late, grantVars, overdue, upstream, notif, budget>>

\* invokeProvider: the payment exists at the provider once the row has its URL.
InvokeProvider(w) == LET o == job[w].order IN
    /\ pc[w] = "invoke"
    /\ \/ /\ NoFault
          /\ upstream' = [upstream EXCEPT ![o] = "open"]
          /\ fresh' = [fresh EXCEPT ![o] = TRUE]
          /\ Return(w, "nil")
       \/ Fault /\ Goto(w, "abort") /\ UNCHANGED <<upstream, fresh>>
       \/ /\ LostReplies /\ Fault
          /\ upstream' = [upstream EXCEPT ![o] = "open"]
          /\ fresh' = [fresh EXCEPT ![o] = TRUE]
          /\ Goto(w, "abort")
    /\ UNCHANGED <<status, paidAt, tradeNo, late, grantVars, overdue, crashes>>

\* The provider failed: the row is set to FAILED whatever its status is by now.
AbortCreate(w) == LET o == job[w].order IN
    /\ pc[w] = "abort"
    /\ \/ NoFault /\ SetStatus(o, "FAILED")
       \/ Fault /\ UNCHANGED <<status, fresh>>
    /\ Return(w, "err")
    /\ UNCHANGED <<paidAt, tradeNo, late, grantVars, overdue, upstream, crashes>>

-----------------------------------------------------------------------------
(* The payer, the provider and the clock. *)

\* A CreateOrder handler of the order is still running.
BeingCreated(o) == \E w \in Workers : pc[w] \in {"invoke", "abort"} /\ job[w].order = o

\* The payer pays the right amount, or one confirmPayment will refuse.  The URL
\* reaches the payer when CreateOrder has returned.
UserPays(o) ==
    /\ upstream[o] = "open" /\ ~BeingCreated(o)
    /\ \E amount \in {"paid", "short"} : upstream' = [upstream EXCEPT ![o] = amount]
    /\ notif' = [notif EXCEPT ![o] = "due"]
    /\ UNCHANGED <<rowVars, grantVars, overdue, workVars, budget>>

\* Orders live for minutes, the provider call of CreateOrder for seconds.
OrderTimesOut(o) ==
    /\ status[o] # "NEW" /\ ~overdue[o] /\ ~BeingCreated(o)
    /\ overdue' = [overdue EXCEPT ![o] = TRUE]
    /\ UNCHANGED <<rowVars, grantVars, upstream, notif, workVars, budget>>

GraceRunsOut(o) ==
    /\ status[o] = "EXPIRED" /\ fresh[o]
    /\ fresh' = [fresh EXCEPT ![o] = FALSE]
    /\ late' = [late EXCEPT ![o] = TRUE]
    /\ UNCHANGED <<status, paidAt, tradeNo, grantVars, overdue, upstream, notif, workVars, budget>>

\* The administrator sees recharge_code and can hand the code of an order to the
\* user, who redeems it like any other code.  Redeem then accrues the inviter's
\* rebate itself, outside the transaction and without a claim, and drops the error;
\* nothing reads the count, so the two steps are one here.
RedeemByHand(o) ==
    /\ HandRedeem /\ code[o] = "unused"
    /\ code' = [code EXCEPT ![o] = "used"]
    /\ grants' = [grants EXCEPT ![o] = @ + 1]
    /\ byHand' = [byHand EXCEPT ![o] = TRUE]
    /\ rebates' \in {rebates, [rebates EXCEPT ![o] = @ + 1]}
    /\ UNCHANGED <<rowVars, assigned, groupActive, settled, overdue, upstream, notif, workVars, budget>>

\* An administrator switches the group of a subscription off or on, or deletes it.
GroupSwitched(o) ==
    /\ o \in Subscription
    /\ groupActive' = [groupActive EXCEPT ![o] = ~@]
    /\ UNCHANGED <<rowVars, code, grants, assigned, rebateVars, overdue, upstream, notif, workVars,
                   budget>>

\* ExecuteRefund takes a completed order (PaymentRefund says what follows).
RefundBegins(o) ==
    /\ status[o] = "COMPLETED"
    /\ SetStatus(o, "REFUNDING")
    /\ UNCHANGED <<paidAt, tradeNo, late, grantVars, overdue, upstream, notif, workVars, budget>>

-----------------------------------------------------------------------------
(* Entry points.  Each reads the row; what it read may be stale afterwards. *)

\* HandlePaymentNotification.  Providers deliver at least once, even after a 2xx.
Webhook(w, o) ==
    /\ notif[o] # "none"
    /\ Start(w, o, "webhook", "confirm")
    /\ UNCHANGED <<rowVars, grantVars, overdue, upstream, notif, budget>>

\* CancelOrder and AdminCancelOrder.
CancelOrder(w, o) ==
    /\ status[o] = "PENDING"
    /\ Start(w, o, "cancel", "query")
    /\ UNCHANGED <<rowVars, grantVars, overdue, upstream, notif, budget>>

ExpireTimedOutOrder(w, o) ==
    /\ status[o] = "PENDING" /\ overdue[o]
    /\ Start(w, o, "expire", "query")
    /\ UNCHANGED <<rowVars, grantVars, overdue, upstream, notif, budget>>

ReconcilePendingWxpayOrder(w, o) ==
    /\ status[o] = "PENDING" /\ ~overdue[o]
    /\ Start(w, o, "reconcile", "query")
    /\ UNCHANGED <<rowVars, grantVars, overdue, upstream, notif, budget>>

VerifyOrderByOutTradeNo(w, o) ==
    /\ status[o] \in {"PENDING", "EXPIRED"}
    /\ Start(w, o, "reconcile", "query")
    /\ UNCHANGED <<rowVars, grantVars, overdue, upstream, notif, budget>>

\* (bug) Only failed orders can be retried.
RetriableIfFailed(o) == paidAt[o] /\ status[o] = "FAILED"

Retriable(o) == paidAt[o] /\ status[o] \in {"FAILED", "PAID"}

RetryFulfillment(w, o) ==
    /\ Retriable(o)
    /\ Start(w, o, "retry", "reset")
    /\ UNCHANGED <<rowVars, grantVars, overdue, upstream, notif, budget>>

-----------------------------------------------------------------------------
(* checkPaid and cancelCore. *)

Cancels(w) == job[w].via \in {"cancel", "expire"}

\* QueryOrder.  An error, or an invalid amount twice, counts as "not paid", and
\* the order is then cancelled without closing the payment.
QueryUpstream(w) ==
    /\ pc[w] = "query"
    /\ \/ /\ NoFault /\ upstream[job[w].order] \in {"paid", "short"}
          /\ Goto(w, IF job[w].knows THEN "confirm" ELSE "persist")
       \/ /\ NoFault /\ upstream[job[w].order] \notin {"paid", "short"}
          /\ IF Cancels(w) THEN Goto(w, "close") ELSE Return(w, "nil")
       \/ /\ Fault
          /\ IF Cancels(w) THEN Goto(w, "cancel") ELSE Return(w, "nil")
    /\ UNCHANGED <<rowVars, grantVars, overdue, upstream, crashes>>

\* CancelPayment, whose error is dropped.
CancelPayment(w) == LET o == job[w].order IN
    /\ pc[w] = "close"
    /\ \/ UNCHANGED upstream
       \/ upstream[o] = "open" /\ upstream' = [upstream EXCEPT ![o] = "closed"]
    /\ Goto(w, "cancel")
    /\ UNCHANGED <<rowVars, grantVars, overdue, budget>>

MarkCancelled(w) == LET o == job[w].order IN
    /\ pc[w] = "cancel"
    /\ \/ /\ NoFault
          /\ MoveStatus(o, {"PENDING"}, IF job[w].via = "expire" THEN "EXPIRED" ELSE "CANCELLED")
       \/ Fault /\ UNCHANGED <<status, fresh>>
    /\ Return(w, "nil")
    /\ UNCHANGED <<paidAt, tradeNo, late, grantVars, overdue, upstream, crashes>>

\* The upstream trade number is stored, which renews updated_at; errors are logged.
PersistTradeNo(w) == LET o == job[w].order IN
    /\ pc[w] = "persist"
    /\ \/ /\ NoFault
          /\ tradeNo' = [tradeNo EXCEPT ![o] = TRUE]
          /\ fresh' = [fresh EXCEPT ![o] = TRUE]
       \/ Fault /\ UNCHANGED <<tradeNo, fresh>>
    /\ Goto(w, "confirm")
    /\ UNCHANGED <<status, paidAt, late, grantVars, overdue, upstream, crashes>>

-----------------------------------------------------------------------------
(* confirmPayment, toPaid, alreadyProcessed. *)

Payable(o) == status[o] \in {"PENDING", "CANCELLED"} \/ (status[o] = "EXPIRED" /\ fresh[o])

\* (bug) The amount is not compared with pay_amount.
AmountIgnored(o) == upstream[o] \in {"paid", "short"}

AmountAccepted(o) == upstream[o] = "paid"

MarkPaid(o) ==
    /\ SetStatus(o, "PAID")
    /\ paidAt' = [paidAt EXCEPT ![o] = TRUE]
    /\ tradeNo' = [tradeNo EXCEPT ![o] = TRUE]

\* A failed lookup of the row is reported as success; a failed update is not.
ConfirmPayment(w) == LET o == job[w].order IN
    /\ pc[w] = "confirm"
    /\ \/ /\ NoFault /\ ~AmountAccepted(o)
          /\ Return(w, "err") /\ UNCHANGED <<status, fresh, paidAt, tradeNo>>
       \/ /\ NoFault /\ AmountAccepted(o) /\ Payable(o)
          /\ MarkPaid(o) /\ Goto(w, "load")
       \/ /\ NoFault /\ AmountAccepted(o) /\ ~Payable(o)
          /\ Goto(w, "recheck") /\ UNCHANGED <<status, fresh, paidAt, tradeNo>>
       \/ /\ Fault /\ \E result \in {"nil", "err"} : Return(w, result)
          /\ UNCHANGED <<status, fresh, paidAt, tradeNo>>
       \/ /\ LostReplies /\ Fault /\ AmountAccepted(o) /\ Payable(o)
          /\ MarkPaid(o) /\ Return(w, "err")
    /\ UNCHANGED <<late, grantVars, overdue, upstream, crashes>>

AlreadyProcessed(w) == LET s == status[job[w].order] IN
    /\ pc[w] = "recheck"
    /\ \/ NoFault /\ s = "FAILED" /\ Goto(w, "load")
       \/ NoFault /\ s \in {"PAID", "RECHARGING"} /\ Return(w, "err")
       \/ NoFault /\ s \notin {"FAILED", "PAID", "RECHARGING"} /\ Return(w, "nil")
       \/ Fault /\ Return(w, "nil")
    /\ UNCHANGED <<rowVars, grantVars, overdue, upstream, crashes>>

\* RetryFulfillment's update.  The row count is ignored: the handler goes on.
ResetForRetry(w) == LET o == job[w].order IN
    /\ pc[w] = "reset"
    /\ \/ NoFault /\ MoveStatus(o, {"FAILED", "PAID"}, "PAID") /\ Goto(w, "load")
       \/ Fault /\ UNCHANGED <<status, fresh>> /\ Return(w, "err")
    /\ UNCHANGED <<paidAt, tradeNo, late, grantVars, overdue, upstream, crashes>>

-----------------------------------------------------------------------------
(* executeFulfillment: ExecuteBalanceFulfillment, ExecuteSubscriptionFulfillment. *)

LoadOrder(w) == LET s == status[job[w].order] IN
    /\ pc[w] = "load"
    /\ \/ NoFault /\ s = "COMPLETED" /\ Return(w, "nil")
       \/ NoFault /\ s \in {"PAID", "FAILED"} /\ Goto(w, "lock")
       \/ NoFault /\ s \notin {"COMPLETED", "PAID", "FAILED"} /\ Return(w, "err")
       \/ Fault /\ Return(w, "err")
    /\ UNCHANGED <<rowVars, grantVars, overdue, upstream, crashes>>

\* (bug) The lock is taken whenever the order is not yet complete.
LockableUntilCompleted(o) == status[o] \in {"PAID", "FAILED", "RECHARGING"}

Lockable(o) == status[o] \in {"PAID", "FAILED"}

\* The compare-and-set that makes the worker the order's fulfiller.
LockRecharging(w) == LET o == job[w].order IN
    /\ pc[w] = "lock"
    /\ \/ NoFault /\ Lockable(o) /\ SetStatus(o, "RECHARGING") /\ Goto(w, "resolve")
       \/ NoFault /\ ~Lockable(o) /\ Return(w, "nil") /\ UNCHANGED <<status, fresh>>
       \/ Fault /\ Return(w, "err") /\ UNCHANGED <<status, fresh>>
       \/ LostReplies /\ Fault /\ Lockable(o) /\ SetStatus(o, "RECHARGING") /\ Return(w, "err")
    /\ UNCHANGED <<paidAt, tradeNo, late, grantVars, overdue, upstream, crashes>>

\* (bug) The audit log is not consulted before the subscription is extended.
NeverAssigned(o) == FALSE

AlreadyAssigned(o) == assigned[o]

\* doSub refuses a group that is gone or inactive, on every attempt.
\* resolveRedeemAction takes a failed lookup for a missing code; hasAuditLog a
\* failed count for a missing row.
Resolve(w) == LET o == job[w].order IN
    /\ pc[w] = "resolve"
    /\ IF o \in Subscription
         THEN \/ NoFault /\ ~groupActive[o] /\ Goto(w, "fail")
              \/ /\ NoFault /\ groupActive[o]
                 /\ Goto(w, IF AlreadyAssigned(o) THEN "rebate" ELSE "assign")
              \/ Fault /\ Goto(w, "fail")
              \/ Fault /\ groupActive[o] /\ Goto(w, "assign")
         ELSE \/ /\ NoFault
                 /\ Goto(w, CASE code[o] = "none" -> "mint"
                              [] code[o] = "used" -> "rebate"
                              [] OTHER -> "redeem")
              \/ Fault /\ Goto(w, "mint")
    /\ UNCHANGED <<rowVars, grantVars, overdue, upstream, crashes>>

\* CreateCode; the code column is unique.
CreateCode(w) == LET o == job[w].order IN
    /\ pc[w] = "mint"
    /\ \/ /\ NoFault /\ code[o] = "none"
          /\ code' = [code EXCEPT ![o] = "unused"] /\ Goto(w, "redeem")
       \/ NoFault /\ code[o] # "none" /\ Goto(w, "fail") /\ UNCHANGED code
       \/ Fault /\ Goto(w, "fail") /\ UNCHANGED code
       \/ /\ LostReplies /\ Fault /\ code[o] = "none"
          /\ code' = [code EXCEPT ![o] = "unused"] /\ Goto(w, "fail")
    /\ UNCHANGED <<rowVars, grants, assigned, groupActive, rebateVars, overdue, upstream, crashes>>

\* (bug) The update of the code lost its condition status = unused.
UseAnyCode(o) ==
    /\ code' = [code EXCEPT ![o] = "used"]
    /\ grants' = [grants EXCEPT ![o] = @ + 1]

UseCode(o) ==
    /\ code[o] = "unused"
    /\ code' = [code EXCEPT ![o] = "used"]
    /\ grants' = [grants EXCEPT ![o] = @ + 1]

\* Redeem: one transaction marks the code used and credits the balance; reading
\* the code back after the commit may still fail.
Redeem(w) == LET o == job[w].order IN
    /\ pc[w] = "redeem"
    /\ \/ NoFault /\ UseCode(o) /\ Goto(w, "rebate")
       \/ NoFault /\ code[o] # "unused" /\ Goto(w, "fail") /\ UNCHANGED <<code, grants>>
       \/ Fault /\ Goto(w, "fail") /\ UNCHANGED <<code, grants>>
       \/ Fault /\ UseCode(o) /\ Goto(w, "fail")
    /\ UNCHANGED <<rowVars, assigned, groupActive, rebateVars, overdue, upstream, crashes>>

\* It fails for a group that is gone, not for one that is only inactive.
AssignOrExtendSubscription(w) == LET o == job[w].order IN
    /\ pc[w] = "assign"
    /\ \/ NoFault /\ grants' = [grants EXCEPT ![o] = @ + 1] /\ Goto(w, "record")
       \/ NoFault /\ ~groupActive[o] /\ Goto(w, "fail") /\ UNCHANGED grants
       \/ Fault /\ Goto(w, "fail") /\ UNCHANGED grants
       \/ /\ LostReplies /\ Fault
          /\ grants' = [grants EXCEPT ![o] = @ + 1] /\ Goto(w, "fail")
    /\ UNCHANGED <<rowVars, code, assigned, groupActive, rebateVars, overdue, upstream, crashes>>

\* writeAuditLog(SUBSCRIPTION_ASSIGNED): an insert error is only logged.
RecordAssigned(w) == LET o == job[w].order IN
    /\ pc[w] = "record"
    /\ \/ NoFault /\ assigned' = [assigned EXCEPT ![o] = TRUE]
       \/ Fault /\ UNCHANGED assigned
    /\ Goto(w, "rebate")
    /\ UNCHANGED <<rowVars, code, grants, groupActive, rebateVars, overdue, upstream, crashes>>

\* (bug) The rebate is accrued whether or not the claim of the audit row succeeded.
SettleUnclaimed(o) ==
    /\ settled' = [settled EXCEPT ![o] = TRUE]
    /\ rebates' = [rebates EXCEPT ![o] = @ + 1]

\* applyAffiliateRebateForOrder for a user with an inviter: the claim row and the
\* accrual commit together, and an order that is claimed already is left alone.
SettleRebate(o) ==
    IF settled[o]
      THEN UNCHANGED <<settled, rebates>>
      ELSE /\ settled' = [settled EXCEPT ![o] = TRUE]
           /\ rebates' = [rebates EXCEPT ![o] = @ + 1]

ApplyAffiliateRebate(w) == LET o == job[w].order IN
    /\ pc[w] = "rebate"
    /\ \/ NoFault /\ SettleRebate(o) /\ Goto(w, "complete")
       \/ Fault /\ Goto(w, "fail") /\ UNCHANGED <<settled, rebates>>
       \/ LostReplies /\ Fault /\ SettleRebate(o) /\ Goto(w, "fail")
    /\ UNCHANGED <<rowVars, code, grants, assigned, groupActive, byHand, overdue, upstream, crashes>>

MarkCompleted(w) == LET o == job[w].order IN
    /\ pc[w] = "complete"
    /\ \/ NoFault /\ MoveStatus(o, {"RECHARGING"}, "COMPLETED") /\ Return(w, "nil")
       \/ Fault /\ Goto(w, "fail") /\ UNCHANGED <<status, fresh>>
       \/ /\ LostReplies /\ Fault
          /\ MoveStatus(o, {"RECHARGING"}, "COMPLETED") /\ Goto(w, "fail")
    /\ UNCHANGED <<paidAt, tradeNo, late, grantVars, overdue, upstream, crashes>>

\* markFailed: its own error is only logged, which leaves the order RECHARGING.
MarkFailed(w) == LET o == job[w].order IN
    /\ pc[w] = "fail"
    /\ \/ NoFault /\ MoveStatus(o, {"RECHARGING"}, "FAILED")
       \/ Fault /\ UNCHANGED <<status, fresh>>
    /\ Return(w, "err")
    /\ UNCHANGED <<paidAt, tradeNo, late, grantVars, overdue, upstream, crashes>>

-----------------------------------------------------------------------------
\* The process dies, or the request's context is cancelled for good.
Crash(w) ==
    /\ pc[w] # "idle" /\ crashes < MaxCrashes
    /\ crashes' = crashes + 1
    /\ pc' = [pc EXCEPT ![w] = "idle"]
    /\ job' = [job EXCEPT ![w] = NoJob]
    /\ UNCHANGED <<rowVars, grantVars, overdue, upstream, notif, faults>>

Entry(w, o) ==
    \/ CreateOrder(w, o) \/ Webhook(w, o) \/ CancelOrder(w, o)
    \/ ExpireTimedOutOrder(w, o) \/ ReconcilePendingWxpayOrder(w, o)
    \/ VerifyOrderByOutTradeNo(w, o) \/ RetryFulfillment(w, o)

\* The steps of a running handler.
Step(w) ==
    \/ InvokeProvider(w) \/ AbortCreate(w) \/ QueryUpstream(w) \/ CancelPayment(w)
    \/ MarkCancelled(w) \/ PersistTradeNo(w) \/ ConfirmPayment(w) \/ AlreadyProcessed(w)
    \/ ResetForRetry(w) \/ LoadOrder(w) \/ LockRecharging(w) \/ Resolve(w)
    \/ CreateCode(w) \/ Redeem(w) \/ AssignOrExtendSubscription(w) \/ RecordAssigned(w)
    \/ ApplyAffiliateRebate(w) \/ MarkCompleted(w) \/ MarkFailed(w)

Environment(o) ==
    \/ UserPays(o) \/ OrderTimesOut(o) \/ GraceRunsOut(o)
    \/ RedeemByHand(o) \/ GroupSwitched(o) \/ RefundBegins(o)

Next ==
    \/ \E w \in Workers, o \in Orders : Entry(w, o)
    \/ \E w \in Workers : Step(w) \/ Crash(w)
    \/ \E o \in Orders : Environment(o)

Spec == Init /\ [][Next]_vars

\* A handler that runs goes on; time passes; the provider redelivers an unacknowledged
\* webhook; the expiry service keeps running; the administrator retries.  Strong
\* fairness because a goroutine is always free for a new call, while the few
\* workers of an instance of this model may all be busy now and then.
Fairness ==
    /\ \A w \in Workers : WF_vars(Step(w))
    /\ \A o \in Orders :
         /\ SF_vars(\E w \in Workers : Webhook(w, o) /\ notif[o] = "due")
         /\ WF_vars(OrderTimesOut(o)) /\ WF_vars(GraceRunsOut(o))
         /\ SF_vars(\E w \in Workers : ExpireTimedOutOrder(w, o))
         /\ SF_vars(\E w \in Workers : RetryFulfillment(w, o))

FairSpec == Spec /\ Fairness

-----------------------------------------------------------------------------
(* Safety. *)

\* Whatever mixture of webhooks, redeliveries, reconciliations and retries runs,
\* at most one handler is between the RECHARGING compare-and-set and the end of
\* fulfilment of an order (ExecuteBalanceFulfillment, ExecuteSubscriptionFulfillment).
SingleFulfiller ==
    \A v, w \in Workers :
        pc[v] \in Fulfilling /\ pc[w] \in Fulfilling /\ job[v].order = job[w].order => v = w

\* A user is credited, a subscription extended and an order completed only when
\* the provider holds a payment of the amount that confirmPayment accepts.
NoGrantWithoutPayment ==
    \A o \in Orders :
        grants[o] > 0 \/ rebates[o] > 0 \/ status[o] \in {"PAID", "RECHARGING", "COMPLETED", "REFUNDING"}
            => upstream[o] = "paid"

\* A balance order is credited at most once, over all faults, crashes and
\* retries: the redeem code is what makes doBalance idempotent.
BalanceCreditedOnce ==
    \A o \in Balance : grants[o] = (IF code[o] = "used" THEN 1 ELSE 0)

\* COMPLETED means that the user has what was paid for and that the order's rebate
\* is settled.  applyAffiliateRebateForOrder accrues it once over all retries; only
\* the redemption of the order's code by hand can accrue another one.
CompletedIsGranted ==
    \A o \in Orders : LET claimed == IF settled[o] THEN 1 ELSE 0 IN
        /\ status[o] \in {"COMPLETED", "REFUNDING"} => grants[o] > 0 /\ settled[o]
        /\ rebates[o] > 0 => grants[o] > 0
        /\ rebates[o] = claimed \/ (byHand[o] /\ rebates[o] = claimed + 1)

(* Action properties. *)

\* Once an order is accepted as paid, no cancellation, expiry or creation error
\* takes it back, and a completed order is only ever refunded: the guards
\* "still PENDING" and "still RECHARGING" of cancelCore and markFailed hold when
\* the update runs, not only when the row was read.
PaidIsNeverTakenBack ==
    [][\A o \in Orders :
         /\ status[o] \in {"PAID", "RECHARGING"}
              => status'[o] \in {"PAID", "RECHARGING", "COMPLETED", "FAILED"}
         /\ status[o] = "FAILED" /\ paidAt[o]
              => status'[o] \in {"FAILED", "PAID", "RECHARGING"}
         /\ status[o] = "COMPLETED" => status'[o] \in {"COMPLETED", "REFUNDING"}]_vars

\* Once SUBSCRIPTION_ASSIGNED is on record, no retry of doSub extends the
\* subscription again, while at most one statement fails.  With two, one can end
\* the first attempt and the other make hasAuditLog miss the row in the second.
AssignmentIsNotRepeated ==
    [][\A o \in Subscription : assigned[o] => grants'[o] = grants[o]]_vars

\* For balance orders the service keeps the promise of PaidOrder: no interleaving
\* of handlers, fault or crash credits twice, settles the rebate twice, credits what
\* is not paid, or completes what is not credited and settled.
Promise == INSTANCE PaidOrder WITH
    Orders  <- Balance,
    paid    <- {o \in Balance : upstream[o] = "paid"},
    credit  <- [o \in Balance |-> grants[o]],
    settled <- {o \in Balance : settled[o]},
    rebate  <- [o \in Balance |-> rebates[o]],
    done    <- {o \in Balance : status[o] \in {"COMPLETED", "REFUNDING"}}

PromiseKept == Promise!Spec

(* Liveness. *)

\* Nobody fulfils the order and nothing retries it: markFailed failed as well.
Stranded(o) ==
    /\ faults > 0 /\ status[o] = "RECHARGING"
    /\ \A w \in Workers : pc[w] \in Fulfilling => job[w].order # o

\* The ways a payment stays unanswered: it reached an order that was expired for
\* longer than the grace period; the webhook of a cancelled order was acknowledged
\* because the lookup in confirmPayment failed, and nothing queries cancelled orders
\* again; the group of the subscription is not there; the order is stranded, which
\* takes a group that was not there and a failing statement.
Forfeited(o) ==
    \/ late[o]
    \/ status[o] = "CANCELLED" /\ notif[o] = "acked"
    \/ o \in Subscription /\ ~groupActive[o]
    \/ Stranded(o)

\* From any moment at which a payment of the right amount is there and its group
\* stays active, the order is completed, whichever statement or provider call fails
\* (once): the webhook is redelivered, the expiry service asks the provider, the
\* administrator retries.
PaymentIsHonoured ==
    \A o \in Orders :
        upstream[o] = "paid" ~> (status[o] \in {"COMPLETED", "REFUNDING"} \/ Forfeited(o))

=============================================================================
