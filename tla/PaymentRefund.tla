---------------------------- MODULE PaymentRefund ----------------------------
(***************************************************************************)
(* Refunds of completed balance orders (service/payment_refund.go).        *)
(*                                                                         *)
(* An executor (PrepareRefund, ExecuteRefund) locks the order, deducts the *)
(* refunded amount from the user's balance, asks the provider and commits  *)
(* or rolls back.  A finalizer (QueryAndFinalizeRefund) completes a refund *)
(* the provider had left pending; then the deduction was rolled back and   *)
(* is made again.  Every action is one statement or one provider call.     *)
(***************************************************************************)
EXTENDS Integers, Sequences

CONSTANTS
    Orders,         \* completed balance orders
    Workers,        \* concurrent administrator requests
    NoJob,          \* what an idle worker works on
    MaxFaults,      \* bound: statements and provider calls that return an error
    MaxCrashes,     \* bound: handlers that die half way
    MaxRefunds,     \* bound: refunds of one order the provider makes
    LostReplies     \* BOOLEAN: may a statement commit although its caller sees an error?

\* PARTIALLY_REFUNDED is REFUNDED with another amount.
Statuses == {"COMPLETED", "REFUND_REQUESTED", "REFUNDING", "REFUND_PENDING",
             "REFUND_FAILED", "REFUNDED"}

\* What ExecuteRefund may lock, and PrepareRefund accepts.
Refundable == {"COMPLETED", "REFUND_REQUESTED", "REFUND_PENDING", "REFUND_FAILED"}

\* amount: BalanceToDeduct, 1 for the whole refund;  from: the plan's copy of the
\* status;  refund: the id of the refund the handler deals with, 0 if it knows none.
Job == [order : Orders, amount : {0, 1}, from : Statuses, refund : Nat]

ASSUME BudgetAssumption ==
    MaxFaults \in Nat /\ MaxCrashes \in Nat /\ MaxRefunds \in Nat /\ LostReplies \in BOOLEAN
ASSUME NoJobAssumption == NoJob \notin Job

VARIABLES
    status,         \* payment_orders.status
    provider,       \* how the order's provider refunds, "none" without a trade number
    deducted,       \* how often the user's balance was reduced for the refund, net
    rollbackFailed, \* the orders with an audit row REFUND_ROLLBACK_FAILED
    succeeded,      \* the orders with an audit row REFUND_SUCCESS
    pendingRow,     \* audit row REFUND_PENDING: its deductionRollbackOK ("none" without
                    \* the row) and refundID
    refunds,        \* the refunds at the provider; the id of one is its place in the sequence
    doubt,          \* history: the orders of which a reply or an audit row about the
                    \* deduction was lost
    unsure,         \* history: the orders of which a provider's reply was lost, or that were
                    \* refunded again while a refund was pending
    finalized,      \* history: the orders a finalizer was asked for
    contended,      \* history: the orders two handlers worked on at the same time
    pc, job,        \* where each worker is, and its RefundPlan
    faults, crashes

logVars  == <<rollbackFailed, succeeded, pendingRow>>
workVars == <<pc, job>>
history  == <<finalized, contended>>
budget   == <<faults, crashes>>
vars == <<status, provider, deducted, logVars, refunds, doubt, unsure, history, workVars, budget>>

\* Between the lock and the statement that gives the status up again.
Executing == {"check", "deduct", "refund", "undo", "undoPending", "debt", "debtPending",
              "restore", "failed", "pending", "success"}

Places == {"idle", "lock", "pendingRow", "successRow", "detail", "query",
           "finalCheck", "finalDeduct", "finalSuccess", "finalFailed"} \cup Executing

RowType ==
    /\ status \in [Orders -> Statuses]
    /\ provider \in [Orders -> {"none", "keyed", "fresh", "blind"}]
    /\ deducted \in [Orders -> Int]
    /\ rollbackFailed \subseteq Orders
    /\ succeeded \subseteq Orders
    /\ pendingRow \in [Orders -> [rollback : {"none", "ok", "failed"}, refund : Nat]]
    /\ refunds \in [Orders -> Seq({"pending", "done", "refused"})]
    /\ doubt \subseteq Orders
    /\ unsure \subseteq Orders
    /\ finalized \subseteq Orders
    /\ contended \subseteq Orders

WorkType ==
    /\ pc \in [Workers -> Places]
    /\ job \in [Workers -> Job \cup {NoJob}]
    /\ \A w \in Workers : pc[w] = "idle" <=> job[w] = NoJob

BudgetType == faults \in 0 .. MaxFaults /\ crashes \in 0 .. MaxCrashes

\* Every variable has its type, and a worker holds a plan exactly while it runs.
TypeOK == RowType /\ WorkType /\ BudgetType

Init ==
    /\ status = [o \in Orders |-> "COMPLETED"]
    /\ provider \in [Orders -> {"none", "keyed", "fresh", "blind"}]
    /\ deducted = [o \in Orders |-> 0]
    /\ rollbackFailed = {}
    /\ succeeded = {}
    /\ pendingRow = [o \in Orders |-> [rollback |-> "none", refund |-> 0]]
    /\ refunds = [o \in Orders |-> <<>>]
    /\ doubt = {}
    /\ unsure = {}
    /\ finalized = {}
    /\ contended = {}
    /\ pc = [w \in Workers |-> "idle"]
    /\ job = [w \in Workers |-> NoJob]
    /\ faults = 0
    /\ crashes = 0

-----------------------------------------------------------------------------
(* Control of a handler. *)

Start(w, plan, place) ==
    /\ pc[w] = "idle"
    /\ contended' = IF \E v \in Workers : pc[v] # "idle" /\ job[v].order = plan.order
                      THEN contended \cup {plan.order} ELSE contended
    /\ pc' = [pc EXCEPT ![w] = place]
    /\ job' = [job EXCEPT ![w] = plan]

Goto(w, place) == pc' = [pc EXCEPT ![w] = place] /\ UNCHANGED job

\* Goes on with BalanceToDeduct kept or zeroed.
GotoWith(w, place, amount) ==
    /\ pc' = [pc EXCEPT ![w] = place]
    /\ job' = [job EXCEPT ![w].amount = amount]

\* Goes on with another BalanceToDeduct and the id of a refund.
GotoNaming(w, place, amount, refund) ==
    /\ pc' = [pc EXCEPT ![w] = place]
    /\ job' = [job EXCEPT ![w].amount = amount, ![w].refund = refund]

\* (bug) The worker is idle again but keeps its plan.
ReturnHoldingPlan(w) == pc' = [pc EXCEPT ![w] = "idle"] /\ UNCHANGED job

Return(w) ==
    /\ pc' = [pc EXCEPT ![w] = "idle"]
    /\ job' = [job EXCEPT ![w] = NoJob]

NoFault == UNCHANGED faults
Fault   == faults < MaxFaults /\ faults' = faults + 1

SetStatus(o, s) == status' = [status EXCEPT ![o] = s]
Deduct(o, n)    == deducted' = [deducted EXCEPT ![o] = @ + n]
Doubt(o)        == doubt' = doubt \cup {o}

-----------------------------------------------------------------------------
(* The user, the providers. *)

\* RequestRefund: a conditional update of a completed order.
RequestRefund(o) ==
    /\ status[o] = "COMPLETED"
    /\ SetStatus(o, "REFUND_REQUESTED")
    /\ UNCHANGED <<provider, deducted, logVars, refunds, doubt, unsure, history, workVars, budget>>

\* A pending refund settles at the provider.
ProviderSettles(o) ==
    /\ \E i \in DOMAIN refunds[o], r \in {"done", "refused"} :
         /\ refunds[o][i] = "pending"
         /\ refunds' = [refunds EXCEPT ![o][i] = r]
    /\ UNCHANGED <<status, provider, deducted, logVars, doubt, unsure, history, workVars, budget>>

Live(o) == {i \in DOMAIN refunds[o] : refunds[o][i] # "refused"}

\* What a provider may do with another call: it makes a refund, or reports an error, as
\* it does when the payment does not cover another one.
NewRefund(o) == LET id == Len(refunds[o]) + 1 IN
    {[answer |-> "refused", refund |-> 0, refunds |-> refunds[o]]} \cup
    {[answer |-> a, refund |-> id, refunds |-> Append(refunds[o], a)] :
        a \in IF id <= MaxRefunds THEN {"pending", "done"} ELSE {}}

\* Asked again for a refund it has, a provider repeats what became of it or reports a
\* duplicate; WeChat Pay's adapter says "pending" of a refused one.
SameRefund(o) ==
    {[answer |-> a, refund |-> 1, refunds |-> refunds[o]] :
        a \in {"refused", IF refunds[o][1] = "refused" THEN "pending" ELSE refunds[o][1]}}

\* Refund of the adapters.  WeChat Pay and Airwallex ("keyed") identify the refund by the
\* payment and the amount; Stripe ("fresh"), Alipay and EasyPay ("blind": they have no
\* QueryRefund either) make another refund at each call.
Outcomes(o) ==
    IF provider[o] = "keyed" /\ refunds[o] # <<>> THEN SameRefund(o) ELSE NewRefund(o)

-----------------------------------------------------------------------------
(* ExecuteRefund. *)

\* PrepareRefund.  There is nothing to deduct when the administrator does not
\* ask for it or the balance is empty.
PrepareRefund(w, o) ==
    /\ status[o] \in Refundable
    /\ \E amount \in {0, 1} :
         Start(w, [order |-> o, amount |-> amount, from |-> status[o], refund |-> 0], "lock")
    /\ UNCHANGED <<status, provider, deducted, logVars, refunds, doubt, unsure, finalized, budget>>

\* (bug) The lock does not exclude orders that are being refunded.
LockableAlways(o) == status[o] \in Refundable \cup {"REFUNDING"}

Lockable(o) == status[o] \in Refundable

LockRefunding(w) == LET o == job[w].order IN
    /\ pc[w] = "lock"
    /\ \/ NoFault /\ Lockable(o) /\ SetStatus(o, "REFUNDING") /\ Goto(w, "check")
       \/ NoFault /\ ~Lockable(o) /\ Return(w) /\ UNCHANGED status
       \/ Fault /\ Return(w) /\ UNCHANGED status
       \/ LostReplies /\ Fault /\ Lockable(o) /\ SetStatus(o, "REFUNDING") /\ Return(w)
    /\ unsure' = IF status[o] = "REFUND_PENDING" THEN unsure \cup {o} ELSE unsure
    /\ UNCHANGED <<provider, deducted, logVars, refunds, doubt, history, crashes>>

\* (bug) A retry deducts although the last rollback failed.
NeverDeductedBefore(o) == FALSE

AlreadyDeducted(o) == o \in rollbackFailed

\* hasAuditLog(REFUND_ROLLBACK_FAILED), which takes a failed count for a missing row.
CheckDeducted(w) == LET o == job[w].order IN
    /\ pc[w] = "check"
    /\ \/ NoFault /\ job[w].amount = 0 /\ Goto(w, "refund") /\ UNCHANGED doubt
       \/ NoFault /\ job[w].amount > 0 /\ AlreadyDeducted(o) /\ GotoWith(w, "refund", 0) /\ UNCHANGED doubt
       \/ NoFault /\ job[w].amount > 0 /\ ~AlreadyDeducted(o) /\ Goto(w, "deduct") /\ UNCHANGED doubt
       \/ Fault /\ job[w].amount > 0 /\ Goto(w, "deduct") /\ Doubt(o)
    /\ UNCHANGED <<status, provider, deducted, logVars, refunds, unsure, history, crashes>>

DeductBalance(w) == LET o == job[w].order IN
    /\ pc[w] = "deduct"
    /\ \/ NoFault /\ Deduct(o, 1) /\ Goto(w, "refund") /\ UNCHANGED doubt
       \/ Fault /\ Goto(w, "restore") /\ UNCHANGED <<deducted, doubt>>
       \/ LostReplies /\ Fault /\ Deduct(o, 1) /\ Goto(w, "restore") /\ Doubt(o)
    /\ UNCHANGED <<status, provider, logVars, refunds, unsure, history, crashes>>

\* (bug) A pending refund is taken for a settled one.
PendingIsSettled(answer) == answer \in {"done", "pending"}

Settled(answer) == answer = "done"

\* gwRefund.  Without a trade number it succeeds without asking the provider.
GwRefund(w) == LET o == job[w].order IN
    /\ pc[w] = "refund"
    /\ \/ /\ NoFault /\ provider[o] = "none"
          /\ Goto(w, "success")
          /\ UNCHANGED <<refunds, unsure>>
       \/ /\ NoFault /\ provider[o] # "none"
          /\ \E r \in Outcomes(o) :
               /\ refunds' = [refunds EXCEPT ![o] = r.refunds]
               /\ CASE Settled(r.answer) -> Goto(w, "success")
                    [] r.answer = "pending" /\ ~Settled(r.answer) ->
                         GotoNaming(w, "undoPending", job[w].amount, r.refund)
                    [] OTHER -> Goto(w, "undo")
          /\ UNCHANGED unsure
       \/ /\ Fault /\ provider[o] # "none"
          /\ Goto(w, "undo")
          /\ UNCHANGED <<refunds, unsure>>
       \/ /\ LostReplies /\ Fault /\ provider[o] # "none"
          /\ \E r \in Outcomes(o) : refunds' = [refunds EXCEPT ![o] = r.refunds]
          /\ unsure' = unsure \cup {o}
          /\ Goto(w, "undo")
    /\ UNCHANGED <<status, provider, deducted, logVars, doubt, history, crashes>>

\* (bug) The rollback does not return the deduction.
KeepDeduction(o) == UNCHANGED deducted

ReturnDeduction(o) == Deduct(o, -1)

\* RollbackRefund, called by handleGwFail and by markRefundPending.
RollbackRefund(w) == LET o == job[w].order
                         pending == pc[w] = "undoPending"
                         undone == IF pending THEN "pending" ELSE "restore"
                         debt == IF pending THEN "debtPending" ELSE "debt" IN
    /\ pc[w] \in {"undo", "undoPending"}
    /\ \/ NoFault /\ job[w].amount = 0 /\ Goto(w, undone) /\ UNCHANGED <<deducted, doubt>>
       \/ /\ NoFault /\ job[w].amount > 0 /\ ReturnDeduction(o) /\ UNCHANGED doubt
          /\ GotoWith(w, undone, 0)
       \/ Fault /\ job[w].amount > 0 /\ Goto(w, debt) /\ UNCHANGED <<deducted, doubt>>
       \/ LostReplies /\ Fault /\ job[w].amount > 0 /\ ReturnDeduction(o) /\ Doubt(o) /\ Goto(w, debt)
    /\ UNCHANGED <<status, provider, logVars, refunds, unsure, history, crashes>>

\* writeAuditLog(REFUND_ROLLBACK_FAILED): an insert error is only logged.
RecordDebt(w) == LET o == job[w].order IN
    /\ pc[w] \in {"debt", "debtPending"}
    /\ \/ NoFault /\ rollbackFailed' = rollbackFailed \cup {o} /\ UNCHANGED doubt
       \/ Fault /\ Doubt(o) /\ UNCHANGED rollbackFailed
    /\ Goto(w, IF pc[w] = "debt" THEN "failed" ELSE "pending")
    /\ UNCHANGED <<status, provider, deducted, succeeded, pendingRow, refunds, unsure, history, crashes>>

\* restoreStatus.  The update is unconditional and its error is dropped.
StatusRestored(o, from) ==
    SetStatus(o, IF from = "REFUND_REQUESTED" THEN "REFUND_REQUESTED" ELSE "COMPLETED")

RestoreStatus(w) ==
    /\ pc[w] = "restore"
    /\ \/ NoFault /\ StatusRestored(job[w].order, job[w].from)
       \/ Fault /\ UNCHANGED status
    /\ Return(w)
    /\ UNCHANGED <<provider, deducted, logVars, refunds, doubt, unsure, history, crashes>>

\* The end of handleGwFail and finalizeRefundFailed.
MarkRefundFailed(w) ==
    /\ pc[w] \in {"failed", "finalFailed"}
    /\ \/ NoFault /\ SetStatus(job[w].order, "REFUND_FAILED")
       \/ Fault /\ UNCHANGED status
    /\ Return(w)
    /\ UNCHANGED <<provider, deducted, logVars, refunds, doubt, unsure, history, crashes>>

MarkRefundPending(w) == LET o == job[w].order IN
    /\ pc[w] = "pending"
    /\ \/ NoFault /\ SetStatus(o, "REFUND_PENDING") /\ Goto(w, "pendingRow")
       \/ Fault /\ Return(w) /\ UNCHANGED status
       \/ LostReplies /\ Fault /\ SetStatus(o, "REFUND_PENDING") /\ Return(w)
    /\ UNCHANGED <<provider, deducted, logVars, refunds, doubt, unsure, history, crashes>>

\* writeAuditLog(REFUND_PENDING).  (order_id, action) is unique, so a second
\* pending refund leaves the row of the first, and its id; the error is only logged.
RecordPending(w) == LET o == job[w].order IN
    /\ pc[w] = "pendingRow"
    /\ \/ /\ NoFault /\ pendingRow[o].rollback = "none"
          /\ pendingRow' = [pendingRow EXCEPT ![o] =
               [rollback |-> IF job[w].amount > 0 THEN "failed" ELSE "ok", refund |-> job[w].refund]]
       \/ NoFault /\ pendingRow[o].rollback # "none" /\ UNCHANGED pendingRow
       \/ Fault /\ UNCHANGED pendingRow
    /\ Return(w)
    /\ UNCHANGED <<status, provider, deducted, rollbackFailed, succeeded, refunds, doubt, unsure, history, crashes>>

MarkRefundOk(w) == LET o == job[w].order IN
    /\ pc[w] \in {"success", "finalSuccess"}
    /\ \/ NoFault /\ SetStatus(o, "REFUNDED") /\ Goto(w, "successRow")
       \/ Fault /\ Return(w) /\ UNCHANGED status
       \/ LostReplies /\ Fault /\ SetStatus(o, "REFUNDED") /\ Return(w)
    /\ UNCHANGED <<provider, deducted, logVars, refunds, doubt, unsure, history, crashes>>

RecordSuccess(w) == LET o == job[w].order IN
    /\ pc[w] = "successRow"
    /\ \/ NoFault /\ succeeded' = succeeded \cup {o}
       \/ Fault /\ UNCHANGED succeeded
    /\ Return(w)
    /\ UNCHANGED <<status, provider, deducted, rollbackFailed, pendingRow, refunds, doubt, unsure, history, crashes>>

-----------------------------------------------------------------------------
(* QueryAndFinalizeRefund.  The status is checked once, when it is read, and the *)
(* provider must have a QueryRefund.                                              *)

QueryAndFinalizeRefund(w, o) ==
    /\ status[o] = "REFUND_PENDING"
    /\ provider[o] \in {"keyed", "fresh"}
    /\ Start(w, [order |-> o, amount |-> 0, from |-> status[o], refund |-> 0], "detail")
    /\ finalized' = finalized \cup {o}
    /\ UNCHANGED <<status, provider, deducted, logVars, refunds, doubt, unsure, budget>>

\* latestRefundPendingDetail: without the row the rollback is taken for done and the
\* refund has no id.
ReadPendingDetail(w) == LET row == pendingRow[job[w].order] IN
    /\ pc[w] = "detail"
    /\ \/ NoFault /\ GotoNaming(w, "query", IF row.rollback = "failed" THEN 0 ELSE 1, row.refund)
       \/ Fault /\ GotoNaming(w, "query", 1, 0)
    /\ UNCHANGED <<status, provider, deducted, logVars, refunds, doubt, unsure, history, crashes>>

\* The refund a query is about: the one with the id, without an id the latest.
Asked(w) == LET made == refunds[job[w].order]
                id == IF job[w].refund = 0 THEN Len(made) ELSE job[w].refund IN
    IF id \in DOMAIN made THEN made[id] ELSE "none"

\* Without an id Airwallex cannot be asked, and WeChat Pay under the wrong name when the
\* amount paid is not the amount credited.
QueryRefund(w) == LET o == job[w].order IN
    /\ pc[w] = "query"
    /\ \/ NoFault /\ Asked(w) = "done" /\ Goto(w, "finalCheck")
       \/ NoFault /\ Asked(w) = "refused" /\ Goto(w, "finalFailed")
       \/ NoFault /\ Asked(w) \in {"none", "pending"} /\ Return(w)
       \/ NoFault /\ provider[o] = "keyed" /\ job[w].refund = 0 /\ Return(w)
       \/ Fault /\ Return(w)
    /\ UNCHANGED <<status, provider, deducted, logVars, refunds, doubt, unsure, history, crashes>>

\* applyRefundFinalDeduction: hasAuditLog(REFUND_SUCCESS) and the deduction.
CheckSucceeded(w) == LET o == job[w].order IN
    /\ pc[w] = "finalCheck"
    /\ \/ NoFault /\ (o \in succeeded \/ job[w].amount = 0) /\ Goto(w, "finalSuccess")
       \/ NoFault /\ o \notin succeeded /\ job[w].amount > 0 /\ Goto(w, "finalDeduct")
       \/ Fault /\ job[w].amount > 0 /\ Goto(w, "finalDeduct")
    /\ UNCHANGED <<status, provider, deducted, logVars, refunds, doubt, unsure, history, crashes>>

FinalDeduct(w) == LET o == job[w].order IN
    /\ pc[w] = "finalDeduct"
    /\ \/ NoFault /\ Deduct(o, 1) /\ Goto(w, "finalSuccess") /\ UNCHANGED doubt
       \/ Fault /\ Return(w) /\ UNCHANGED <<deducted, doubt>>
       \/ LostReplies /\ Fault /\ Deduct(o, 1) /\ Return(w) /\ Doubt(o)
    /\ UNCHANGED <<status, provider, logVars, refunds, unsure, history, crashes>>

-----------------------------------------------------------------------------
Crash(w) ==
    /\ pc[w] # "idle" /\ crashes < MaxCrashes
    /\ crashes' = crashes + 1
    /\ Return(w)
    /\ UNCHANGED <<status, provider, deducted, logVars, refunds, doubt, unsure, history, faults>>

Execute(w) ==
    \/ LockRefunding(w) \/ CheckDeducted(w) \/ DeductBalance(w) \/ GwRefund(w)
    \/ RollbackRefund(w) \/ RecordDebt(w) \/ RestoreStatus(w) \/ MarkRefundFailed(w)
    \/ MarkRefundPending(w) \/ RecordPending(w) \/ MarkRefundOk(w) \/ RecordSuccess(w)

Finalize(w) == ReadPendingDetail(w) \/ QueryRefund(w) \/ CheckSucceeded(w) \/ FinalDeduct(w)

Next ==
    \/ \E o \in Orders : RequestRefund(o) \/ ProviderSettles(o)
    \/ \E w \in Workers, o \in Orders : PrepareRefund(w, o) \/ QueryAndFinalizeRefund(w, o)
    \/ \E w \in Workers : Execute(w) \/ Finalize(w) \/ Crash(w)

Spec == Init /\ [][Next]_vars

-----------------------------------------------------------------------------
(* Whatever handlers run and whatever fails. *)

Paid(o)     == \E i \in DOMAIN refunds[o] : refunds[o][i] = "done"
PaidOnce(o) == \A i, j \in Live(o) : i = j

\* REFUNDED means the provider paid back, unless the order has no trade number and the
\* provider was never asked.  However handlers race and retry, a provider that identifies
\* the refund pays back once; so does any other, unless a reply of it was lost, the order
\* was refunded again while a refund was pending, or a finalizer was asked for it.
RefundedIsPaidBack ==
    \A o \in Orders :
        /\ status[o] = "REFUNDED" /\ provider[o] # "none" => Paid(o)
        /\ provider[o] = "keyed" \/ o \notin unsure \cup finalized => PaidOnce(o)

(* While no finalizer was asked for the order, whatever fails. *)

\* At most one ExecuteRefund is between its lock and the update that gives the
\* order another status, so no two deduct or refund the same order.
SingleRefunder ==
    \A v, w \in Workers :
        /\ pc[v] \in Executing /\ pc[w] \in Executing
        /\ job[v].order = job[w].order /\ job[v].order \notin finalized
        => v = w

\* An order that may be refunded (again) has its amount deducted only if
\* REFUND_ROLLBACK_FAILED is on record, which is what the next attempt asks
\* for; no attempt deducts a second time.  Lost replies and lost audit rows of
\* the deduction itself excepted.
DeductionAccounted ==
    \A o \in Orders \ (doubt \cup finalized) :
        /\ deducted[o] \in {0, 1}
        /\ status[o] \in Refundable => deducted[o] = (IF o \in rollbackFailed THEN 1 ELSE 0)

\* A refunded order stays refunded: no restoreStatus or markRefundPending of an
\* attempt that lost the race overwrites it.
RefundedIsFinal ==
    [][\A o \in Orders \ finalized : status[o] = "REFUNDED" => status'[o] = "REFUNDED"]_vars

(* With finalizers, one handler at a time and no failing statement. *)

\* The balance is reduced exactly while, or after, the money goes back: a pending
\* refund has nothing deducted, and the finalizer deducts once.
DeductedOnceByTurns ==
    faults = 0 /\ crashes = 0 => \A o \in Orders \ contended :
        /\ deducted[o] \in {0, 1}
        /\ status[o] \in Refundable /\ (\A w \in Workers : job[w] = NoJob \/ job[w].order # o)
             => deducted[o] = 0

(* What a comment says and the code does not do. *)

\* QueryAndFinalizeRefund: "only refund pending orders can be finalized".
OnlyPendingIsFinalized ==
    [][\A w \in Workers :
         pc[w] = "finalSuccess" /\ pc'[w] = "successRow" => status[job[w].order] = "REFUND_PENDING"]_vars
=============================================================================
