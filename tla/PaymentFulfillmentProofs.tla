---------------------- MODULE PaymentFulfillmentProofs ----------------------
(***************************************************************************)
(* Proofs about PaymentFulfillment for any number of orders and workers    *)
(* and any bounds on faults and crashes; ExtendedOnce allows one fault.    *)
(***************************************************************************)
EXTENDS PaymentFulfillment, TLAPS

Accepted == {"PAID", "RECHARGING", "COMPLETED", "REFUNDING"}
Final    == {"COMPLETED", "REFUNDING"}

\* Rebates are accrued under the claim of the order, and once by hand.
RebatesCounted(o) == LET claimed == IF settled[o] THEN 1 ELSE 0 IN
    /\ byHand[o] => code[o] = "used"
    /\ rebates[o] = claimed \/ (byHand[o] /\ rebates[o] = claimed + 1)

\* What the row, the provider and the grants of an order say about each other.
OrderInv(o) ==
    /\ status[o] = "NEW" => upstream[o] = "none"
    /\ notif[o] # "none" => upstream[o] \in {"paid", "short"}
    /\ status[o] \in Accepted => upstream[o] = "paid"
    /\ paidAt[o] => upstream[o] = "paid"
    /\ code[o] # "none" => upstream[o] = "paid"
    /\ grants[o] > 0 => upstream[o] = "paid"
    /\ o \notin Subscription => grants[o] = (IF code[o] = "used" THEN 1 ELSE 0)
    /\ assigned[o] => grants[o] > 0
    /\ rebates[o] > 0 => grants[o] > 0
    /\ settled[o] => grants[o] > 0
    /\ RebatesCounted(o)
    /\ status[o] \in Final => grants[o] > 0 /\ settled[o]

\* What the place of a handler says about its order.
WorkerInv(w) == LET o == job[w].order IN
    /\ pc[w] # "idle" => status[o] # "NEW"
    /\ pc[w] # "idle" /\ job[w].via = "webhook" => upstream[o] \in {"paid", "short"}
    /\ pc[w] = "invoke" => upstream[o] = "none"
    /\ pc[w] = "abort" => upstream[o] \in {"none", "open", "closed"}
    /\ pc[w] \in {"persist", "confirm"} => upstream[o] \in {"paid", "short"}
    /\ pc[w] \in {"recheck", "reset", "load", "lock"} \cup Fulfilling => upstream[o] = "paid"
    /\ pc[w] \in Fulfilling \ {"fail"} => status[o] = "RECHARGING"
    /\ pc[w] = "fail" => status[o] \in Final \cup {"RECHARGING"}
    /\ pc[w] \in {"mint", "redeem"} => o \notin Subscription
    /\ pc[w] \in {"assign", "record"} => o \in Subscription
    /\ pc[w] \in {"record", "rebate", "complete"} => grants[o] > 0
    /\ pc[w] = "complete" => settled[o]

SingleCreator ==
    \A v, w \in Workers :
        pc[v] \in {"invoke", "abort"} /\ pc[w] \in {"invoke",
        "abort"} /\ job[v].order = job[w].order
            => v = w

IInv ==
    /\ TypeOK
    /\ \A o \in Orders : OrderInv(o)
    /\ \A w \in Workers : WorkerInv(w)
    /\ SingleCreator
    /\ SingleFulfiller

-----------------------------------------------------------------------------
(* Type correctness. *)

\* A handler that runs has an order.
LEMMA BusyWorker ==
    ASSUME WorkType, NEW w \in Workers, pc[w] # "idle"
    PROVE  job[w] \in Job /\ job[w].order \in Orders
  BY DEF WorkType, Job

\* A step of a handler starts at work and ends at work on the same order, or idle.
LEMMA StepControl ==
    ASSUME NEW w \in Workers, Step(w)
    PROVE  /\ pc[w] # "idle"
           /\ \/ \E place \in Places \ {"idle"} : Goto(w, place)
              \/ \E result \in {"nil", "err"} : Return(w, result)
<1> USE DEF Places, Fulfilling
<1>1. CASE InvokeProvider(w)
  BY <1>1 DEF InvokeProvider
<1>2. CASE AbortCreate(w)
  BY <1>2 DEF AbortCreate
<1>3. CASE QueryUpstream(w)
  BY <1>3 DEF QueryUpstream
<1>4. CASE CancelPayment(w)
  BY <1>4 DEF CancelPayment
<1>5. CASE MarkCancelled(w)
  BY <1>5 DEF MarkCancelled
<1>6. CASE PersistTradeNo(w)
  BY <1>6 DEF PersistTradeNo
<1>7. CASE ConfirmPayment(w)
  BY <1>7 DEF ConfirmPayment
<1>8. CASE AlreadyProcessed(w)
  BY <1>8 DEF AlreadyProcessed
<1>9. CASE ResetForRetry(w)
  BY <1>9 DEF ResetForRetry
<1>10. CASE LoadOrder(w)
  BY <1>10 DEF LoadOrder
<1>11. CASE LockRecharging(w)
  BY <1>11 DEF LockRecharging
<1>12. CASE Resolve(w)
  BY <1>12 DEF Resolve
<1>13. CASE CreateCode(w)
  BY <1>13 DEF CreateCode
<1>14. CASE Redeem(w)
  BY <1>14 DEF Redeem
<1>15. CASE AssignOrExtendSubscription(w)
  BY <1>15 DEF AssignOrExtendSubscription
<1>16. CASE RecordAssigned(w)
  BY <1>16 DEF RecordAssigned
<1>17. CASE ApplyAffiliateRebate(w)
  BY <1>17 DEF ApplyAffiliateRebate
<1>18. CASE MarkCompleted(w)
  BY <1>18 DEF MarkCompleted
<1>19. CASE MarkFailed(w)
  BY <1>19 DEF MarkFailed
<1> QED
  BY <1>1, <1>2, <1>3, <1>4, <1>5, <1>6, <1>7, <1>8, <1>9, <1>10, <1>11, <1>12, <1>13, <1>14, <1>15,
        <1>16, <1>17, <1>18, <1>19 DEF Step

\* Such steps, and the start of a handler, keep the type of pc and job.
LEMMA WorkTypeKept ==
    ASSUME TypeOK, NEW w \in Workers,
           \/ \E o \in Orders, via \in Vias, place \in Places \ {"idle"} : Start(w, o, via, place)
           \/ pc[w] # "idle" /\ \E place \in Places \ {"idle"} : Goto(w, place)
           \/ \E result \in {"nil", "err"} : Return(w, result)
    PROVE  WorkType'
<1> USE NoJobAssumption DEF TypeOK, RowType, WorkType, Job, Places, Vias
<1>1. ASSUME NEW o \in Orders, NEW via \in Vias, NEW place \in Places \ {"idle"}, Start(w, o, via, place)
      PROVE  WorkType'
  <2>1. [order |-> o, via |-> via, knows |-> tradeNo[o]] \in Job
    OBVIOUS
  <2> QED
    BY <1>1, <2>1 DEF Start
<1>2. ASSUME pc[w] # "idle", NEW place \in Places \ {"idle"}, Goto(w, place) PROVE WorkType'
  BY <1>2 DEF Goto
<1>3. ASSUME NEW result \in {"nil", "err"}, Return(w, result) PROVE WorkType'
  BY <1>3 DEF Return
<1> QED
  BY <1>1, <1>2, <1>3

\* Setting a Boolean column keeps its type.
LEMMA SetFlag ==
    ASSUME NEW f \in [Orders -> BOOLEAN], NEW o \in Orders
    PROVE  [f EXCEPT ![o] = TRUE] \in [Orders -> BOOLEAN]
  OBVIOUS

\* The failure budgets stay within their bounds.
LEMMA BudgetTypeKept == ASSUME BudgetType, NoFault \/ Fault, UNCHANGED crashes PROVE BudgetType'
  BY BudgetAssumption DEF BudgetType, NoFault, Fault

\* The provider's webhook stays not due, due or acknowledged.
LEMMA NotifTypeKept ==
    ASSUME RowType, NEW w \in Workers, job[w].order \in Orders,
           \/ \E place \in Places \ {"idle"} : Goto(w, place)
           \/ \E result \in {"nil", "err"} : Return(w, result)
    PROVE  notif' \in [Orders -> {"none", "due", "acked"}]
  BY DEF RowType, Goto, Return

\* The columns that every update of the status writes.
StatusType == status \in [Orders -> Statuses] /\ fresh \in [Orders -> BOOLEAN]

\* An unconditional update of the status keeps their type ...
LEMMA SetStatusType ==
    ASSUME StatusType, NEW o \in Orders, NEW s \in Statuses, SetStatus(o, s)
    PROVE  StatusType'
  BY DEF StatusType, SetStatus

\* ... and so does a compare-and-set.
LEMMA MoveStatusType ==
    ASSUME StatusType, NEW o \in Orders, NEW from, NEW s \in Statuses, MoveStatus(o, from, s)
    PROVE  StatusType'
  BY SetStatusType DEF MoveStatus, StatusType

\* The initial state and every step are type-correct.
LEMMA TypeInit == Init => TypeOK
BY BudgetAssumption DEF Init, TypeOK, RowType, GrantType, WorkType, BudgetType, Statuses, Places

\* No handler step, environment step or crash leaves the types.
LEMMA TypeStep == TypeOK /\ [Next]_vars => TypeOK'
<1> SUFFICES ASSUME TypeOK, [Next]_vars PROVE TypeOK'
  OBVIOUS
<1> USE BudgetAssumption DEF TypeOK, RowType, GrantType, BudgetType, Statuses
<1>1. ASSUME NEW w \in Workers, NEW o \in Orders, CreateOrder(w, o) PROVE TypeOK'
  <2>1. WorkType'
    BY <1>1, WorkTypeKept DEF CreateOrder, Vias, Places
  <2> QED
    BY <1>1, <2>1 DEF CreateOrder, SetStatus, Start, grantVars, rebateVars, budget
<1>2. ASSUME NEW w \in Workers, NEW o \in Orders, Webhook(w, o) PROVE TypeOK'
  <2>1. WorkType'
    BY <1>2, WorkTypeKept DEF Webhook, Vias, Places
  <2> QED
    BY <1>2, <2>1 DEF Webhook, Start, rowVars, grantVars, rebateVars, budget
<1>3. ASSUME NEW w \in Workers, NEW o \in Orders, CancelOrder(w, o) PROVE TypeOK'
  <2>1. WorkType'
    BY <1>3, WorkTypeKept DEF CancelOrder, Vias, Places
  <2> QED
    BY <1>3, <2>1 DEF CancelOrder, Start, rowVars, grantVars, rebateVars, budget
<1>4. ASSUME NEW w \in Workers, NEW o \in Orders, ExpireTimedOutOrder(w, o) PROVE TypeOK'
  <2>1. WorkType'
    BY <1>4, WorkTypeKept DEF ExpireTimedOutOrder, Vias, Places
  <2> QED
    BY <1>4, <2>1 DEF ExpireTimedOutOrder, Start, rowVars, grantVars, rebateVars, budget
<1>5. ASSUME NEW w \in Workers, NEW o \in Orders, ReconcilePendingWxpayOrder(w, o) PROVE TypeOK'
  <2>1. WorkType'
    BY <1>5, WorkTypeKept DEF ReconcilePendingWxpayOrder, Vias, Places
  <2> QED
    BY <1>5, <2>1 DEF ReconcilePendingWxpayOrder, Start, rowVars, grantVars, rebateVars, budget
<1>6. ASSUME NEW w \in Workers, NEW o \in Orders, VerifyOrderByOutTradeNo(w, o) PROVE TypeOK'
  <2>1. WorkType'
    BY <1>6, WorkTypeKept DEF VerifyOrderByOutTradeNo, Vias, Places
  <2> QED
    BY <1>6, <2>1 DEF VerifyOrderByOutTradeNo, Start, rowVars, grantVars, rebateVars, budget
<1>7. ASSUME NEW w \in Workers, NEW o \in Orders, RetryFulfillment(w, o) PROVE TypeOK'
  <2>1. WorkType'
    BY <1>7, WorkTypeKept DEF RetryFulfillment, Vias, Places
  <2> QED
    BY <1>7, <2>1 DEF RetryFulfillment, Start, rowVars, grantVars, rebateVars, budget
<1>8. ASSUME NEW w \in Workers, InvokeProvider(w) PROVE TypeOK'
  <2>1. job[w].order \in Orders
    BY <1>8, BusyWorker DEF InvokeProvider
  <2>2. WorkType' /\ notif' \in [Orders -> {"none", "due", "acked"}]
    BY <1>8, <2>1, StepControl, WorkTypeKept, NotifTypeKept DEF Step
  <2>4. BudgetType'
    BY <1>8, BudgetTypeKept DEF InvokeProvider
  <2>5. fresh' \in [Orders -> BOOLEAN]
    BY <1>8, <2>1, SetFlag DEF InvokeProvider
  <2> QED
    BY <1>8, <2>1, <2>2, <2>4, <2>5 DEF InvokeProvider, grantVars, rebateVars
<1>9. ASSUME NEW w \in Workers, AbortCreate(w) PROVE TypeOK'
  <2>1. job[w].order \in Orders
    BY <1>9, BusyWorker DEF AbortCreate
  <2>2. WorkType' /\ notif' \in [Orders -> {"none", "due", "acked"}]
    BY <1>9, <2>1, StepControl, WorkTypeKept, NotifTypeKept DEF Step
  <2>3. StatusType'
    BY <1>9, <2>1, SetStatusType DEF AbortCreate, StatusType
  <2> QED
    BY <1>9, <2>1, <2>2, <2>3 DEF AbortCreate, NoFault, Fault, grantVars, rebateVars, StatusType
<1>10. ASSUME NEW w \in Workers, QueryUpstream(w) PROVE TypeOK'
  <2>1. job[w].order \in Orders
    BY <1>10, BusyWorker DEF QueryUpstream
  <2>2. WorkType' /\ notif' \in [Orders -> {"none", "due", "acked"}]
    BY <1>10, <2>1, StepControl, WorkTypeKept, NotifTypeKept DEF Step
  <2> QED
    BY <1>10, <2>1, <2>2 DEF QueryUpstream, NoFault, Fault, rowVars, grantVars, rebateVars
<1>11. ASSUME NEW w \in Workers, CancelPayment(w) PROVE TypeOK'
  <2>1. job[w].order \in Orders
    BY <1>11, BusyWorker DEF CancelPayment
  <2>2. WorkType' /\ notif' \in [Orders -> {"none", "due", "acked"}]
    BY <1>11, <2>1, StepControl, WorkTypeKept, NotifTypeKept DEF Step
  <2> QED
    BY <1>11, <2>1, <2>2 DEF CancelPayment, rowVars, grantVars, rebateVars, budget
<1>12. ASSUME NEW w \in Workers, MarkCancelled(w) PROVE TypeOK'
  <2>1. job[w].order \in Orders
    BY <1>12, BusyWorker DEF MarkCancelled
  <2>2. WorkType' /\ notif' \in [Orders -> {"none", "due", "acked"}]
    BY <1>12, <2>1, StepControl, WorkTypeKept, NotifTypeKept DEF Step
  <2>3. StatusType'
    BY <1>12, <2>1, MoveStatusType DEF MarkCancelled, StatusType
  <2> QED
    BY <1>12, <2>1, <2>2, <2>3 DEF MarkCancelled, NoFault, Fault, grantVars, rebateVars, StatusType
<1>13. ASSUME NEW w \in Workers, PersistTradeNo(w) PROVE TypeOK'
  <2>1. job[w].order \in Orders
    BY <1>13, BusyWorker DEF PersistTradeNo
  <2>2. WorkType' /\ notif' \in [Orders -> {"none", "due", "acked"}]
    BY <1>13, <2>1, StepControl, WorkTypeKept, NotifTypeKept DEF Step
  <2>4. BudgetType'
    BY <1>13, BudgetTypeKept DEF PersistTradeNo
  <2>5. tradeNo' \in [Orders -> BOOLEAN] /\ fresh' \in [Orders -> BOOLEAN]
    BY <1>13, <2>1, SetFlag DEF PersistTradeNo
  <2> QED
    BY <1>13, <2>1, <2>2, <2>4, <2>5 DEF PersistTradeNo, grantVars, rebateVars
<1>14. ASSUME NEW w \in Workers, ConfirmPayment(w) PROVE TypeOK'
  <2>1. job[w].order \in Orders
    BY <1>14, BusyWorker DEF ConfirmPayment
  <2>2. WorkType' /\ notif' \in [Orders -> {"none", "due", "acked"}]
    BY <1>14, <2>1, StepControl, WorkTypeKept, NotifTypeKept DEF Step
  <2>4. BudgetType'
    BY <1>14, BudgetTypeKept DEF ConfirmPayment
  <2>5. paidAt' \in [Orders -> BOOLEAN] /\ tradeNo' \in [Orders -> BOOLEAN]
    BY <1>14, <2>1, SetFlag DEF ConfirmPayment, MarkPaid
  <2>3. StatusType'
    BY <1>14, <2>1, SetStatusType DEF ConfirmPayment, StatusType, MarkPaid
  <2> QED
    BY <1>14, <2>1, <2>2, <2>3, <2>4, <2>5 DEF ConfirmPayment, grantVars, rebateVars, StatusType
<1>15. ASSUME NEW w \in Workers, AlreadyProcessed(w) PROVE TypeOK'
  <2>1. job[w].order \in Orders
    BY <1>15, BusyWorker DEF AlreadyProcessed
  <2>2. WorkType' /\ notif' \in [Orders -> {"none", "due", "acked"}]
    BY <1>15, <2>1, StepControl, WorkTypeKept, NotifTypeKept DEF Step
  <2> QED
    BY <1>15, <2>1, <2>2 DEF AlreadyProcessed, NoFault, Fault, rowVars, grantVars, rebateVars
<1>16. ASSUME NEW w \in Workers, ResetForRetry(w) PROVE TypeOK'
  <2>1. job[w].order \in Orders
    BY <1>16, BusyWorker DEF ResetForRetry
  <2>2. WorkType' /\ notif' \in [Orders -> {"none", "due", "acked"}]
    BY <1>16, <2>1, StepControl, WorkTypeKept, NotifTypeKept DEF Step
  <2>3. StatusType'
    BY <1>16, <2>1, MoveStatusType DEF ResetForRetry, StatusType
  <2> QED
    BY <1>16, <2>1, <2>2, <2>3 DEF ResetForRetry, NoFault, Fault, grantVars, rebateVars, StatusType
<1>17. ASSUME NEW w \in Workers, LoadOrder(w) PROVE TypeOK'
  <2>1. job[w].order \in Orders
    BY <1>17, BusyWorker DEF LoadOrder
  <2>2. WorkType' /\ notif' \in [Orders -> {"none", "due", "acked"}]
    BY <1>17, <2>1, StepControl, WorkTypeKept, NotifTypeKept DEF Step
  <2> QED
    BY <1>17, <2>1, <2>2 DEF LoadOrder, NoFault, Fault, rowVars, grantVars, rebateVars
<1>18. ASSUME NEW w \in Workers, LockRecharging(w) PROVE TypeOK'
  <2>1. job[w].order \in Orders
    BY <1>18, BusyWorker DEF LockRecharging
  <2>2. WorkType' /\ notif' \in [Orders -> {"none", "due", "acked"}]
    BY <1>18, <2>1, StepControl, WorkTypeKept, NotifTypeKept DEF Step
  <2>3. StatusType'
    BY <1>18, <2>1, SetStatusType DEF LockRecharging, StatusType
  <2> QED
    BY <1>18, <2>1, <2>2, <2>3 DEF LockRecharging, NoFault, Fault, grantVars, rebateVars, StatusType
<1>19. ASSUME NEW w \in Workers, Resolve(w) PROVE TypeOK'
  <2>1. job[w].order \in Orders
    BY <1>19, BusyWorker DEF Resolve
  <2>2. WorkType' /\ notif' \in [Orders -> {"none", "due", "acked"}]
    BY <1>19, <2>1, StepControl, WorkTypeKept, NotifTypeKept DEF Step
  <2> QED
    BY <1>19, <2>1, <2>2 DEF Resolve, NoFault, Fault, rowVars, grantVars, rebateVars
<1>20. ASSUME NEW w \in Workers, CreateCode(w) PROVE TypeOK'
  <2>1. job[w].order \in Orders
    BY <1>20, BusyWorker DEF CreateCode
  <2>2. WorkType' /\ notif' \in [Orders -> {"none", "due", "acked"}]
    BY <1>20, <2>1, StepControl, WorkTypeKept, NotifTypeKept DEF Step
  <2> QED
    BY <1>20, <2>1, <2>2 DEF CreateCode, NoFault, Fault, rowVars, rebateVars
<1>21. ASSUME NEW w \in Workers, Redeem(w) PROVE TypeOK'
  <2>1. job[w].order \in Orders
    BY <1>21, BusyWorker DEF Redeem
  <2>2. WorkType' /\ notif' \in [Orders -> {"none", "due", "acked"}]
    BY <1>21, <2>1, StepControl, WorkTypeKept, NotifTypeKept DEF Step
  <2> QED
    BY <1>21, <2>1, <2>2 DEF Redeem, NoFault, UseCode, Fault, rowVars, rebateVars
<1>22. ASSUME NEW w \in Workers, AssignOrExtendSubscription(w) PROVE TypeOK'
  <2>1. job[w].order \in Orders
    BY <1>22, BusyWorker DEF AssignOrExtendSubscription
  <2>2. WorkType' /\ notif' \in [Orders -> {"none", "due", "acked"}]
    BY <1>22, <2>1, StepControl, WorkTypeKept, NotifTypeKept DEF Step
  <2> QED
    BY <1>22, <2>1, <2>2 DEF AssignOrExtendSubscription, NoFault, Fault, rowVars, rebateVars
<1>23. ASSUME NEW w \in Workers, RecordAssigned(w) PROVE TypeOK'
  <2>1. job[w].order \in Orders
    BY <1>23, BusyWorker DEF RecordAssigned
  <2>2. WorkType' /\ notif' \in [Orders -> {"none", "due", "acked"}]
    BY <1>23, <2>1, StepControl, WorkTypeKept, NotifTypeKept DEF Step
  <2>4. BudgetType'
    BY <1>23, BudgetTypeKept DEF RecordAssigned
  <2>5. assigned' \in [Orders -> BOOLEAN]
    BY <1>23, <2>1, SetFlag DEF RecordAssigned
  <2> QED
    BY <1>23, <2>1, <2>2, <2>4, <2>5 DEF RecordAssigned, rowVars, rebateVars
<1>24. ASSUME NEW w \in Workers, ApplyAffiliateRebate(w) PROVE TypeOK'
  <2>1. job[w].order \in Orders
    BY <1>24, BusyWorker DEF ApplyAffiliateRebate
  <2>2. WorkType' /\ notif' \in [Orders -> {"none", "due", "acked"}]
    BY <1>24, <2>1, StepControl, WorkTypeKept, NotifTypeKept DEF Step
  <2>4. BudgetType'
    BY <1>24, BudgetTypeKept DEF ApplyAffiliateRebate
  <2>5. settled' \in [Orders -> BOOLEAN] /\ rebates' \in [Orders -> Nat]
    <3>1. CASE UNCHANGED <<settled, rebates>>
      BY <3>1
    <3>2. CASE /\ settled' = [settled EXCEPT ![job[w].order] = TRUE]
               /\ rebates' = [rebates EXCEPT ![job[w].order] = rebates[job[w].order] + 1]
      BY <2>1, <3>2, SetFlag
    <3> QED
      BY <1>24, <3>1, <3>2 DEF ApplyAffiliateRebate, SettleRebate
  <2> QED
    BY <1>24, <2>1, <2>2, <2>4, <2>5 DEF ApplyAffiliateRebate, rowVars, rebateVars
<1>25. ASSUME NEW w \in Workers, MarkCompleted(w) PROVE TypeOK'
  <2>1. job[w].order \in Orders
    BY <1>25, BusyWorker DEF MarkCompleted
  <2>2. WorkType' /\ notif' \in [Orders -> {"none", "due", "acked"}]
    BY <1>25, <2>1, StepControl, WorkTypeKept, NotifTypeKept DEF Step
  <2>3. StatusType'
    BY <1>25, <2>1, MoveStatusType DEF MarkCompleted, StatusType
  <2> QED
    BY <1>25, <2>1, <2>2, <2>3 DEF MarkCompleted, NoFault, Fault, grantVars, rebateVars, StatusType
<1>26. ASSUME NEW w \in Workers, MarkFailed(w) PROVE TypeOK'
  <2>1. job[w].order \in Orders
    BY <1>26, BusyWorker DEF MarkFailed
  <2>2. WorkType' /\ notif' \in [Orders -> {"none", "due", "acked"}]
    BY <1>26, <2>1, StepControl, WorkTypeKept, NotifTypeKept DEF Step
  <2>3. StatusType'
    BY <1>26, <2>1, MoveStatusType DEF MarkFailed, StatusType
  <2> QED
    BY <1>26, <2>1, <2>2, <2>3 DEF MarkFailed, NoFault, Fault, grantVars, rebateVars, StatusType
<1>27. ASSUME NEW w \in Workers, Crash(w) PROVE TypeOK'
  <2>1. WorkType'
    BY <1>27 DEF Crash, WorkType, Places
  <2> QED
    BY <1>27, <2>1 DEF Crash, rowVars, grantVars, rebateVars
<1>28. ASSUME NEW o \in Orders, UserPays(o) PROVE TypeOK'
  BY <1>28 DEF UserPays, rowVars, grantVars, rebateVars, workVars, budget, WorkType
<1>29. ASSUME NEW o \in Orders, OrderTimesOut(o) PROVE TypeOK'
  BY <1>29 DEF OrderTimesOut, rowVars, grantVars, rebateVars, workVars, budget, WorkType
<1>30. ASSUME NEW o \in Orders, GraceRunsOut(o) PROVE TypeOK'
  BY <1>30 DEF GraceRunsOut, grantVars, rebateVars, workVars, budget, WorkType
<1>31. ASSUME NEW o \in Orders, RedeemByHand(o) PROVE TypeOK'
  <2>1. byHand' \in [Orders -> BOOLEAN] /\ rebates' \in [Orders -> Nat]
    BY <1>31, SetFlag DEF RedeemByHand
  <2> QED
    BY <1>31, <2>1 DEF RedeemByHand, rowVars, rebateVars, workVars, budget, WorkType
<1>32. ASSUME NEW o \in Orders, RefundBegins(o) PROVE TypeOK'
  BY <1>32 DEF RefundBegins, SetStatus, grantVars, rebateVars, workVars, budget, WorkType
<1>33. CASE UNCHANGED vars
  BY <1>33 DEF vars, WorkType, rowVars, grantVars, rebateVars, workVars, budget
<1>34. ASSUME NEW o \in Orders, GroupSwitched(o) PROVE TypeOK'
  BY <1>34 DEF GroupSwitched, rowVars, rebateVars, workVars, budget, WorkType
<1> QED
  BY <1>1, <1>2, <1>3, <1>4, <1>5, <1>6, <1>7, <1>8, <1>9, <1>10, <1>11, <1>12, <1>13, <1>14, <1>15,
        <1>16, <1>17, <1>18, <1>19, <1>20, <1>21, <1>22, <1>23, <1>24, <1>25, <1>26, <1>27, <1>28,
        <1>29, <1>30, <1>31, <1>32, <1>33, <1>34 DEF Next, Entry, Step, Environment

\* Every variable of PaymentFulfillment keeps its type, and a worker holds an order
\* exactly while one of the handlers of the payment service runs in it.
THEOREM TypeCorrect == Spec => []TypeOK
BY TypeInit, TypeStep, PTL DEF Spec

-----------------------------------------------------------------------------
(* The inductive invariant. *)

\* A step of one handler leaves the place and the order of the others alone.
LEMMA Bystander ==
    ASSUME WorkType, NEW w \in Workers, Step(w), NEW v \in Workers, v # w
    PROVE  pc'[v] = pc[v] /\ job'[v] = job[v]
<1>1. CASE \E place \in Places \ {"idle"} : Goto(w, place)
  BY <1>1 DEF Goto, WorkType
<1>2. CASE \E result \in {"nil", "err"} : Return(w, result)
  BY <1>2 DEF Return, WorkType
<1> QED
  BY <1>1, <1>2, StepControl

\* No order exists initially, so nothing is claimed of one.
LEMMA IInvInit == Init => IInv
BY TypeInit DEF Init, IInv, OrderInv, RebatesCounted, WorkerInv, SingleCreator, SingleFulfiller,
        Accepted,
                Final, Fulfilling

\* One step per action; the actions that change what other handlers of the same
\* order rely on treat the acting handler and the bystanders apart.
LEMMA IInvStep == IInv /\ [Next]_vars => IInv'
<1> SUFFICES ASSUME IInv, [Next]_vars PROVE IInv'
  OBVIOUS
<1>0. TypeOK /\ TypeOK'
  BY TypeStep DEF IInv
<1> USE DEF IInv, OrderInv, RebatesCounted, WorkerInv, Accepted, Final, Fulfilling, TypeOK,
        RowType, GrantType,
            WorkType
<1>1. ASSUME NEW w \in Workers, NEW o \in Orders, CreateOrder(w, o) PROVE IInv'
  BY <1>0, <1>1 DEF CreateOrder, SetStatus, Start, grantVars, rebateVars, budget, Vias,
        SingleFulfiller,
        SingleCreator
<1>2. ASSUME NEW w \in Workers, NEW o \in Orders, Webhook(w, o) PROVE IInv'
  BY <1>0, <1>2 DEF Webhook, Start, rowVars, grantVars, rebateVars, budget, Vias, SingleFulfiller,
        SingleCreator
<1>3. ASSUME NEW w \in Workers, NEW o \in Orders, CancelOrder(w, o) PROVE IInv'
  BY <1>0, <1>3 DEF CancelOrder, Start, rowVars, grantVars, rebateVars, budget, Vias,
        SingleFulfiller,
        SingleCreator
<1>4. ASSUME NEW w \in Workers, NEW o \in Orders, ExpireTimedOutOrder(w, o) PROVE IInv'
  BY <1>0, <1>4 DEF ExpireTimedOutOrder, Start, rowVars, grantVars, rebateVars, budget, Vias,
        SingleFulfiller,
        SingleCreator
<1>5. ASSUME NEW w \in Workers, NEW o \in Orders, ReconcilePendingWxpayOrder(w, o) PROVE IInv'
  BY <1>0, <1>5 DEF ReconcilePendingWxpayOrder, Start, rowVars, grantVars, rebateVars, budget, Vias,
        SingleFulfiller, SingleCreator
<1>6. ASSUME NEW w \in Workers, NEW o \in Orders, VerifyOrderByOutTradeNo(w, o) PROVE IInv'
  BY <1>0, <1>6 DEF VerifyOrderByOutTradeNo, Start, rowVars, grantVars, rebateVars, budget, Vias,
        SingleFulfiller, SingleCreator
<1>7. ASSUME NEW w \in Workers, NEW o \in Orders, RetryFulfillment(w, o) PROVE IInv'
  BY <1>0, <1>7 DEF RetryFulfillment, Retriable, Start, rowVars, grantVars, rebateVars, budget,
        Vias,
        SingleFulfiller, SingleCreator
<1>8. ASSUME NEW w \in Workers, InvokeProvider(w) PROVE IInv'
  <2>1. job[w].order \in Orders
    BY <1>0, <1>8, BusyWorker DEF InvokeProvider
  <2>2. ASSUME NEW p \in Orders PROVE OrderInv(p)'
    BY <1>0, <1>8, <2>1 DEF InvokeProvider, NoFault, Return, Fault, Goto, grantVars, rebateVars
  <2>3. ASSUME NEW v \in Workers PROVE WorkerInv(v)'
    <3>1. CASE v = w
      BY <1>0, <1>8, <2>1, <3>1 DEF InvokeProvider, NoFault, Return, Fault, Goto, grantVars,
        rebateVars
    <3>2. CASE v # w
      <4>1. pc'[v] = pc[v] /\ job'[v] = job[v]
        BY <1>0, <1>8, <3>2, Bystander DEF Step
      <4>2. pc[v] # "idle" => job[v].order \in Orders
        BY <1>0, BusyWorker
      <4> QED
        BY <1>0, <1>8, <2>1, <3>2, <4>1, <4>2 DEF InvokeProvider, grantVars, rebateVars,
        SingleFulfiller,
        SingleCreator
    <3> QED
      BY <3>1, <3>2
  <2>4. SingleCreator'
    BY <1>0, <1>8, <2>1 DEF InvokeProvider, NoFault, Return, Fault, Goto, grantVars, rebateVars,
        SingleCreator
  <2>5. SingleFulfiller'
    BY <1>0, <1>8, <2>1 DEF InvokeProvider, NoFault, Return, Fault, Goto, grantVars, rebateVars,
        SingleFulfiller
  <2> QED
    BY <1>0, <2>2, <2>3, <2>4, <2>5
<1>9. ASSUME NEW w \in Workers, AbortCreate(w) PROVE IInv'
  <2>1. job[w].order \in Orders
    BY <1>0, <1>9, BusyWorker DEF AbortCreate
  <2>2. ASSUME NEW p \in Orders PROVE OrderInv(p)'
    BY <1>0, <1>9, <2>1 DEF AbortCreate, NoFault, SetStatus, Fault, Return, grantVars, rebateVars
  <2>3. ASSUME NEW v \in Workers PROVE WorkerInv(v)'
    <3>1. CASE v = w
      BY <1>0, <1>9, <2>1, <3>1 DEF AbortCreate, NoFault, SetStatus, Fault, Return, grantVars,
        rebateVars
    <3>2. CASE v # w
      <4>1. pc'[v] = pc[v] /\ job'[v] = job[v]
        BY <1>0, <1>9, <3>2, Bystander DEF Step
      <4>2. pc[v] # "idle" => job[v].order \in Orders
        BY <1>0, BusyWorker
      <4> QED
        BY <1>0, <1>9, <2>1, <3>2, <4>1, <4>2 DEF AbortCreate, SetStatus, grantVars, rebateVars,
        SingleFulfiller, SingleCreator
    <3> QED
      BY <3>1, <3>2
  <2>4. SingleCreator'
    BY <1>0, <1>9, <2>1 DEF AbortCreate, NoFault, SetStatus, Fault, Return, grantVars, rebateVars,
        SingleCreator
  <2>5. SingleFulfiller'
    BY <1>0, <1>9, <2>1 DEF AbortCreate, NoFault, SetStatus, Fault, Return, grantVars, rebateVars,
        SingleFulfiller
  <2> QED
    BY <1>0, <2>2, <2>3, <2>4, <2>5
<1>10. ASSUME NEW w \in Workers, QueryUpstream(w) PROVE IInv'
  <2>1. job[w].order \in Orders
    BY <1>0, <1>10, BusyWorker DEF QueryUpstream
  <2> QED
    BY <1>0, <1>10, <2>1 DEF QueryUpstream, NoFault, Goto, Cancels, Return, Fault, rowVars,
        grantVars, rebateVars, SingleFulfiller, SingleCreator
<1>11. ASSUME NEW w \in Workers, CancelPayment(w) PROVE IInv'
  <2>1. job[w].order \in Orders
    BY <1>0, <1>11, BusyWorker DEF CancelPayment
  <2>2. ASSUME NEW p \in Orders PROVE OrderInv(p)'
    BY <1>0, <1>11, <2>1 DEF CancelPayment, Goto, rowVars, grantVars, rebateVars, budget
  <2>3. ASSUME NEW v \in Workers PROVE WorkerInv(v)'
    <3>1. CASE v = w
      BY <1>0, <1>11, <2>1, <3>1 DEF CancelPayment, Goto, rowVars, grantVars, rebateVars, budget
    <3>2. CASE v # w
      <4>1. pc'[v] = pc[v] /\ job'[v] = job[v]
        BY <1>0, <1>11, <3>2, Bystander DEF Step
      <4>2. pc[v] # "idle" => job[v].order \in Orders
        BY <1>0, BusyWorker
      <4> QED
        BY <1>0, <1>11, <2>1, <3>2, <4>1, <4>2 DEF CancelPayment, rowVars, grantVars, rebateVars,
        budget,
        SingleFulfiller, SingleCreator
    <3> QED
      BY <3>1, <3>2
  <2>4. SingleCreator'
    BY <1>0, <1>11, <2>1 DEF CancelPayment, Goto, rowVars, grantVars, rebateVars, budget,
        SingleCreator
  <2>5. SingleFulfiller'
    BY <1>0, <1>11, <2>1 DEF CancelPayment, Goto, rowVars, grantVars, rebateVars, budget,
        SingleFulfiller
  <2> QED
    BY <1>0, <2>2, <2>3, <2>4, <2>5
<1>12. ASSUME NEW w \in Workers, MarkCancelled(w) PROVE IInv'
  <2>1. job[w].order \in Orders
    BY <1>0, <1>12, BusyWorker DEF MarkCancelled
  <2>2. ASSUME NEW p \in Orders PROVE OrderInv(p)'
    BY <1>0, <1>12, <2>1 DEF MarkCancelled, NoFault, MoveStatus, Fault, Return, grantVars,
        rebateVars, SetStatus
  <2>3. ASSUME NEW v \in Workers PROVE WorkerInv(v)'
    <3>1. CASE v = w
      BY <1>0, <1>12, <2>1, <3>1 DEF MarkCancelled, NoFault, MoveStatus, Fault, Return, grantVars,
        rebateVars,
        SetStatus
    <3>2. CASE v # w
      <4>1. pc'[v] = pc[v] /\ job'[v] = job[v]
        BY <1>0, <1>12, <3>2, Bystander DEF Step
      <4>2. pc[v] # "idle" => job[v].order \in Orders
        BY <1>0, BusyWorker
      <4> QED
        BY <1>0, <1>12, <2>1, <3>2, <4>1, <4>2 DEF MarkCancelled, MoveStatus, grantVars,
        rebateVars, SetStatus,
        SingleFulfiller, SingleCreator
    <3> QED
      BY <3>1, <3>2
  <2>4. SingleCreator'
    BY <1>0, <1>12, <2>1 DEF MarkCancelled, NoFault, MoveStatus, Fault, Return, grantVars,
        rebateVars,
        SetStatus, SingleCreator
  <2>5. SingleFulfiller'
    BY <1>0, <1>12, <2>1 DEF MarkCancelled, NoFault, MoveStatus, Fault, Return, grantVars,
        rebateVars,
        SetStatus, SingleFulfiller
  <2> QED
    BY <1>0, <2>2, <2>3, <2>4, <2>5
<1>13. ASSUME NEW w \in Workers, PersistTradeNo(w) PROVE IInv'
  <2>1. job[w].order \in Orders
    BY <1>0, <1>13, BusyWorker DEF PersistTradeNo
  <2> QED
    BY <1>0, <1>13, <2>1 DEF PersistTradeNo, NoFault, Fault, Goto, grantVars, rebateVars,
        SingleFulfiller,
        SingleCreator
<1>14. ASSUME NEW w \in Workers, ConfirmPayment(w) PROVE IInv'
  <2>1. job[w].order \in Orders
    BY <1>0, <1>14, BusyWorker DEF ConfirmPayment
  <2>2. ASSUME NEW p \in Orders PROVE OrderInv(p)'
    BY <1>0, <1>14, <2>1 DEF ConfirmPayment, NoFault, AmountAccepted, Return, Payable, MarkPaid,
        Goto, Fault, grantVars, rebateVars, SetStatus
  <2>3. ASSUME NEW v \in Workers PROVE WorkerInv(v)'
    <3>1. CASE v = w
      BY <1>0, <1>14, <2>1, <3>1 DEF ConfirmPayment, NoFault, AmountAccepted, Return, Payable,
        MarkPaid, Goto, Fault, grantVars, rebateVars, SetStatus
    <3>2. CASE v # w
      <4>1. pc'[v] = pc[v] /\ job'[v] = job[v]
        BY <1>0, <1>14, <3>2, Bystander DEF Step
      <4>2. pc[v] # "idle" => job[v].order \in Orders
        BY <1>0, BusyWorker
      <4> QED
        BY <1>0, <1>14, <2>1, <3>2, <4>1, <4>2 DEF ConfirmPayment, AmountAccepted, Payable,
        MarkPaid, grantVars, rebateVars, SetStatus, SingleFulfiller, SingleCreator
    <3> QED
      BY <3>1, <3>2
  <2>4. SingleCreator'
    BY <1>0, <1>14, <2>1 DEF ConfirmPayment, NoFault, AmountAccepted, Return, Payable, MarkPaid,
        Goto, Fault, grantVars, rebateVars, SetStatus, SingleCreator
  <2>5. SingleFulfiller'
    BY <1>0, <1>14, <2>1 DEF ConfirmPayment, NoFault, AmountAccepted, Return, Payable, MarkPaid,
        Goto, Fault, grantVars, rebateVars, SetStatus, SingleFulfiller
  <2> QED
    BY <1>0, <2>2, <2>3, <2>4, <2>5
<1>15. ASSUME NEW w \in Workers, AlreadyProcessed(w) PROVE IInv'
  <2>1. job[w].order \in Orders
    BY <1>0, <1>15, BusyWorker DEF AlreadyProcessed
  <2>2. ASSUME NEW p \in Orders PROVE OrderInv(p)'
    BY <1>0, <1>15, <2>1 DEF AlreadyProcessed, NoFault, Goto, Return, Fault, rowVars, grantVars,
        rebateVars
  <2>3. ASSUME NEW v \in Workers PROVE WorkerInv(v)'
    BY <1>0, <1>15, <2>1 DEF AlreadyProcessed, NoFault, Goto, Return, Fault, rowVars, grantVars,
        rebateVars,
        SingleFulfiller, SingleCreator
  <2>4. SingleCreator'
    BY <1>0, <1>15, <2>1 DEF AlreadyProcessed, NoFault, Goto, Return, Fault, rowVars, grantVars,
        rebateVars,
        SingleCreator
  <2>5. SingleFulfiller'
    BY <1>0, <1>15, <2>1 DEF AlreadyProcessed, NoFault, Goto, Return, Fault, rowVars, grantVars,
        rebateVars,
        SingleFulfiller
  <2> QED
    BY <1>0, <2>2, <2>3, <2>4, <2>5
<1>16. ASSUME NEW w \in Workers, ResetForRetry(w) PROVE IInv'
  <2>1. job[w].order \in Orders
    BY <1>0, <1>16, BusyWorker DEF ResetForRetry
  <2>2. ASSUME NEW p \in Orders PROVE OrderInv(p)'
    BY <1>0, <1>16, <2>1 DEF ResetForRetry, NoFault, MoveStatus, Goto, Fault, Return, grantVars,
        rebateVars,
        SetStatus
  <2>3. ASSUME NEW v \in Workers PROVE WorkerInv(v)'
    <3>1. CASE v = w
      BY <1>0, <1>16, <2>1, <3>1 DEF ResetForRetry, NoFault, MoveStatus, Goto, Fault, Return,
        grantVars, rebateVars, SetStatus
    <3>2. CASE v # w
      <4>1. pc'[v] = pc[v] /\ job'[v] = job[v]
        BY <1>0, <1>16, <3>2, Bystander DEF Step
      <4>2. pc[v] # "idle" => job[v].order \in Orders
        BY <1>0, BusyWorker
      <4> QED
        BY <1>0, <1>16, <2>1, <3>2, <4>1, <4>2 DEF ResetForRetry, MoveStatus, grantVars,
        rebateVars, SetStatus,
        SingleFulfiller, SingleCreator
    <3> QED
      BY <3>1, <3>2
  <2>4. SingleCreator'
    BY <1>0, <1>16, <2>1 DEF ResetForRetry, NoFault, MoveStatus, Goto, Fault, Return, grantVars,
        rebateVars,
        SetStatus, SingleCreator
  <2>5. SingleFulfiller'
    BY <1>0, <1>16, <2>1 DEF ResetForRetry, NoFault, MoveStatus, Goto, Fault, Return, grantVars,
        rebateVars,
        SetStatus, SingleFulfiller
  <2> QED
    BY <1>0, <2>2, <2>3, <2>4, <2>5
<1>17. ASSUME NEW w \in Workers, LoadOrder(w) PROVE IInv'
  <2>1. job[w].order \in Orders
    BY <1>0, <1>17, BusyWorker DEF LoadOrder
  <2> QED
    BY <1>0, <1>17, <2>1 DEF LoadOrder, NoFault, Return, Goto, Fault, rowVars, grantVars,
        rebateVars,
        SingleFulfiller, SingleCreator
<1>18. ASSUME NEW w \in Workers, LockRecharging(w) PROVE IInv'
  <2>1. job[w].order \in Orders
    BY <1>0, <1>18, BusyWorker DEF LockRecharging
  <2>2. ASSUME NEW p \in Orders PROVE OrderInv(p)'
    BY <1>0, <1>18, <2>1 DEF LockRecharging, NoFault, Lockable, SetStatus, Goto, Return, Fault,
        grantVars, rebateVars
  <2>3. ASSUME NEW v \in Workers PROVE WorkerInv(v)'
    <3>1. CASE v = w
      BY <1>0, <1>18, <2>1, <3>1 DEF LockRecharging, NoFault, Lockable, SetStatus, Goto, Return,
        Fault, grantVars, rebateVars
    <3>2. CASE v # w
      <4>1. pc'[v] = pc[v] /\ job'[v] = job[v]
        BY <1>0, <1>18, <3>2, Bystander DEF Step
      <4>2. pc[v] # "idle" => job[v].order \in Orders
        BY <1>0, BusyWorker
      <4> QED
        BY <1>0, <1>18, <2>1, <3>2, <4>1, <4>2 DEF LockRecharging, Lockable, SetStatus, grantVars,
        rebateVars,
        SingleFulfiller, SingleCreator
    <3> QED
      BY <3>1, <3>2
  <2>4. SingleCreator'
    BY <1>0, <1>18, <2>1 DEF LockRecharging, NoFault, Lockable, SetStatus, Goto, Return, Fault,
        grantVars, rebateVars, SingleCreator
  <2>5. SingleFulfiller'
    BY <1>0, <1>18, <2>1 DEF LockRecharging, NoFault, Lockable, SetStatus, Goto, Return, Fault,
        grantVars, rebateVars, SingleFulfiller
  <2> QED
    BY <1>0, <2>2, <2>3, <2>4, <2>5
<1>19. ASSUME NEW w \in Workers, Resolve(w) PROVE IInv'
  <2>1. /\ job[w].order \in Orders /\ pc[w] = "resolve" /\ UNCHANGED <<rowVars, grantVars, upstream>>
        /\ Goto(w, pc'[w]) /\ pc'[w] \in {"mint", "redeem", "assign", "rebate", "fail"}
    BY <1>0, <1>19, BusyWorker DEF Resolve, Goto
  <2>2. ASSUME NEW p \in Orders PROVE OrderInv(p)'
    BY <1>0, <2>1, <2>2 DEF Goto, rowVars, grantVars, rebateVars
  <2>3. ASSUME NEW v \in Workers PROVE WorkerInv(v)'
    <3>1. CASE v = w
      <4>1. /\ pc'[w] \in {"mint", "redeem"} => job[w].order \notin Subscription
            /\ pc'[w] = "assign" => job[w].order \in Subscription
            /\ pc'[w] = "rebate" => grants[job[w].order] > 0
        BY <1>0, <1>19, <2>1 DEF Resolve, AlreadyAssigned, Goto
      <4> QED
        BY <1>0, <2>1, <3>1, <4>1 DEF Goto, rowVars, grantVars, rebateVars
    <3>2. CASE v # w
      BY <1>0, <2>1, <3>2 DEF Goto, rowVars, grantVars, rebateVars
    <3> QED
      BY <3>1, <3>2
  <2>4. SingleCreator' /\ SingleFulfiller'
    BY <1>0, <2>1 DEF Goto, SingleCreator, SingleFulfiller
  <2> QED
    BY <1>0, <2>2, <2>3, <2>4
<1>20. ASSUME NEW w \in Workers, CreateCode(w) PROVE IInv'
  <2>1. job[w].order \in Orders
    BY <1>0, <1>20, BusyWorker DEF CreateCode
  <2> QED
    BY <1>0, <1>20, <2>1 DEF CreateCode, NoFault, Goto, Fault, rowVars, rebateVars, SingleFulfiller,
        SingleCreator
<1>21. ASSUME NEW w \in Workers, Redeem(w) PROVE IInv'
  <2>1. job[w].order \in Orders
    BY <1>0, <1>21, BusyWorker DEF Redeem
  <2>2. ASSUME NEW p \in Orders PROVE OrderInv(p)'
    BY <1>0, <1>21, <2>1 DEF Redeem, NoFault, UseCode, Goto, Fault, rowVars, rebateVars
  <2>3. ASSUME NEW v \in Workers PROVE WorkerInv(v)'
    <3>1. CASE v = w
      BY <1>0, <1>21, <2>1, <3>1 DEF Redeem, NoFault, UseCode, Goto, Fault, rowVars, rebateVars
    <3>2. CASE v # w
      <4>1. pc'[v] = pc[v] /\ job'[v] = job[v]
        BY <1>0, <1>21, <3>2, Bystander DEF Step
      <4>2. pc[v] # "idle" => job[v].order \in Orders
        BY <1>0, BusyWorker
      <4> QED
        BY <1>0, <1>21, <2>1, <3>2, <4>1, <4>2 DEF Redeem, UseCode, rowVars, rebateVars,
        SingleFulfiller,
        SingleCreator
    <3> QED
      BY <3>1, <3>2
  <2>4. SingleCreator'
    BY <1>0, <1>21, <2>1 DEF Redeem, NoFault, UseCode, Goto, Fault, rowVars, rebateVars,
        SingleCreator
  <2>5. SingleFulfiller'
    BY <1>0, <1>21, <2>1 DEF Redeem, NoFault, UseCode, Goto, Fault, rowVars, rebateVars,
        SingleFulfiller
  <2> QED
    BY <1>0, <2>2, <2>3, <2>4, <2>5
<1>22. ASSUME NEW w \in Workers, AssignOrExtendSubscription(w) PROVE IInv'
  <2>1. job[w].order \in Orders
    BY <1>0, <1>22, BusyWorker DEF AssignOrExtendSubscription
  <2>2. ASSUME NEW p \in Orders PROVE OrderInv(p)'
    BY <1>0, <1>22, <2>1 DEF AssignOrExtendSubscription, NoFault, Goto, Fault, rowVars, rebateVars
  <2>3. ASSUME NEW v \in Workers PROVE WorkerInv(v)'
    <3>1. CASE v = w
      BY <1>0, <1>22, <2>1, <3>1 DEF AssignOrExtendSubscription, NoFault, Goto, Fault, rowVars,
        rebateVars
    <3>2. CASE v # w
      <4>1. pc'[v] = pc[v] /\ job'[v] = job[v]
        BY <1>0, <1>22, <3>2, Bystander DEF Step
      <4>2. pc[v] # "idle" => job[v].order \in Orders
        BY <1>0, BusyWorker
      <4> QED
        BY <1>0, <1>22, <2>1, <3>2, <4>1, <4>2 DEF AssignOrExtendSubscription, rowVars, rebateVars,
        SingleFulfiller, SingleCreator
    <3> QED
      BY <3>1, <3>2
  <2>4. SingleCreator'
    BY <1>0, <1>22, <2>1 DEF AssignOrExtendSubscription, NoFault, Goto, Fault, rowVars, rebateVars,
        SingleCreator
  <2>5. SingleFulfiller'
    BY <1>0, <1>22, <2>1 DEF AssignOrExtendSubscription, NoFault, Goto, Fault, rowVars, rebateVars,
        SingleFulfiller
  <2> QED
    BY <1>0, <2>2, <2>3, <2>4, <2>5
<1>23. ASSUME NEW w \in Workers, RecordAssigned(w) PROVE IInv'
  <2>1. job[w].order \in Orders
    BY <1>0, <1>23, BusyWorker DEF RecordAssigned
  <2> QED
    BY <1>0, <1>23, <2>1 DEF RecordAssigned, NoFault, Fault, Goto, rowVars, rebateVars,
        SingleFulfiller,
        SingleCreator
<1>24. ASSUME NEW w \in Workers, ApplyAffiliateRebate(w) PROVE IInv'
  <2>1. job[w].order \in Orders
    BY <1>0, <1>24, BusyWorker DEF ApplyAffiliateRebate
  <2>2. ASSUME NEW p \in Orders PROVE OrderInv(p)'
    BY <1>0, <1>24, <2>1 DEF ApplyAffiliateRebate, NoFault, SettleRebate, Goto, Fault, rowVars,
        rebateVars
  <2>3. ASSUME NEW v \in Workers PROVE WorkerInv(v)'
    <3>1. CASE v = w
      BY <1>0, <1>24, <2>1, <3>1 DEF ApplyAffiliateRebate, NoFault, SettleRebate, Goto, Fault,
        rowVars, rebateVars
    <3>2. CASE v # w
      <4>1. pc'[v] = pc[v] /\ job'[v] = job[v]
        BY <1>0, <1>24, <3>2, Bystander DEF Step
      <4>2. pc[v] # "idle" => job[v].order \in Orders
        BY <1>0, BusyWorker
      <4> QED
        BY <1>0, <1>24, <2>1, <3>2, <4>1, <4>2 DEF ApplyAffiliateRebate, SettleRebate, rowVars,
        rebateVars,
        SingleFulfiller, SingleCreator
    <3> QED
      BY <3>1, <3>2
  <2>4. SingleCreator'
    BY <1>0, <1>24, <2>1 DEF ApplyAffiliateRebate, NoFault, SettleRebate, Goto, Fault, rowVars,
        rebateVars,
        SingleCreator
  <2>5. SingleFulfiller'
    BY <1>0, <1>24, <2>1 DEF ApplyAffiliateRebate, NoFault, SettleRebate, Goto, Fault, rowVars,
        rebateVars,
        SingleFulfiller
  <2> QED
    BY <1>0, <2>2, <2>3, <2>4, <2>5
<1>25. ASSUME NEW w \in Workers, MarkCompleted(w) PROVE IInv'
  <2>1. job[w].order \in Orders
    BY <1>0, <1>25, BusyWorker DEF MarkCompleted
  <2>2. ASSUME NEW p \in Orders PROVE OrderInv(p)'
    BY <1>0, <1>25, <2>1 DEF MarkCompleted, NoFault, MoveStatus, Return, Fault, Goto, grantVars,
        rebateVars,
        SetStatus
  <2>3. ASSUME NEW v \in Workers PROVE WorkerInv(v)'
    <3>1. CASE v = w
      BY <1>0, <1>25, <2>1, <3>1 DEF MarkCompleted, NoFault, MoveStatus, Return, Fault, Goto,
        grantVars, rebateVars, SetStatus
    <3>2. CASE v # w
      <4>1. pc'[v] = pc[v] /\ job'[v] = job[v]
        BY <1>0, <1>25, <3>2, Bystander DEF Step
      <4>2. pc[v] # "idle" => job[v].order \in Orders
        BY <1>0, BusyWorker
      <4> QED
        BY <1>0, <1>25, <2>1, <3>2, <4>1, <4>2 DEF MarkCompleted, MoveStatus, grantVars,
        rebateVars, SetStatus,
        SingleFulfiller, SingleCreator
    <3> QED
      BY <3>1, <3>2
  <2>4. SingleCreator'
    BY <1>0, <1>25, <2>1 DEF MarkCompleted, NoFault, MoveStatus, Return, Fault, Goto, grantVars,
        rebateVars,
        SetStatus, SingleCreator
  <2>5. SingleFulfiller'
    BY <1>0, <1>25, <2>1 DEF MarkCompleted, NoFault, MoveStatus, Return, Fault, Goto, grantVars,
        rebateVars,
        SetStatus, SingleFulfiller
  <2> QED
    BY <1>0, <2>2, <2>3, <2>4, <2>5
<1>26. ASSUME NEW w \in Workers, MarkFailed(w) PROVE IInv'
  <2>1. job[w].order \in Orders
    BY <1>0, <1>26, BusyWorker DEF MarkFailed
  <2>2. ASSUME NEW p \in Orders PROVE OrderInv(p)'
    BY <1>0, <1>26, <2>1 DEF MarkFailed, NoFault, MoveStatus, Fault, Return, grantVars,
        rebateVars, SetStatus
  <2>3. ASSUME NEW v \in Workers PROVE WorkerInv(v)'
    <3>1. CASE v = w
      BY <1>0, <1>26, <2>1, <3>1 DEF MarkFailed, NoFault, MoveStatus, Fault, Return, grantVars,
        rebateVars,
        SetStatus
    <3>2. CASE v # w
      <4>1. pc'[v] = pc[v] /\ job'[v] = job[v]
        BY <1>0, <1>26, <3>2, Bystander DEF Step
      <4>2. pc[v] # "idle" => job[v].order \in Orders
        BY <1>0, BusyWorker
      <4> QED
        BY <1>0, <1>26, <2>1, <3>2, <4>1, <4>2 DEF MarkFailed, MoveStatus, grantVars, rebateVars,
        SetStatus,
        SingleFulfiller, SingleCreator
    <3> QED
      BY <3>1, <3>2
  <2>4. SingleCreator'
    BY <1>0, <1>26, <2>1 DEF MarkFailed, NoFault, MoveStatus, Fault, Return, grantVars,
        rebateVars, SetStatus,
        SingleCreator
  <2>5. SingleFulfiller'
    BY <1>0, <1>26, <2>1 DEF MarkFailed, NoFault, MoveStatus, Fault, Return, grantVars,
        rebateVars, SetStatus,
        SingleFulfiller
  <2> QED
    BY <1>0, <2>2, <2>3, <2>4, <2>5
<1>27. ASSUME NEW w \in Workers, Crash(w) PROVE IInv'
  <2>1. job[w].order \in Orders
    BY <1>0, <1>27, BusyWorker DEF Crash
  <2> QED
    BY <1>0, <1>27, <2>1 DEF Crash, rowVars, grantVars, rebateVars, SingleFulfiller, SingleCreator
<1>28. ASSUME NEW o \in Orders, UserPays(o) PROVE IInv'
  BY <1>0, <1>28 DEF UserPays, BeingCreated, rowVars, grantVars, rebateVars, workVars, budget,
        SingleFulfiller,
        SingleCreator
<1>29. ASSUME NEW o \in Orders, OrderTimesOut(o) PROVE IInv'
  BY <1>0, <1>29 DEF OrderTimesOut, BeingCreated, rowVars, grantVars, rebateVars, workVars, budget,
        SingleFulfiller, SingleCreator
<1>30. ASSUME NEW o \in Orders, GraceRunsOut(o) PROVE IInv'
  BY <1>0, <1>30 DEF GraceRunsOut, grantVars, rebateVars, workVars, budget, SingleFulfiller,
        SingleCreator
<1>31. ASSUME NEW o \in Orders, RedeemByHand(o) PROVE IInv'
  BY <1>0, <1>31 DEF RedeemByHand, rowVars, rebateVars, workVars, budget, SingleFulfiller,
        SingleCreator
<1>32. ASSUME NEW o \in Orders, RefundBegins(o) PROVE IInv'
  BY <1>0, <1>32 DEF RefundBegins, SetStatus, grantVars, rebateVars, workVars, budget,
        SingleFulfiller,
        SingleCreator
<1>33. CASE UNCHANGED vars
  BY <1>0, <1>33 DEF vars, rowVars, grantVars, rebateVars, workVars, budget, OrderInv, WorkerInv,
                    SingleCreator, SingleFulfiller
<1>34. ASSUME NEW o \in Orders, GroupSwitched(o) PROVE IInv'
  BY <1>0, <1>34 DEF GroupSwitched, rowVars, rebateVars, workVars, budget, SingleFulfiller,
        SingleCreator
<1> QED
  BY <1>1, <1>2, <1>3, <1>4, <1>5, <1>6, <1>7, <1>8, <1>9, <1>10, <1>11, <1>12, <1>13, <1>14, <1>15,
        <1>16, <1>17, <1>18, <1>19, <1>20, <1>21, <1>22, <1>23, <1>24, <1>25, <1>26, <1>27, <1>28,
        <1>29, <1>30, <1>31, <1>32, <1>33, <1>34 DEF Next, Entry, Step, Environment

-----------------------------------------------------------------------------
(* What follows from it. *)

\* The inductive invariant holds in every behaviour of the payment service.
THEOREM Invariance == Spec => []IInv
BY IInvInit, IInvStep, PTL DEF Spec

\* At most one handler fulfils an order, for any number of servers, redeliveries,
\* retries, faults and crashes.
THEOREM MutualExclusion == Spec => []SingleFulfiller
<1>1. IInv => SingleFulfiller
  BY DEF IInv
<1> QED
  BY <1>1, Invariance, PTL

\* Nothing is credited, settled or completed before the provider holds the money.
THEOREM PaidFirst == Spec => []NoGrantWithoutPayment
<1>1. IInv => NoGrantWithoutPayment
  BY DEF IInv, OrderInv, Accepted, NoGrantWithoutPayment, TypeOK, GrantType
<1> QED
  BY <1>1, Invariance, PTL

\* doBalance credits an order at most once.
THEOREM CreditedOnce == Spec => []BalanceCreditedOnce
<1>1. IInv => BalanceCreditedOnce
  BY DEF IInv, OrderInv, BalanceCreditedOnce, Balance
<1> QED
  BY <1>1, Invariance, PTL

\* A completed order was granted and its rebate settled; over all retries
\* applyAffiliateRebateForOrder accrues it once, and only a redemption of the code by
\* hand accrues another.
THEOREM CompletedGranted == Spec => []CompletedIsGranted
<1>1. IInv => CompletedIsGranted
  BY DEF IInv, OrderInv, RebatesCounted, Final, CompletedIsGranted
<1> QED
  BY <1>1, Invariance, PTL

-----------------------------------------------------------------------------
(* The action property and the refinement, one step at a time. *)

\* What one step may do to an order: nothing, or one of five changes of what
\* PaidOrder describes.
Kept(o) ==
    /\ upstream'[o] = "paid" <=> upstream[o] = "paid"
    /\ grants'[o] = grants[o]
    /\ settled'[o] = settled[o]
    /\ rebates'[o] = rebates[o]
    /\ status'[o] \in Final <=> status[o] \in Final

\* A step that keeps this of all balance orders is a stutter of PaidOrder.
LEMMA KeptStutters == (\A o \in Balance : Kept(o)) => UNCHANGED Promise!vars
BY DEF Kept, Balance, Final, Promise!vars

\* UserPays is Pay, the redemption by the service is Credit and the one by the user
\* HandOut, the claim of the rebate is Settle, the update to COMPLETED is Finish, and
\* every other step stutters.
LEMMA PromiseStep == IInv /\ [Next]_vars => [Promise!Next]_(Promise!vars)
<1> SUFFICES ASSUME IInv, [Next]_vars PROVE [Promise!Next]_(Promise!vars)
  OBVIOUS
<1>0. TypeOK /\ (\A o \in Orders : OrderInv(o)) /\ (\A w \in Workers : WorkerInv(w))
  BY DEF IInv
<1> USE DEF TypeOK, RowType, GrantType, Final, Balance
<1>1. ASSUME NEW w \in Workers, NEW o \in Orders, CreateOrder(w, o)
      PROVE [Promise!Next]_(Promise!vars)
  <2>2. ASSUME NEW p \in Balance PROVE Kept(p)
    BY <1>0, <1>1 DEF CreateOrder, SetStatus, grantVars, rebateVars, budget, Kept, WorkerInv
  <2> QED
    BY <2>2, KeptStutters
<1>2. ASSUME NEW w \in Workers, InvokeProvider(w) PROVE [Promise!Next]_(Promise!vars)
  <2>1. job[w].order \in Orders /\ WorkerInv(w)
    BY <1>0, <1>2, BusyWorker DEF InvokeProvider
  <2>2. ASSUME NEW p \in Balance PROVE Kept(p)
    BY <1>0, <1>2, <2>1 DEF InvokeProvider, grantVars, rebateVars, Kept, WorkerInv
  <2> QED
    BY <2>2, KeptStutters
<1>3. ASSUME NEW w \in Workers, AbortCreate(w) PROVE [Promise!Next]_(Promise!vars)
  <2>1. job[w].order \in Orders /\ WorkerInv(w)
    BY <1>0, <1>3, BusyWorker DEF AbortCreate
  <2>2. ASSUME NEW p \in Balance PROVE Kept(p)
    BY <1>0, <1>3, <2>1 DEF AbortCreate, SetStatus, grantVars, rebateVars, Kept, WorkerInv,
        OrderInv, Accepted
  <2> QED
    BY <2>2, KeptStutters
<1>4. ASSUME NEW w \in Workers, CancelPayment(w) PROVE [Promise!Next]_(Promise!vars)
  <2>1. job[w].order \in Orders /\ WorkerInv(w)
    BY <1>0, <1>4, BusyWorker DEF CancelPayment
  <2>2. ASSUME NEW p \in Balance PROVE Kept(p)
    BY <1>0, <1>4, <2>1 DEF CancelPayment, rowVars, grantVars, rebateVars, budget, Kept, WorkerInv
  <2> QED
    BY <2>2, KeptStutters
<1>5. ASSUME NEW w \in Workers, MarkCancelled(w) PROVE [Promise!Next]_(Promise!vars)
  <2>1. job[w].order \in Orders /\ WorkerInv(w)
    BY <1>0, <1>5, BusyWorker DEF MarkCancelled
  <2>2. ASSUME NEW p \in Balance PROVE Kept(p)
    BY <1>0, <1>5, <2>1 DEF MarkCancelled, MoveStatus, grantVars, rebateVars, SetStatus, Kept,
        WorkerInv
  <2> QED
    BY <2>2, KeptStutters
<1>6. ASSUME NEW w \in Workers, PersistTradeNo(w) PROVE [Promise!Next]_(Promise!vars)
  <2>1. job[w].order \in Orders /\ WorkerInv(w)
    BY <1>0, <1>6, BusyWorker DEF PersistTradeNo
  <2>2. ASSUME NEW p \in Balance PROVE Kept(p)
    BY <1>0, <1>6, <2>1 DEF PersistTradeNo, grantVars, rebateVars, Kept, WorkerInv
  <2> QED
    BY <2>2, KeptStutters
<1>7. ASSUME NEW w \in Workers, ConfirmPayment(w) PROVE [Promise!Next]_(Promise!vars)
  <2>1. job[w].order \in Orders /\ WorkerInv(w)
    BY <1>0, <1>7, BusyWorker DEF ConfirmPayment
  <2>2. ASSUME NEW p \in Balance PROVE Kept(p)
    BY <1>0, <1>7, <2>1 DEF ConfirmPayment, AmountAccepted, Payable, MarkPaid, grantVars,
        rebateVars, SetStatus,
        Kept, WorkerInv
  <2> QED
    BY <2>2, KeptStutters
<1>8. ASSUME NEW w \in Workers, ResetForRetry(w) PROVE [Promise!Next]_(Promise!vars)
  <2>1. job[w].order \in Orders /\ WorkerInv(w)
    BY <1>0, <1>8, BusyWorker DEF ResetForRetry
  <2>2. ASSUME NEW p \in Balance PROVE Kept(p)
    BY <1>0, <1>8, <2>1 DEF ResetForRetry, MoveStatus, grantVars, rebateVars, SetStatus, Kept,
        WorkerInv
  <2> QED
    BY <2>2, KeptStutters
<1>9. ASSUME NEW w \in Workers, LockRecharging(w) PROVE [Promise!Next]_(Promise!vars)
  <2>1. job[w].order \in Orders /\ WorkerInv(w)
    BY <1>0, <1>9, BusyWorker DEF LockRecharging
  <2>2. ASSUME NEW p \in Balance PROVE Kept(p)
    BY <1>0, <1>9, <2>1 DEF LockRecharging, Lockable, SetStatus, grantVars, rebateVars, Kept,
        WorkerInv
  <2> QED
    BY <2>2, KeptStutters
<1>10. ASSUME NEW w \in Workers, CreateCode(w) PROVE [Promise!Next]_(Promise!vars)
  <2>1. job[w].order \in Orders /\ WorkerInv(w)
    BY <1>0, <1>10, BusyWorker DEF CreateCode
  <2>2. ASSUME NEW p \in Balance PROVE Kept(p)
    BY <1>0, <1>10, <2>1 DEF CreateCode, rowVars, rebateVars, Kept, WorkerInv
  <2> QED
    BY <2>2, KeptStutters
<1>11. ASSUME NEW w \in Workers, Redeem(w) PROVE [Promise!Next]_(Promise!vars)
  <2>0. job[w].order \in Orders
    BY <1>0, <1>11, BusyWorker DEF Redeem
  <2>o. PICK o \in Orders : o = job[w].order
    BY <2>0
  <2>1. WorkerInv(w) /\ OrderInv(o)
    BY <1>0
  <2>2. CASE UseCode(o)
    <3>1. code[o] = "unused" /\ grants[o] = 0 /\ upstream[o] = "paid" /\ o \in Balance
      BY <1>0, <1>11, <2>1, <2>o, <2>2 DEF Redeem, UseCode, rowVars, rebateVars, Fulfilling,
        WorkerInv, OrderInv
    <3>2. [p \in Balance |-> grants'[p]] = [[p \in Balance |-> grants[p]] EXCEPT ![o] = 1]
      <4>1. grants' = [grants EXCEPT ![o] = grants[o] + 1]
        BY <1>0, <1>11, <2>1, <2>o, <2>2, <3>1 DEF Redeem, UseCode, rowVars, rebateVars
      <4>2. grants \in [Orders -> Nat] /\ grants[o] = 0 /\ o \in Balance /\ Balance \in SUBSET Orders
        BY <1>0, <2>2, <3>1
      <4>3. \A p \in Balance : grants'[p] = IF p = o THEN 1 ELSE grants[p]
        BY <4>1, <4>2
      <4> QED
        BY <4>2, <4>3
    <3>3. Promise!Credit(o)
      BY <1>0, <1>11, <2>1, <2>o, <2>2, <3>1, <3>2 DEF Redeem, UseCode, rowVars, rebateVars,
        Promise!Credit
    <3> QED
      BY <2>2, <3>1, <3>3 DEF Promise!Next
  <2>3. CASE ~(UseCode(o))
    <3>1. ASSUME NEW p \in Balance PROVE Kept(p)
      BY <1>0, <1>11, <2>1, <2>o, <2>3 DEF Redeem, UseCode, rowVars, rebateVars, Kept, WorkerInv,
        OrderInv,
        Fulfilling
    <3> QED
      BY <3>1, KeptStutters
  <2> QED
    BY <2>2, <2>3
<1>12. ASSUME NEW w \in Workers, AssignOrExtendSubscription(w) PROVE [Promise!Next]_(Promise!vars)
  <2>1. job[w].order \in Orders /\ WorkerInv(w)
    BY <1>0, <1>12, BusyWorker DEF AssignOrExtendSubscription
  <2>2. ASSUME NEW p \in Balance PROVE Kept(p)
    BY <1>0, <1>12, <2>1 DEF AssignOrExtendSubscription, rowVars, rebateVars, Kept, WorkerInv
  <2> QED
    BY <2>2, KeptStutters
<1>13. ASSUME NEW w \in Workers, RecordAssigned(w) PROVE [Promise!Next]_(Promise!vars)
  <2>1. job[w].order \in Orders /\ WorkerInv(w)
    BY <1>0, <1>13, BusyWorker DEF RecordAssigned
  <2>2. ASSUME NEW p \in Balance PROVE Kept(p)
    BY <1>0, <1>13, <2>1 DEF RecordAssigned, rowVars, rebateVars, Kept, WorkerInv
  <2> QED
    BY <2>2, KeptStutters
<1>14. ASSUME NEW w \in Workers, ApplyAffiliateRebate(w) PROVE [Promise!Next]_(Promise!vars)
  <2>0. job[w].order \in Orders
    BY <1>0, <1>14, BusyWorker DEF ApplyAffiliateRebate
  <2>o. PICK o \in Orders : o = job[w].order
    BY <2>0
  <2>1. WorkerInv(w) /\ OrderInv(o)
    BY <1>0
  <2>2. CASE SettleRebate(o) /\ ~settled[o] /\ o \in Balance
    <3>1. grants[o] = 1 /\ o \notin {p \in Balance : settled[p]}
      BY <1>0, <1>14, <2>1, <2>o, <2>2 DEF ApplyAffiliateRebate, Fulfilling, WorkerInv, OrderInv
    <3>2. {p \in Balance : settled'[p]} = {p \in Balance : settled[p]} \cup {o}
      BY <1>0, <2>2 DEF SettleRebate
    <3>3. [p \in Balance |-> rebates'[p]]
            = [[p \in Balance |-> rebates[p]] EXCEPT ![o] = rebates[o] + 1]
      <4>1. rebates' = [rebates EXCEPT ![o] = rebates[o] + 1]
        BY <1>0, <2>2 DEF SettleRebate
      <4>2. rebates \in [Orders -> Nat] /\ o \in Balance /\ Balance \in SUBSET Orders
        BY <1>0, <2>2
      <4>3. \A p \in Balance : rebates'[p] = IF p = o THEN rebates[o] + 1 ELSE rebates[p]
        BY <4>1, <4>2
      <4> QED
        BY <4>2, <4>3
    <3>4. UNCHANGED <<grants, upstream, status>>
      BY <1>14 DEF ApplyAffiliateRebate, rowVars
    <3>5. Promise!Settle(o)
      BY <2>2, <3>1, <3>2, <3>3, <3>4 DEF Promise!Settle
    <3> QED
      BY <2>2, <3>5 DEF Promise!Next
  <2>3. CASE ~(SettleRebate(o) /\ ~settled[o] /\ o \in Balance)
    <3>1. ASSUME NEW p \in Balance PROVE Kept(p)
      BY <1>0, <1>14, <2>1, <2>o, <2>3 DEF ApplyAffiliateRebate, SettleRebate, rowVars, Kept,
        WorkerInv, OrderInv, Fulfilling
    <3> QED
      BY <3>1, KeptStutters
  <2> QED
    BY <2>2, <2>3
<1>15. ASSUME NEW w \in Workers, MarkCompleted(w) PROVE [Promise!Next]_(Promise!vars)
  <2>0. job[w].order \in Orders
    BY <1>0, <1>15, BusyWorker DEF MarkCompleted
  <2>o. PICK o \in Orders : o = job[w].order
    BY <2>0
  <2>1. WorkerInv(w) /\ OrderInv(o)
    BY <1>0
  <2>2. CASE status'[o] = "COMPLETED" /\ o \in Balance
    <3>1. Promise!Finish(o)
      BY <1>0, <1>15, <2>1, <2>o, <2>2 DEF MarkCompleted, MoveStatus, grantVars, rebateVars,
        SetStatus,
        Fulfilling, WorkerInv, OrderInv, Promise!Finish
    <3> QED
      BY <2>2, <3>1 DEF Promise!Next
  <2>3. CASE ~(status'[o] = "COMPLETED" /\ o \in Balance)
    <3>1. ASSUME NEW p \in Balance PROVE Kept(p)
      BY <1>0, <1>15, <2>1, <2>o, <2>3 DEF MarkCompleted, MoveStatus, grantVars, rebateVars,
        SetStatus, Kept,
        WorkerInv, OrderInv, Fulfilling
    <3> QED
      BY <3>1, KeptStutters
  <2> QED
    BY <2>2, <2>3
<1>16. ASSUME NEW w \in Workers, MarkFailed(w) PROVE [Promise!Next]_(Promise!vars)
  <2>1. job[w].order \in Orders /\ WorkerInv(w)
    BY <1>0, <1>16, BusyWorker DEF MarkFailed
  <2>2. ASSUME NEW p \in Balance PROVE Kept(p)
    BY <1>0, <1>16, <2>1 DEF MarkFailed, MoveStatus, grantVars, rebateVars, SetStatus, Kept,
        WorkerInv
  <2> QED
    BY <2>2, KeptStutters
<1>17. ASSUME NEW o \in Orders, UserPays(o) PROVE [Promise!Next]_(Promise!vars)
  <2>1. OrderInv(o)
    BY <1>0
  <2>2. CASE upstream'[o] = "paid" /\ o \in Balance
    <3>1. Promise!Pay(o)
      BY <1>0, <1>17, <2>1, <2>2 DEF UserPays, rowVars, grantVars, rebateVars, workVars, budget,
        Fulfilling,
        WorkerInv, OrderInv, Promise!Pay
    <3> QED
      BY <2>2, <3>1 DEF Promise!Next
  <2>3. CASE ~(upstream'[o] = "paid" /\ o \in Balance)
    <3>1. ASSUME NEW p \in Balance PROVE Kept(p)
      BY <1>0, <1>17, <2>1, <2>3 DEF UserPays, rowVars, grantVars, rebateVars, workVars, budget,
        Kept,
        WorkerInv, OrderInv, Fulfilling
    <3> QED
      BY <3>1, KeptStutters
  <2> QED
    BY <2>2, <2>3
<1>18. ASSUME NEW o \in Orders, GraceRunsOut(o) PROVE [Promise!Next]_(Promise!vars)
  <2>2. ASSUME NEW p \in Balance PROVE Kept(p)
    BY <1>0, <1>18 DEF GraceRunsOut, grantVars, rebateVars, workVars, budget, Kept, WorkerInv
  <2> QED
    BY <2>2, KeptStutters
<1>19. ASSUME NEW o \in Orders, RedeemByHand(o) PROVE [Promise!Next]_(Promise!vars)
  <2>1. OrderInv(o)
    BY <1>0
  <2>2. CASE o \in Balance
    <3>1. code[o] = "unused" /\ grants[o] = 0 /\ upstream[o] = "paid" /\ o \in Balance
      BY <1>0, <1>19, <2>1, <2>2 DEF RedeemByHand, rowVars, rebateVars, workVars, budget,
        Fulfilling, WorkerInv,
        OrderInv
    <3>2. [p \in Balance |-> grants'[p]] = [[p \in Balance |-> grants[p]] EXCEPT ![o] = 1]
      <4>1. grants' = [grants EXCEPT ![o] = grants[o] + 1]
        BY <1>0, <1>19, <2>1, <2>2, <3>1 DEF RedeemByHand, rowVars, rebateVars, workVars, budget
      <4>2. grants \in [Orders -> Nat] /\ grants[o] = 0 /\ o \in Balance /\ Balance \in SUBSET Orders
        BY <1>0, <2>2, <3>1
      <4>3. \A p \in Balance : grants'[p] = IF p = o THEN 1 ELSE grants[p]
        BY <4>1, <4>2
      <4> QED
        BY <4>2, <4>3
    <3>3. [p \in Balance |-> rebates'[p]]
            \in {[p \in Balance |-> rebates[p]],
                 [[p \in Balance |-> rebates[p]] EXCEPT ![o] = rebates[o] + 1]}
      <4>1. CASE rebates' = rebates
        BY <4>1
      <4>2. CASE rebates' = [rebates EXCEPT ![o] = rebates[o] + 1]
        <5>1. rebates \in [Orders -> Nat] /\ o \in Balance /\ Balance \in SUBSET Orders
          BY <1>0, <2>2
        <5>2. \A p \in Balance : rebates'[p] = IF p = o THEN rebates[o] + 1 ELSE rebates[p]
          BY <4>2, <5>1
        <5> QED
          BY <5>1, <5>2
      <4> QED
        BY <1>19, <4>1, <4>2 DEF RedeemByHand
    <3>4. UNCHANGED <<settled, upstream, status>>
      BY <1>19 DEF RedeemByHand, rowVars
    <3>5. Promise!HandOut(o)
      BY <2>2, <3>1, <3>2, <3>3, <3>4 DEF Promise!HandOut
    <3> QED
      BY <2>2, <3>5 DEF Promise!Next
  <2>3. CASE ~(o \in Balance)
    <3>1. ASSUME NEW p \in Balance PROVE Kept(p)
      BY <1>0, <1>19, <2>1, <2>3 DEF RedeemByHand, rowVars, rebateVars, workVars, budget, Kept,
        WorkerInv,
        OrderInv, Fulfilling
    <3> QED
      BY <3>1, KeptStutters
  <2> QED
    BY <2>2, <2>3
<1>20. ASSUME NEW o \in Orders, RefundBegins(o) PROVE [Promise!Next]_(Promise!vars)
  <2>2. ASSUME NEW p \in Balance PROVE Kept(p)
    BY <1>0, <1>20 DEF RefundBegins, SetStatus, grantVars, rebateVars, workVars, budget, Kept,
        WorkerInv
  <2> QED
    BY <2>2, KeptStutters
<1>21. CASE UNCHANGED <<rowVars, grantVars, upstream>>
  BY <1>21, KeptStutters DEF rowVars, grantVars, rebateVars, Kept
<1>22. ASSUME NEW o \in Orders, GroupSwitched(o) PROVE [Promise!Next]_(Promise!vars)
  <2>2. ASSUME NEW p \in Balance PROVE Kept(p)
    BY <1>0, <1>22 DEF GroupSwitched, rowVars, rebateVars, Kept
  <2> QED
    BY <2>2, KeptStutters
<1> QED
  BY <1>1, <1>2, <1>3, <1>4, <1>5, <1>6, <1>7, <1>8, <1>9, <1>10, <1>11, <1>12, <1>13, <1>14, <1>15,
        <1>16, <1>17, <1>18, <1>19, <1>20, <1>21, <1>22 DEF Next, Entry, Step, Environment, vars,
     Webhook, CancelOrder, ExpireTimedOutOrder, ReconcilePendingWxpayOrder, VerifyOrderByOutTradeNo,
     RetryFulfillment, QueryUpstream, AlreadyProcessed, LoadOrder, Resolve, Crash, OrderTimesOut

\* Every behaviour of the payment service, seen through its balance orders, is one
\* of PaidOrder: credit once, after the money and before COMPLETED.
THEOREM KeepsPromise == Spec => PromiseKept
<1>1. Init => Promise!Init
  BY DEF Init, Promise!Init, Balance
<1> QED
  BY <1>1, Invariance, PromiseStep, PTL DEF Spec, PromiseKept, Promise!Spec

\* No update of a row takes an accepted order back.
StatusMoves(o) ==
    /\ status[o] \in {"PAID", "RECHARGING"}
         => status'[o] \in {"PAID", "RECHARGING", "COMPLETED", "FAILED"}
    /\ status[o] = "FAILED" /\ paidAt[o]
         => status'[o] \in {"FAILED", "PAID", "RECHARGING"}
    /\ status[o] = "COMPLETED" => status'[o] \in {"COMPLETED", "REFUNDING"}

\* Every update of the status column respects this, even where the row was read
\* some steps earlier.
LEMMA StatusStep == IInv /\ [Next]_vars => \A p \in Orders : StatusMoves(p)
<1> SUFFICES ASSUME IInv, [Next]_vars, NEW p \in Orders PROVE StatusMoves(p)
  OBVIOUS
<1>0. TypeOK /\ OrderInv(p) /\ (\A w \in Workers : WorkerInv(w))
  BY DEF IInv
<1> USE DEF TypeOK, RowType, StatusMoves
<1>1. ASSUME NEW w \in Workers, NEW o \in Orders, CreateOrder(w, o) PROVE StatusMoves(p)
  BY <1>0, <1>1 DEF CreateOrder, SetStatus, grantVars, rebateVars, budget
<1>2. ASSUME NEW w \in Workers, AbortCreate(w) PROVE StatusMoves(p)
  <2>1. job[w].order \in Orders /\ WorkerInv(w)
    BY <1>0, <1>2, BusyWorker DEF AbortCreate
  <2> QED
    BY <1>0, <1>2, <2>1 DEF AbortCreate, SetStatus, grantVars, rebateVars, WorkerInv, OrderInv,
        Accepted,
        Fulfilling
<1>3. ASSUME NEW w \in Workers, MarkCancelled(w) PROVE StatusMoves(p)
  <2>1. job[w].order \in Orders /\ WorkerInv(w)
    BY <1>0, <1>3, BusyWorker DEF MarkCancelled
  <2> QED
    BY <1>0, <1>3, <2>1 DEF MarkCancelled, MoveStatus, grantVars, rebateVars, SetStatus,
        WorkerInv, OrderInv,
        Accepted, Fulfilling
<1>4. ASSUME NEW w \in Workers, ConfirmPayment(w) PROVE StatusMoves(p)
  <2>1. job[w].order \in Orders /\ WorkerInv(w)
    BY <1>0, <1>4, BusyWorker DEF ConfirmPayment
  <2> QED
    BY <1>0, <1>4, <2>1 DEF ConfirmPayment, AmountAccepted, Payable, MarkPaid, grantVars,
        rebateVars, SetStatus,
        WorkerInv, OrderInv, Accepted, Fulfilling
<1>5. ASSUME NEW w \in Workers, ResetForRetry(w) PROVE StatusMoves(p)
  <2>1. job[w].order \in Orders /\ WorkerInv(w)
    BY <1>0, <1>5, BusyWorker DEF ResetForRetry
  <2> QED
    BY <1>0, <1>5, <2>1 DEF ResetForRetry, MoveStatus, grantVars, rebateVars, SetStatus,
        WorkerInv, OrderInv,
        Accepted, Fulfilling
<1>6. ASSUME NEW w \in Workers, LockRecharging(w) PROVE StatusMoves(p)
  <2>1. job[w].order \in Orders /\ WorkerInv(w)
    BY <1>0, <1>6, BusyWorker DEF LockRecharging
  <2> QED
    BY <1>0, <1>6, <2>1 DEF LockRecharging, Lockable, SetStatus, grantVars, rebateVars, WorkerInv,
        OrderInv,
        Accepted, Fulfilling
<1>7. ASSUME NEW w \in Workers, MarkCompleted(w) PROVE StatusMoves(p)
  <2>1. job[w].order \in Orders /\ WorkerInv(w)
    BY <1>0, <1>7, BusyWorker DEF MarkCompleted
  <2> QED
    BY <1>0, <1>7, <2>1 DEF MarkCompleted, MoveStatus, grantVars, rebateVars, SetStatus,
        WorkerInv, OrderInv,
        Accepted, Fulfilling
<1>8. ASSUME NEW w \in Workers, MarkFailed(w) PROVE StatusMoves(p)
  <2>1. job[w].order \in Orders /\ WorkerInv(w)
    BY <1>0, <1>8, BusyWorker DEF MarkFailed
  <2> QED
    BY <1>0, <1>8, <2>1 DEF MarkFailed, MoveStatus, grantVars, rebateVars, SetStatus, WorkerInv,
        OrderInv,
        Accepted, Fulfilling
<1>9. ASSUME NEW o \in Orders, RefundBegins(o) PROVE StatusMoves(p)
  BY <1>0, <1>9 DEF RefundBegins, SetStatus, grantVars, rebateVars, workVars, budget
<1>10. CASE UNCHANGED status
  BY <1>10
<1> QED
  BY <1>1, <1>2, <1>3, <1>4, <1>5, <1>6, <1>7, <1>8, <1>9, <1>10 DEF Next, Entry, Step,
     Environment, vars, rowVars, rebateVars, Webhook, CancelOrder, ExpireTimedOutOrder,
     ReconcilePendingWxpayOrder, VerifyOrderByOutTradeNo, RetryFulfillment, InvokeProvider, QueryUpstream, CancelPayment,
     PersistTradeNo, AlreadyProcessed, LoadOrder, Resolve, CreateCode, Redeem,
     AssignOrExtendSubscription, RecordAssigned, ApplyAffiliateRebate, Crash, UserPays,
     OrderTimesOut, GraceRunsOut, RedeemByHand, GroupSwitched

\* No cancellation, expiry or creation error takes an accepted order back.
THEOREM NeverTakenBack == Spec => PaidIsNeverTakenBack
<1>1. IInv /\ [Next]_vars => [\A o \in Orders : StatusMoves(o)]_vars
  BY StatusStep
<1> QED
  BY <1>1, Invariance, PTL DEF Spec, PaidIsNeverTakenBack, StatusMoves

-----------------------------------------------------------------------------
(* The extension of a subscription. *)

\* A subscription order has no code, and stays with its fulfiller once the extension is
\* on record and nothing has failed.
OrderOnce(o) ==
    /\ o \in Subscription => code[o] = "none"
    /\ assigned[o] => o \in Subscription
    /\ assigned[o] /\ faults = 0 => status[o] \in {"RECHARGING"} \cup Final

\* Whoever extends a subscription has looked, and once the extension is on record only
\* a failure ends its fulfilment.
WorkerOnce(w) == LET o == job[w].order IN
    /\ pc[w] = "assign" => ~assigned[o]
    /\ pc[w] = "resolve" /\ faults = 0 => ~assigned[o]
    /\ pc[w] = "fail" /\ o \in Subscription /\ faults = 0 => ~assigned[o]

OnceInv == (\A o \in Orders : OrderOnce(o)) /\ (\A w \in Workers : WorkerOnce(w))

\* Failures are counted up.
LEMMA FaultsGrow ==
    ASSUME TypeOK, [Next]_vars
    PROVE  faults \in Nat /\ faults' \in Nat /\ (faults' = faults \/ faults' = faults + 1)
<1>1. faults \in Nat
  BY BudgetAssumption DEF TypeOK, BudgetType
<1>2. ASSUME NEW w \in Workers, Step(w) PROVE NoFault \/ Fault
  BY <1>2
     DEF Step, InvokeProvider, AbortCreate, QueryUpstream, CancelPayment, MarkCancelled,
         PersistTradeNo, ConfirmPayment, AlreadyProcessed, ResetForRetry, LoadOrder,
         LockRecharging, Resolve, CreateCode, Redeem, AssignOrExtendSubscription,
         RecordAssigned, ApplyAffiliateRebate, MarkCompleted, MarkFailed, NoFault, budget
<1>3. ASSUME NEW w \in Workers, NEW o \in Orders, Entry(w, o) PROVE UNCHANGED faults
  BY <1>3
     DEF Entry, CreateOrder, Webhook, CancelOrder, ExpireTimedOutOrder,
         ReconcilePendingWxpayOrder, VerifyOrderByOutTradeNo, RetryFulfillment, budget
<1>4. ASSUME NEW w \in Workers, Crash(w) PROVE UNCHANGED faults
  BY <1>4 DEF Crash
<1>5. ASSUME NEW o \in Orders, Environment(o) PROVE UNCHANGED faults
  BY <1>5 DEF Environment, UserPays, OrderTimesOut, GraceRunsOut, RedeemByHand,
         GroupSwitched, RefundBegins, budget
<1> QED
  BY <1>1, <1>2, <1>3, <1>4, <1>5 DEF Next, vars, budget, NoFault, Fault

\* Every step but the record of an extension leaves assigned alone.
LEMMA AssignedKept ==
    ASSUME [Next]_vars, \A w \in Workers : ~RecordAssigned(w)
    PROVE  UNCHANGED assigned
  BY DEF Next, Entry, Step, Environment, vars, grantVars, rebateVars, CreateOrder, Webhook,
        CancelOrder,
         ExpireTimedOutOrder, ReconcilePendingWxpayOrder, VerifyOrderByOutTradeNo,
         RetryFulfillment, InvokeProvider, AbortCreate, QueryUpstream, CancelPayment,
         MarkCancelled, PersistTradeNo, ConfirmPayment, AlreadyProcessed, ResetForRetry,
         LoadOrder, LockRecharging, Resolve, CreateCode, Redeem, AssignOrExtendSubscription,
         ApplyAffiliateRebate, MarkCompleted, MarkFailed, Crash, UserPays, OrderTimesOut,
         GraceRunsOut, RedeemByHand, GroupSwitched, RefundBegins

\* No code is created for a subscription order.
LEMMA CodeKept ==
    ASSUME IInv, [Next]_vars, NEW o \in Subscription, code[o] = "none"
    PROVE  code'[o] = "none"
<1>0. TypeOK /\ o \in Orders /\ (\A w \in Workers : WorkerInv(w))
  BY SubscriptionAssumption DEF IInv
<1>1. ASSUME NEW w \in Workers, CreateCode(w) \/ Redeem(w) PROVE code'[o] = code[o]
  <2>1. job[w].order \in Orders /\ job[w].order # o
    BY <1>0, <1>1, BusyWorker DEF CreateCode, Redeem, WorkerInv, TypeOK
  <2> QED
    BY <1>0, <1>1, <2>1 DEF CreateCode, Redeem, UseCode, TypeOK, GrantType
<1>2. ASSUME NEW p \in Orders, RedeemByHand(p) PROVE code'[o] = code[o]
  BY <1>0, <1>2 DEF RedeemByHand, TypeOK, GrantType
<1>3. CASE UNCHANGED code
  BY <1>3
<1> QED
  BY <1>1, <1>2, <1>3
     DEF Next, Entry, Step, Environment, vars, grantVars, rebateVars, CreateOrder, Webhook,
        CancelOrder,
         ExpireTimedOutOrder, ReconcilePendingWxpayOrder, VerifyOrderByOutTradeNo,
         RetryFulfillment, InvokeProvider, AbortCreate, QueryUpstream, CancelPayment,
         MarkCancelled, PersistTradeNo, ConfirmPayment, AlreadyProcessed, ResetForRetry,
         LoadOrder, LockRecharging, Resolve, AssignOrExtendSubscription, RecordAssigned,
         ApplyAffiliateRebate, MarkCompleted, MarkFailed, Crash, UserPays, OrderTimesOut,
         GraceRunsOut, GroupSwitched, RefundBegins

\* An order whose extension is on record leaves its fulfiller only when a statement fails.
LEMMA HeldKept ==
    ASSUME IInv, OnceInv, [Next]_vars, NEW o \in Orders, assigned[o], faults = 0
    PROVE  status'[o] \in {"RECHARGING"} \cup Final
<1>0. /\ TypeOK /\ OrderInv(o) /\ o \in Subscription
      /\ status[o] \in {"RECHARGING"} \cup Final /\ upstream[o] = "paid"
  BY DEF IInv, OnceInv, OrderOnce, OrderInv, TypeOK, GrantType
<1>1. ASSUME NEW w \in Workers, NEW p \in Orders, CreateOrder(w, p) PROVE status'[o] = status[o]
  BY <1>0, <1>1 DEF CreateOrder, SetStatus, TypeOK, RowType, Final
<1>2. ASSUME NEW w \in Workers,
             \/ AbortCreate(w) \/ MarkCancelled(w) \/ ConfirmPayment(w) \/ ResetForRetry(w)
             \/ LockRecharging(w)
      PROVE  status'[o] = status[o]
  <2>1. job[w].order \in Orders /\ WorkerInv(w)
    BY <1>0, <1>2, BusyWorker
       DEF AbortCreate, MarkCancelled, ConfirmPayment, ResetForRetry, LockRecharging, IInv, TypeOK
  <2>2. CASE job[w].order # o
    BY <1>0, <1>2, <2>1, <2>2
       DEF AbortCreate, MarkCancelled, ConfirmPayment, ResetForRetry, LockRecharging, MoveStatus,
           MarkPaid, SetStatus, TypeOK, RowType
  <2>3. CASE job[w].order = o
    <3>1. ~AbortCreate(w)
      BY <1>0, <2>1, <2>3 DEF AbortCreate, WorkerInv
    <3> QED
      BY <1>0, <1>2, <2>3, <3>1
         DEF MarkCancelled, ConfirmPayment, ResetForRetry, LockRecharging, MoveStatus, Payable,
             Lockable, Final
  <2> QED
    BY <2>2, <2>3
<1>3. ASSUME NEW w \in Workers, MarkCompleted(w) PROVE status'[o] \in {status[o], "COMPLETED"}
  <2>1. job[w].order \in Orders
    BY <1>0, <1>3, BusyWorker DEF MarkCompleted, TypeOK
  <2> QED
    BY <1>0, <1>3, <2>1 DEF MarkCompleted, MoveStatus, SetStatus, TypeOK, RowType
<1>4. ASSUME NEW w \in Workers, MarkFailed(w) PROVE status'[o] = status[o]
  <2>1. job[w].order \in Orders /\ job[w].order # o
    BY <1>0, <1>4, BusyWorker DEF MarkFailed, OnceInv, WorkerOnce, TypeOK
  <2> QED
    BY <1>0, <1>4, <2>1 DEF MarkFailed, MoveStatus, SetStatus, TypeOK, RowType
<1>5. ASSUME NEW p \in Orders, RefundBegins(p) PROVE status'[o] \in {status[o], "REFUNDING"}
  BY <1>0, <1>5 DEF RefundBegins, SetStatus, TypeOK, RowType
<1>6. status'[o] \in {status[o], "COMPLETED", "REFUNDING"}
  BY <1>1, <1>2, <1>3, <1>4, <1>5
     DEF Next, Entry, Step, Environment, vars, rowVars, rebateVars, Webhook, CancelOrder,
         ExpireTimedOutOrder, ReconcilePendingWxpayOrder, VerifyOrderByOutTradeNo,
         RetryFulfillment, InvokeProvider, QueryUpstream, CancelPayment, PersistTradeNo,
         AlreadyProcessed, LoadOrder, Resolve, CreateCode, Redeem, AssignOrExtendSubscription,
         RecordAssigned, ApplyAffiliateRebate, Crash, UserPays, OrderTimesOut, GraceRunsOut,
         RedeemByHand, GroupSwitched
<1> QED
  BY <1>0, <1>6 DEF Final

\* What is on record of an order keeps it from being extended again.
LEMMA OrderOnceStep ==
    ASSUME IInv, OnceInv, [Next]_vars, NEW o \in Orders
    PROVE  OrderOnce(o)'
<1>0. TypeOK /\ OrderOnce(o) /\ faults \in Nat /\ faults' \in Nat /\ faults <= faults'
  BY FaultsGrow DEF IInv, OnceInv
<1>1. o \in Subscription => code'[o] = "none"
  BY <1>0, CodeKept DEF OrderOnce
<1>2. CASE assigned[o]
  BY <1>0, <1>1, <1>2, HeldKept DEF OrderOnce
<1>3. CASE ~assigned[o] /\ assigned'[o]
  <2>1. PICK w \in Workers : RecordAssigned(w)
    BY <1>3, AssignedKept
  <2>2. job[w].order = o /\ WorkerInv(w) /\ UNCHANGED status
    BY <1>0, <1>3, <2>1 DEF RecordAssigned, TypeOK, GrantType, IInv, rowVars, rebateVars
  <2>3. o \in Subscription /\ status[o] = "RECHARGING"
    BY <2>1, <2>2 DEF RecordAssigned, WorkerInv, Fulfilling
  <2> QED
    BY <1>1, <2>2, <2>3 DEF OrderOnce
<1>4. CASE ~assigned'[o]
  BY <1>1, <1>4 DEF OrderOnce
<1> QED
  BY <1>2, <1>3, <1>4

\* The handlers that do not take the step.
LEMMA OtherOnce ==
    ASSUME IInv, OnceInv, [Next]_vars, NEW v \in Workers, pc'[v] = pc[v], job'[v] = job[v],
           ~RecordAssigned(v)
    PROVE  WorkerOnce(v)'
<1>0. TypeOK /\ WorkerOnce(v) /\ faults \in Nat /\ faults' \in Nat /\ faults <= faults'
  BY FaultsGrow DEF IInv, OnceInv
<1>1. pc[v] \in {"assign", "resolve", "fail"} => assigned'[job[v].order] = assigned[job[v].order]
  <2> SUFFICES ASSUME pc[v] \in {"assign", "resolve", "fail"}, NEW w \in Workers, RecordAssigned(w)
               PROVE  assigned'[job[v].order] = assigned[job[v].order]
    BY AssignedKept
  <2>1. job[v].order \in Orders /\ job[w].order \in Orders
    BY <1>0, BusyWorker DEF RecordAssigned, TypeOK
  <2>2. job[v].order # job[w].order
    BY DEF RecordAssigned, IInv, SingleFulfiller, Fulfilling
  <2> QED
    BY <1>0, <2>1, <2>2 DEF RecordAssigned, TypeOK, GrantType
<1> QED
  BY <1>0, <1>1 DEF WorkerOnce

\* The handler that takes a step.  A second failure would let it look past the record.
LEMMA OwnOnce ==
    ASSUME MaxFaults <= 1, IInv, OnceInv, [Next]_vars, NEW w \in Workers, Step(w)
    PROVE  WorkerOnce(w)'
<1>0. /\ TypeOK /\ WorkerInv(w) /\ WorkerOnce(w) /\ pc[w] # "idle" /\ job[w].order \in Orders
      /\ faults \in Nat /\ faults' \in Nat
  BY StepControl, BusyWorker, FaultsGrow DEF IInv, OnceInv, TypeOK
<1>1. ASSUME Fault PROVE faults = 0 /\ faults' = 1
  BY <1>0, <1>1, BudgetAssumption DEF Fault
<1>2. pc' = [pc EXCEPT ![w] = pc'[w]] /\ (pc'[w] # "idle" => job' = job)
  BY <1>0, StepControl DEF Goto, Return, TypeOK, WorkType
<1>3. CASE pc'[w] \notin {"assign", "resolve", "fail"}
  BY <1>3 DEF WorkerOnce
<1>4. CASE pc'[w] = "resolve"
  <2>1. LockRecharging(w)
    BY <1>0, <1>4
       DEF Step, InvokeProvider, AbortCreate, QueryUpstream, CancelPayment, MarkCancelled,
           PersistTradeNo, ConfirmPayment, AlreadyProcessed, ResetForRetry, LoadOrder, Resolve,
           CreateCode, Redeem, AssignOrExtendSubscription, RecordAssigned, ApplyAffiliateRebate,
           MarkCompleted, MarkFailed, Goto, Return, TypeOK, WorkType
  <2>2. /\ NoFault /\ Lockable(job[w].order) /\ UNCHANGED assigned
    BY <1>0, <1>4, <2>1 DEF LockRecharging, Return, TypeOK, WorkType, grantVars, rebateVars
  <2>3. faults = 0 => ~assigned[job[w].order]
    BY <1>0, <2>2 DEF Lockable, OnceInv, OrderOnce, Final
  <2> QED
    BY <1>2, <1>4, <2>2, <2>3 DEF WorkerOnce, NoFault
<1>5. CASE pc'[w] = "assign"
  <2>1. Resolve(w)
    BY <1>0, <1>5
       DEF Step, InvokeProvider, AbortCreate, QueryUpstream, CancelPayment, MarkCancelled,
           PersistTradeNo, ConfirmPayment, AlreadyProcessed, ResetForRetry, LoadOrder,
           LockRecharging, CreateCode, Redeem, AssignOrExtendSubscription, RecordAssigned,
           ApplyAffiliateRebate, MarkCompleted, MarkFailed, Goto, Return, TypeOK, WorkType
  <2>2. UNCHANGED assigned /\ pc[w] = "resolve"
    BY <2>1 DEF Resolve, grantVars, rebateVars
  <2>3. ~assigned[job[w].order]
    <3>1. CASE Fault
      BY <1>0, <1>1, <2>2, <3>1 DEF WorkerOnce
    <3>2. CASE NoFault
      BY <1>0, <1>5, <2>1, <3>2, <1>1 DEF Resolve, AlreadyAssigned, Goto, TypeOK, WorkType, NoFault
    <3> QED
      BY <2>1, <3>1, <3>2 DEF Resolve
  <2> QED
    BY <1>2, <1>5, <2>2, <2>3 DEF WorkerOnce
<1>6. CASE pc'[w] = "fail"
  <2>1. /\ Fault \/ pc[w] \in {"mint", "redeem", "resolve", "assign"}
        /\ Fault \/ NoFault
        /\ UNCHANGED assigned
    BY <1>0, <1>6
       DEF Step, InvokeProvider, AbortCreate, QueryUpstream, CancelPayment, MarkCancelled,
           PersistTradeNo, ConfirmPayment, AlreadyProcessed, ResetForRetry, LoadOrder,
           LockRecharging, Resolve, CreateCode, Redeem, AssignOrExtendSubscription,
           RecordAssigned, ApplyAffiliateRebate, MarkCompleted, MarkFailed, Goto, Return, TypeOK,
           WorkType, grantVars
  <2>2. job[w].order \in Subscription /\ faults' = 0 => ~assigned[job[w].order]
    BY <1>0, <1>1, <2>1 DEF WorkerInv, WorkerOnce, NoFault
  <2> QED
    BY <1>2, <1>6, <2>1, <2>2 DEF WorkerOnce
<1> QED
  BY <1>3, <1>4, <1>5, <1>6

\* Nothing is on record at first.
LEMMA OnceInit == Init => OnceInv
  BY DEF Init, OnceInv, OrderOnce, WorkerOnce

\* With one fault at most the invariant is inductive.
LEMMA OnceStep ==
    ASSUME MaxFaults <= 1
    PROVE  IInv /\ OnceInv /\ [Next]_vars => OnceInv'
<1> SUFFICES ASSUME IInv, OnceInv, [Next]_vars, NEW w \in Workers PROVE WorkerOnce(w)'
  BY OrderOnceStep DEF OnceInv
<1>0. TypeOK /\ WorkType
  BY DEF IInv, TypeOK
<1>1. CASE Step(w)
  BY <1>1, OwnOnce
<1>2. CASE pc'[w] \in {"idle", "invoke", "confirm", "query", "reset"}
  BY <1>2 DEF WorkerOnce
<1>3. CASE pc'[w] = pc[w] /\ job'[w] = job[w] /\ ~Step(w)
  BY <1>3, OtherOnce DEF Step
<1>4. ASSUME NEW v \in Workers, NEW o \in Orders, Entry(v, o)
      PROVE  \/ pc'[w] \in {"invoke", "confirm", "query", "reset"}
             \/ pc'[w] = pc[w] /\ job'[w] = job[w]
  BY <1>0, <1>4
     DEF Entry, CreateOrder, Webhook, CancelOrder, ExpireTimedOutOrder,
         ReconcilePendingWxpayOrder, VerifyOrderByOutTradeNo, RetryFulfillment, Start, WorkType
<1>5. ASSUME NEW v \in Workers, Crash(v)
      PROVE  pc'[w] = "idle" \/ (pc'[w] = pc[w] /\ job'[w] = job[w])
  BY <1>0, <1>5 DEF Crash, WorkType
<1>6. ASSUME NEW v \in Workers, Step(v), v # w PROVE pc'[w] = pc[w] /\ job'[w] = job[w]
  BY <1>0, <1>6, Bystander
<1>7. ASSUME NEW o \in Orders, Environment(o) PROVE UNCHANGED <<pc, job>>
  BY <1>7
     DEF Environment, UserPays, OrderTimesOut, GraceRunsOut, RedeemByHand, GroupSwitched,
        RefundBegins, workVars
<1> QED
  BY <1>1, <1>2, <1>3, <1>4, <1>5, <1>6, <1>7 DEF Next, vars, workVars

\* Only a handler that extends a subscription adds to what a subscription order granted.
LEMMA ExtensionStep ==
    ASSUME IInv, OnceInv, [Next]_vars, NEW o \in Subscription, assigned[o]
    PROVE  grants'[o] = grants[o]
<1>0. /\ TypeOK /\ o \in Orders /\ code[o] = "none"
      /\ \A w \in Workers : WorkerInv(w) /\ WorkerOnce(w)
  BY SubscriptionAssumption DEF IInv, OnceInv, OrderOnce
<1>1. ASSUME NEW w \in Workers, Redeem(w) \/ AssignOrExtendSubscription(w)
      PROVE  grants'[o] = grants[o]
  <2>1. job[w].order \in Orders /\ job[w].order # o
    BY <1>0, <1>1, BusyWorker
       DEF Redeem, AssignOrExtendSubscription, WorkerInv, WorkerOnce, TypeOK
  <2> QED
    BY <1>0, <1>1, <2>1 DEF Redeem, UseCode, AssignOrExtendSubscription, TypeOK, GrantType
<1>2. ASSUME NEW p \in Orders, RedeemByHand(p) PROVE grants'[o] = grants[o]
  BY <1>0, <1>2 DEF RedeemByHand, TypeOK, GrantType
<1>3. CASE UNCHANGED grants
  BY <1>3
<1> QED
  BY <1>1, <1>2, <1>3
     DEF Next, Entry, Step, Environment, vars, grantVars, rebateVars, CreateOrder, Webhook,
        CancelOrder,
         ExpireTimedOutOrder, ReconcilePendingWxpayOrder, VerifyOrderByOutTradeNo,
         RetryFulfillment, InvokeProvider, AbortCreate, QueryUpstream, CancelPayment,
         MarkCancelled, PersistTradeNo, ConfirmPayment, AlreadyProcessed, ResetForRetry,
         LoadOrder, LockRecharging, Resolve, CreateCode, RecordAssigned, ApplyAffiliateRebate,
         MarkCompleted, MarkFailed, Crash, UserPays, OrderTimesOut, GraceRunsOut, GroupSwitched,
        RefundBegins

\* No retry extends a subscription whose extension is on record, while at most one statement
\* fails.
THEOREM ExtendedOnce ==
    ASSUME MaxFaults <= 1
    PROVE  Spec => AssignmentIsNotRepeated
<1>1. IInv /\ OnceInv /\ [Next]_vars
        => [\A o \in Subscription : assigned[o] => grants'[o] = grants[o]]_vars
  BY ExtensionStep
<1>2. IInv /\ OnceInv /\ [Next]_vars => OnceInv'
  BY OnceStep
<1> QED
  BY <1>1, <1>2, OnceInit, Invariance, PTL DEF Spec, AssignmentIsNotRepeated
=============================================================================
