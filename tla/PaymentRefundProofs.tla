------------------------- MODULE PaymentRefundProofs -------------------------
(***************************************************************************)
(* Proofs about PaymentRefund for any number of orders and workers and any *)
(* bounds on faults and crashes.                                           *)
(***************************************************************************)
EXTENDS PaymentRefund, TLAPS

-----------------------------------------------------------------------------
(* Type correctness. *)

\* A handler that runs has a plan.
LEMMA BusyWorker ==
    ASSUME WorkType, NEW w \in Workers, pc[w] # "idle"
    PROVE  job[w] \in Job /\ job[w].order \in Orders
  BY DEF WorkType, Job

\* What a provider answers is about a refund it has or makes, and what it had stays.
LEMMA OutcomeFacts ==
    ASSUME RowType, NEW o \in Orders, NEW r \in Outcomes(o)
    PROVE  /\ r.refund \in Nat
           /\ r.refunds \in Seq({"pending", "done", "refused"})
           /\ r.answer \in {"pending", "done", "refused"}
           /\ r.answer = "done" => \E i \in DOMAIN r.refunds : r.refunds[i] = "done"
           /\ \A i \in DOMAIN refunds[o] : i \in DOMAIN r.refunds /\ r.refunds[i] = refunds[o][i]
           /\ \A i \in DOMAIN r.refunds : i \in DOMAIN refunds[o] \/ i = Len(refunds[o]) + 1
           /\ r.answer = "refused" => r.refunds = refunds[o]
           /\ provider[o] = "keyed" /\ DOMAIN refunds[o] \subseteq {1} => DOMAIN r.refunds \subseteq {1}
<1>0. refunds[o] \in Seq({"pending", "done", "refused"})
  BY DEF RowType
<1>1. CASE r \in SameRefund(o) /\ refunds[o] # <<>>
  <2>1. /\ r.refund = 1 /\ r.refunds = refunds[o] /\ 1 \in DOMAIN refunds[o]
        /\ r.answer = "refused" \/ r.answer = (IF refunds[o][1] = "refused" THEN "pending" ELSE refunds[o][1])
    BY <1>0, <1>1 DEF SameRefund
  <2>2. refunds[o][1] \in {"pending", "done", "refused"}
    BY <1>0, <2>1
  <2> QED
    BY <1>0, <2>1, <2>2
<1>2. CASE r \in NewRefund(o) /\ (provider[o] = "keyed" => refunds[o] = <<>>)
  <2>1. CASE r = [answer |-> "refused", refund |-> 0, refunds |-> refunds[o]]
    BY <1>0, <2>1
  <2>2. CASE \E a \in {"pending", "done"} :
               r = [answer |-> a, refund |-> Len(refunds[o]) + 1, refunds |-> Append(refunds[o], a)]
    <3>1. PICK a \in {"pending", "done"} :
                 r = [answer |-> a, refund |-> Len(refunds[o]) + 1, refunds |-> Append(refunds[o], a)]
      BY <2>2
    <3>2. /\ Append(refunds[o], a) \in Seq({"pending", "done", "refused"})
          /\ DOMAIN Append(refunds[o], a) = 1 .. Len(refunds[o]) + 1
          /\ Append(refunds[o], a)[Len(refunds[o]) + 1] = a
          /\ \A i \in DOMAIN refunds[o] : Append(refunds[o], a)[i] = refunds[o][i]
          /\ DOMAIN refunds[o] = 1 .. Len(refunds[o]) /\ Len(refunds[o]) \in Nat
      BY <1>0
    <3>3. provider[o] = "keyed" => Len(refunds[o]) = 0
      BY <1>0, <1>2
    <3> QED
      BY <3>1, <3>2, <3>3
  <2> QED
    BY <1>2, <2>1, <2>2 DEF NewRefund
<1> QED
  BY <1>1, <1>2 DEF Outcomes

\* A step of a handler starts at work and ends at work on the same order, or idle.
LEMMA StepControl ==
    ASSUME TypeOK, NEW w \in Workers, Execute(w) \/ Finalize(w)
    PROVE  /\ pc[w] # "idle"
           /\ \/ \E place \in Places \ {"idle"} : Goto(w, place)
              \/ \E place \in Places \ {"idle"}, amount \in {0, 1} : GotoWith(w, place, amount)
              \/ \E place \in Places \ {"idle"}, amount \in {0, 1}, refund \in Nat :
                   GotoNaming(w, place, amount, refund)
              \/ Return(w)
<1> USE DEF Places, Executing
<1>1. CASE LockRefunding(w)
  BY <1>1 DEF LockRefunding
<1>2. CASE CheckDeducted(w)
  BY <1>2 DEF CheckDeducted
<1>3. CASE DeductBalance(w)
  BY <1>3 DEF DeductBalance
<1>4. CASE GwRefund(w)
  <2>1. job[w].order \in Orders /\ job[w].amount \in {0, 1} /\ RowType
    BY <1>4, BusyWorker DEF GwRefund, TypeOK, Job
  <2>2. \A r \in Outcomes(job[w].order) : r.refund \in Nat
    BY <2>1, OutcomeFacts
  <2> QED
    BY <1>4, <2>1, <2>2 DEF GwRefund
<1>5. CASE RollbackRefund(w)
  BY <1>5 DEF RollbackRefund
<1>6. CASE RecordDebt(w)
  BY <1>6 DEF RecordDebt
<1>7. CASE RestoreStatus(w)
  BY <1>7 DEF RestoreStatus
<1>8. CASE MarkRefundFailed(w)
  BY <1>8 DEF MarkRefundFailed
<1>9. CASE MarkRefundPending(w)
  BY <1>9 DEF MarkRefundPending
<1>10. CASE RecordPending(w)
  BY <1>10 DEF RecordPending
<1>11. CASE MarkRefundOk(w)
  BY <1>11 DEF MarkRefundOk
<1>12. CASE RecordSuccess(w)
  BY <1>12 DEF RecordSuccess
<1>13. CASE ReadPendingDetail(w)
  <2>1. job[w].order \in Orders /\ pendingRow[job[w].order].refund \in Nat
    BY <1>13, BusyWorker DEF ReadPendingDetail, TypeOK, RowType
  <2> QED
    BY <1>13, <2>1 DEF ReadPendingDetail
<1>14. CASE QueryRefund(w)
  BY <1>14 DEF QueryRefund
<1>15. CASE CheckSucceeded(w)
  BY <1>15 DEF CheckSucceeded
<1>16. CASE FinalDeduct(w)
  BY <1>16 DEF FinalDeduct
<1> QED
  BY <1>1, <1>2, <1>3, <1>4, <1>5, <1>6, <1>7, <1>8, <1>9, <1>10, <1>11, <1>12, <1>13,
        <1>14, <1>15, <1>16 DEF Execute, Finalize

\* Starting a handler keeps the type of pc and job ...
LEMMA StartKeepsType ==
    ASSUME TypeOK, NEW w \in Workers, NEW o \in Orders, NEW amount \in {0, 1},
           NEW place \in Places \ {"idle"},
           Start(w, [order |-> o, amount |-> amount, from |-> status[o], refund |-> 0], place)
    PROVE  WorkType'
<1>1. [order |-> o, amount |-> amount, from |-> status[o], refund |-> 0] \in Job
  BY DEF TypeOK, RowType, Job
<1> QED
  BY <1>1, NoJobAssumption DEF TypeOK, WorkType, Start

\* ... and so do its steps.
LEMMA WorkTypeKept ==
    ASSUME WorkType, NEW w \in Workers, pc[w] # "idle",
           \/ \E place \in Places \ {"idle"} : Goto(w, place)
           \/ \E place \in Places \ {"idle"}, amount \in {0, 1} : GotoWith(w, place, amount)
           \/ \E place \in Places \ {"idle"}, amount \in {0, 1}, refund \in Nat :
                GotoNaming(w, place, amount, refund)
           \/ Return(w)
    PROVE  WorkType'
<1>0. job[w] \in Job
  BY BusyWorker
<1>1. ASSUME NEW place \in Places \ {"idle"}, Goto(w, place) PROVE WorkType'
  BY <1>1 DEF Goto, WorkType
<1>2. ASSUME NEW place \in Places \ {"idle"}, NEW amount \in {0, 1}, GotoWith(w, place, amount)
      PROVE  WorkType'
  <2>1. [job[w] EXCEPT !.amount = amount] \in Job
    BY <1>0 DEF Job
  <2> QED
    BY <1>2, <2>1, NoJobAssumption DEF GotoWith, WorkType
<1>3. ASSUME NEW place \in Places \ {"idle"}, NEW amount \in {0, 1}, NEW refund \in Nat,
             GotoNaming(w, place, amount, refund)
      PROVE  WorkType'
  <2>1. [job[w] EXCEPT !.amount = amount, !.refund = refund] \in Job
    BY <1>0 DEF Job
  <2>2. job' = [job EXCEPT ![w] = [job[w] EXCEPT !.amount = amount, !.refund = refund]]
    BY <1>3 DEF GotoNaming, WorkType
  <2> QED
    BY <1>3, <2>1, <2>2, NoJobAssumption DEF GotoNaming, WorkType
<1>4. CASE Return(w)
  BY <1>4 DEF Return, WorkType, Places
<1> QED
  BY <1>1, <1>2, <1>3, <1>4

\* A step of one handler leaves the place and the plan of the others alone.
LEMMA Bystander ==
    ASSUME TypeOK, NEW w \in Workers, Execute(w) \/ Finalize(w), NEW v \in Workers, v # w
    PROVE  pc'[v] = pc[v] /\ job'[v] = job[v]
<1>0. WorkType
  BY DEF TypeOK
<1>1. CASE \E place \in Places \ {"idle"} : Goto(w, place)
  BY <1>0, <1>1 DEF Goto, WorkType
<1>2. CASE \E place \in Places \ {"idle"}, amount \in {0, 1} : GotoWith(w, place, amount)
  BY <1>0, <1>2 DEF GotoWith, WorkType
<1>3. CASE \E place \in Places \ {"idle"}, amount \in {0, 1}, refund \in Nat :
             GotoNaming(w, place, amount, refund)
  BY <1>0, <1>3 DEF GotoNaming, WorkType
<1>4. CASE Return(w)
  BY <1>0, <1>4 DEF Return, WorkType
<1> QED
  BY <1>1, <1>2, <1>3, <1>4, StepControl

\* Zeroing BalanceToDeduct keeps the order of the plan.
LEMMA PlanKept ==
    ASSUME WorkType, NEW w \in Workers, pc[w] # "idle", NEW place, NEW amount,
           GotoWith(w, place, amount)
    PROVE  pc'[w] = place /\ job'[w].order = job[w].order /\ job'[w].amount = amount
<1>1. job[w] \in Job
  BY BusyWorker
<1>2. job'[w] = [job[w] EXCEPT !.amount = amount] /\ pc'[w] = place
  BY DEF WorkType, GotoWith
<1> QED
  BY <1>1, <1>2 DEF Job

\* Learning the id of a refund keeps the order of the plan.
LEMMA NamedPlanKept ==
    ASSUME WorkType, NEW w \in Workers, pc[w] # "idle", NEW place \in Places, NEW amount \in {0, 1},
           NEW refund \in Nat, GotoNaming(w, place, amount, refund)
    PROVE  /\ pc'[w] = place /\ job'[w].order = job[w].order /\ job'[w].amount = amount
           /\ job'[w] # NoJob
<1>1. job[w] \in Job
  BY BusyWorker
<1>2. job'[w] = [job[w] EXCEPT !.amount = amount, !.refund = refund] /\ pc'[w] = place
  BY DEF WorkType, GotoNaming
<1>3. [job[w] EXCEPT !.amount = amount, !.refund = refund] \in Job
  BY <1>1 DEF Job
<1> QED
  BY <1>1, <1>2, <1>3, NoJobAssumption DEF Job

\* A provider's answer leaves the plan alone. Only a refund that was made leads to
\* success, and a handler that gives up without a lost reply has made none.
LEMMA GwStep ==
    ASSUME TypeOK, NEW w \in Workers, GwRefund(w), NEW o \in Orders, o = job[w].order
    PROVE  /\ job'[w].order = o /\ job'[w].amount = job[w].amount /\ job'[w] # NoJob
           /\ pc'[w] \in {"success", "undo", "undoPending"}
           /\ pc'[w] = "success" /\ provider[o] # "none" => Paid(o)'
           /\ pc'[w] = "undo" /\ o \notin unsure' => refunds' = refunds
<1>0. /\ WorkType /\ RowType /\ pc[w] = "refund" /\ job[w] \in Job
      /\ job[w].amount \in {0, 1} /\ job[w] # NoJob /\ "undoPending" \in Places
  BY BusyWorker, NoJobAssumption DEF TypeOK, GwRefund, Job, Places, Executing
<1>1. ASSUME NEW place, Goto(w, place) PROVE pc'[w] = place /\ job'[w] = job[w]
  BY <1>0, <1>1 DEF Goto, WorkType
<1>2. CASE Goto(w, "success") /\ provider[o] = "none"
  BY <1>0, <1>1, <1>2
<1>3. CASE Goto(w, "undo") /\ (UNCHANGED refunds \/ unsure' = unsure \cup {o})
  BY <1>0, <1>1, <1>3
<1>4. ASSUME NEW r \in Outcomes(o), refunds' = [refunds EXCEPT ![o] = r.refunds],
             CASE Settled(r.answer) -> Goto(w, "success")
               [] r.answer = "pending" /\ ~Settled(r.answer) ->
                    GotoNaming(w, "undoPending", job[w].amount, r.refund)
               [] OTHER -> Goto(w, "undo")
      PROVE  /\ job'[w].order = o /\ job'[w].amount = job[w].amount /\ job'[w] # NoJob
             /\ pc'[w] \in {"success", "undo", "undoPending"}
             /\ pc'[w] = "success" => Paid(o)'
             /\ pc'[w] = "undo" => refunds' = refunds
  <2>1. refunds'[o] = r.refunds
    BY <1>0, <1>4 DEF RowType
  <2>2. CASE r.answer = "done"
    <3>1. Goto(w, "success")
      BY <1>4, <2>2 DEF Settled
    <3>2. Paid(o)'
      BY <1>0, <2>1, <2>2, OutcomeFacts DEF Paid
    <3> QED
      BY <1>0, <1>1, <3>1, <3>2
  <2>3. CASE r.answer = "pending"
    <3>1. GotoNaming(w, "undoPending", job[w].amount, r.refund) /\ r.refund \in Nat
      BY <1>0, <1>4, <2>3, OutcomeFacts DEF Settled
    <3>2. pc'[w] = "undoPending" /\ job'[w].order = o /\ job'[w].amount = job[w].amount /\ job'[w] # NoJob
      BY <1>0, <3>1, NamedPlanKept
    <3> QED
      BY <3>2
  <2>4. CASE r.answer = "refused"
    <3>1. Goto(w, "undo") /\ r.refunds = refunds[o]
      BY <1>0, <1>4, <2>4, OutcomeFacts DEF Settled
    <3>2. refunds' = refunds
      BY <1>0, <1>4, <3>1 DEF RowType
    <3> QED
      BY <1>0, <1>1, <3>1, <3>2
  <2> QED
    BY <1>0, <2>2, <2>3, <2>4, OutcomeFacts
<1> QED
  BY <1>2, <1>3, <1>4 DEF GwRefund

\* What the finalizer reads is a plan for the same order.
LEMMA DetailStep ==
    ASSUME TypeOK, NEW w \in Workers, ReadPendingDetail(w)
    PROVE  /\ pc'[w] = "query" /\ job'[w].order = job[w].order /\ job'[w] # NoJob
           /\ job'[w].amount \in {0, 1}
<1>1. /\ WorkType /\ pc[w] = "detail" /\ pc[w] # "idle" /\ job[w].order \in Orders
      /\ pendingRow[job[w].order].refund \in Nat /\ "query" \in Places
  BY BusyWorker DEF TypeOK, RowType, ReadPendingDetail, Places
<1>2. PICK amount \in {0, 1}, refund \in Nat : GotoNaming(w, "query", amount, refund)
  BY <1>1 DEF ReadPendingDetail
<1> QED
  BY <1>1, <1>2, NamedPlanKept

\* The failure budgets stay within their bounds.
LEMMA BudgetTypeKept == ASSUME BudgetType, NoFault \/ Fault, UNCHANGED crashes PROVE BudgetType'
  BY BudgetAssumption DEF BudgetType, NoFault, Fault

\* The initial state is type-correct.
LEMMA TypeInit == Init => TypeOK
BY BudgetAssumption DEF Init, TypeOK, RowType, WorkType, BudgetType, Statuses, Places

\* No step of a handler, the user or the provider leaves the types.
LEMMA TypeStep == TypeOK /\ [Next]_vars => TypeOK'
<1> SUFFICES ASSUME TypeOK, [Next]_vars PROVE TypeOK'
  OBVIOUS
<1> USE DEF TypeOK, RowType, Statuses
<1>1. ASSUME NEW o \in Orders, RequestRefund(o) PROVE TypeOK'
  BY <1>1 DEF RequestRefund, SetStatus, logVars, history, workVars, budget, WorkType,
        BudgetType
<1>2. ASSUME NEW o \in Orders, ProviderSettles(o) PROVE TypeOK'
  <2>1. PICK i \in DOMAIN refunds[o], r \in {"done", "refused"} :
               refunds' = [refunds EXCEPT ![o][i] = r]
    BY <1>2 DEF ProviderSettles
  <2>2. [refunds[o] EXCEPT ![i] = r] \in Seq({"pending", "done", "refused"})
    <3>1. refunds[o] \in Seq({"pending", "done", "refused"})
      OBVIOUS
    <3> QED
      BY <3>1
  <2> QED
    BY <1>2, <2>1, <2>2 DEF ProviderSettles, logVars, history, workVars, budget, WorkType,
          BudgetType
<1>3. ASSUME NEW w \in Workers, NEW o \in Orders, PrepareRefund(w, o) PROVE TypeOK'
  <2>1. WorkType'
    BY <1>3, StartKeepsType DEF PrepareRefund, Places, Executing
  <2> QED
    BY <1>3, <2>1 DEF PrepareRefund, Start, logVars, history, budget, BudgetType
<1>4. ASSUME NEW w \in Workers, NEW o \in Orders, QueryAndFinalizeRefund(w, o) PROVE TypeOK'
  <2>1. WorkType'
    BY <1>4, StartKeepsType DEF QueryAndFinalizeRefund, Places
  <2> QED
    BY <1>4, <2>1 DEF QueryAndFinalizeRefund, Start, logVars, history, budget, BudgetType
<1>5. ASSUME NEW w \in Workers, LockRefunding(w) PROVE TypeOK'
  <2>1. job[w] \in Job /\ job[w].order \in Orders
    BY <1>5, BusyWorker DEF LockRefunding
  <2>2. WorkType'
    BY <1>5, StepControl, WorkTypeKept DEF Execute
  <2>3. BudgetType'
    BY <1>5, BudgetTypeKept DEF LockRefunding
  <2>4. RowType'
    BY <1>5, <2>1 DEF LockRefunding, logVars, history, budget, Lockable, SetStatus
  <2> QED
    BY <2>2, <2>3, <2>4
<1>6. ASSUME NEW w \in Workers, CheckDeducted(w) PROVE TypeOK'
  <2>1. job[w] \in Job /\ job[w].order \in Orders
    BY <1>6, BusyWorker DEF CheckDeducted
  <2>2. WorkType'
    BY <1>6, StepControl, WorkTypeKept DEF Execute
  <2>3. BudgetType'
    BY <1>6, BudgetTypeKept DEF CheckDeducted
  <2>4. RowType'
    BY <1>6, <2>1 DEF CheckDeducted, logVars, history, budget, AlreadyDeducted, Doubt
  <2> QED
    BY <2>2, <2>3, <2>4
<1>7. ASSUME NEW w \in Workers, DeductBalance(w) PROVE TypeOK'
  <2>1. job[w] \in Job /\ job[w].order \in Orders
    BY <1>7, BusyWorker DEF DeductBalance
  <2>2. WorkType'
    BY <1>7, StepControl, WorkTypeKept DEF Execute
  <2>3. BudgetType'
    BY <1>7, BudgetTypeKept DEF DeductBalance
  <2>4. RowType'
    BY <1>7, <2>1 DEF DeductBalance, logVars, history, budget, Deduct, Doubt
  <2> QED
    BY <2>2, <2>3, <2>4
<1>8. ASSUME NEW w \in Workers, GwRefund(w) PROVE TypeOK'
  <2>1. job[w] \in Job /\ job[w].order \in Orders
    BY <1>8, BusyWorker DEF GwRefund
  <2>2. WorkType'
    BY <1>8, StepControl, WorkTypeKept DEF Execute
  <2>3. BudgetType'
    BY <1>8, BudgetTypeKept DEF GwRefund
  <2>4. \A r \in Outcomes(job[w].order) : r.refunds \in Seq({"pending", "done", "refused"})
    BY <2>1, OutcomeFacts
  <2>5. RowType'
    BY <1>8, <2>1, <2>4 DEF GwRefund, logVars, history, budget
  <2> QED
    BY <2>2, <2>3, <2>5
<1>9. ASSUME NEW w \in Workers, RollbackRefund(w) PROVE TypeOK'
  <2>1. job[w] \in Job /\ job[w].order \in Orders
    BY <1>9, BusyWorker DEF RollbackRefund
  <2>2. WorkType'
    BY <1>9, StepControl, WorkTypeKept DEF Execute
  <2>3. BudgetType'
    BY <1>9, BudgetTypeKept DEF RollbackRefund
  <2>4. RowType'
    BY <1>9, <2>1 DEF RollbackRefund, logVars, history, budget, ReturnDeduction, Deduct,
          Doubt
  <2> QED
    BY <2>2, <2>3, <2>4
<1>10. ASSUME NEW w \in Workers, RecordDebt(w) PROVE TypeOK'
  <2>1. job[w] \in Job /\ job[w].order \in Orders
    BY <1>10, BusyWorker DEF RecordDebt
  <2>2. WorkType'
    BY <1>10, StepControl, WorkTypeKept DEF Execute
  <2>3. BudgetType'
    BY <1>10, BudgetTypeKept DEF RecordDebt
  <2>4. RowType'
    BY <1>10, <2>1 DEF RecordDebt, logVars, history, budget, Doubt
  <2> QED
    BY <2>2, <2>3, <2>4
<1>11. ASSUME NEW w \in Workers, RestoreStatus(w) PROVE TypeOK'
  <2>1. job[w] \in Job /\ job[w].order \in Orders
    BY <1>11, BusyWorker DEF RestoreStatus
  <2>2. WorkType'
    BY <1>11, StepControl, WorkTypeKept DEF Execute
  <2>3. BudgetType'
    BY <1>11, BudgetTypeKept DEF RestoreStatus
  <2>4. RowType'
    BY <1>11, <2>1 DEF RestoreStatus, logVars, history, budget, StatusRestored, SetStatus
  <2> QED
    BY <2>2, <2>3, <2>4
<1>12. ASSUME NEW w \in Workers, MarkRefundFailed(w) PROVE TypeOK'
  <2>1. job[w] \in Job /\ job[w].order \in Orders
    BY <1>12, BusyWorker DEF MarkRefundFailed
  <2>2. WorkType'
    BY <1>12, StepControl, WorkTypeKept DEF Execute
  <2>3. BudgetType'
    BY <1>12, BudgetTypeKept DEF MarkRefundFailed
  <2>4. RowType'
    BY <1>12, <2>1 DEF MarkRefundFailed, logVars, history, budget, SetStatus
  <2> QED
    BY <2>2, <2>3, <2>4
<1>13. ASSUME NEW w \in Workers, MarkRefundPending(w) PROVE TypeOK'
  <2>1. job[w] \in Job /\ job[w].order \in Orders
    BY <1>13, BusyWorker DEF MarkRefundPending
  <2>2. WorkType'
    BY <1>13, StepControl, WorkTypeKept DEF Execute
  <2>3. BudgetType'
    BY <1>13, BudgetTypeKept DEF MarkRefundPending
  <2>4. RowType'
    BY <1>13, <2>1 DEF MarkRefundPending, logVars, history, budget, SetStatus
  <2> QED
    BY <2>2, <2>3, <2>4
<1>14. ASSUME NEW w \in Workers, RecordPending(w) PROVE TypeOK'
  <2>1. job[w] \in Job /\ job[w].order \in Orders
    BY <1>14, BusyWorker DEF RecordPending
  <2>2. WorkType'
    BY <1>14, StepControl, WorkTypeKept DEF Execute
  <2>3. BudgetType'
    BY <1>14, BudgetTypeKept DEF RecordPending
  <2>4. job[w].refund \in Nat
    BY <2>1 DEF Job
  <2>5. pendingRow' \in [Orders -> [rollback : {"none", "ok", "failed"}, refund : Nat]]
    <3>1. pendingRow \in [Orders -> [rollback : {"none", "ok", "failed"}, refund : Nat]]
      OBVIOUS
    <3>2. \A x \in {"failed", "ok"} :
            [rollback |-> x, refund |-> job[w].refund] \in [rollback : {"none", "ok", "failed"}, refund : Nat]
      BY <2>4
    <3> HIDE DEF TypeOK, RowType
    <3> QED
      BY <1>14, <2>1, <3>1, <3>2 DEF RecordPending
  <2>6. RowType'
    BY <1>14, <2>1, <2>5 DEF RecordPending, logVars, history, budget
  <2> QED
    BY <2>2, <2>3, <2>6
<1>15. ASSUME NEW w \in Workers, MarkRefundOk(w) PROVE TypeOK'
  <2>1. job[w] \in Job /\ job[w].order \in Orders
    BY <1>15, BusyWorker DEF MarkRefundOk
  <2>2. WorkType'
    BY <1>15, StepControl, WorkTypeKept DEF Execute
  <2>3. BudgetType'
    BY <1>15, BudgetTypeKept DEF MarkRefundOk
  <2>4. RowType'
    BY <1>15, <2>1 DEF MarkRefundOk, logVars, history, budget, SetStatus
  <2> QED
    BY <2>2, <2>3, <2>4
<1>16. ASSUME NEW w \in Workers, RecordSuccess(w) PROVE TypeOK'
  <2>1. job[w] \in Job /\ job[w].order \in Orders
    BY <1>16, BusyWorker DEF RecordSuccess
  <2>2. WorkType'
    BY <1>16, StepControl, WorkTypeKept DEF Execute
  <2>3. BudgetType'
    BY <1>16, BudgetTypeKept DEF RecordSuccess
  <2>4. RowType'
    BY <1>16, <2>1 DEF RecordSuccess, logVars, history, budget
  <2> QED
    BY <2>2, <2>3, <2>4
<1>17. ASSUME NEW w \in Workers, ReadPendingDetail(w) PROVE TypeOK'
  <2>1. job[w] \in Job /\ job[w].order \in Orders
    BY <1>17, BusyWorker DEF ReadPendingDetail
  <2>2. WorkType'
    BY <1>17, StepControl, WorkTypeKept DEF Finalize
  <2>3. BudgetType'
    BY <1>17, BudgetTypeKept DEF ReadPendingDetail
  <2>4. RowType'
    BY <1>17, <2>1 DEF ReadPendingDetail, logVars, history, budget
  <2> QED
    BY <2>2, <2>3, <2>4
<1>18. ASSUME NEW w \in Workers, QueryRefund(w) PROVE TypeOK'
  <2>1. job[w] \in Job /\ job[w].order \in Orders
    BY <1>18, BusyWorker DEF QueryRefund
  <2>2. WorkType'
    BY <1>18, StepControl, WorkTypeKept DEF Finalize
  <2>3. BudgetType'
    BY <1>18, BudgetTypeKept DEF QueryRefund
  <2>4. RowType'
    BY <1>18, <2>1 DEF QueryRefund, logVars, history, budget
  <2> QED
    BY <2>2, <2>3, <2>4
<1>19. ASSUME NEW w \in Workers, CheckSucceeded(w) PROVE TypeOK'
  <2>1. job[w] \in Job /\ job[w].order \in Orders
    BY <1>19, BusyWorker DEF CheckSucceeded
  <2>2. WorkType'
    BY <1>19, StepControl, WorkTypeKept DEF Finalize
  <2>3. BudgetType'
    BY <1>19, BudgetTypeKept DEF CheckSucceeded
  <2>4. RowType'
    BY <1>19, <2>1 DEF CheckSucceeded, logVars, history, budget
  <2> QED
    BY <2>2, <2>3, <2>4
<1>20. ASSUME NEW w \in Workers, FinalDeduct(w) PROVE TypeOK'
  <2>1. job[w] \in Job /\ job[w].order \in Orders
    BY <1>20, BusyWorker DEF FinalDeduct
  <2>2. WorkType'
    BY <1>20, StepControl, WorkTypeKept DEF Finalize
  <2>3. BudgetType'
    BY <1>20, BudgetTypeKept DEF FinalDeduct
  <2>4. RowType'
    BY <1>20, <2>1 DEF FinalDeduct, logVars, history, budget, Deduct, Doubt
  <2> QED
    BY <2>2, <2>3, <2>4
<1>21. ASSUME NEW w \in Workers, Crash(w) PROVE TypeOK'
  <2>1. WorkType'
    BY <1>21, WorkTypeKept DEF Crash
  <2>2. BudgetType'
    BY <1>21, BudgetAssumption DEF Crash, BudgetType
  <2> QED
    BY <1>21, <2>1, <2>2 DEF Crash, logVars, history
<1>22. CASE UNCHANGED vars
  BY <1>22 DEF vars, logVars, history, workVars, budget, WorkType, BudgetType
<1> QED
  BY <1>1, <1>2, <1>3, <1>4, <1>5, <1>6, <1>7, <1>8, <1>9, <1>10, <1>11, <1>12, <1>13,
        <1>14, <1>15, <1>16, <1>17, <1>18, <1>19, <1>20, <1>21, <1>22 DEF Next, Execute,
        Finalize

\* Type correctness for any number of orders and workers.
THEOREM TypeCorrect == Spec => []TypeOK
BY TypeInit, TypeStep, PTL DEF Spec

-----------------------------------------------------------------------------
(* The provider refunded what is marked as refunded. *)

\* The provider takes no refund back.
LEMMA PaidStays ==
    ASSUME TypeOK, [Next]_vars
    PROVE  provider' = provider /\ \A p \in Orders : Paid(p) => Paid(p)'
<1>1. provider' = provider
  BY DEF Next, vars, Execute, Finalize, RequestRefund, ProviderSettles, PrepareRefund,
        QueryAndFinalizeRefund, Crash, LockRefunding, CheckDeducted, DeductBalance, GwRefund,
        RollbackRefund, RecordDebt, RestoreStatus, MarkRefundFailed, MarkRefundPending,
        RecordPending, MarkRefundOk, RecordSuccess, ReadPendingDetail, QueryRefund,
        CheckSucceeded, FinalDeduct
<1> SUFFICES ASSUME NEW p \in Orders, Paid(p) PROVE Paid(p)'
  BY <1>1
<1>2. CASE UNCHANGED refunds
  BY <1>2 DEF Paid
<1>3. ASSUME NEW o \in Orders, ProviderSettles(o) PROVE Paid(p)'
  <2>1. PICK i \in DOMAIN refunds[o], r \in {"done", "refused"} :
               refunds[o][i] = "pending" /\ refunds' = [refunds EXCEPT ![o][i] = r]
    BY <1>3 DEF ProviderSettles
  <2>2. PICK j \in DOMAIN refunds[p] : refunds[p][j] = "done"
    BY DEF Paid
  <2>3. j \in DOMAIN refunds'[p] /\ refunds'[p][j] = "done"
    BY <2>1, <2>2 DEF TypeOK, RowType
  <2> QED
    BY <2>3 DEF Paid
<1>4. ASSUME NEW w \in Workers, GwRefund(w), ~UNCHANGED refunds PROVE Paid(p)'
  <2>1. job[w].order \in Orders /\ RowType
    BY <1>4, BusyWorker DEF TypeOK, GwRefund
  <2>2. PICK r \in Outcomes(job[w].order) : refunds' = [refunds EXCEPT ![job[w].order] = r.refunds]
    BY <1>4 DEF GwRefund
  <2>3. PICK j \in DOMAIN refunds[p] : refunds[p][j] = "done"
    BY DEF Paid
  <2>4. j \in DOMAIN refunds'[p] /\ refunds'[p][j] = "done"
    BY <2>1, <2>2, <2>3, OutcomeFacts DEF RowType
  <2> QED
    BY <2>4 DEF Paid
<1> QED
  BY <1>2, <1>3, <1>4 DEF Next, vars, Execute, Finalize, RequestRefund, PrepareRefund,
        QueryAndFinalizeRefund, Crash, LockRefunding, CheckDeducted, DeductBalance,
        RollbackRefund, RecordDebt, RestoreStatus, MarkRefundFailed, MarkRefundPending,
        RecordPending, MarkRefundOk, RecordSuccess, ReadPendingDetail, QueryRefund,
        CheckSucceeded, FinalDeduct

\* A handler about to mark the order as refunded has the provider's word for it.
SuccessIsPaidBack(w) ==
    /\ pc[w] \in {"success", "finalCheck", "finalDeduct", "finalSuccess"}
    /\ provider[job[w].order] # "none"
    => Paid(job[w].order)

RefundedPaid == \A o \in Orders : status[o] = "REFUNDED" /\ provider[o] # "none" => Paid(o)

PaidInv ==
    /\ TypeOK
    /\ RefundedPaid
    /\ \A w \in Workers : SuccessIsPaidBack(w)

\* Only the answer "done" leads to the update, and the provider takes no refund back.
LEMMA PaidStep == PaidInv /\ [Next]_vars => PaidInv'
<1> SUFFICES ASSUME PaidInv, [Next]_vars PROVE PaidInv'
  OBVIOUS
<1>0. TypeOK /\ TypeOK'
  BY TypeStep DEF PaidInv
<1>p. provider' = provider /\ \A p \in Orders : Paid(p) => Paid(p)'
  BY <1>0, PaidStays
<1> USE DEF PaidInv, RefundedPaid, SuccessIsPaidBack, TypeOK, RowType, WorkType
<1>1. ASSUME NEW o \in Orders, RequestRefund(o) PROVE PaidInv'
  <2>1. RefundedPaid'
    BY <1>0, <1>p, <1>1 DEF RequestRefund, SetStatus, logVars, history, workVars, budget
  <2>2. ASSUME NEW v \in Workers PROVE SuccessIsPaidBack(v)'
    <3>1. pc[v] # "idle" => job[v].order \in Orders
      BY <1>0, BusyWorker
    <3> QED
      BY <1>0, <1>p, <1>1, <3>1 DEF RequestRefund, SetStatus, logVars, history, workVars, budget
  <2> QED
    BY <1>0, <2>1, <2>2
<1>2. ASSUME NEW o \in Orders, ProviderSettles(o) PROVE PaidInv'
  <2>1. RefundedPaid'
    BY <1>0, <1>p, <1>2 DEF ProviderSettles, logVars, history, workVars, budget
  <2>2. ASSUME NEW v \in Workers PROVE SuccessIsPaidBack(v)'
    <3>1. pc[v] # "idle" => job[v].order \in Orders
      BY <1>0, BusyWorker
    <3> QED
      BY <1>0, <1>p, <1>2, <3>1 DEF ProviderSettles, logVars, history, workVars, budget
  <2> QED
    BY <1>0, <2>1, <2>2
<1>3. ASSUME NEW w \in Workers, NEW o \in Orders, PrepareRefund(w, o) PROVE PaidInv'
  <2>1. RefundedPaid'
    BY <1>0, <1>p, <1>3 DEF PrepareRefund, Start, logVars, history, workVars, budget
  <2>2. ASSUME NEW v \in Workers PROVE SuccessIsPaidBack(v)'
    <3>1. pc[v] # "idle" => job[v].order \in Orders
      BY <1>0, BusyWorker
    <3> QED
      BY <1>0, <1>p, <1>3, <3>1 DEF PrepareRefund, Start, logVars, history, workVars, budget
  <2> QED
    BY <1>0, <2>1, <2>2
<1>4. ASSUME NEW w \in Workers, NEW o \in Orders, QueryAndFinalizeRefund(w, o) PROVE PaidInv'
  <2>1. RefundedPaid'
    BY <1>0, <1>p, <1>4 DEF QueryAndFinalizeRefund, Start, logVars, history, workVars, budget
  <2>2. ASSUME NEW v \in Workers PROVE SuccessIsPaidBack(v)'
    <3>1. pc[v] # "idle" => job[v].order \in Orders
      BY <1>0, BusyWorker
    <3> QED
      BY <1>0, <1>p, <1>4, <3>1 DEF QueryAndFinalizeRefund, Start, logVars, history, workVars, budget
  <2> QED
    BY <1>0, <2>1, <2>2
<1>5. ASSUME NEW w \in Workers, LockRefunding(w) PROVE PaidInv'
  <2>1. job[w] \in Job /\ job[w].order \in Orders
    BY <1>0, <1>5, BusyWorker DEF LockRefunding
  <2>2. RefundedPaid'
    BY <1>0, <1>p, <1>5, <2>1 DEF LockRefunding, logVars, history, budget, Lockable, SetStatus
  <2>3. ASSUME NEW v \in Workers PROVE SuccessIsPaidBack(v)'
    <3>1. CASE v = w
      BY <1>0, <1>p, <1>5, <2>1, <3>1 DEF LockRefunding, logVars, history, budget, Goto, Return
    <3>2. CASE v # w
      <4>1. pc'[v] = pc[v] /\ job'[v] = job[v]
        BY <1>0, <1>5, <3>2, Bystander DEF Execute
      <4>2. pc[v] # "idle" => job[v].order \in Orders
        BY <1>0, BusyWorker
      <4> QED
        BY <1>0, <1>p, <1>5, <2>1, <4>1, <4>2 DEF LockRefunding, logVars, history, budget
    <3> QED
      BY <3>1, <3>2
  <2> QED
    BY <1>0, <2>2, <2>3
<1>6. ASSUME NEW w \in Workers, CheckDeducted(w) PROVE PaidInv'
  <2>1. job[w] \in Job /\ job[w].order \in Orders
    BY <1>0, <1>6, BusyWorker DEF CheckDeducted
  <2>2. RefundedPaid'
    BY <1>0, <1>p, <1>6, <2>1 DEF CheckDeducted, logVars, history, budget
  <2>3. ASSUME NEW v \in Workers PROVE SuccessIsPaidBack(v)'
    <3>1. CASE v = w
      BY <1>0, <1>p, <1>6, <2>1, <3>1 DEF CheckDeducted, logVars, history, budget, Goto, GotoWith
    <3>2. CASE v # w
      <4>1. pc'[v] = pc[v] /\ job'[v] = job[v]
        BY <1>0, <1>6, <3>2, Bystander DEF Execute
      <4>2. pc[v] # "idle" => job[v].order \in Orders
        BY <1>0, BusyWorker
      <4> QED
        BY <1>0, <1>p, <1>6, <2>1, <4>1, <4>2 DEF CheckDeducted, logVars, history, budget
    <3> QED
      BY <3>1, <3>2
  <2> QED
    BY <1>0, <2>2, <2>3
<1>7. ASSUME NEW w \in Workers, DeductBalance(w) PROVE PaidInv'
  <2>1. job[w] \in Job /\ job[w].order \in Orders
    BY <1>0, <1>7, BusyWorker DEF DeductBalance
  <2>2. RefundedPaid'
    BY <1>0, <1>p, <1>7, <2>1 DEF DeductBalance, logVars, history, budget
  <2>3. ASSUME NEW v \in Workers PROVE SuccessIsPaidBack(v)'
    <3>1. CASE v = w
      BY <1>0, <1>p, <1>7, <2>1, <3>1 DEF DeductBalance, logVars, history, budget, Goto
    <3>2. CASE v # w
      <4>1. pc'[v] = pc[v] /\ job'[v] = job[v]
        BY <1>0, <1>7, <3>2, Bystander DEF Execute
      <4>2. pc[v] # "idle" => job[v].order \in Orders
        BY <1>0, BusyWorker
      <4> QED
        BY <1>0, <1>p, <1>7, <2>1, <4>1, <4>2 DEF DeductBalance, logVars, history, budget
    <3> QED
      BY <3>1, <3>2
  <2> QED
    BY <1>0, <2>2, <2>3
<1>8. ASSUME NEW w \in Workers, GwRefund(w) PROVE PaidInv'
  <2>1. job[w] \in Job /\ job[w].order \in Orders
    BY <1>0, <1>8, BusyWorker DEF GwRefund
  <2>2. RefundedPaid'
    BY <1>0, <1>p, <1>8, <2>1 DEF GwRefund, logVars, history, budget
  <2>3. ASSUME NEW v \in Workers PROVE SuccessIsPaidBack(v)'
    <3>1. CASE v = w
      <4>1. PICK o \in Orders : o = job[w].order
        BY <2>1
      <4>2. job'[w].order = o /\ (pc'[w] = "success" /\ provider[o] # "none" => Paid(o)')
        BY <1>0, <1>8, <4>1, GwStep
      <4>3. pc'[w] \notin {"finalCheck", "finalDeduct", "finalSuccess"}
        BY <1>0, <1>8, <4>1, GwStep
      <4> QED
        BY <1>p, <3>1, <4>2, <4>3
    <3>2. CASE v # w
      <4>1. pc'[v] = pc[v] /\ job'[v] = job[v]
        BY <1>0, <1>8, <3>2, Bystander DEF Execute
      <4>2. pc[v] # "idle" => job[v].order \in Orders
        BY <1>0, BusyWorker
      <4> QED
        BY <1>0, <1>p, <1>8, <2>1, <4>1, <4>2 DEF GwRefund, logVars, history, budget
    <3> QED
      BY <3>1, <3>2
  <2> QED
    BY <1>0, <2>2, <2>3
<1>9. ASSUME NEW w \in Workers, RollbackRefund(w) PROVE PaidInv'
  <2>1. job[w] \in Job /\ job[w].order \in Orders
    BY <1>0, <1>9, BusyWorker DEF RollbackRefund
  <2>2. RefundedPaid'
    BY <1>0, <1>p, <1>9, <2>1 DEF RollbackRefund, logVars, history, budget
  <2>3. ASSUME NEW v \in Workers PROVE SuccessIsPaidBack(v)'
    <3>1. CASE v = w
      BY <1>0, <1>p, <1>9, <2>1, <3>1 DEF RollbackRefund, logVars, history, budget, Goto, GotoWith
    <3>2. CASE v # w
      <4>1. pc'[v] = pc[v] /\ job'[v] = job[v]
        BY <1>0, <1>9, <3>2, Bystander DEF Execute
      <4>2. pc[v] # "idle" => job[v].order \in Orders
        BY <1>0, BusyWorker
      <4> QED
        BY <1>0, <1>p, <1>9, <2>1, <4>1, <4>2 DEF RollbackRefund, logVars, history, budget
    <3> QED
      BY <3>1, <3>2
  <2> QED
    BY <1>0, <2>2, <2>3
<1>10. ASSUME NEW w \in Workers, RecordDebt(w) PROVE PaidInv'
  <2>1. job[w] \in Job /\ job[w].order \in Orders
    BY <1>0, <1>10, BusyWorker DEF RecordDebt
  <2>2. RefundedPaid'
    BY <1>0, <1>p, <1>10, <2>1 DEF RecordDebt, logVars, history, budget
  <2>3. ASSUME NEW v \in Workers PROVE SuccessIsPaidBack(v)'
    <3>1. CASE v = w
      BY <1>0, <1>p, <1>10, <2>1, <3>1 DEF RecordDebt, logVars, history, budget, Goto
    <3>2. CASE v # w
      <4>1. pc'[v] = pc[v] /\ job'[v] = job[v]
        BY <1>0, <1>10, <3>2, Bystander DEF Execute
      <4>2. pc[v] # "idle" => job[v].order \in Orders
        BY <1>0, BusyWorker
      <4> QED
        BY <1>0, <1>p, <1>10, <2>1, <4>1, <4>2 DEF RecordDebt, logVars, history, budget
    <3> QED
      BY <3>1, <3>2
  <2> QED
    BY <1>0, <2>2, <2>3
<1>11. ASSUME NEW w \in Workers, RestoreStatus(w) PROVE PaidInv'
  <2>1. job[w] \in Job /\ job[w].order \in Orders
    BY <1>0, <1>11, BusyWorker DEF RestoreStatus
  <2>2. RefundedPaid'
    BY <1>0, <1>p, <1>11, <2>1 DEF RestoreStatus, logVars, history, budget, StatusRestored,
          SetStatus
  <2>3. ASSUME NEW v \in Workers PROVE SuccessIsPaidBack(v)'
    <3>1. CASE v = w
      BY <1>0, <1>p, <1>11, <2>1, <3>1 DEF RestoreStatus, logVars, history, budget, Return
    <3>2. CASE v # w
      <4>1. pc'[v] = pc[v] /\ job'[v] = job[v]
        BY <1>0, <1>11, <3>2, Bystander DEF Execute
      <4>2. pc[v] # "idle" => job[v].order \in Orders
        BY <1>0, BusyWorker
      <4> QED
        BY <1>0, <1>p, <1>11, <2>1, <4>1, <4>2 DEF RestoreStatus, logVars, history, budget
    <3> QED
      BY <3>1, <3>2
  <2> QED
    BY <1>0, <2>2, <2>3
<1>12. ASSUME NEW w \in Workers, MarkRefundFailed(w) PROVE PaidInv'
  <2>1. job[w] \in Job /\ job[w].order \in Orders
    BY <1>0, <1>12, BusyWorker DEF MarkRefundFailed
  <2>2. RefundedPaid'
    BY <1>0, <1>p, <1>12, <2>1 DEF MarkRefundFailed, logVars, history, budget, SetStatus
  <2>3. ASSUME NEW v \in Workers PROVE SuccessIsPaidBack(v)'
    <3>1. CASE v = w
      BY <1>0, <1>p, <1>12, <2>1, <3>1 DEF MarkRefundFailed, logVars, history, budget, Return
    <3>2. CASE v # w
      <4>1. pc'[v] = pc[v] /\ job'[v] = job[v]
        BY <1>0, <1>12, <3>2, Bystander DEF Execute
      <4>2. pc[v] # "idle" => job[v].order \in Orders
        BY <1>0, BusyWorker
      <4> QED
        BY <1>0, <1>p, <1>12, <2>1, <4>1, <4>2 DEF MarkRefundFailed, logVars, history, budget
    <3> QED
      BY <3>1, <3>2
  <2> QED
    BY <1>0, <2>2, <2>3
<1>13. ASSUME NEW w \in Workers, MarkRefundPending(w) PROVE PaidInv'
  <2>1. job[w] \in Job /\ job[w].order \in Orders
    BY <1>0, <1>13, BusyWorker DEF MarkRefundPending
  <2>2. RefundedPaid'
    BY <1>0, <1>p, <1>13, <2>1 DEF MarkRefundPending, logVars, history, budget, SetStatus
  <2>3. ASSUME NEW v \in Workers PROVE SuccessIsPaidBack(v)'
    <3>1. CASE v = w
      BY <1>0, <1>p, <1>13, <2>1, <3>1 DEF MarkRefundPending, logVars, history, budget, Goto,
            Return
    <3>2. CASE v # w
      <4>1. pc'[v] = pc[v] /\ job'[v] = job[v]
        BY <1>0, <1>13, <3>2, Bystander DEF Execute
      <4>2. pc[v] # "idle" => job[v].order \in Orders
        BY <1>0, BusyWorker
      <4> QED
        BY <1>0, <1>p, <1>13, <2>1, <4>1, <4>2 DEF MarkRefundPending, logVars, history, budget
    <3> QED
      BY <3>1, <3>2
  <2> QED
    BY <1>0, <2>2, <2>3
<1>14. ASSUME NEW w \in Workers, RecordPending(w) PROVE PaidInv'
  <2>1. job[w] \in Job /\ job[w].order \in Orders
    BY <1>0, <1>14, BusyWorker DEF RecordPending
  <2>2. RefundedPaid'
    BY <1>0, <1>p, <1>14, <2>1 DEF RecordPending, logVars, history, budget
  <2>3. ASSUME NEW v \in Workers PROVE SuccessIsPaidBack(v)'
    <3>1. CASE v = w
      BY <1>0, <1>p, <1>14, <2>1, <3>1 DEF RecordPending, logVars, history, budget, Return
    <3>2. CASE v # w
      <4>1. pc'[v] = pc[v] /\ job'[v] = job[v]
        BY <1>0, <1>14, <3>2, Bystander DEF Execute
      <4>2. pc[v] # "idle" => job[v].order \in Orders
        BY <1>0, BusyWorker
      <4> QED
        BY <1>0, <1>p, <1>14, <2>1, <4>1, <4>2 DEF RecordPending, logVars, history, budget
    <3> QED
      BY <3>1, <3>2
  <2> QED
    BY <1>0, <2>2, <2>3
<1>15. ASSUME NEW w \in Workers, MarkRefundOk(w) PROVE PaidInv'
  <2>1. job[w] \in Job /\ job[w].order \in Orders
    BY <1>0, <1>15, BusyWorker DEF MarkRefundOk
  <2>2. RefundedPaid'
    BY <1>0, <1>p, <1>15, <2>1 DEF MarkRefundOk, logVars, history, budget, SetStatus
  <2>3. ASSUME NEW v \in Workers PROVE SuccessIsPaidBack(v)'
    <3>1. CASE v = w
      BY <1>0, <1>p, <1>15, <2>1, <3>1 DEF MarkRefundOk, logVars, history, budget, Goto, Return
    <3>2. CASE v # w
      <4>1. pc'[v] = pc[v] /\ job'[v] = job[v]
        BY <1>0, <1>15, <3>2, Bystander DEF Execute
      <4>2. pc[v] # "idle" => job[v].order \in Orders
        BY <1>0, BusyWorker
      <4> QED
        BY <1>0, <1>p, <1>15, <2>1, <4>1, <4>2 DEF MarkRefundOk, logVars, history, budget
    <3> QED
      BY <3>1, <3>2
  <2> QED
    BY <1>0, <2>2, <2>3
<1>16. ASSUME NEW w \in Workers, RecordSuccess(w) PROVE PaidInv'
  <2>1. job[w] \in Job /\ job[w].order \in Orders
    BY <1>0, <1>16, BusyWorker DEF RecordSuccess
  <2>2. RefundedPaid'
    BY <1>0, <1>p, <1>16, <2>1 DEF RecordSuccess, logVars, history, budget
  <2>3. ASSUME NEW v \in Workers PROVE SuccessIsPaidBack(v)'
    <3>1. CASE v = w
      BY <1>0, <1>p, <1>16, <2>1, <3>1 DEF RecordSuccess, logVars, history, budget, Return
    <3>2. CASE v # w
      <4>1. pc'[v] = pc[v] /\ job'[v] = job[v]
        BY <1>0, <1>16, <3>2, Bystander DEF Execute
      <4>2. pc[v] # "idle" => job[v].order \in Orders
        BY <1>0, BusyWorker
      <4> QED
        BY <1>0, <1>p, <1>16, <2>1, <4>1, <4>2 DEF RecordSuccess, logVars, history, budget
    <3> QED
      BY <3>1, <3>2
  <2> QED
    BY <1>0, <2>2, <2>3
<1>17. ASSUME NEW w \in Workers, ReadPendingDetail(w) PROVE PaidInv'
  <2>1. job[w] \in Job /\ job[w].order \in Orders
    BY <1>0, <1>17, BusyWorker DEF ReadPendingDetail
  <2>2. RefundedPaid'
    BY <1>0, <1>p, <1>17, <2>1 DEF ReadPendingDetail, logVars, history, budget
  <2>3. ASSUME NEW v \in Workers PROVE SuccessIsPaidBack(v)'
    <3>1. CASE v = w
      BY <1>0, <1>17, <3>1, DetailStep
    <3>2. CASE v # w
      <4>1. pc'[v] = pc[v] /\ job'[v] = job[v]
        BY <1>0, <1>17, <3>2, Bystander DEF Finalize
      <4>2. pc[v] # "idle" => job[v].order \in Orders
        BY <1>0, BusyWorker
      <4> QED
        BY <1>0, <1>p, <1>17, <2>1, <4>1, <4>2 DEF ReadPendingDetail, logVars, history, budget
    <3> QED
      BY <3>1, <3>2
  <2> QED
    BY <1>0, <2>2, <2>3
<1>18. ASSUME NEW w \in Workers, QueryRefund(w) PROVE PaidInv'
  <2>1. job[w] \in Job /\ job[w].order \in Orders
    BY <1>0, <1>18, BusyWorker DEF QueryRefund
  <2>2. RefundedPaid'
    BY <1>0, <1>p, <1>18, <2>1 DEF QueryRefund, logVars, history, budget
  <2>3. ASSUME NEW v \in Workers PROVE SuccessIsPaidBack(v)'
    <3>1. CASE v = w
      <4>1. Asked(w) = "done" => Paid(job[w].order)
        BY DEF Asked, Paid
      <4> QED
        BY <1>0, <1>p, <1>18, <2>1, <3>1, <4>1 DEF QueryRefund, Goto, Return
    <3>2. CASE v # w
      <4>1. pc'[v] = pc[v] /\ job'[v] = job[v]
        BY <1>0, <1>18, <3>2, Bystander DEF Finalize
      <4>2. pc[v] # "idle" => job[v].order \in Orders
        BY <1>0, BusyWorker
      <4> QED
        BY <1>0, <1>p, <1>18, <2>1, <4>1, <4>2 DEF QueryRefund, logVars, history, budget
    <3> QED
      BY <3>1, <3>2
  <2> QED
    BY <1>0, <2>2, <2>3
<1>19. ASSUME NEW w \in Workers, CheckSucceeded(w) PROVE PaidInv'
  <2>1. job[w] \in Job /\ job[w].order \in Orders
    BY <1>0, <1>19, BusyWorker DEF CheckSucceeded
  <2>2. RefundedPaid'
    BY <1>0, <1>p, <1>19, <2>1 DEF CheckSucceeded, logVars, history, budget
  <2>3. ASSUME NEW v \in Workers PROVE SuccessIsPaidBack(v)'
    <3>1. CASE v = w
      BY <1>0, <1>p, <1>19, <2>1, <3>1 DEF CheckSucceeded, logVars, history, budget, Goto
    <3>2. CASE v # w
      <4>1. pc'[v] = pc[v] /\ job'[v] = job[v]
        BY <1>0, <1>19, <3>2, Bystander DEF Finalize
      <4>2. pc[v] # "idle" => job[v].order \in Orders
        BY <1>0, BusyWorker
      <4> QED
        BY <1>0, <1>p, <1>19, <2>1, <4>1, <4>2 DEF CheckSucceeded, logVars, history, budget
    <3> QED
      BY <3>1, <3>2
  <2> QED
    BY <1>0, <2>2, <2>3
<1>20. ASSUME NEW w \in Workers, FinalDeduct(w) PROVE PaidInv'
  <2>1. job[w] \in Job /\ job[w].order \in Orders
    BY <1>0, <1>20, BusyWorker DEF FinalDeduct
  <2>2. RefundedPaid'
    BY <1>0, <1>p, <1>20, <2>1 DEF FinalDeduct, logVars, history, budget
  <2>3. ASSUME NEW v \in Workers PROVE SuccessIsPaidBack(v)'
    <3>1. CASE v = w
      BY <1>0, <1>p, <1>20, <2>1, <3>1 DEF FinalDeduct, logVars, history, budget, Goto, Return
    <3>2. CASE v # w
      <4>1. pc'[v] = pc[v] /\ job'[v] = job[v]
        BY <1>0, <1>20, <3>2, Bystander DEF Finalize
      <4>2. pc[v] # "idle" => job[v].order \in Orders
        BY <1>0, BusyWorker
      <4> QED
        BY <1>0, <1>p, <1>20, <2>1, <4>1, <4>2 DEF FinalDeduct, logVars, history, budget
    <3> QED
      BY <3>1, <3>2
  <2> QED
    BY <1>0, <2>2, <2>3
<1>21. ASSUME NEW w \in Workers, Crash(w) PROVE PaidInv'
  <2>1. RefundedPaid'
    BY <1>0, <1>p, <1>21 DEF Crash, Return, logVars, history
  <2>2. ASSUME NEW v \in Workers PROVE SuccessIsPaidBack(v)'
    <3>1. pc[v] # "idle" => job[v].order \in Orders
      BY <1>0, BusyWorker
    <3> QED
      BY <1>0, <1>p, <1>21, <3>1 DEF Crash, Return, logVars, history
  <2> QED
    BY <1>0, <2>1, <2>2
<1>22. CASE UNCHANGED vars
  <2>1. RefundedPaid'
    BY <1>0, <1>p, <1>22 DEF vars, logVars, history, workVars, budget
  <2>2. ASSUME NEW v \in Workers PROVE SuccessIsPaidBack(v)'
    <3>1. pc[v] # "idle" => job[v].order \in Orders
      BY <1>0, BusyWorker
    <3> QED
      BY <1>0, <1>p, <1>22, <3>1 DEF vars, logVars, history, workVars, budget
  <2> QED
    BY <1>0, <2>1, <2>2
<1> QED
  BY <1>1, <1>2, <1>3, <1>4, <1>5, <1>6, <1>7, <1>8, <1>9, <1>10, <1>11, <1>12, <1>13,
        <1>14, <1>15, <1>16, <1>17, <1>18, <1>19, <1>20, <1>21, <1>22 DEF Next, Execute,
        Finalize

-----------------------------------------------------------------------------
(* Orders no finalizer was asked for. *)

Finalizing == {"detail", "query", "finalCheck", "finalDeduct", "finalSuccess", "finalFailed"}

\* What an earlier attempt deducted and could not return.
Debt(o) == IF o \in rollbackFailed THEN 1 ELSE 0

OrderInv(o) ==
    o \notin doubt \cup finalized =>
        /\ deducted[o] \in {0, 1}
        /\ status[o] \in Refundable => deducted[o] = Debt(o)

\* The lock is held, and the deduction is the debt or the plan's own.
WorkerInv(w) == LET o == job[w].order IN o \notin finalized =>
    /\ pc[w] \notin Finalizing
    /\ pc[w] \in Executing => status[o] = "REFUNDING"
    /\ pc[w] = "deduct" => job[w].amount > 0
    /\ o \notin doubt =>
         /\ pc[w] \in {"check", "restore", "failed", "pending"} => deducted[o] = Debt(o)
         /\ pc[w] = "deduct" => deducted[o] = 0 /\ Debt(o) = 0
         /\ pc[w] \in {"refund", "undo", "undoPending"} =>
              IF job[w].amount > 0 THEN deducted[o] = 1 /\ Debt(o) = 0 ELSE deducted[o] = Debt(o)
         /\ pc[w] \in {"debt", "debtPending"} => deducted[o] = 1

IInv ==
    /\ TypeOK
    /\ \A o \in Orders : OrderInv(o)
    /\ \A w \in Workers : WorkerInv(w)
    /\ SingleRefunder

\* Nothing is deducted and no handler runs initially.
LEMMA IInvInit == Init => IInv
BY TypeInit DEF Init, IInv, OrderInv, WorkerInv, SingleRefunder, Executing, Finalizing, Debt

\* One step per action; the acting handler and the bystanders, which have other
\* orders or do not execute, are treated apart.
LEMMA IInvStep == IInv /\ [Next]_vars => IInv'
<1> SUFFICES ASSUME IInv, [Next]_vars PROVE IInv'
  OBVIOUS
<1>0. TypeOK /\ TypeOK'
  BY TypeStep DEF IInv
<1> USE DEF IInv, OrderInv, WorkerInv, SingleRefunder, Debt, Executing, Refundable, Finalizing
<1>1. ASSUME NEW o \in Orders, RequestRefund(o) PROVE IInv'
  <2>1. ASSUME NEW p \in Orders PROVE OrderInv(p)'
    BY <1>0, <1>1 DEF RequestRefund, SetStatus, logVars, history, workVars, budget, TypeOK,
        RowType, WorkType
  <2>2. ASSUME NEW v \in Workers PROVE WorkerInv(v)'
    BY <1>0, <1>1 DEF RequestRefund, SetStatus, logVars, history, workVars, budget, TypeOK,
        RowType, WorkType
  <2>3. SingleRefunder'
    BY <1>0, <1>1 DEF RequestRefund, SetStatus, logVars, history, workVars, budget, TypeOK,
        RowType, WorkType
  <2> QED
    BY <1>0, <2>1, <2>2, <2>3
<1>2. ASSUME NEW o \in Orders, ProviderSettles(o) PROVE IInv'
  <2>1. ASSUME NEW p \in Orders PROVE OrderInv(p)'
    BY <1>0, <1>2 DEF ProviderSettles, logVars, history, workVars, budget, TypeOK, RowType,
        WorkType
  <2>2. ASSUME NEW v \in Workers PROVE WorkerInv(v)'
    BY <1>0, <1>2 DEF ProviderSettles, logVars, history, workVars, budget, TypeOK, RowType,
        WorkType
  <2>3. SingleRefunder'
    BY <1>0, <1>2 DEF ProviderSettles, logVars, history, workVars, budget, TypeOK, RowType,
        WorkType
  <2> QED
    BY <1>0, <2>1, <2>2, <2>3
<1>3. ASSUME NEW w \in Workers, NEW o \in Orders, PrepareRefund(w, o) PROVE IInv'
  <2>1. ASSUME NEW p \in Orders PROVE OrderInv(p)'
    BY <1>0, <1>3 DEF PrepareRefund, Start, logVars, history, workVars, budget, TypeOK,
        RowType, WorkType
  <2>2. ASSUME NEW v \in Workers PROVE WorkerInv(v)'
    BY <1>0, <1>3 DEF PrepareRefund, Start, logVars, history, workVars, budget, TypeOK,
        RowType, WorkType
  <2>3. SingleRefunder'
    BY <1>0, <1>3 DEF PrepareRefund, Start, logVars, history, workVars, budget, TypeOK,
        RowType, WorkType
  <2> QED
    BY <1>0, <2>1, <2>2, <2>3
<1>4. ASSUME NEW w \in Workers, NEW o \in Orders, QueryAndFinalizeRefund(w, o) PROVE IInv'
  <2>1. ASSUME NEW p \in Orders PROVE OrderInv(p)'
    BY <1>0, <1>4 DEF QueryAndFinalizeRefund, Start, logVars, history, workVars, budget,
        TypeOK, RowType, WorkType
  <2>2. ASSUME NEW v \in Workers PROVE WorkerInv(v)'
    BY <1>0, <1>4 DEF QueryAndFinalizeRefund, Start, logVars, history, workVars, budget,
        TypeOK, RowType, WorkType
  <2>3. SingleRefunder'
    BY <1>0, <1>4 DEF QueryAndFinalizeRefund, Start, logVars, history, workVars, budget,
        TypeOK, RowType, WorkType
  <2> QED
    BY <1>0, <2>1, <2>2, <2>3
<1>5. ASSUME NEW w \in Workers, LockRefunding(w) PROVE IInv'
  <2>1. job[w] \in Job /\ job[w].order \in Orders
    BY <1>0, <1>5, BusyWorker DEF LockRefunding, TypeOK
  <2>2. ASSUME NEW p \in Orders PROVE OrderInv(p)'
    BY <1>0, <1>5, <2>1 DEF LockRefunding, logVars, history, budget, Lockable, SetStatus,
          TypeOK, RowType, WorkType
  <2>3. ASSUME NEW v \in Workers PROVE WorkerInv(v)'
    <3>1. CASE v = w
      BY <1>0, <1>5, <2>1, <3>1 DEF LockRefunding, logVars, history, budget, Lockable,
            SetStatus, Goto, Return, TypeOK, RowType, WorkType
    <3>2. CASE v # w
      <4>1. pc'[v] = pc[v] /\ job'[v] = job[v]
        BY <1>0, <1>5, <3>2, Bystander DEF Execute, TypeOK
      <4>2. pc[v] # "idle" => job[v].order \in Orders
        BY <1>0, BusyWorker DEF TypeOK
      <4> QED
        BY <1>0, <1>5, <2>1, <3>2, <4>1, <4>2 DEF LockRefunding, logVars, history, budget,
              Lockable, SetStatus, TypeOK, RowType, WorkType
    <3> QED
      BY <3>1, <3>2
  <2>4. SingleRefunder'
    BY <1>0, <1>5, <2>1 DEF LockRefunding, history, Lockable, Goto, Return, TypeOK, WorkType
  <2> QED
    BY <1>0, <2>2, <2>3, <2>4
<1>6. ASSUME NEW w \in Workers, CheckDeducted(w) PROVE IInv'
  <2>1. job[w] \in Job /\ job[w].order \in Orders
    BY <1>0, <1>6, BusyWorker DEF CheckDeducted, TypeOK
  <2>2. ASSUME NEW p \in Orders PROVE OrderInv(p)'
    BY <1>0, <1>6, <2>1 DEF CheckDeducted, logVars, history, budget, AlreadyDeducted, Doubt,
          TypeOK, RowType, WorkType
  <2>3. ASSUME NEW v \in Workers PROVE WorkerInv(v)'
    <3>1. CASE v = w
      <4>1. PICK o \in Orders : o = job[w].order
        BY <2>1
      <4>2. CASE NoFault /\ job[w].amount = 0 /\ Goto(w, "refund") /\ UNCHANGED doubt
        BY <1>0, <1>6, <2>1, <3>1, <4>1, <4>2 DEF CheckDeducted, logVars, history, Goto,
              TypeOK, RowType, WorkType
      <4>3. CASE job[w].amount > 0 /\ AlreadyDeducted(o) /\ GotoWith(w, "refund", 0) /\ UNCHANGED doubt
        <5>1. pc'[w] = "refund" /\ job'[w].order = o /\ job'[w].amount = 0
          BY <1>0, <1>6, <4>1, <4>3, PlanKept DEF CheckDeducted, TypeOK
        <5> QED
          BY <1>6, <3>1, <4>1, <4>3, <5>1 DEF CheckDeducted, logVars, history, AlreadyDeducted
      <4>4. CASE job[w].amount > 0 /\ ~AlreadyDeducted(o) /\ Goto(w, "deduct") /\ UNCHANGED doubt
        BY <1>0, <1>6, <2>1, <3>1, <4>1, <4>4 DEF CheckDeducted, logVars, history,
              AlreadyDeducted, Goto, TypeOK, RowType, WorkType
      <4>5. CASE Goto(w, "deduct") /\ Doubt(o)
        BY <1>0, <1>6, <2>1, <3>1, <4>1, <4>5 DEF CheckDeducted, logVars, history, Goto,
              Doubt, TypeOK, RowType, WorkType
      <4> QED
        BY <1>6, <4>1, <4>2, <4>3, <4>4, <4>5 DEF CheckDeducted
    <3>2. CASE v # w
      <4>1. pc'[v] = pc[v] /\ job'[v] = job[v]
        BY <1>0, <1>6, <3>2, Bystander DEF Execute, TypeOK
      <4>2. pc[v] # "idle" => job[v].order \in Orders
        BY <1>0, BusyWorker DEF TypeOK
      <4> QED
        BY <1>0, <1>6, <2>1, <3>2, <4>1, <4>2 DEF CheckDeducted, logVars, history, budget,
              AlreadyDeducted, Doubt, TypeOK, RowType, WorkType
    <3> QED
      BY <3>1, <3>2
  <2>4. \A v \in Workers : pc'[v] \in Executing => pc[v] \in Executing /\ job'[v].order = job[v].order
    <3>1. pc[w] \in Executing /\ job'[w].order = job[w].order
      BY <1>0, <1>6, PlanKept DEF CheckDeducted, Goto, TypeOK
    <3>2. \A v \in Workers \ {w} : pc'[v] = pc[v] /\ job'[v] = job[v]
      BY <1>0, <1>6, Bystander DEF Execute, TypeOK
    <3> QED
      BY <3>1, <3>2
  <2>5. SingleRefunder'
    BY <1>6, <2>4 DEF CheckDeducted, history
  <2> QED
    BY <1>0, <2>2, <2>3, <2>5
<1>7. ASSUME NEW w \in Workers, DeductBalance(w) PROVE IInv'
  <2>1. job[w] \in Job /\ job[w].order \in Orders
    BY <1>0, <1>7, BusyWorker DEF DeductBalance, TypeOK
  <2>2. ASSUME NEW p \in Orders PROVE OrderInv(p)'
    BY <1>0, <1>7, <2>1 DEF DeductBalance, logVars, history, budget, Deduct, Doubt, TypeOK,
          RowType, WorkType
  <2>3. ASSUME NEW v \in Workers PROVE WorkerInv(v)'
    <3>1. CASE v = w
      <4>1. PICK o \in Orders : o = job[w].order
        BY <2>1
      <4>2. CASE Deduct(o, 1) /\ Goto(w, "refund") /\ UNCHANGED doubt
        BY <1>0, <1>7, <2>1, <3>1, <4>1, <4>2 DEF DeductBalance, logVars, history, Deduct,
              Goto, TypeOK, RowType, WorkType
      <4>3. CASE Goto(w, "restore") /\ UNCHANGED <<deducted, doubt>>
        BY <1>0, <1>7, <2>1, <3>1, <4>1, <4>3 DEF DeductBalance, logVars, history, Goto,
              TypeOK, RowType, WorkType
      <4>4. CASE Deduct(o, 1) /\ Goto(w, "restore") /\ Doubt(o)
        BY <1>0, <1>7, <2>1, <3>1, <4>1, <4>4 DEF DeductBalance, logVars, history, Deduct,
              Goto, Doubt, TypeOK, RowType, WorkType
      <4> QED
        BY <1>7, <4>1, <4>2, <4>3, <4>4 DEF DeductBalance
    <3>2. CASE v # w
      <4>1. pc'[v] = pc[v] /\ job'[v] = job[v]
        BY <1>0, <1>7, <3>2, Bystander DEF Execute, TypeOK
      <4>2. pc[v] # "idle" => job[v].order \in Orders
        BY <1>0, BusyWorker DEF TypeOK
      <4> QED
        BY <1>0, <1>7, <2>1, <3>2, <4>1, <4>2 DEF DeductBalance, logVars, history, budget,
              Deduct, Doubt, TypeOK, RowType, WorkType
    <3> QED
      BY <3>1, <3>2
  <2>4. \A v \in Workers : pc'[v] \in Executing => pc[v] \in Executing /\ job'[v].order = job[v].order
    <3>1. pc[w] \in Executing /\ job'[w].order = job[w].order
      BY <1>0, <1>7, PlanKept DEF DeductBalance, Goto, TypeOK
    <3>2. \A v \in Workers \ {w} : pc'[v] = pc[v] /\ job'[v] = job[v]
      BY <1>0, <1>7, Bystander DEF Execute, TypeOK
    <3> QED
      BY <3>1, <3>2
  <2>5. SingleRefunder'
    BY <1>7, <2>4 DEF DeductBalance, history
  <2> QED
    BY <1>0, <2>2, <2>3, <2>5
<1>8. ASSUME NEW w \in Workers, GwRefund(w) PROVE IInv'
  <2>1. job[w] \in Job /\ job[w].order \in Orders
    BY <1>0, <1>8, BusyWorker DEF GwRefund, TypeOK
  <2>2. ASSUME NEW p \in Orders PROVE OrderInv(p)'
    BY <1>0, <1>8, <2>1 DEF GwRefund, logVars, history, budget, TypeOK, RowType, WorkType
  <2>3. ASSUME NEW v \in Workers PROVE WorkerInv(v)'
    <3>1. CASE v = w
      <4>1. PICK o \in Orders : o = job[w].order
        BY <2>1
      <4>2. /\ job'[w].order = o /\ job'[w].amount = job[w].amount
            /\ pc'[w] \in {"success", "undo", "undoPending"}
        BY <1>0, <1>8, <4>1, GwStep
      <4> QED
        BY <1>0, <1>8, <3>1, <4>1, <4>2 DEF GwRefund, logVars, history
    <3>2. CASE v # w
      <4>1. pc'[v] = pc[v] /\ job'[v] = job[v]
        BY <1>0, <1>8, <3>2, Bystander DEF Execute, TypeOK
      <4>2. pc[v] # "idle" => job[v].order \in Orders
        BY <1>0, BusyWorker DEF TypeOK
      <4> QED
        BY <1>0, <1>8, <2>1, <3>2, <4>1, <4>2 DEF GwRefund, logVars, history, budget,
              TypeOK, RowType, WorkType
    <3> QED
      BY <3>1, <3>2
  <2>4. \A v \in Workers : pc'[v] \in Executing => pc[v] \in Executing /\ job'[v].order = job[v].order
    <3>1. pc[w] \in Executing /\ job'[w].order = job[w].order
      BY <1>0, <1>8, <2>1, GwStep DEF GwRefund
    <3>2. \A v \in Workers \ {w} : pc'[v] = pc[v] /\ job'[v] = job[v]
      BY <1>0, <1>8, Bystander DEF Execute
    <3> QED
      BY <3>1, <3>2
  <2>5. SingleRefunder'
    BY <1>8, <2>4 DEF GwRefund, history
  <2> QED
    BY <1>0, <2>2, <2>3, <2>5
<1>9. ASSUME NEW w \in Workers, RollbackRefund(w) PROVE IInv'
  <2>1. job[w] \in Job /\ job[w].order \in Orders
    BY <1>0, <1>9, BusyWorker DEF RollbackRefund, TypeOK
  <2>2. ASSUME NEW p \in Orders PROVE OrderInv(p)'
    BY <1>0, <1>9, <2>1 DEF RollbackRefund, logVars, history, budget, ReturnDeduction,
          Deduct, Doubt, TypeOK, RowType, WorkType
  <2>3. ASSUME NEW v \in Workers PROVE WorkerInv(v)'
    <3>1. CASE v = w
      <4>1. PICK o \in Orders : o = job[w].order
        BY <2>1
      <4>2. CASE job[w].amount = 0 /\ (Goto(w, "pending") \/ Goto(w, "restore")) /\ UNCHANGED <<deducted, doubt>>
        BY <1>0, <1>9, <2>1, <3>1, <4>1, <4>2 DEF RollbackRefund, logVars, history, Goto,
              TypeOK, RowType, WorkType
      <4>3. CASE /\ job[w].amount > 0 /\ ReturnDeduction(o) /\ UNCHANGED doubt
                 /\ GotoWith(w, "pending", 0) \/ GotoWith(w, "restore", 0)
        <5>1. pc'[w] \in {"pending", "restore"} /\ job'[w].order = o /\ job'[w].amount = 0
          BY <1>0, <1>9, <4>1, <4>3, PlanKept DEF RollbackRefund, TypeOK
        <5>2. deducted'[o] = deducted[o] - 1 /\ deducted[o] \in Int
          BY <1>0, <4>3 DEF ReturnDeduction, Deduct, TypeOK, RowType
        <5> QED
          BY <1>9, <3>1, <4>1, <4>3, <5>1, <5>2 DEF RollbackRefund, logVars, history
      <4>4. CASE /\ job[w].amount > 0 /\ UNCHANGED <<deducted, doubt>>
                 /\ Goto(w, "debt") \/ Goto(w, "debtPending")
        BY <1>0, <1>9, <2>1, <3>1, <4>1, <4>4 DEF RollbackRefund, logVars, history, Goto,
              TypeOK, RowType, WorkType
      <4>5. CASE (Goto(w, "debt") \/ Goto(w, "debtPending")) /\ ReturnDeduction(o) /\ Doubt(o)
        BY <1>0, <1>9, <2>1, <3>1, <4>1, <4>5 DEF RollbackRefund, logVars, history,
              ReturnDeduction, Deduct, Goto, Doubt, TypeOK, RowType, WorkType
      <4> QED
        BY <1>9, <4>1, <4>2, <4>3, <4>4, <4>5 DEF RollbackRefund
    <3>2. CASE v # w
      <4>1. pc'[v] = pc[v] /\ job'[v] = job[v]
        BY <1>0, <1>9, <3>2, Bystander DEF Execute, TypeOK
      <4>2. pc[v] # "idle" => job[v].order \in Orders
        BY <1>0, BusyWorker DEF TypeOK
      <4> QED
        BY <1>0, <1>9, <2>1, <3>2, <4>1, <4>2 DEF RollbackRefund, logVars, history, budget,
              ReturnDeduction, Deduct, Doubt, TypeOK, RowType, WorkType
    <3> QED
      BY <3>1, <3>2
  <2>4. \A v \in Workers : pc'[v] \in Executing => pc[v] \in Executing /\ job'[v].order = job[v].order
    <3>1. pc[w] \in Executing /\ job'[w].order = job[w].order
      BY <1>0, <1>9, PlanKept DEF RollbackRefund, Goto, TypeOK
    <3>2. \A v \in Workers \ {w} : pc'[v] = pc[v] /\ job'[v] = job[v]
      BY <1>0, <1>9, Bystander DEF Execute, TypeOK
    <3> QED
      BY <3>1, <3>2
  <2>5. SingleRefunder'
    BY <1>9, <2>4 DEF RollbackRefund, history
  <2> QED
    BY <1>0, <2>2, <2>3, <2>5
<1>10. ASSUME NEW w \in Workers, RecordDebt(w) PROVE IInv'
  <2>1. job[w] \in Job /\ job[w].order \in Orders
    BY <1>0, <1>10, BusyWorker DEF RecordDebt, TypeOK
  <2>2. ASSUME NEW p \in Orders PROVE OrderInv(p)'
    BY <1>0, <1>10, <2>1 DEF RecordDebt, logVars, history, budget, Doubt, TypeOK, RowType,
          WorkType
  <2>3. ASSUME NEW v \in Workers PROVE WorkerInv(v)'
    <3>1. CASE v = w
      BY <1>0, <1>10, <2>1, <3>1 DEF RecordDebt, logVars, history, budget, Goto, Doubt,
            TypeOK, RowType, WorkType
    <3>2. CASE v # w
      <4>1. pc'[v] = pc[v] /\ job'[v] = job[v]
        BY <1>0, <1>10, <3>2, Bystander DEF Execute, TypeOK
      <4>2. pc[v] # "idle" => job[v].order \in Orders
        BY <1>0, BusyWorker DEF TypeOK
      <4> QED
        BY <1>0, <1>10, <2>1, <3>2, <4>1, <4>2 DEF RecordDebt, logVars, history, budget,
              Doubt, TypeOK, RowType, WorkType
    <3> QED
      BY <3>1, <3>2
  <2>4. SingleRefunder'
    BY <1>0, <1>10, <2>1 DEF RecordDebt, history, Goto, TypeOK, WorkType
  <2> QED
    BY <1>0, <2>2, <2>3, <2>4
<1>11. ASSUME NEW w \in Workers, RestoreStatus(w) PROVE IInv'
  <2>1. job[w] \in Job /\ job[w].order \in Orders
    BY <1>0, <1>11, BusyWorker DEF RestoreStatus, TypeOK
  <2>2. ASSUME NEW p \in Orders PROVE OrderInv(p)'
    BY <1>0, <1>11, <2>1 DEF RestoreStatus, logVars, history, budget, StatusRestored,
          SetStatus, TypeOK, RowType, WorkType
  <2>3. ASSUME NEW v \in Workers PROVE WorkerInv(v)'
    <3>1. CASE v = w
      BY <1>0, <1>11, <2>1, <3>1 DEF RestoreStatus, logVars, history, budget,
            StatusRestored, SetStatus, Return, TypeOK, RowType, WorkType
    <3>2. CASE v # w
      <4>1. pc'[v] = pc[v] /\ job'[v] = job[v]
        BY <1>0, <1>11, <3>2, Bystander DEF Execute, TypeOK
      <4>2. pc[v] # "idle" => job[v].order \in Orders
        BY <1>0, BusyWorker DEF TypeOK
      <4> QED
        BY <1>0, <1>11, <2>1, <3>2, <4>1, <4>2 DEF RestoreStatus, logVars, history, budget,
              StatusRestored, SetStatus, TypeOK, RowType, WorkType
    <3> QED
      BY <3>1, <3>2
  <2>4. SingleRefunder'
    BY <1>0, <1>11, <2>1 DEF RestoreStatus, history, Return, TypeOK, WorkType
  <2> QED
    BY <1>0, <2>2, <2>3, <2>4
<1>12. ASSUME NEW w \in Workers, MarkRefundFailed(w) PROVE IInv'
  <2>1. job[w] \in Job /\ job[w].order \in Orders
    BY <1>0, <1>12, BusyWorker DEF MarkRefundFailed, TypeOK
  <2>2. ASSUME NEW p \in Orders PROVE OrderInv(p)'
    BY <1>0, <1>12, <2>1 DEF MarkRefundFailed, logVars, history, budget, SetStatus, TypeOK,
          RowType, WorkType
  <2>3. ASSUME NEW v \in Workers PROVE WorkerInv(v)'
    <3>1. CASE v = w
      BY <1>0, <1>12, <2>1, <3>1 DEF MarkRefundFailed, logVars, history, budget, SetStatus,
            Return, TypeOK, RowType, WorkType
    <3>2. CASE v # w
      <4>1. pc'[v] = pc[v] /\ job'[v] = job[v]
        BY <1>0, <1>12, <3>2, Bystander DEF Execute, TypeOK
      <4>2. pc[v] # "idle" => job[v].order \in Orders
        BY <1>0, BusyWorker DEF TypeOK
      <4> QED
        BY <1>0, <1>12, <2>1, <3>2, <4>1, <4>2 DEF MarkRefundFailed, logVars, history,
              budget, SetStatus, TypeOK, RowType, WorkType
    <3> QED
      BY <3>1, <3>2
  <2>4. SingleRefunder'
    BY <1>0, <1>12, <2>1 DEF MarkRefundFailed, history, Return, TypeOK, WorkType
  <2> QED
    BY <1>0, <2>2, <2>3, <2>4
<1>13. ASSUME NEW w \in Workers, MarkRefundPending(w) PROVE IInv'
  <2>1. job[w] \in Job /\ job[w].order \in Orders
    BY <1>0, <1>13, BusyWorker DEF MarkRefundPending, TypeOK
  <2>2. ASSUME NEW p \in Orders PROVE OrderInv(p)'
    BY <1>0, <1>13, <2>1 DEF MarkRefundPending, logVars, history, budget, SetStatus, TypeOK,
          RowType, WorkType
  <2>3. ASSUME NEW v \in Workers PROVE WorkerInv(v)'
    <3>1. CASE v = w
      BY <1>0, <1>13, <2>1, <3>1 DEF MarkRefundPending, logVars, history, budget, SetStatus,
            Goto, Return, TypeOK, RowType, WorkType
    <3>2. CASE v # w
      <4>1. pc'[v] = pc[v] /\ job'[v] = job[v]
        BY <1>0, <1>13, <3>2, Bystander DEF Execute, TypeOK
      <4>2. pc[v] # "idle" => job[v].order \in Orders
        BY <1>0, BusyWorker DEF TypeOK
      <4> QED
        BY <1>0, <1>13, <2>1, <3>2, <4>1, <4>2 DEF MarkRefundPending, logVars, history,
              budget, SetStatus, TypeOK, RowType, WorkType
    <3> QED
      BY <3>1, <3>2
  <2>4. SingleRefunder'
    BY <1>0, <1>13, <2>1 DEF MarkRefundPending, history, Goto, Return, TypeOK, WorkType
  <2> QED
    BY <1>0, <2>2, <2>3, <2>4
<1>14. ASSUME NEW w \in Workers, RecordPending(w) PROVE IInv'
  <2>1. job[w] \in Job /\ job[w].order \in Orders
    BY <1>0, <1>14, BusyWorker DEF RecordPending, TypeOK
  <2>2. ASSUME NEW p \in Orders PROVE OrderInv(p)'
    BY <1>0, <1>14, <2>1 DEF RecordPending, logVars, history, budget, TypeOK, RowType,
          WorkType
  <2>3. ASSUME NEW v \in Workers PROVE WorkerInv(v)'
    <3>1. CASE v = w
      BY <1>0, <1>14, <2>1, <3>1 DEF RecordPending, logVars, history, budget, Return,
            TypeOK, RowType, WorkType
    <3>2. CASE v # w
      <4>1. pc'[v] = pc[v] /\ job'[v] = job[v]
        BY <1>0, <1>14, <3>2, Bystander DEF Execute, TypeOK
      <4>2. pc[v] # "idle" => job[v].order \in Orders
        BY <1>0, BusyWorker DEF TypeOK
      <4> QED
        BY <1>0, <1>14, <2>1, <3>2, <4>1, <4>2 DEF RecordPending, logVars, history, budget,
              TypeOK, RowType, WorkType
    <3> QED
      BY <3>1, <3>2
  <2>4. SingleRefunder'
    BY <1>0, <1>14, <2>1 DEF RecordPending, history, Return, TypeOK, WorkType
  <2> QED
    BY <1>0, <2>2, <2>3, <2>4
<1>15. ASSUME NEW w \in Workers, MarkRefundOk(w) PROVE IInv'
  <2>1. job[w] \in Job /\ job[w].order \in Orders
    BY <1>0, <1>15, BusyWorker DEF MarkRefundOk, TypeOK
  <2>2. ASSUME NEW p \in Orders PROVE OrderInv(p)'
    BY <1>0, <1>15, <2>1 DEF MarkRefundOk, logVars, history, budget, SetStatus, TypeOK,
          RowType, WorkType
  <2>3. ASSUME NEW v \in Workers PROVE WorkerInv(v)'
    <3>1. CASE v = w
      BY <1>0, <1>15, <2>1, <3>1 DEF MarkRefundOk, logVars, history, budget, SetStatus,
            Goto, Return, TypeOK, RowType, WorkType
    <3>2. CASE v # w
      <4>1. pc'[v] = pc[v] /\ job'[v] = job[v]
        BY <1>0, <1>15, <3>2, Bystander DEF Execute, TypeOK
      <4>2. pc[v] # "idle" => job[v].order \in Orders
        BY <1>0, BusyWorker DEF TypeOK
      <4> QED
        BY <1>0, <1>15, <2>1, <3>2, <4>1, <4>2 DEF MarkRefundOk, logVars, history, budget,
              SetStatus, TypeOK, RowType, WorkType
    <3> QED
      BY <3>1, <3>2
  <2>4. SingleRefunder'
    BY <1>0, <1>15, <2>1 DEF MarkRefundOk, history, Goto, Return, TypeOK, WorkType
  <2> QED
    BY <1>0, <2>2, <2>3, <2>4
<1>16. ASSUME NEW w \in Workers, RecordSuccess(w) PROVE IInv'
  <2>1. job[w] \in Job /\ job[w].order \in Orders
    BY <1>0, <1>16, BusyWorker DEF RecordSuccess, TypeOK
  <2>2. ASSUME NEW p \in Orders PROVE OrderInv(p)'
    BY <1>0, <1>16, <2>1 DEF RecordSuccess, logVars, history, budget, TypeOK, RowType,
          WorkType
  <2>3. ASSUME NEW v \in Workers PROVE WorkerInv(v)'
    <3>1. CASE v = w
      BY <1>0, <1>16, <2>1, <3>1 DEF RecordSuccess, logVars, history, budget, Return,
            TypeOK, RowType, WorkType
    <3>2. CASE v # w
      <4>1. pc'[v] = pc[v] /\ job'[v] = job[v]
        BY <1>0, <1>16, <3>2, Bystander DEF Execute, TypeOK
      <4>2. pc[v] # "idle" => job[v].order \in Orders
        BY <1>0, BusyWorker DEF TypeOK
      <4> QED
        BY <1>0, <1>16, <2>1, <3>2, <4>1, <4>2 DEF RecordSuccess, logVars, history, budget,
              TypeOK, RowType, WorkType
    <3> QED
      BY <3>1, <3>2
  <2>4. SingleRefunder'
    BY <1>0, <1>16, <2>1 DEF RecordSuccess, history, Return, TypeOK, WorkType
  <2> QED
    BY <1>0, <2>2, <2>3, <2>4
<1>17. ASSUME NEW w \in Workers, ReadPendingDetail(w) PROVE IInv'
  <2>1. job[w] \in Job /\ job[w].order \in Orders
    BY <1>0, <1>17, BusyWorker DEF ReadPendingDetail, TypeOK
  <2>2. ASSUME NEW p \in Orders PROVE OrderInv(p)'
    BY <1>0, <1>17, <2>1 DEF ReadPendingDetail, logVars, history, budget, TypeOK, RowType,
          WorkType
  <2>3. ASSUME NEW v \in Workers PROVE WorkerInv(v)'
    <3>1. CASE v = w
      <4>1. job'[w].order = job[w].order /\ pc'[w] = "query"
        BY <1>0, <1>17, DetailStep
      <4> QED
        BY <1>17, <3>1, <4>1 DEF ReadPendingDetail, history
    <3>2. CASE v # w
      <4>1. pc'[v] = pc[v] /\ job'[v] = job[v]
        BY <1>0, <1>17, <3>2, Bystander DEF Finalize, TypeOK
      <4>2. pc[v] # "idle" => job[v].order \in Orders
        BY <1>0, BusyWorker DEF TypeOK
      <4> QED
        BY <1>0, <1>17, <2>1, <3>2, <4>1, <4>2 DEF ReadPendingDetail, logVars, history,
              budget, TypeOK, RowType, WorkType
    <3> QED
      BY <3>1, <3>2
  <2>4. SingleRefunder'
    <3>1. pc'[w] = "query" /\ \A v \in Workers \ {w} : pc'[v] = pc[v] /\ job'[v] = job[v]
      BY <1>0, <1>17, DetailStep, Bystander DEF Finalize
    <3> QED
      BY <1>17, <3>1 DEF ReadPendingDetail, history
  <2> QED
    BY <1>0, <2>2, <2>3, <2>4
<1>18. ASSUME NEW w \in Workers, QueryRefund(w) PROVE IInv'
  <2>1. job[w] \in Job /\ job[w].order \in Orders
    BY <1>0, <1>18, BusyWorker DEF QueryRefund, TypeOK
  <2>2. ASSUME NEW p \in Orders PROVE OrderInv(p)'
    BY <1>0, <1>18, <2>1 DEF QueryRefund, logVars, history, budget, TypeOK, RowType,
          WorkType
  <2>3. ASSUME NEW v \in Workers PROVE WorkerInv(v)'
    <3>1. CASE v = w
      BY <1>0, <1>18, <2>1, <3>1 DEF QueryRefund, logVars, history, budget, Goto, Return,
            TypeOK, RowType, WorkType
    <3>2. CASE v # w
      <4>1. pc'[v] = pc[v] /\ job'[v] = job[v]
        BY <1>0, <1>18, <3>2, Bystander DEF Finalize, TypeOK
      <4>2. pc[v] # "idle" => job[v].order \in Orders
        BY <1>0, BusyWorker DEF TypeOK
      <4> QED
        BY <1>0, <1>18, <2>1, <3>2, <4>1, <4>2 DEF QueryRefund, logVars, history, budget,
              TypeOK, RowType, WorkType
    <3> QED
      BY <3>1, <3>2
  <2>4. SingleRefunder'
    BY <1>0, <1>18, <2>1 DEF QueryRefund, history, Goto, Return, TypeOK, WorkType
  <2> QED
    BY <1>0, <2>2, <2>3, <2>4
<1>19. ASSUME NEW w \in Workers, CheckSucceeded(w) PROVE IInv'
  <2>1. job[w] \in Job /\ job[w].order \in Orders
    BY <1>0, <1>19, BusyWorker DEF CheckSucceeded, TypeOK
  <2>2. ASSUME NEW p \in Orders PROVE OrderInv(p)'
    BY <1>0, <1>19, <2>1 DEF CheckSucceeded, logVars, history, budget, TypeOK, RowType,
          WorkType
  <2>3. ASSUME NEW v \in Workers PROVE WorkerInv(v)'
    <3>1. CASE v = w
      BY <1>0, <1>19, <2>1, <3>1 DEF CheckSucceeded, logVars, history, budget, Goto, TypeOK,
            RowType, WorkType
    <3>2. CASE v # w
      <4>1. pc'[v] = pc[v] /\ job'[v] = job[v]
        BY <1>0, <1>19, <3>2, Bystander DEF Finalize, TypeOK
      <4>2. pc[v] # "idle" => job[v].order \in Orders
        BY <1>0, BusyWorker DEF TypeOK
      <4> QED
        BY <1>0, <1>19, <2>1, <3>2, <4>1, <4>2 DEF CheckSucceeded, logVars, history, budget,
              TypeOK, RowType, WorkType
    <3> QED
      BY <3>1, <3>2
  <2>4. SingleRefunder'
    BY <1>0, <1>19, <2>1 DEF CheckSucceeded, history, Goto, TypeOK, WorkType
  <2> QED
    BY <1>0, <2>2, <2>3, <2>4
<1>20. ASSUME NEW w \in Workers, FinalDeduct(w) PROVE IInv'
  <2>1. job[w] \in Job /\ job[w].order \in Orders
    BY <1>0, <1>20, BusyWorker DEF FinalDeduct, TypeOK
  <2>2. ASSUME NEW p \in Orders PROVE OrderInv(p)'
    BY <1>0, <1>20, <2>1 DEF FinalDeduct, logVars, history, budget, Deduct, Doubt, TypeOK,
          RowType, WorkType
  <2>3. ASSUME NEW v \in Workers PROVE WorkerInv(v)'
    <3>1. CASE v = w
      BY <1>0, <1>20, <2>1, <3>1 DEF FinalDeduct, logVars, history, budget, Deduct, Goto,
            Return, Doubt, TypeOK, RowType, WorkType
    <3>2. CASE v # w
      <4>1. pc'[v] = pc[v] /\ job'[v] = job[v]
        BY <1>0, <1>20, <3>2, Bystander DEF Finalize, TypeOK
      <4>2. pc[v] # "idle" => job[v].order \in Orders
        BY <1>0, BusyWorker DEF TypeOK
      <4> QED
        BY <1>0, <1>20, <2>1, <3>2, <4>1, <4>2 DEF FinalDeduct, logVars, history, budget,
              Deduct, Doubt, TypeOK, RowType, WorkType
    <3> QED
      BY <3>1, <3>2
  <2>4. SingleRefunder'
    BY <1>0, <1>20, <2>1 DEF FinalDeduct, history, Goto, Return, TypeOK, WorkType
  <2> QED
    BY <1>0, <2>2, <2>3, <2>4
<1>21. ASSUME NEW w \in Workers, Crash(w) PROVE IInv'
  <2>1. ASSUME NEW p \in Orders PROVE OrderInv(p)'
    BY <1>0, <1>21 DEF Crash, Return, logVars, history, TypeOK, RowType, WorkType
  <2>2. ASSUME NEW v \in Workers PROVE WorkerInv(v)'
    BY <1>0, <1>21 DEF Crash, Return, logVars, history, TypeOK, RowType, WorkType
  <2>3. SingleRefunder'
    BY <1>0, <1>21 DEF Crash, Return, logVars, history, TypeOK, RowType, WorkType
  <2> QED
    BY <1>0, <2>1, <2>2, <2>3
<1>22. CASE UNCHANGED vars
  BY <1>0, <1>22 DEF vars, logVars, history, workVars, budget
<1> QED
  BY <1>1, <1>2, <1>3, <1>4, <1>5, <1>6, <1>7, <1>8, <1>9, <1>10, <1>11, <1>12, <1>13,
        <1>14, <1>15, <1>16, <1>17, <1>18, <1>19, <1>20, <1>21, <1>22 DEF Next, Execute,
        Finalize

\* The inductive invariant holds in every reachable state.
THEOREM Invariance == Spec => []IInv
BY IInvInit, IInvStep, PTL DEF Spec

\* At most one handler refunds an order while it is not finalized.
THEOREM MutualExclusion == Spec => []SingleRefunder
<1>1. IInv => SingleRefunder
  BY DEF IInv
<1> QED
  BY <1>1, Invariance, PTL

\* Every deduction of a refundable order is on record, and none is made twice.
THEOREM Accounted == Spec => []DeductionAccounted
<1>1. IInv => DeductionAccounted
  BY DEF IInv, OrderInv, DeductionAccounted, Debt
<1> QED
  BY <1>1, Invariance, PTL

\* Every update of the status is made by the holder of the lock.
LEMMA FinalStep ==
    ASSUME IInv, [Next]_vars, NEW p \in Orders \ finalized, status[p] = "REFUNDED"
    PROVE  status'[p] = "REFUNDED"
<1>0. TypeOK
  BY DEF IInv
<1> USE DEF IInv, WorkerInv, Executing, Refundable, TypeOK, RowType
<1>1. ASSUME NEW o \in Orders, RequestRefund(o) PROVE status'[p] = "REFUNDED"
  BY <1>0, <1>1 DEF RequestRefund, SetStatus
<1>2. ASSUME NEW w \in Workers, LockRefunding(w) PROVE status'[p] = "REFUNDED"
  <2>1. job[w].order \in Orders
    BY <1>0, <1>2, BusyWorker DEF LockRefunding
  <2> QED
    BY <1>0, <1>2, <2>1 DEF LockRefunding, Lockable, SetStatus, Finalizing
<1>3. ASSUME NEW w \in Workers, RestoreStatus(w) PROVE status'[p] = "REFUNDED"
  <2>1. job[w].order \in Orders
    BY <1>0, <1>3, BusyWorker DEF RestoreStatus
  <2> QED
    BY <1>0, <1>3, <2>1 DEF RestoreStatus, StatusRestored, SetStatus, Finalizing
<1>4. ASSUME NEW w \in Workers, MarkRefundFailed(w) PROVE status'[p] = "REFUNDED"
  <2>1. job[w].order \in Orders
    BY <1>0, <1>4, BusyWorker DEF MarkRefundFailed
  <2> QED
    BY <1>0, <1>4, <2>1 DEF MarkRefundFailed, SetStatus, Finalizing
<1>5. ASSUME NEW w \in Workers, MarkRefundPending(w) PROVE status'[p] = "REFUNDED"
  <2>1. job[w].order \in Orders
    BY <1>0, <1>5, BusyWorker DEF MarkRefundPending
  <2> QED
    BY <1>0, <1>5, <2>1 DEF MarkRefundPending, SetStatus, Finalizing
<1>6. ASSUME NEW w \in Workers, MarkRefundOk(w) PROVE status'[p] = "REFUNDED"
  <2>1. job[w].order \in Orders
    BY <1>0, <1>6, BusyWorker DEF MarkRefundOk
  <2> QED
    BY <1>0, <1>6, <2>1 DEF MarkRefundOk, SetStatus, Finalizing
<1>7. CASE UNCHANGED status
  BY <1>7
<1> QED
  BY <1>1, <1>2, <1>3, <1>4, <1>5, <1>6, <1>7 DEF Next, Execute, Finalize, vars, history,
        CheckDeducted, DeductBalance, GwRefund, RollbackRefund, RecordDebt, RecordPending,
        RecordSuccess, ReadPendingDetail, QueryRefund, CheckSucceeded, FinalDeduct,
        ProviderSettles, PrepareRefund, QueryAndFinalizeRefund, Crash

\* No attempt that lost the race overwrites a completed refund.
THEOREM FinalRefund == Spec => RefundedIsFinal
<1>1. IInv /\ [Next]_vars => [\A o \in Orders \ finalized : status[o] = "REFUNDED" => status'[o] = "REFUNDED"]_vars
  BY FinalStep
<1> QED
  BY <1>1, Invariance, PTL DEF Spec, RefundedIsFinal

-----------------------------------------------------------------------------
(* A refund is paid back once. *)

\* The places before the provider has refunded, and after it reported an error.
Unpaid == {"check", "deduct", "refund", "restore", "undo", "debt", "failed"}

\* An order nobody refunds, and whose refund is not pending, has no refund that counts.
OnceRow(o) ==
    /\ provider[o] = "keyed" => DOMAIN refunds[o] \subseteq {1}
    /\ o \notin unsure \cup finalized =>
         /\ PaidOnce(o)
         /\ status[o] \in {"COMPLETED", "REFUND_REQUESTED", "REFUND_FAILED"} => Live(o) = {}

OnceWorker(w) == LET o == job[w].order IN
    o \in Orders /\ o \notin unsure \cup finalized /\ pc[w] \in Unpaid => Live(o) = {}

OnceInv == (\A o \in Orders : OnceRow(o)) /\ \A w \in Workers : OnceWorker(w)

\* The histories only grow.
LEMMA HistoryGrows ==
    ASSUME [Next]_vars
    PROVE  unsure \subseteq unsure' /\ finalized \subseteq finalized' /\ provider' = provider
BY DEF Next, vars, history, Execute, Finalize, RequestRefund, ProviderSettles, PrepareRefund,
      QueryAndFinalizeRefund, Crash, LockRefunding, CheckDeducted, DeductBalance, GwRefund,
      RollbackRefund, RecordDebt, RestoreStatus, MarkRefundFailed, MarkRefundPending,
      RecordPending, MarkRefundOk, RecordSuccess, ReadPendingDetail, QueryRefund,
      CheckSucceeded, FinalDeduct

\* A handler comes to an unpaid place from one, or with the lock of an order whose
\* refund is not pending.
LEMMA UnpaidEntered ==
    ASSUME TypeOK, [Next]_vars, NEW v \in Workers, pc'[v] \in Unpaid
    PROVE  /\ job'[v].order = job[v].order
           /\ \/ pc[v] \in Unpaid
              \/ LockRefunding(v) /\ Lockable(job[v].order)
<1>0. WorkType
  BY DEF TypeOK
<1> USE DEF Unpaid
<1>1. CASE pc'[v] = pc[v] /\ job'[v] = job[v]
  BY <1>1
<1>2. ASSUME NEW w \in Workers, NEW o \in Orders, PrepareRefund(w, o) \/ QueryAndFinalizeRefund(w, o)
      PROVE  pc'[v] = pc[v] /\ job'[v] = job[v]
  BY <1>0, <1>2 DEF PrepareRefund, QueryAndFinalizeRefund, Start, WorkType
<1>3. ASSUME NEW w \in Workers, Crash(w) PROVE pc'[v] = pc[v] /\ job'[v] = job[v]
  BY <1>0, <1>3 DEF Crash, Return, WorkType
<1>4. ASSUME NEW o \in Orders, RequestRefund(o) \/ ProviderSettles(o)
      PROVE  pc'[v] = pc[v] /\ job'[v] = job[v]
  BY <1>4 DEF RequestRefund, ProviderSettles, workVars
<1>5. CASE Execute(v) \/ Finalize(v)
  <2>0. pc[v] # "idle"
    BY <1>5, StepControl
  <2>g. ASSUME NEW place, Goto(v, place) PROVE pc'[v] = place /\ job'[v] = job[v]
    BY <1>0, <2>g DEF Goto, WorkType
  <2>a. ASSUME NEW place, GotoWith(v, place, 0) PROVE pc'[v] = place /\ job'[v].order = job[v].order
    BY <1>0, <2>0, <2>a, PlanKept
  <2>r. ~Return(v)
    BY <1>0 DEF Return, WorkType
  <2>1. CASE LockRefunding(v)
    BY <2>1, <2>g, <2>r DEF LockRefunding
  <2>2. CASE CheckDeducted(v)
    BY <2>2, <2>g, <2>a DEF CheckDeducted
  <2>3. CASE DeductBalance(v)
    BY <2>3, <2>g DEF DeductBalance
  <2>4. CASE GwRefund(v)
    BY <1>0, <2>0, <2>4, GwStep, BusyWorker DEF GwRefund
  <2>5. CASE RollbackRefund(v)
    BY <2>5, <2>g, <2>a DEF RollbackRefund
  <2>6. CASE RecordDebt(v)
    BY <2>6, <2>g DEF RecordDebt
  <2>7. CASE RestoreStatus(v) \/ MarkRefundFailed(v) \/ RecordPending(v) \/ RecordSuccess(v)
    BY <2>7, <2>r DEF RestoreStatus, MarkRefundFailed, RecordPending, RecordSuccess
  <2>8. CASE MarkRefundPending(v) \/ MarkRefundOk(v)
    BY <2>8, <2>g, <2>r DEF MarkRefundPending, MarkRefundOk
  <2>9. CASE ReadPendingDetail(v)
    BY <2>9, DetailStep
  <2>10. CASE QueryRefund(v) \/ CheckSucceeded(v) \/ FinalDeduct(v)
    BY <2>10, <2>g, <2>r DEF QueryRefund, CheckSucceeded, FinalDeduct
  <2> QED
    BY <1>5, <2>1, <2>2, <2>3, <2>4, <2>5, <2>6, <2>7, <2>8, <2>9, <2>10 DEF Execute, Finalize
<1>6. ASSUME NEW w \in Workers, w # v, Execute(w) \/ Finalize(w)
      PROVE  pc'[v] = pc[v] /\ job'[v] = job[v]
  BY <1>6, Bystander
<1>7. CASE UNCHANGED vars
  BY <1>7 DEF vars, workVars
<1> QED
  BY <1>1, <1>2, <1>3, <1>4, <1>5, <1>6, <1>7 DEF Next

\* An order becomes refundable again from such a status, or by a handler at such a place.
LEMMA RestEntered ==
    ASSUME IInv, [Next]_vars, NEW p \in Orders, p \notin finalized,
           status'[p] \in {"COMPLETED", "REFUND_REQUESTED", "REFUND_FAILED"}
    PROVE  \/ status[p] \in {"COMPLETED", "REFUND_REQUESTED", "REFUND_FAILED"}
           \/ \E w \in Workers : pc[w] \in Unpaid /\ job[w].order = p
<1>0. TypeOK
  BY DEF IInv
<1> USE DEF Unpaid, TypeOK, RowType
<1>1. ASSUME NEW o \in Orders, RequestRefund(o)
      PROVE  status[p] \in {"COMPLETED", "REFUND_REQUESTED", "REFUND_FAILED"}
  BY <1>0, <1>1 DEF RequestRefund, SetStatus
<1>2. ASSUME NEW w \in Workers, LockRefunding(w) \/ MarkRefundPending(w) \/ MarkRefundOk(w)
      PROVE  status'[p] = status[p]
  <2>1. job[w].order \in Orders
    BY <1>0, <1>2, BusyWorker DEF LockRefunding, MarkRefundPending, MarkRefundOk
  <2> QED
    BY <1>0, <1>2, <2>1 DEF LockRefunding, MarkRefundPending, MarkRefundOk, SetStatus
<1>3. ASSUME NEW w \in Workers, RestoreStatus(w) \/ MarkRefundFailed(w), status'[p] # status[p]
      PROVE  pc[w] \in Unpaid /\ job[w].order = p
  <2>1. job[w].order \in Orders
    BY <1>0, <1>3, BusyWorker DEF RestoreStatus, MarkRefundFailed
  <2>2. job[w].order = p /\ pc[w] \in {"restore", "failed", "finalFailed"}
    BY <1>0, <1>3, <2>1 DEF RestoreStatus, MarkRefundFailed, StatusRestored, SetStatus
  <2>3. pc[w] # "finalFailed"
    BY <2>2 DEF IInv, WorkerInv, Finalizing
  <2> QED
    BY <2>2, <2>3
<1>4. CASE UNCHANGED status
  BY <1>4
<1> QED
  BY <1>1, <1>2, <1>3, <1>4 DEF Next, Execute, Finalize, vars, CheckDeducted, DeductBalance,
        GwRefund, RollbackRefund, RecordDebt, RecordPending, RecordSuccess, ReadPendingDetail,
        QueryRefund, CheckSucceeded, FinalDeduct, ProviderSettles, PrepareRefund,
        QueryAndFinalizeRefund, Crash

\* What a step does to the refunds of an order: a provider makes another one only for
\* a handler at its call, which has the order to itself.
LEMMA RefundsStep ==
    ASSUME IInv, OnceInv, [Next]_vars, NEW p \in Orders
    PROVE  /\ provider[p] = "keyed" => DOMAIN refunds'[p] \subseteq {1}
           /\ p \notin unsure' \cup finalized' =>
                \/ Live(p)' \subseteq Live(p)
                \/ /\ Live(p) = {} /\ PaidOnce(p)'
                   /\ \E w \in Workers : /\ GwRefund(w) /\ job[w].order = p
                                         /\ pc'[w] \in {"success", "undoPending"}
<1>0. TypeOK /\ RowType /\ unsure \subseteq unsure' /\ finalized \subseteq finalized'
  BY HistoryGrows DEF IInv, TypeOK
<1>1. provider[p] = "keyed" => DOMAIN refunds[p] \subseteq {1}
  BY DEF OnceInv, OnceRow
<1>2. CASE refunds'[p] = refunds[p]
  BY <1>1, <1>2 DEF Live
<1>3. ASSUME NEW o \in Orders, ProviderSettles(o)
      PROVE  DOMAIN refunds'[p] = DOMAIN refunds[p] /\ Live(p)' \subseteq Live(p)
  <2>1. PICK i \in DOMAIN refunds[o], r \in {"done", "refused"} :
               refunds[o][i] = "pending" /\ refunds' = [refunds EXCEPT ![o][i] = r]
    BY <1>3 DEF ProviderSettles
  <2> QED
    BY <1>0, <2>1 DEF RowType, Live
<1>4. ASSUME NEW w \in Workers, GwRefund(w), refunds'[p] # refunds[p]
      PROVE  /\ provider[p] = "keyed" => DOMAIN refunds'[p] \subseteq {1}
             /\ p \notin unsure' \cup finalized' =>
                  /\ Live(p) = {} /\ PaidOnce(p)'
                  /\ job[w].order = p /\ pc'[w] \in {"success", "undoPending"}
  <2>1. job[w].order \in Orders /\ pc[w] = "refund"
    BY <1>0, <1>4, BusyWorker DEF TypeOK, GwRefund
  <2>2. PICK r \in Outcomes(job[w].order) : refunds' = [refunds EXCEPT ![job[w].order] = r.refunds]
    BY <1>4 DEF GwRefund
  <2>3. job[w].order = p /\ refunds'[p] = r.refunds
    BY <1>0, <1>4, <2>1, <2>2 DEF RowType
  <2>4. provider[p] = "keyed" => DOMAIN refunds'[p] \subseteq {1}
    BY <1>0, <1>1, <2>2, <2>3, OutcomeFacts
  <2>5. ASSUME p \notin unsure' \cup finalized'
        PROVE  Live(p) = {} /\ PaidOnce(p)' /\ pc'[w] \in {"success", "undoPending"}
    <3>1. Live(p) = {}
      BY <1>0, <2>1, <2>3, <2>5 DEF OnceInv, OnceWorker, Unpaid
    <3>2. Live(p)' \subseteq {Len(refunds[p]) + 1}
      BY <1>0, <2>2, <2>3, <3>1, OutcomeFacts DEF Live
    <3>3. PaidOnce(p)'
      BY <3>2 DEF PaidOnce
    <3>4. pc'[w] \in {"success", "undoPending"}
      BY <1>0, <1>4, <2>3, <2>5, GwStep
    <3> QED
      BY <3>1, <3>3, <3>4
  <2> QED
    BY <2>3, <2>4, <2>5
<1>5. CASE UNCHANGED refunds
  BY <1>2, <1>5
<1> QED
  BY <1>1, <1>2, <1>3, <1>4, <1>5 DEF Next, vars, Execute, Finalize, RequestRefund, PrepareRefund,
        QueryAndFinalizeRefund, Crash, LockRefunding, CheckDeducted, DeductBalance,
        RollbackRefund, RecordDebt, RestoreStatus, MarkRefundFailed, MarkRefundPending,
        RecordPending, MarkRefundOk, RecordSuccess, ReadPendingDetail, QueryRefund,
        CheckSucceeded, FinalDeduct

\* The handler at the call is the only one that refunds the order, and the order is locked.
LEMMA OnceStep == IInv /\ OnceInv /\ [Next]_vars => OnceInv'
<1> SUFFICES ASSUME IInv, OnceInv, [Next]_vars PROVE OnceInv'
  OBVIOUS
<1>0. /\ TypeOK /\ unsure \subseteq unsure' /\ finalized \subseteq finalized' /\ provider' = provider
  BY HistoryGrows DEF IInv
<1>1. ASSUME NEW p \in Orders, p \notin unsure' \cup finalized',
             NEW w \in Workers, GwRefund(w), job[w].order = p,
             pc'[w] \in {"success", "undoPending"}
      PROVE  /\ status'[p] = "REFUNDING"
             /\ \A v \in Workers : pc'[v] \in Unpaid => job'[v].order # p
  <2>1. pc[w] = "refund" /\ status'[p] = status[p] /\ status[p] = "REFUNDING"
    BY <1>0, <1>1 DEF IInv, WorkerInv, GwRefund, Executing
  <2>2. ASSUME NEW v \in Workers, pc'[v] \in Unpaid, job'[v].order = p PROVE FALSE
    <3>1. v # w
      BY <1>1, <2>2 DEF Unpaid
    <3>2. pc'[v] = pc[v] /\ job'[v] = job[v]
      BY <1>0, <1>1, <3>1, Bystander DEF Execute
    <3>3. pc[v] \in Executing /\ pc[w] \in Executing
      BY <2>1, <2>2, <3>2 DEF Unpaid, Executing
    <3> QED
      BY <1>0, <1>1, <2>2, <3>1, <3>2, <3>3 DEF IInv, SingleRefunder
  <2> QED
    BY <2>1, <2>2
<1>2. ASSUME NEW p \in Orders, p \notin unsure' \cup finalized'
      PROVE  PaidOnce(p)'
  BY <1>0, <1>2, RefundsStep DEF OnceInv, OnceRow, PaidOnce
<1>3. ASSUME NEW p \in Orders, p \notin unsure' \cup finalized',
             status'[p] \in {"COMPLETED", "REFUND_REQUESTED", "REFUND_FAILED"}
      PROVE  Live(p)' = {}
  <2>1. Live(p)' \subseteq Live(p)
    BY <1>1, <1>3, RefundsStep
  <2>2. Live(p) = {}
    BY <1>0, <1>3, RestEntered DEF OnceInv, OnceRow, OnceWorker
  <2> QED
    BY <2>1, <2>2
<1>4. ASSUME NEW v \in Workers, NEW p \in Orders, p = job'[v].order,
             p \notin unsure' \cup finalized', pc'[v] \in Unpaid
      PROVE  Live(p)' = {}
  <2>1. Live(p)' \subseteq Live(p)
    BY <1>1, <1>4, RefundsStep
  <2>2. Live(p) = {}
    <3>1. job[v].order = p /\ (pc[v] \in Unpaid \/ (LockRefunding(v) /\ Lockable(p)))
      BY <1>0, <1>4, UnpaidEntered
    <3>2. CASE pc[v] \in Unpaid
      <4>1. job[v].order \notin unsure \cup finalized
        BY <1>0, <1>4, <3>1
      <4>2. OnceWorker(v)
        BY DEF OnceInv
      <4> QED
        BY <3>1, <3>2, <4>1, <4>2 DEF OnceWorker
    <3>3. CASE LockRefunding(v) /\ Lockable(p)
      <4>1. status[p] # "REFUND_PENDING"
        BY <1>4, <3>1, <3>3 DEF LockRefunding
      <4> QED
        BY <1>0, <1>4, <3>3, <4>1 DEF OnceInv, OnceRow, Lockable, Refundable
    <3> QED
      BY <3>1, <3>2, <3>3
  <2> QED
    BY <2>1, <2>2
<1>5. ASSUME NEW p \in Orders PROVE OnceRow(p)'
  <2>1. provider'[p] = "keyed" => DOMAIN refunds'[p] \subseteq {1}
    BY <1>0, RefundsStep
  <2> QED
    BY <1>2, <1>3, <2>1 DEF OnceRow
<1>6. ASSUME NEW v \in Workers PROVE OnceWorker(v)'
  BY <1>4 DEF OnceWorker
<1> QED
  BY <1>5, <1>6 DEF OnceInv

\* REFUNDED means the provider paid back, whatever handlers run and whatever fails; it
\* pays back once, unless it does not identify the refund and a reply was lost, a pending
\* refund was refunded again or a finalizer was asked for.
THEOREM PaidBack == Spec => []RefundedIsPaidBack
<1>1. Init => PaidInv
  BY TypeInit DEF Init, PaidInv, RefundedPaid, SuccessIsPaidBack
<1>2. Init => OnceInv
  BY DEF Init, OnceInv, OnceRow, OnceWorker, PaidOnce, Live, Unpaid
<1>3. PaidInv /\ OnceInv => RefundedIsPaidBack
  <2> SUFFICES ASSUME PaidInv, OnceInv, NEW o \in Orders
               PROVE  /\ status[o] = "REFUNDED" /\ provider[o] # "none" => Paid(o)
                      /\ provider[o] = "keyed" \/ o \notin unsure \cup finalized => PaidOnce(o)
    BY DEF RefundedIsPaidBack
  <2>1. status[o] = "REFUNDED" /\ provider[o] # "none" => Paid(o)
    BY DEF PaidInv, RefundedPaid
  <2>2. OnceRow(o)
    BY DEF OnceInv
  <2>3. ASSUME provider[o] = "keyed" PROVE PaidOnce(o)
    BY <2>2, <2>3 DEF OnceRow, PaidOnce, Live
  <2>4. ASSUME o \notin unsure \cup finalized PROVE PaidOnce(o)
    BY <2>2, <2>4 DEF OnceRow
  <2> QED
    BY <2>1, <2>3, <2>4
<1> QED
  BY <1>1, <1>2, <1>3, PaidStep, OnceStep, Invariance, PTL DEF Spec

-----------------------------------------------------------------------------
(* Handlers that take turns, without failures. *)

Working(w, o) == job[w] # NoJob /\ job[w].order = o

\* The places where nothing is deducted: before the deduction and after its return.
Undeducted == {"lock", "check", "deduct", "restore", "pending", "pendingRow",
               "detail", "query", "finalCheck", "finalDeduct", "finalFailed"}

\* What the place of a handler says about the balance. It may be reduced when
\* the handler ends only after the update that makes the order REFUNDED.
Turn(w) == LET o == job[w].order IN
    /\ pc[w] \notin {"debt", "debtPending", "failed"}
    /\ pc[w] \in Undeducted => deducted[o] = 0
    /\ pc[w] = "deduct" => job[w].amount = 1
    /\ pc[w] \in {"refund", "undo", "undoPending"} => deducted[o] = job[w].amount
    /\ pc[w] = "successRow" => status[o] = "REFUNDED"

\* The order's row between two handlers, and during one.
Settles(o) == deducted[o] \in {0, 1} /\ o \notin rollbackFailed
AtRest(o)  == status[o] \in Refundable => deducted[o] = 0

TurnInv(o) ==
    /\ Settles(o)
    /\ \A v, w \in Workers : Working(v, o) /\ Working(w, o) => v = w
    /\ (\A w \in Workers : ~Working(w, o)) => AtRest(o)
    /\ \A w \in Workers : Working(w, o) => Turn(w)

Undisturbed == faults = 0 /\ crashes = 0

\* A step of a handler changes the rows of its own order only.
LEMMA OtherRows ==
    ASSUME TypeOK, NEW w \in Workers, Execute(w) \/ Finalize(w), NEW o \in Orders, job[w].order # o
    PROVE  /\ status'[o] = status[o] /\ deducted'[o] = deducted[o]
           /\ o \in rollbackFailed' <=> o \in rollbackFailed
<1>1. status'[o] = status[o]
  BY DEF TypeOK, RowType, Execute, Finalize, SetStatus, StatusRestored, LockRefunding,
         CheckDeducted,
        DeductBalance, GwRefund, RollbackRefund, RecordDebt, RestoreStatus, MarkRefundFailed,
        MarkRefundPending, RecordPending, MarkRefundOk, RecordSuccess, ReadPendingDetail,
        QueryRefund, CheckSucceeded, FinalDeduct
<1>2. deducted'[o] = deducted[o]
  BY DEF TypeOK, RowType, Execute, Finalize, Deduct, ReturnDeduction, LockRefunding, CheckDeducted,
        DeductBalance, GwRefund, RollbackRefund, RecordDebt, RestoreStatus, MarkRefundFailed,
        MarkRefundPending, RecordPending, MarkRefundOk, RecordSuccess, ReadPendingDetail,
        QueryRefund, CheckSucceeded, FinalDeduct
<1>3. o \in rollbackFailed' <=> o \in rollbackFailed
  BY DEF Execute, Finalize, logVars, LockRefunding, CheckDeducted, DeductBalance, GwRefund,
        RollbackRefund, RecordDebt, RestoreStatus, MarkRefundFailed, MarkRefundPending,
        RecordPending, MarkRefundOk, RecordSuccess, ReadPendingDetail, QueryRefund,
        CheckSucceeded, FinalDeduct
<1> QED
  BY <1>1, <1>2, <1>3

\* A handler that has the order to itself goes on as its place says, or leaves it at rest.
LEMMA OwnTurn ==
    ASSUME TypeOK, NEW w \in Workers, Execute(w) \/ Finalize(w), faults = 0, faults' = 0,
           NEW o \in Orders, job[w].order = o, Settles(o), Turn(w)
    PROVE  /\ Settles(o)'
           /\ job'[w] = NoJob => AtRest(o)'
           /\ job'[w] # NoJob => job'[w].order = o /\ Turn(w)'
<1>0. /\ pc[w] # "idle" /\ job[w] \in Job /\ job[w] # NoJob /\ job[w].amount \in {0, 1}
      /\ WorkType /\ RowType
  <2>1. pc[w] # "idle" /\ WorkType
    BY StepControl DEF TypeOK
  <2> QED
    BY <2>1, BusyWorker, NoJobAssumption DEF TypeOK, Job
<1>g. ASSUME NEW place, Goto(w, place) PROVE pc'[w] = place /\ job'[w] = job[w]
  BY <1>0, <1>g DEF Goto, WorkType
<1>a. ASSUME NEW place, NEW amount \in {0, 1}, GotoWith(w, place, amount)
      PROVE  /\ pc'[w] = place /\ job'[w].order = o /\ job'[w].amount = amount
             /\ job'[w] # NoJob
  <2>1. job'[w] = [job[w] EXCEPT !.amount = amount] /\ [job[w] EXCEPT !.amount = amount] \in Job
    BY <1>0, <1>a DEF GotoWith, WorkType, Job
  <2> QED
    BY <1>0, <1>a, <2>1, PlanKept, NoJobAssumption
<1>r. Return(w) => job'[w] = NoJob
  BY <1>0 DEF Return, WorkType
<1>f. ~Fault
  BY DEF Fault
<1> USE DEF Settles, AtRest, Turn, Undeducted
<1>1. CASE LockRefunding(w)
  BY <1>0, <1>1, <1>g, <1>r, <1>f DEF LockRefunding, SetStatus, Lockable, RowType, logVars
<1>2. CASE CheckDeducted(w)
  BY <1>0, <1>2, <1>g, <1>f DEF CheckDeducted, AlreadyDeducted, logVars
<1>3. CASE DeductBalance(w)
  BY <1>0, <1>3, <1>g, <1>f DEF DeductBalance, Deduct, RowType, logVars
<1>4. CASE GwRefund(w)
  <2>1. /\ job'[w].order = o /\ job'[w].amount = job[w].amount /\ job'[w] # NoJob
        /\ pc'[w] \in {"success", "undo", "undoPending"}
    BY <1>0, <1>4, BusyWorker, GwStep
  <2> QED
    BY <1>0, <1>4, <2>1 DEF GwRefund, RowType, logVars
<1>5. CASE RollbackRefund(w)
  <2>1. CASE /\ job[w].amount = 0 /\ UNCHANGED deducted
             /\ Goto(w, "pending") \/ Goto(w, "restore")
    BY <1>0, <1>5, <2>1, <1>g DEF RollbackRefund, RowType, logVars
  <2>2. CASE /\ job[w].amount > 0 /\ ReturnDeduction(o)
             /\ GotoWith(w, "pending", 0) \/ GotoWith(w, "restore", 0)
    <3>1. deducted'[o] = 0
      BY <1>0, <1>5, <2>2 DEF RollbackRefund, ReturnDeduction, Deduct, RowType
    <3> QED
      BY <1>0, <1>5, <2>2, <1>a, <3>1 DEF RollbackRefund, logVars
  <2> QED
    BY <1>5, <1>f, <2>1, <2>2 DEF RollbackRefund
<1>6. CASE RecordDebt(w)
  BY <1>6 DEF RecordDebt
<1>7. CASE RestoreStatus(w) \/ MarkRefundFailed(w)
  BY <1>0, <1>7, <1>r DEF RestoreStatus, MarkRefundFailed, RowType, logVars
<1>8. CASE MarkRefundPending(w)
  BY <1>0, <1>8, <1>g, <1>f DEF MarkRefundPending, logVars
<1>9. CASE RecordPending(w)
  BY <1>0, <1>9, <1>r DEF RecordPending, RowType
<1>10. CASE MarkRefundOk(w)
  BY <1>0, <1>10, <1>g, <1>f DEF MarkRefundOk, SetStatus, RowType, logVars
<1>11. CASE RecordSuccess(w)
  BY <1>0, <1>11, <1>r DEF RecordSuccess, RowType, Refundable
<1>12. CASE ReadPendingDetail(w)
  <2>1. pc'[w] = "query" /\ job'[w].order = o /\ job'[w] # NoJob
    BY <1>12, DetailStep
  <2> QED
    BY <1>0, <1>12, <2>1 DEF ReadPendingDetail, logVars
<1>13. CASE QueryRefund(w)
  <2>1. CASE Goto(w, "finalCheck") \/ Goto(w, "finalFailed")
    BY <1>0, <1>13, <2>1, <1>g DEF QueryRefund, logVars
  <2>2. CASE Return(w)
    BY <1>0, <1>13, <2>2, <1>r DEF QueryRefund, logVars
  <2> QED
    BY <1>13, <1>f, <2>1, <2>2 DEF QueryRefund
<1>14. CASE CheckSucceeded(w)
  BY <1>0, <1>14, <1>g, <1>f DEF CheckSucceeded, logVars
<1>15. CASE FinalDeduct(w)
  BY <1>0, <1>15, <1>g, <1>f DEF FinalDeduct, Deduct, RowType, logVars
<1> QED
  BY <1>1, <1>2, <1>3, <1>4, <1>5, <1>6, <1>7, <1>8, <1>9, <1>10, <1>11, <1>12, <1>13, <1>14,
        <1>15 DEF Execute, Finalize

\* A handler that starts on an order nobody works on finds it at rest.
LEMMA TurnStarts ==
    ASSUME TypeOK, NEW o \in Orders, TurnInv(o), NEW w \in Workers, NEW p \in Orders,
           NEW place \in {"lock", "detail"}, NEW amount \in {0, 1},
           Start(w, [order |-> p, amount |-> amount, from |-> status[p], refund |-> 0], place),
           status[p] \in Refundable, o \notin contended',
           UNCHANGED <<status, deducted, rollbackFailed>>
    PROVE  TurnInv(o)'
<1>0. WorkType /\ RowType
  BY DEF TypeOK
<1>1. [order |-> p, amount |-> amount, from |-> status[p], refund |-> 0] \in Job
  BY <1>0 DEF RowType, Job
<1>2. /\ job[w] = NoJob /\ pc'[w] = place /\ job'[w] # NoJob /\ job'[w].order = p
      /\ \A v \in Workers \ {w} : pc'[v] = pc[v] /\ job'[v] = job[v]
  BY <1>0, <1>1, NoJobAssumption DEF Start, WorkType
<1>3. CASE p = o
  <2>1. \A v \in Workers : ~Working(v, o)
    BY <1>0, <1>3 DEF Start, Working, WorkType
  <2>2. deducted[o] = 0
    BY <2>1, <1>3 DEF TurnInv, AtRest
  <2>3. \A v \in Workers : Working(v, o)' => v = w
    BY <1>2, <2>1 DEF Working
  <2>4. Turn(w)'
    BY <1>2, <1>3, <2>2 DEF Turn, Undeducted
  <2>5. Settles(o)' /\ Working(w, o)'
    BY <1>2, <1>3 DEF TurnInv, Settles, Working
  <2> QED
    BY <2>3, <2>4, <2>5 DEF TurnInv
<1>4. CASE p # o
  <2>1. \A v \in Workers : Working(v, o)' <=> Working(v, o)
    BY <1>2, <1>4 DEF Working
  <2>2. \A v \in Workers : Working(v, o) => v # w /\ (Turn(v) => Turn(v)')
    BY <1>2 DEF Working, Turn
  <2>3. Settles(o)' /\ (AtRest(o) => AtRest(o)')
    BY DEF TurnInv, Settles, AtRest
  <2> QED
    BY <2>1, <2>2, <2>3 DEF TurnInv
<1> QED
  BY <1>3, <1>4

\* Any other step of a handler, the user or the provider.
LEMMA TurnStep ==
    ASSUME TypeOK, [Next]_vars, Undisturbed, Undisturbed', NEW o \in Orders, o \notin contended',
           TurnInv(o)
    PROVE  TurnInv(o)'
<1>0. WorkType /\ RowType /\ faults = 0 /\ faults' = 0
  BY DEF TypeOK, Undisturbed
<1>1. ASSUME NEW p \in Orders, RequestRefund(p) \/ ProviderSettles(p) PROVE TurnInv(o)'
  <2>1. UNCHANGED <<pc, job, deducted, rollbackFailed>>
    BY <1>1 DEF RequestRefund, ProviderSettles, workVars, logVars
  <2>2. /\ status'[o] \in Refundable => status[o] \in Refundable
        /\ status[o] = "REFUNDED" => status'[o] = "REFUNDED"
    BY <1>0, <1>1 DEF RequestRefund, ProviderSettles, SetStatus, RowType, Refundable
  <2>3. \A v \in Workers : /\ Working(v, o)' <=> Working(v, o)
                           /\ Working(v, o) /\ Turn(v) => Turn(v)'
    BY <2>1, <2>2 DEF Working, Turn
  <2> QED
    BY <2>1, <2>2, <2>3 DEF TurnInv, Settles, AtRest
<1>2. ASSUME NEW w \in Workers, NEW p \in Orders, PrepareRefund(w, p) PROVE TurnInv(o)'
  <2>1. PICK amount \in {0, 1} : Start(w, [order |-> p, amount |-> amount, from |-> status[p], refund |-> 0], "lock")
    BY <1>2 DEF PrepareRefund
  <2> QED
    BY <1>2, <2>1, TurnStarts DEF PrepareRefund, logVars
<1>3. ASSUME NEW w \in Workers, NEW p \in Orders, QueryAndFinalizeRefund(w, p) PROVE TurnInv(o)'
  BY <1>3, TurnStarts DEF QueryAndFinalizeRefund, logVars, Refundable
<1>4. ASSUME NEW w \in Workers, Execute(w) \/ Finalize(w) PROVE TurnInv(o)'
  <2>1. /\ job[w] # NoJob
        /\ \A v \in Workers \ {w} : pc'[v] = pc[v] /\ job'[v] = job[v]
    BY <1>0, <1>4, StepControl, BusyWorker, Bystander, NoJobAssumption
  <2>2. CASE job[w].order = o
    <3>1. Working(w, o) /\ \A v \in Workers \ {w} : ~Working(v, o) /\ ~Working(v, o)'
      BY <2>1, <2>2 DEF TurnInv, Working
    <3>2. /\ Settles(o)'
          /\ job'[w] = NoJob => AtRest(o)'
          /\ job'[w] # NoJob => job'[w].order = o /\ Turn(w)'
      BY <1>0, <1>4, <2>2, <3>1, OwnTurn DEF TurnInv
    <3> QED
      BY <3>1, <3>2 DEF TurnInv, Working
  <2>3. CASE job[w].order # o
    <3>1. /\ status'[o] = status[o] /\ deducted'[o] = deducted[o]
          /\ o \in rollbackFailed' <=> o \in rollbackFailed
      BY <1>4, <2>3, OtherRows
    <3>2. ~Working(w, o) /\ ~Working(w, o)'
      <4>1. \A place, amount : Goto(w, place) \/ GotoWith(w, place, amount) => job'[w].order = job[w].order
        BY <1>0, <1>4, StepControl, PlanKept DEF Goto
      <4>2. ASSUME NEW place \in Places, NEW amount \in {0, 1}, NEW refund \in Nat,
                   GotoNaming(w, place, amount, refund)
            PROVE  job'[w].order = job[w].order
        BY <1>0, <1>4, <4>2, StepControl, NamedPlanKept
      <4>3. Return(w) => job'[w] = NoJob
        BY <1>0 DEF Return, WorkType
      <4> QED
        BY <1>4, <2>3, <4>1, <4>2, <4>3, StepControl DEF Working
    <3>3. \A v \in Workers : /\ Working(v, o)' <=> Working(v, o)
                             /\ Working(v, o) /\ Turn(v) => Turn(v)'
      BY <2>1, <3>1, <3>2 DEF Working, Turn
    <3> QED
      BY <3>1, <3>3 DEF TurnInv, Settles, AtRest
  <2> QED
    BY <2>2, <2>3
<1>5. ASSUME NEW w \in Workers, Crash(w) PROVE TurnInv(o)'
  BY <1>5 DEF Crash, Undisturbed
<1>6. CASE UNCHANGED vars
  BY <1>6 DEF vars, logVars, workVars, TurnInv, Settles, AtRest, Working, Turn
<1> QED
  BY <1>1, <1>2, <1>3, <1>4, <1>5, <1>6 DEF Next

\* Nothing that failed is undone, and nobody's turn is given back.
LEMMA TurnsPast ==
    ASSUME TypeOK, [Next]_vars
    PROVE  (Undisturbed' => Undisturbed) /\ contended \subseteq contended'
<1>1. \/ UNCHANGED budget
      \/ (NoFault \/ Fault) /\ UNCHANGED crashes
      \/ UNCHANGED faults /\ crashes' = crashes + 1
  <2>1. CASE \E w \in Workers : Execute(w)
    BY <2>1 DEF Execute, NoFault, LockRefunding, CheckDeducted, DeductBalance, GwRefund,
          RollbackRefund, RecordDebt, RestoreStatus, MarkRefundFailed, MarkRefundPending,
          RecordPending, MarkRefundOk, RecordSuccess
  <2>2. CASE \E w \in Workers : Finalize(w)
    BY <2>2 DEF Finalize, ReadPendingDetail, QueryRefund, CheckSucceeded, FinalDeduct
  <2> QED
    BY <2>1, <2>2 DEF Next, vars, RequestRefund, ProviderSettles, PrepareRefund,
          QueryAndFinalizeRefund, Crash
<1>2. contended \subseteq contended'
  BY DEF Next, vars, history, Start, Execute, Finalize,
        RequestRefund, ProviderSettles, PrepareRefund, QueryAndFinalizeRefund, Crash,
        LockRefunding, CheckDeducted, DeductBalance, GwRefund, RollbackRefund, RecordDebt,
        RestoreStatus, MarkRefundFailed, MarkRefundPending, RecordPending, MarkRefundOk,
        RecordSuccess, ReadPendingDetail, QueryRefund, CheckSucceeded, FinalDeduct
<1>3. Undisturbed' => Undisturbed
  <2>1. faults \in Nat /\ crashes \in Nat
    BY BudgetAssumption DEF TypeOK, BudgetType
  <2> QED
    BY <1>1, <2>1 DEF Undisturbed, NoFault, Fault, budget
<1> QED
  BY <1>2, <1>3

TurnsInv == TypeOK /\ (Undisturbed => \A o \in Orders \ contended : TurnInv(o))

\* While handlers take turns and nothing fails, the finalizer deducts once and an
\* order that may be refunded has nothing deducted.
THEOREM DeductedOnce == Spec => []DeductedOnceByTurns
<1>1. Init => TurnsInv
  BY TypeInit DEF Init, TurnsInv, TurnInv, Settles, AtRest, Working
<1>2. TurnsInv /\ [Next]_vars => TurnsInv'
  <2> SUFFICES ASSUME TurnsInv, [Next]_vars PROVE TurnsInv'
    OBVIOUS
  <2>1. TypeOK /\ TypeOK'
    BY TypeStep DEF TurnsInv
  <2>2. ASSUME Undisturbed', NEW o \in Orders, o \notin contended' PROVE TurnInv(o)'
    BY <2>1, <2>2, TurnsPast, TurnStep DEF TurnsInv
  <2> QED
    BY <2>1, <2>2 DEF TurnsInv
<1>3. TurnsInv => DeductedOnceByTurns
  BY DEF TurnsInv, TurnInv, Settles, AtRest, Working, Undisturbed, DeductedOnceByTurns
<1> QED
  BY <1>1, <1>2, <1>3, PTL DEF Spec
=============================================================================
