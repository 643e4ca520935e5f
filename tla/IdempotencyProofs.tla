------------------------- MODULE IdempotencyProofs -------------------------
(***************************************************************************)
(* Proofs about Idempotency for any number of keys, payloads and requests, *)
(* any durations and any bounds on time, faults and crashes.               *)
(***************************************************************************)
EXTENDS Idempotency, TLAPS

-----------------------------------------------------------------------------
(* The statements of IdempotencyRecords: types. *)

\* A record that exists is a record.
LEMMA RowType == ASSUME TableType, NEW k \in Keys, row[k] # NoRow PROVE row[k] \in Record
  BY DEF TableType

\* Storing a record keeps the type of the table.
LEMMA StoreKeepsType ==
    ASSUME TableType, NEW k \in Keys, NEW r \in Record, Store(k, r)
    PROVE  row' \in [Keys -> Record \cup {NoRow}] /\ lapsed' \subseteq Keys
  BY DEF TableType, Store

\* Two of the times a request writes.
LEMMA Times ==
    ASSUME NEW at \in Nat
    PROVE  at + Lease \in Nat /\ at + TTL \in Nat
  BY DurationAssumption

\* Each statement keeps the type of the table.
LEMMA CreateKeepsType ==
    ASSUME TableType, NEW k \in Keys, NEW p \in Fingerprints, NEW at \in Nat,
           CreateProcessing(k, p, at)
    PROVE  TableType'
<1> DEFINE r == [id |-> lastId + 1, by |-> p, status |-> "processing", response |-> {},
                 lockedUntil |-> at + Lease, expiresAt |-> at + TTL]
<1>1. r \in Record
  BY Times DEF Record, Statuses, TableType
<1>2. Store(k, r)
  BY DEF CreateProcessing
<1> HIDE DEF r
<1> QED
  BY <1>1, <1>2, StoreKeepsType DEF CreateProcessing, TableType

\* Each statement keeps the type of the table: TryReclaim,
LEMMA ReclaimKeepsType ==
    ASSUME TableType, NEW k \in Keys, NEW id, NEW from, NEW at \in Nat, TryReclaim(k, id, from, at)
    PROVE  TableType'
<1> DEFINE r == [row[k] EXCEPT !.status = "processing",
                               !.lockedUntil = at + Lease, !.expiresAt = at + TTL]
<1>1. row[k] \in Record
  BY RowType DEF TryReclaim, Reclaimable, HasRow
<1>2. r \in Record
  BY <1>1, Times DEF Record, Statuses
<1>3. Store(k, r)
  BY DEF TryReclaim
<1> HIDE DEF r
<1> QED
  BY <1>2, <1>3, StoreKeepsType DEF TryReclaim, TableType

\* any update of a row by its id,
LEMMA UpdateKeepsType ==
    ASSUME TableType, NEW k \in Keys, NEW id, NEW r,
           row[k] # NoRow => r \in Record, Update(k, id, r)
    PROVE  TableType'
<1>1. CASE HasRow(k, id)
  <2>1. r \in Record /\ Store(k, r)
    BY <1>1 DEF HasRow, Update
  <2> QED
    BY <2>1, StoreKeepsType DEF Update, TableType
<1>2. CASE ~HasRow(k, id)
  BY <1>2 DEF Update, TableType
<1> QED
  BY <1>1, <1>2

\* MarkSucceeded,
LEMMA SucceededKeepsType ==
    ASSUME TableType, NEW k \in Keys, NEW id, NEW p \in Fingerprints, NEW e \in Nat,
           MarkSucceeded(k, id, p, e)
    PROVE  TableType'
<1> DEFINE r == [row[k] EXCEPT !.status = "succeeded", !.response = {p},
                               !.lockedUntil = 0, !.expiresAt = e]
<1>1. row[k] # NoRow => r \in Record
  BY RowType DEF Record, Statuses
<1>2. Update(k, id, r)
  BY DEF MarkSucceeded
<1> HIDE DEF r
<1> QED
  BY <1>1, <1>2, UpdateKeepsType

\* and MarkFailedRetryable.
LEMMA FailedKeepsType ==
    ASSUME TableType, NEW k \in Keys, NEW id, NEW l \in Nat, NEW e \in Nat,
           MarkFailedRetryable(k, id, l, e)
    PROVE  TableType'
<1> DEFINE r == [row[k] EXCEPT !.status = "failed", !.lockedUntil = l, !.expiresAt = e]
<1>1. row[k] # NoRow => r \in Record
  BY RowType DEF Record, Statuses
<1>2. Update(k, id, r)
  BY DEF MarkFailedRetryable
<1> HIDE DEF r
<1> QED
  BY <1>1, <1>2, UpdateKeepsType

\* The clock and the clean-up keep the type of the table.
LEMMA EnvironmentKeepsType ==
    ASSUME TableType, Tick \/ SelectExpired \/ DeleteVictims
    PROVE  TableType' /\ now <= now'
<1>1. CASE Tick
  <2>1. now' \in 0 .. MaxTime /\ now <= now'
    BY <1>1, DurationAssumption DEF Tick, TableType
  <2> QED
    BY <1>1, <2>1 DEF Tick, TableType
<1>2. CASE SelectExpired
  <2>1. \A k \in Keys : row[k] # NoRow => row[k].id \in Nat
    BY RowType DEF Record
  <2>2. victims' \subseteq Keys \X Nat
    BY <1>2, <2>1 DEF SelectExpired
  <2> QED
    BY <1>2, <2>2 DEF SelectExpired, TableType
<1>3. CASE DeleteVictims
  BY <1>3 DEF DeleteVictims, TableType
<1> QED
  BY <1>1, <1>2, <1>3

\* The type of an empty table.
LEMMA InitialType == TableInit => TableType
  BY DurationAssumption DEF TableInit, TableType

-----------------------------------------------------------------------------
(* The statements of IdempotencyRecords: what they write. *)

\* The record of k, and of no other key, is written by a request.
Written(k) ==
    /\ row'[k] # NoRow
    /\ \A l \in Keys \ {k} : row'[l] = row[l]
    /\ lapsed \subseteq lapsed' /\ lapsed' \subseteq lapsed \cup {k}
    /\ k \notin lapsed' => now < row'[k].expiresAt

\* What each statement writes: a row of its key and no other,
LEMMA StoreWrites ==
    ASSUME TableType, NEW k \in Keys, NEW r \in Record, Store(k, r)
    PROVE  Written(k) /\ row'[k] = r
<1>1. row'[k] = r /\ \A l \in Keys \ {k} : row'[l] = row[l]
  BY DEF TableType, Store
<1>2. r # NoRow
  BY NoRowAssumption
<1>3. lapsed' = IF r.expiresAt <= now THEN lapsed \cup {k} ELSE lapsed
  BY DEF Store
<1>4. r.expiresAt \in Nat /\ now \in Nat
  BY DEF TableType, Record
<1> QED
  BY <1>1, <1>2, <1>3, <1>4 DEF Written

\* CreateProcessing a new row with a new id,
LEMMA CreateWrites ==
    ASSUME TableType, NEW k \in Keys, NEW p \in Fingerprints, NEW at \in Nat,
           CreateProcessing(k, p, at)
    PROVE  /\ row[k] = NoRow /\ Written(k) /\ lastId' = lastId + 1
           /\ row'[k].id = lastId + 1 /\ row'[k].by = p
           /\ row'[k].status = "processing" /\ row'[k].response = {}
<1> DEFINE r == [id |-> lastId + 1, by |-> p, status |-> "processing", response |-> {},
                 lockedUntil |-> at + Lease, expiresAt |-> at + TTL]
<1>1. r \in Record
  BY Times DEF Record, Statuses, TableType
<1>2. Store(k, r) /\ row[k] = NoRow /\ lastId' = lastId + 1
  BY DEF CreateProcessing
<1>3. r.id = lastId + 1 /\ r.by = p /\ r.status = "processing" /\ r.response = {}
  OBVIOUS
<1> HIDE DEF r
<1> QED
  BY <1>1, <1>2, <1>3, StoreWrites

\* A statement about an existing record keeps what identifies it.
SameRecord(k) == row'[k].id = row[k].id /\ row'[k].by = row[k].by /\ lastId' = lastId

\* TryReclaim the row it found in the expected status,
LEMMA ReclaimWrites ==
    ASSUME TableType, NEW k \in Keys, NEW id, NEW from, NEW at \in Nat, TryReclaim(k, id, from, at)
    PROVE  /\ HasRow(k, id) /\ row[k].status = from
           /\ Written(k) /\ SameRecord(k)
           /\ row'[k].status = "processing" /\ row'[k].response = row[k].response
<1> DEFINE r == [row[k] EXCEPT !.status = "processing",
                               !.lockedUntil = at + Lease, !.expiresAt = at + TTL]
<1>0. HasRow(k, id) /\ row[k].status = from
  BY DEF TryReclaim, Reclaimable
<1>1. row[k] \in Record
  BY <1>0, RowType DEF HasRow
<1>2. r \in Record
  BY <1>1, Times DEF Record, Statuses
<1>3. Store(k, r) /\ lastId' = lastId
  BY DEF TryReclaim
<1>4. /\ r.id = row[k].id /\ r.by = row[k].by
      /\ r.status = "processing" /\ r.response = row[k].response
  BY <1>1 DEF Record
<1> HIDE DEF r
<1> QED
  BY <1>0, <1>2, <1>3, <1>4, StoreWrites DEF SameRecord

\* MarkSucceeded the response, if the row is still there,
LEMMA SucceededWrites ==
    ASSUME TableType, NEW k \in Keys, NEW id, NEW p \in Fingerprints, NEW e \in Nat,
           MarkSucceeded(k, id, p, e)
    PROVE  /\ ~HasRow(k, id) => UNCHANGED <<row, lapsed, lastId>>
           /\ HasRow(k, id) =>
                /\ Written(k) /\ SameRecord(k)
                /\ row'[k].status = "succeeded" /\ row'[k].response = {p}
<1> DEFINE r == [row[k] EXCEPT !.status = "succeeded", !.response = {p},
                               !.lockedUntil = 0, !.expiresAt = e]
<1>1. Update(k, id, r)
  BY DEF MarkSucceeded
<1>2. CASE HasRow(k, id)
  <2>1. row[k] \in Record
    BY <1>2, RowType DEF HasRow
  <2>2. r \in Record
    BY <2>1 DEF Record, Statuses
  <2>3. r.id = row[k].id /\ r.by = row[k].by /\ r.status = "succeeded" /\ r.response = {p}
    BY <2>1 DEF Record
  <2> HIDE DEF r
  <2>4. Store(k, r) /\ lastId' = lastId
    BY <1>1, <1>2 DEF Update
  <2> QED
    BY <1>2, <2>2, <2>3, <2>4, StoreWrites DEF SameRecord
<1>3. CASE ~HasRow(k, id)
  BY <1>1, <1>3 DEF Update
<1> QED
  BY <1>2, <1>3

\* and MarkFailedRetryable a status that can be reclaimed, if it is.
LEMMA FailedWrites ==
    ASSUME TableType, NEW k \in Keys, NEW id, NEW l \in Nat, NEW e \in Nat,
           MarkFailedRetryable(k, id, l, e)
    PROVE  /\ ~HasRow(k, id) => UNCHANGED <<row, lapsed, lastId>>
           /\ HasRow(k, id) =>
                /\ Written(k) /\ SameRecord(k)
                /\ row'[k].status = "failed" /\ row'[k].response = row[k].response
<1> DEFINE r == [row[k] EXCEPT !.status = "failed", !.lockedUntil = l, !.expiresAt = e]
<1>1. Update(k, id, r)
  BY DEF MarkFailedRetryable
<1>2. CASE HasRow(k, id)
  <2>1. row[k] \in Record
    BY <1>2, RowType DEF HasRow
  <2>2. r \in Record
    BY <2>1 DEF Record, Statuses
  <2>3. /\ r.id = row[k].id /\ r.by = row[k].by
        /\ r.status = "failed" /\ r.response = row[k].response
    BY <2>1 DEF Record
  <2> HIDE DEF r
  <2>4. Store(k, r) /\ lastId' = lastId
    BY <1>1, <1>2 DEF Update
  <2> QED
    BY <1>2, <2>2, <2>3, <2>4, StoreWrites DEF SameRecord
<1>3. CASE ~HasRow(k, id)
  BY <1>1, <1>3 DEF Update
<1> QED
  BY <1>2, <1>3

-----------------------------------------------------------------------------
(* Type correctness. *)

\* A request that runs has a job.
LEMMA BusyWorker ==
    ASSUME WorkType, NEW w \in Workers, pc[w] # "idle"
    PROVE  job[w] \in Job /\ job[w].key \in Keys /\ job[w].at \in Nat /\ job[w].at <= now
  BY DEF WorkType, Job

\* What a step may do to the place and the job of its request.
Control(w) ==
    \/ \E place \in Places \ {"idle"} : Goto(w, place)
    \/ \E place \in Places \ {"idle"}, id \in Nat, from \in Statuses : GotoWith(w, place, id, from)
    \/ Return(w)

\* Every step of a request is made by one that runs, and does one of these.
LEMMA StepControl ==
    ASSUME TypeOK, NEW w \in Workers, Step(w) \/ Crash(w)
    PROVE  pc[w] # "idle" /\ Control(w)
<1> USE DEF Places, Owning, Control
<1>1. CASE Create(w)
  BY <1>1 DEF Create, Statuses, TypeOK, TableType
<1>2. CASE Read(w)
  <2>1. pc[w] # "idle"
    BY <1>2 DEF Read
  <2>2. row[job[w].key] # NoRow => row[job[w].key].id \in Nat /\ row[job[w].key].status \in Statuses
    BY <2>1, BusyWorker, RowType DEF TypeOK, Record
  <2> QED
    BY <1>2, <2>1, <2>2 DEF Read, DecideByStatus, Statuses
<1>3. CASE Reclaim(w)
  BY <1>3 DEF Reclaim
<1>4. CASE Execute(w)
  BY <1>4 DEF Execute
<1>5. CASE Succeed(w)
  BY <1>5 DEF Succeed
<1>6. CASE Fail(w)
  BY <1>6 DEF Fail
<1>7. CASE Crash(w)
  BY <1>7 DEF Crash
<1> QED
  BY <1>1, <1>2, <1>3, <1>4, <1>5, <1>6, <1>7 DEF Step

\* These keep the type of pc and job while the clock stands still.
LEMMA WorkTypeKept ==
    ASSUME WorkType, NEW w \in Workers, pc[w] # "idle", Control(w), UNCHANGED now
    PROVE  WorkType'
<1>0. job[w] \in Job /\ job[w].at <= now
  BY BusyWorker
<1>1. ASSUME NEW place \in Places \ {"idle"}, Goto(w, place) PROVE WorkType'
  BY <1>1 DEF Goto, WorkType
<1>2. ASSUME NEW place \in Places \ {"idle"}, NEW id \in Nat, NEW from \in Statuses,
             GotoWith(w, place, id, from)
      PROVE  WorkType'
  <2>1. [job[w] EXCEPT !.id = id, !.from = from] \in Job
    BY <1>0 DEF Job
  <2>2. [job[w] EXCEPT !.id = id, !.from = from].at = job[w].at
    BY <1>0 DEF Job
  <2>3. /\ pc' = [pc EXCEPT ![w] = place]
        /\ job' = [job EXCEPT ![w] = [job[w] EXCEPT !.id = id, !.from = from]]
    BY <1>2 DEF GotoWith
  <2> HIDE <1>2
  <2> QED
    BY <1>0, <2>1, <2>2, <2>3, NoJobAssumption DEF WorkType
<1>3. CASE Return(w)
  BY <1>3 DEF Return, WorkType, Places
<1> QED
  BY <1>1, <1>2, <1>3 DEF Control

\* The other requests keep their places and jobs.
LEMMA Bystander ==
    ASSUME WorkType, NEW w \in Workers, Control(w), NEW v \in Workers, v # w
    PROVE  pc'[v] = pc[v] /\ job'[v] = job[v]
<1>1. ASSUME NEW place, Goto(w, place) PROVE pc'[v] = pc[v] /\ job'[v] = job[v]
  BY <1>1 DEF Goto, WorkType
<1>2. ASSUME NEW place, NEW id, NEW from, GotoWith(w, place, id, from)
      PROVE  pc'[v] = pc[v] /\ job'[v] = job[v]
  BY <1>2 DEF GotoWith, WorkType
<1>3. CASE Return(w)
  BY <1>3 DEF Return, WorkType
<1> QED
  BY <1>1, <1>2, <1>3 DEF Control

\* The clock does not move during a step of a request.
LEMMA StepTable ==
    ASSUME TypeOK, NEW w \in Workers, Step(w) \/ Crash(w)
    PROVE  TableType' /\ UNCHANGED <<now, victims>>
<1> DEFINE j == job[w]
<1>0. j.key \in Keys /\ j.at \in Nat /\ j.payload \in Fingerprints
  BY StepControl, BusyWorker DEF TypeOK, Job
<1>1. now \in Nat /\ now + Backoff \in Nat /\ j.at + TTL \in Nat
  BY <1>0, Times, BudgetAssumption, DurationAssumption DEF TypeOK, TableType
<1>2. CASE UNCHANGED tableVars
  BY <1>2 DEF TypeOK, TableType, tableVars
<1>3. CASE CreateProcessing(j.key, j.payload, j.at)
  BY <1>0, <1>3, CreateKeepsType DEF CreateProcessing, TypeOK
<1>4. CASE TryReclaim(j.key, j.id, j.from, j.at)
  BY <1>0, <1>4, ReclaimKeepsType DEF TryReclaim, TypeOK
<1>5. CASE MarkSucceeded(j.key, j.id, j.payload, j.at + TTL)
  BY <1>0, <1>1, <1>5, SucceededKeepsType DEF MarkSucceeded, Update, TypeOK
<1>6. CASE MarkFailedRetryable(j.key, j.id, now + Backoff, j.at + TTL)
  BY <1>0, <1>1, <1>6, FailedKeepsType DEF MarkFailedRetryable, Update, TypeOK
<1> HIDE DEF j
<1> QED
  BY <1>2, <1>3, <1>4, <1>5, <1>6
     DEF j, Step, Crash, Create, Read, Reclaim, Execute, Succeed, Fail, LeftProcessing,
         LeftRetryable, MarkRetryable

\* Faults and crashes are counted by numbers.
LEMMA BudgetTypeKept ==
    ASSUME BudgetType, NEW w \in Workers, Step(w) \/ Crash(w)
    PROVE  BudgetType'
  BY BudgetAssumption
     DEF BudgetType, Step, Crash, Create, Read, Reclaim, Execute, Succeed, Fail, NoFault, Fault,
         budget

\* An answer is a pair of payloads.
LEMMA AnswerTypeKept ==
    ASSUME TypeOK, NEW w \in Workers, Step(w) \/ Crash(w)
    PROVE  AnswerType'
<1>0. job[w].key \in Keys /\ job[w].payload \in Fingerprints
  BY StepControl, BusyWorker DEF TypeOK, Job
<1>1. CASE Execute(w)
  BY <1>0, <1>1 DEF Execute, TypeOK, AnswerType
<1>2. CASE UNCHANGED <<effects, answers>>
  BY <1>2 DEF TypeOK, AnswerType
<1>3. ASSUME NEW response \in Fingerprints, Answer(w, response), UNCHANGED effects
      PROVE  AnswerType'
  BY <1>0, <1>3 DEF Answer, TypeOK, AnswerType
<1>4. CASE Read(w)
  <2>1. CASE UNCHANGED answers
    BY <1>2, <1>4, <2>1 DEF Read
  <2>2. CASE ~UNCHANGED answers
    <3>1. PICK response \in row[job[w].key].response :
            Answer(w, response) /\ row[job[w].key] # NoRow
      BY <1>4, <2>2 DEF Read, DecideByStatus
    <3>2. response \in Fingerprints
      BY <1>0, <3>1, RowType DEF TypeOK, Record
    <3> QED
      BY <1>3, <1>4, <3>1, <3>2 DEF Read
  <2> QED
    BY <2>1, <2>2
<1>5. CASE Succeed(w)
  BY <1>0, <1>2, <1>3, <1>5 DEF Succeed
<1> QED
  BY <1>1, <1>2, <1>4, <1>5 DEF Step, Crash, Create, Reclaim, Fail

\* The initial state is type-correct.
LEMMA TypeInit == Init => TypeOK
  BY DurationAssumption, BudgetAssumption
     DEF Init, TableInit, TypeOK, TableType, AnswerType, WorkType, BudgetType, Places

\* No step leaves the types.
LEMMA TypeStep == TypeOK /\ [Next]_vars => TypeOK'
<1> SUFFICES ASSUME TypeOK, [Next]_vars PROVE TypeOK'
  OBVIOUS
<1>1. ASSUME NEW w \in Workers, NEW k \in Keys, NEW p \in Fingerprints, Request(w, k, p)
      PROVE  TypeOK'
  <2> DEFINE j == [key |-> k, payload |-> p, at |-> now, id |-> 0, from |-> "processing"]
  <2>1. j \in Job /\ j.at <= now
    BY DEF TypeOK, TableType, Job, Statuses
  <2>2. pc' = [pc EXCEPT ![w] = "create"] /\ job' = [job EXCEPT ![w] = j]
    BY <1>1 DEF Request
  <2>3. UNCHANGED <<tableVars, effects, answers, budget>>
    BY <1>1 DEF Request
  <2> HIDE DEF j
  <2>4. WorkType'
    BY <2>1, <2>2, <2>3, NoJobAssumption DEF TypeOK, WorkType, Places, tableVars
  <2> QED
    BY <2>3, <2>4 DEF TypeOK, TableType, AnswerType, BudgetType, tableVars, budget
<1>2. ASSUME NEW w \in Workers, Step(w) \/ Crash(w) PROVE TypeOK'
  <2>1. WorkType'
    BY <1>2, StepControl, StepTable, WorkTypeKept DEF TypeOK
  <2> QED
    BY <1>2, <2>1, StepTable, BudgetTypeKept, AnswerTypeKept DEF TypeOK
<1>3. CASE Environment
  <2>1. AnswerType' /\ BudgetType'
    BY <1>3 DEF Environment, TypeOK, AnswerType, BudgetType, budget
  <2>2. TableType' /\ now <= now'
    BY <1>3, EnvironmentKeepsType DEF Environment, TypeOK
  <2>3. WorkType'
    BY <1>3, <2>2 DEF Environment, TypeOK, TableType, WorkType, Job, workVars
  <2> QED
    BY <2>1, <2>2, <2>3 DEF TypeOK
<1>4. CASE UNCHANGED vars
  BY <1>4 DEF TypeOK, TableType, AnswerType, WorkType, BudgetType, vars, tableVars, workVars, budget
<1> QED
  BY <1>1, <1>2, <1>3, <1>4 DEF Next

\* Every reachable state is type-correct.
THEOREM TypeCorrect == Spec => []TypeOK
BY TypeInit, TypeStep, PTL DEF Spec

-----------------------------------------------------------------------------
(* The life of a key until its record expires: SingleOwner, SingleEffect and *)
(* OwnedWhileProcessing from one inductive invariant.                        *)

\* Only records that have expired are selected, deleted, or reclaimed as expired.
ExpiryInv ==
    /\ \A k \in Keys \ lapsed : row[k] # NoRow => now < row[k].expiresAt
    /\ \A v \in victims : v[1] \in lapsed
    /\ \A w \in Workers : pc[w] \in {"reclaimExpired", "reread"} => job[w].key \in lapsed

\* The other reclaim is made from a failed record, which has no owner: the record of
\* an owner is processing.
OwnerInv ==
    /\ \A w \in Workers : pc[w] = "reclaim" => job[w].from = "failed"
    /\ \A w \in Workers : pc[w] \in Owning /\ job[w].key \notin lapsed =>
         HasRow(job[w].key, job[w].id) /\ row[job[w].key].status = "processing"
    /\ SingleOwner

\* The effect comes last: what may still be executed, or executed again, has had none.
EffectInv ==
    /\ \A k \in Keys \ lapsed : row[k] = NoRow \/ row[k].status = "failed" => effects[k] = 0
    /\ \A w \in Workers : pc[w] \in {"execute", "fail"} /\ job[w].key \notin lapsed =>
         effects[job[w].key] = 0
    /\ SingleEffect

LifeInv == ExpiryInv /\ OwnerInv /\ EffectInv /\ OwnedWhileProcessing

\* Where a request goes, what becomes of its job.
LEMMA WentTo ==
    ASSUME WorkType, NEW w \in Workers, NEW place, Goto(w, place)
    PROVE  pc'[w] = place /\ job'[w] = job[w]
  BY DEF Goto, WorkType

\* Where a request is after GotoWith, and with what,
LEMMA WentWith ==
    ASSUME WorkType, NEW w \in Workers, pc[w] # "idle", NEW place, NEW id, NEW from,
           GotoWith(w, place, id, from)
    PROVE  /\ pc'[w] = place /\ job'[w].key = job[w].key /\ job'[w].payload = job[w].payload
           /\ job'[w].id = id /\ job'[w].from = from
<1>1. job[w] \in Job
  BY BusyWorker
<1>2. job'[w] = [job[w] EXCEPT !.id = id, !.from = from] /\ pc'[w] = place
  BY DEF WorkType, GotoWith
<1> QED
  BY <1>1, <1>2 DEF Job

\* and after its return.
LEMMA WentHome == ASSUME WorkType, NEW w \in Workers, Return(w) PROVE pc'[w] = "idle"
  BY DEF Return, WorkType

\* A request that reads, or gives up without writing, keeps the invariant.
LEMMA LifeUnwritten ==
    ASSUME TypeOK, LifeInv, NEW w \in Workers, Step(w) \/ Crash(w),
           UNCHANGED <<tableVars, effects>>,
           pc'[w] \notin Owning,
           pc[w] \notin Owning \/ faults' + crashes' > 0,
           faults' \in Nat /\ crashes' \in Nat,
           faults' >= faults /\ crashes' >= crashes,
           pc'[w] \in {"reclaimExpired", "reread"} => job'[w].key \in lapsed,
           pc'[w] = "reclaim" => job'[w].from = "failed"
    PROVE  LifeInv'
<1>0. \A v \in Workers \ {w} : pc'[v] = pc[v] /\ job'[v] = job[v]
  BY StepControl, Bystander DEF TypeOK
<1>1. UNCHANGED <<row, victims, lapsed, now>>
  BY DEF tableVars
<1>2. ExpiryInv'
  BY <1>0, <1>1 DEF LifeInv, ExpiryInv
<1>3. OwnerInv'
  BY <1>0, <1>1 DEF LifeInv, OwnerInv, SingleOwner, HasRow
<1>4. EffectInv'
  BY <1>0, <1>1 DEF LifeInv, EffectInv, SingleEffect, Owning
<1>5. OwnedWhileProcessing'
  <2>1. CASE faults' + crashes' > 0
    BY <2>1 DEF OwnedWhileProcessing
  <2>2. CASE ~(faults' + crashes' > 0)
    <3>1. faults = 0 /\ crashes = 0 /\ pc[w] \notin Owning
      <4>1. faults \in Nat /\ crashes \in Nat
        BY BudgetAssumption DEF TypeOK, BudgetType
      <4>2. \A f, c, g, d \in Nat : g >= f /\ d >= c /\ ~(g + d > 0) => f = 0 /\ c = 0
        OBVIOUS
      <4>3. faults = 0 /\ crashes = 0
        BY <2>2, <4>1, <4>2
      <4> QED
        BY <2>2, <4>3
    <3> QED
      BY <1>0, <1>1, <3>1 DEF LifeInv, OwnedWhileProcessing
  <2> QED
    BY <2>1, <2>2
<1> QED
  BY <1>2, <1>3, <1>4, <1>5 DEF LifeInv

\* A claim: of a key without a record or of a record that had no owner.
LEMMA LifeClaim ==
    ASSUME TypeOK, LifeInv, NEW w \in Workers, Step(w), UNCHANGED <<effects, victims, now>>,
           NEW k \in Keys, k = job[w].key, pc[w] \notin Owning,
           Written(k), row'[k].status = "processing",
           k \in lapsed \/ row[k] = NoRow \/ row[k].status = "failed",
           faults' \in Nat /\ faults' >= faults /\ crashes' = crashes,
           \/ pc'[w] = "execute" /\ job'[w].key = k /\ job'[w].id = row'[k].id
           \/ pc'[w] = "idle" /\ faults' > 0
    PROVE  LifeInv'
<1>0. \A v \in Workers \ {w} : pc'[v] = pc[v] /\ job'[v] = job[v]
  BY StepControl, Bystander DEF TypeOK
<1>1. pc[w] # "idle"
  BY StepControl
<1>2. ExpiryInv'
  <2>1. \A l \in Keys \ lapsed' : row'[l] # NoRow => now < row'[l].expiresAt
    BY DEF LifeInv, ExpiryInv, Written
  <2> QED
    BY <1>0, <2>1 DEF LifeInv, ExpiryInv, Written, Owning
<1>3. k \notin lapsed' => \A v \in Workers : ~(pc[v] \in Owning /\ job[v].key = k)
  BY DEF LifeInv, OwnerInv, HasRow, Written
<1>4. OwnerInv'
  <2>1. \A v \in Workers : pc'[v] = "reclaim" => job'[v].from = "failed"
    BY <1>0 DEF LifeInv, OwnerInv
  <2>2. ASSUME NEW v \in Workers, pc'[v] \in Owning, job'[v].key \notin lapsed'
        PROVE  HasRow(job[v].key, job[v].id)' /\ row'[job'[v].key].status = "processing"
    <3>1. CASE v = w
      BY <2>2, <3>1 DEF Owning, HasRow, Written
    <3>2. CASE v # w
      <4>1. pc[v] \in Owning /\ job'[v] = job[v] /\ job[v].key \notin lapsed /\ job[v].key # k
        BY <1>0, <1>3, <2>2, <3>2 DEF Written
      <4>2. job[v].key \in Keys
        BY <4>1, BusyWorker DEF TypeOK, Owning
      <4> QED
        BY <4>1, <4>2 DEF LifeInv, OwnerInv, HasRow, Written
    <3> QED
      BY <3>1, <3>2
  <2>3. SingleOwner'
    BY <1>0, <1>3 DEF LifeInv, OwnerInv, SingleOwner, Owning, Written
  <2> QED
    BY <2>1, <2>2, <2>3 DEF OwnerInv
<1>5. EffectInv'
  <2>1. k \notin lapsed' => effects[k] = 0
    BY DEF LifeInv, EffectInv, Written
  <2>2. \A v \in Workers : pc[v] # "idle" => job[v].key \in Keys
    BY BusyWorker DEF TypeOK
  <2> QED
    BY <1>0, <2>1, <2>2 DEF LifeInv, EffectInv, SingleEffect, Owning, Written
<1>6. OwnedWhileProcessing'
  <2>1. SUFFICES ASSUME faults' = 0, crashes' = 0, NEW l \in Keys \ lapsed', row'[l] # NoRow,
                        row'[l].status = "processing"
                 PROVE  \E v \in Workers :
                          pc'[v] \in Owning /\ job'[v].key = l /\ job'[v].id = row'[l].id
    BY DEF OwnedWhileProcessing
  <2>2. CASE l = k
    BY <2>1, <2>2 DEF Owning
  <2>3. CASE l # k
    <3>1. faults = 0 /\ crashes = 0 /\ l \notin lapsed /\ row'[l] = row[l]
      BY <2>1, <2>3, BudgetAssumption DEF TypeOK, BudgetType, Written
    <3>2. PICK v \in Workers : pc[v] \in Owning /\ job[v].key = l /\ job[v].id = row[l].id
      BY <2>1, <3>1 DEF LifeInv, OwnedWhileProcessing
    <3> QED
      BY <1>0, <2>3, <3>1, <3>2
  <2> QED
    BY <2>2, <2>3
<1> QED
  BY <1>2, <1>4, <1>5, <1>6 DEF LifeInv

\* A mark: the owner ends, and its record is processing no longer.
LEMMA LifeMark ==
    ASSUME TypeOK, LifeInv, NEW w \in Workers, Step(w), UNCHANGED <<effects, victims, now>>,
           NEW k \in Keys, k = job[w].key, pc[w] \in Owning, pc'[w] = "idle",
           ~HasRow(k, job[w].id) => UNCHANGED <<row, lapsed>>,
           HasRow(k, job[w].id) => Written(k) /\ row'[k].status # "processing",
           HasRow(k, job[w].id) /\ row'[k].status = "failed" => pc[w] = "fail",
           faults' \in Nat /\ faults' >= faults /\ crashes' = crashes
    PROVE  LifeInv'
<1>0. \A v \in Workers \ {w} : pc'[v] = pc[v] /\ job'[v] = job[v]
  BY StepControl, Bystander DEF TypeOK
<1>1. \A v \in Workers : pc[v] # "idle" => job[v].key \in Keys
  BY BusyWorker DEF TypeOK
<1>2. lapsed \subseteq lapsed' /\ \A l \in Keys \ {k} : row'[l] = row[l]
  BY DEF Written
<1>3. k \notin lapsed => HasRow(k, job[w].id)
  BY DEF LifeInv, OwnerInv
<1>4. k \notin lapsed => \A v \in Workers \ {w} : ~(pc[v] \in Owning /\ job[v].key = k)
  BY DEF LifeInv, OwnerInv, SingleOwner
<1>5. ExpiryInv'
  <2>1. \A l \in Keys \ lapsed' : row'[l] # NoRow => now < row'[l].expiresAt
    BY DEF LifeInv, ExpiryInv, Written
  <2> QED
    BY <1>0, <1>2, <2>1 DEF LifeInv, ExpiryInv
<1>6. OwnerInv'
  <2>1. \A v \in Workers : pc'[v] = "reclaim" => job'[v].from = "failed"
    BY <1>0 DEF LifeInv, OwnerInv
  <2>2. ASSUME NEW v \in Workers, pc'[v] \in Owning, job'[v].key \notin lapsed'
        PROVE  HasRow(job[v].key, job[v].id)' /\ row'[job'[v].key].status = "processing"
    <3>1. v # w /\ pc[v] \in Owning /\ job'[v] = job[v] /\ job[v].key \notin lapsed
      BY <1>0, <1>2, <2>2 DEF Owning
    <3>2. job[v].key \in Keys \ {k}
      BY <1>1, <1>4, <3>1 DEF Owning
    <3> QED
      BY <1>2, <3>1, <3>2 DEF LifeInv, OwnerInv, HasRow
  <2>3. SingleOwner'
    BY <1>0, <1>2 DEF LifeInv, OwnerInv, SingleOwner, Owning
  <2> QED
    BY <2>1, <2>2, <2>3 DEF OwnerInv
<1>7. EffectInv'
  <2>1. k \notin lapsed' /\ (row'[k] = NoRow \/ row'[k].status = "failed") => effects[k] = 0
    BY <1>2, <1>3 DEF LifeInv, EffectInv, Written
  <2> QED
    BY <1>0, <1>1, <1>2, <2>1 DEF LifeInv, EffectInv, SingleEffect, Owning
<1>8. OwnedWhileProcessing'
  <2>1. SUFFICES ASSUME faults' = 0, crashes' = 0, NEW l \in Keys \ lapsed', row'[l] # NoRow,
                        row'[l].status = "processing"
                 PROVE  \E v \in Workers :
                          pc'[v] \in Owning /\ job'[v].key = l /\ job'[v].id = row'[l].id
    BY DEF OwnedWhileProcessing
  <2>2. l # k
    BY <1>2, <1>3, <2>1
  <2>3. faults = 0 /\ crashes = 0 /\ l \notin lapsed /\ row'[l] = row[l]
    BY <1>2, <2>1, <2>2, BudgetAssumption DEF TypeOK, BudgetType
  <2>4. PICK v \in Workers : pc[v] \in Owning /\ job[v].key = l /\ job[v].id = row[l].id
    BY <2>1, <2>3 DEF LifeInv, OwnedWhileProcessing
  <2> QED
    BY <1>0, <2>2, <2>3, <2>4
<1> QED
  BY <1>5, <1>6, <1>7, <1>8 DEF LifeInv

\* An execution: only the owner of a key without an effect makes one.
LEMMA LifeExecute ==
    ASSUME TypeOK, LifeInv, NEW w \in Workers, Execute(w)
    PROVE  LifeInv'
<1> DEFINE k == job[w].key
<1>0. \A v \in Workers \ {w} : pc'[v] = pc[v] /\ job'[v] = job[v]
  BY StepControl, Bystander DEF TypeOK, Step
<1>1. \A v \in Workers : pc[v] # "idle" => job[v].key \in Keys
  BY BusyWorker DEF TypeOK
<1>2. UNCHANGED <<row, victims, lapsed, now, faults, crashes>> /\ pc[w] = "execute" /\ k \in Keys
  BY <1>1 DEF Execute, tableVars, budget
<1>3. job'[w] = job[w] /\ pc'[w] \in {"succeed", "fail"}
  BY WentTo DEF Execute, TypeOK
<1>4. /\ \A l \in Keys \ {k} : effects'[l] = effects[l]
      /\ effects'[k] = effects[k] \/ (pc'[w] = "succeed" /\ effects'[k] = effects[k] + 1)
  BY <1>2, WentTo DEF Execute, TypeOK, AnswerType
<1>5. k \notin lapsed => effects[k] = 0 /\ row[k] # NoRow /\ row[k].status = "processing"
  BY <1>2 DEF LifeInv, EffectInv, OwnerInv, HasRow, Owning
<1>6. k \notin lapsed => \A v \in Workers \ {w} : ~(pc[v] \in Owning /\ job[v].key = k)
  BY <1>2 DEF LifeInv, OwnerInv, SingleOwner, Owning
<1> HIDE DEF k
<1>7. ExpiryInv'
  BY <1>0, <1>2, <1>3 DEF LifeInv, ExpiryInv
<1>8. OwnerInv'
  BY <1>0, <1>2, <1>3 DEF LifeInv, OwnerInv, SingleOwner, HasRow, Owning
<1>9. EffectInv'
  <2>1. \A l \in Keys \ lapsed' : row'[l] = NoRow \/ row'[l].status = "failed" => effects'[l] = 0
    BY <1>2, <1>4, <1>5 DEF LifeInv, EffectInv
  <2>2. ASSUME NEW v \in Workers, pc'[v] \in {"execute", "fail"}, job'[v].key \notin lapsed'
        PROVE  effects'[job'[v].key] = 0
    <3>1. CASE v = w
      BY <1>2, <1>3, <1>4, <1>5, <2>2, <3>1 DEF k
    <3>2. CASE v # w
      <4>1. /\ pc[v] \in {"execute", "fail"} /\ job'[v] = job[v]
            /\ job[v].key \in Keys /\ job[v].key \notin lapsed
        BY <1>0, <1>1, <1>2, <2>2, <3>2
      <4>2. job[v].key # k
        BY <1>6, <3>2, <4>1 DEF Owning
      <4> QED
        BY <1>4, <4>1, <4>2 DEF LifeInv, EffectInv
    <3> QED
      BY <3>1, <3>2
  <2>3. SingleEffect'
    BY <1>2, <1>4, <1>5 DEF LifeInv, EffectInv, SingleEffect
  <2> QED
    BY <2>1, <2>2, <2>3 DEF EffectInv
<1>10. OwnedWhileProcessing'
  <2>1. SUFFICES ASSUME faults = 0, crashes = 0, NEW l \in Keys \ lapsed, row[l] # NoRow,
                        row[l].status = "processing"
                 PROVE  \E v \in Workers :
                          pc'[v] \in Owning /\ job'[v].key = l /\ job'[v].id = row[l].id
    BY <1>2 DEF OwnedWhileProcessing
  <2>2. PICK v \in Workers : pc[v] \in Owning /\ job[v].key = l /\ job[v].id = row[l].id
    BY <2>1 DEF LifeInv, OwnedWhileProcessing
  <2> QED
    BY <1>0, <1>3, <2>2 DEF Owning
<1> QED
  BY <1>7, <1>8, <1>9, <1>10 DEF LifeInv

\* A new request owns nothing yet.
LEMMA LifeRequest ==
    ASSUME TypeOK, LifeInv, NEW w \in Workers, NEW k \in Keys, NEW p \in Fingerprints,
           Request(w, k, p)
    PROVE  LifeInv'
<1>1. \A v \in Workers \ {w} : pc'[v] = pc[v] /\ job'[v] = job[v]
  BY DEF Request, TypeOK, WorkType
<1>2. pc[w] = "idle" /\ pc'[w] = "create"
  BY DEF Request, TypeOK, WorkType
<1>3. UNCHANGED <<row, victims, lapsed, now, effects, faults, crashes>>
  BY DEF Request, tableVars, budget
<1>4. ExpiryInv' /\ EffectInv'
  BY <1>1, <1>2, <1>3 DEF LifeInv, ExpiryInv, EffectInv, SingleEffect
<1>5. OwnerInv' /\ OwnedWhileProcessing'
  BY <1>1, <1>2, <1>3 DEF LifeInv, OwnerInv, SingleOwner, OwnedWhileProcessing, HasRow, Owning
<1> QED
  BY <1>4, <1>5 DEF LifeInv

\* Time and the clean-up service end the life of keys, and touch nothing else.
LEMMA LifeEnvironment == ASSUME TypeOK, LifeInv, Environment PROVE LifeInv'
<1>0. UNCHANGED <<pc, job, effects, faults, crashes>>
  BY DEF Environment, workVars, budget
<1>1. CASE Tick
  <2>1. /\ UNCHANGED <<row, victims>> /\ lapsed \subseteq lapsed'
        /\ \A k \in Keys \ lapsed' : row[k] # NoRow => ~(row[k].expiresAt <= now')
    BY <1>1 DEF Tick
  <2>2. \A k \in Keys : row[k] # NoRow => row[k].expiresAt \in Nat
    BY RowType DEF TypeOK, Record
  <2>3. now' \in Nat
    BY <1>1 DEF Tick, TypeOK, TableType
  <2>4. ExpiryInv'
    BY <1>0, <2>1, <2>2, <2>3 DEF LifeInv, ExpiryInv
  <2>5. OwnerInv'
    BY <1>0, <2>1 DEF LifeInv, OwnerInv, SingleOwner, HasRow
  <2>6. EffectInv' /\ OwnedWhileProcessing'
    BY <1>0, <2>1 DEF LifeInv, EffectInv, SingleEffect, OwnedWhileProcessing
  <2> QED
    BY <2>4, <2>5, <2>6 DEF LifeInv
<1>2. CASE SelectExpired
  <2>1. UNCHANGED <<row, lapsed, now>>
    BY <1>2 DEF SelectExpired
  <2>2. \A v \in victims' : v[1] \in lapsed
    <3>1. \A k \in Keys : row[k] # NoRow /\ row[k].expiresAt <= now => k \in lapsed
      <4>1. \A k \in Keys : row[k] # NoRow => row[k].expiresAt \in Nat
        BY RowType DEF TypeOK, Record
      <4> QED
        BY <4>1 DEF LifeInv, ExpiryInv, TypeOK, TableType
    <3> QED
      BY <1>2, <3>1 DEF SelectExpired
  <2> QED
    BY <1>0, <2>1, <2>2
       DEF LifeInv, ExpiryInv, OwnerInv, EffectInv, SingleOwner, SingleEffect,
           OwnedWhileProcessing, HasRow
<1>3. CASE DeleteVictims
  <2>1. UNCHANGED <<lapsed, now>> /\ victims' = {}
    BY <1>3 DEF DeleteVictims
  <2>2. \A k \in Keys \ lapsed : row'[k] = row[k]
    BY <1>3 DEF DeleteVictims, LifeInv, ExpiryInv
  <2>3. \A v \in Workers : pc[v] # "idle" => job[v].key \in Keys
    BY BusyWorker DEF TypeOK
  <2>4. ExpiryInv' /\ EffectInv'
    BY <1>0, <2>1, <2>2 DEF LifeInv, ExpiryInv, EffectInv, SingleEffect
  <2>5. OwnerInv' /\ OwnedWhileProcessing'
    BY <1>0, <2>1, <2>2, <2>3
       DEF LifeInv, OwnerInv, SingleOwner, OwnedWhileProcessing, HasRow, Owning
  <2> QED
    BY <2>4, <2>5 DEF LifeInv
<1> QED
  BY <1>1, <1>2, <1>3 DEF Environment

\* A statement may fail, which is counted.
LEMMA FaultCounted ==
    ASSUME TypeOK, NoFault \/ Fault
    PROVE  faults' \in Nat /\ faults' >= faults /\ (Fault => faults' > 0)
  BY BudgetAssumption DEF TypeOK, BudgetType, NoFault, Fault

\* The table is empty and nobody works at first.
LEMMA LifeInit == Init => LifeInv
  BY DEF Init, TableInit, LifeInv, ExpiryInv, OwnerInv, EffectInv, SingleOwner, SingleEffect,
         OwnedWhileProcessing, Owning

\* The invariant of the life of a record is inductive.
LEMMA LifeStep == TypeOK /\ LifeInv /\ [Next]_vars => LifeInv'
<1> SUFFICES ASSUME TypeOK, LifeInv, [Next]_vars PROVE LifeInv'
  OBVIOUS
<1>1. ASSUME NEW w \in Workers, Create(w) PROVE LifeInv'
  <2> DEFINE k == job[w].key
  <2>0. k \in Keys /\ job[w].at \in Nat /\ job[w].payload \in Fingerprints /\ pc[w] = "create"
    BY <1>1, BusyWorker DEF Create, TypeOK, Job
  <2>1. /\ NoFault \/ Fault
        /\ crashes' = crashes /\ UNCHANGED effects
    BY <1>1 DEF Create
  <2>2. crashes \in Nat
    BY BudgetAssumption DEF TypeOK, BudgetType
  <2>3. CASE CreateProcessing(k, job[w].payload, job[w].at)
    <3>1. /\ \/ GotoWith(w, "execute", lastId + 1, "processing")
             \/ Fault /\ Return(w)
      BY <1>1, <2>0, <2>3 DEF Create, CreateProcessing, Store, tableVars, TypeOK, TableType
    <3> QED
      BY <1>1, <2>0, <2>1, <2>3, <3>1, CreateWrites, LifeClaim, FaultCounted, WentWith, WentHome
         DEF TypeOK, Step, CreateProcessing, Owning
  <2>4. CASE UNCHANGED tableVars
    <3>1. Goto(w, "read") \/ Return(w)
      BY <1>1, <2>0, <2>4 DEF Create, CreateProcessing, tableVars, TypeOK, TableType
    <3> QED
      BY <1>1, <2>0, <2>1, <2>2, <2>4, <3>1, LifeUnwritten, FaultCounted, WentTo, WentHome
         DEF TypeOK, Step, Owning
  <2> QED
    BY <1>1, <2>3, <2>4 DEF Create
<1>2. ASSUME NEW w \in Workers, Read(w) PROVE LifeInv'
  <2> DEFINE r == row[job[w].key]
  <2>0. /\ pc[w] \in {"read", "reread"} /\ job[w].key \in Keys
        /\ job[w].at \in Nat /\ job[w].at <= now
    BY <1>2, BusyWorker DEF Read, TypeOK
  <2>1. /\ NoFault \/ Fault
        /\ crashes' = crashes /\ UNCHANGED <<tableVars, effects>>
    BY <1>2 DEF Read
  <2>2. crashes \in Nat /\ now \in Nat
    BY BudgetAssumption DEF TypeOK, BudgetType, TableType
  <2>3. \/ Return(w)
        \/ GotoWith(w, "reclaim", r.id, "failed")
        \/ /\ r # NoRow /\ r.expiresAt <= job[w].at
           /\ GotoWith(w, "reclaimExpired", r.id, r.status)
    BY <1>2 DEF Read, DecideByStatus
  <2>4. r # NoRow /\ r.expiresAt <= job[w].at => job[w].key \in lapsed
    <3>1. r # NoRow => r.expiresAt \in Nat
      BY <2>0, RowType DEF TypeOK, Record
    <3> QED
      BY <2>0, <2>2, <3>1 DEF LifeInv, ExpiryInv
  <2>5. /\ pc'[w] \in {"idle", "reclaim", "reclaimExpired"}
        /\ pc'[w] = "reclaim" => job'[w].from = "failed"
        /\ pc'[w] = "reclaimExpired" => job'[w].key \in lapsed
    BY <2>0, <2>3, <2>4, WentWith, WentHome DEF TypeOK
  <2> HIDE DEF r
  <2> QED
    BY <1>2, <2>0, <2>1, <2>2, <2>5, LifeUnwritten, FaultCounted DEF Step, Owning
<1>3. ASSUME NEW w \in Workers, Reclaim(w) PROVE LifeInv'
  <2> DEFINE j == job[w]
  <2>0. pc[w] \in {"reclaim", "reclaimExpired"} /\ j.key \in Keys /\ j.at \in Nat
    BY <1>3, BusyWorker DEF Reclaim, TypeOK
  <2>1. /\ NoFault \/ Fault
        /\ crashes' = crashes /\ UNCHANGED effects
    BY <1>3 DEF Reclaim
  <2>2. crashes \in Nat
    BY BudgetAssumption DEF TypeOK, BudgetType
  <2>3. CASE TryReclaim(j.key, j.id, j.from, j.at) /\ (Goto(w, "execute") \/ (Fault /\ Return(w)))
    <3>1. j.key \in lapsed \/ row[j.key].status = "failed"
      BY <2>0, <2>3, ReclaimWrites DEF TypeOK, LifeInv, ExpiryInv, OwnerInv
    <3>2. Written(j.key) /\ row'[j.key].status = "processing" /\ row'[j.key].id = j.id
      BY <2>0, <2>3, ReclaimWrites DEF TypeOK, SameRecord, HasRow
    <3>3. \/ pc'[w] = "execute" /\ job'[w] = j
          \/ pc'[w] = "idle" /\ Fault
      BY <2>3, WentTo, WentHome DEF TypeOK
    <3> QED
      BY <1>3, <2>0, <2>1, <2>3, <3>1, <3>2, <3>3, LifeClaim, FaultCounted
         DEF Step, TryReclaim, Owning
  <2>4. CASE UNCHANGED tableVars /\ ((pc[w] = "reclaimExpired" /\ Goto(w, "reread")) \/ Return(w))
    <3>1. \/ pc'[w] = "reread" /\ job'[w] = j /\ j.key \in lapsed
          \/ pc'[w] = "idle"
      BY <2>4, WentTo, WentHome DEF TypeOK, LifeInv, ExpiryInv
    <3> QED
      BY <1>3, <2>0, <2>1, <2>2, <2>4, <3>1, LifeUnwritten, FaultCounted DEF Step, Owning
  <2> QED
    BY <1>3, <2>0, <2>3, <2>4 DEF Reclaim
<1>4. ASSUME NEW w \in Workers, Succeed(w) \/ Fail(w) PROVE LifeInv'
  <2> DEFINE j == job[w]
  <2>0. /\ pc[w] \in {"succeed", "fail"} /\ j.key \in Keys /\ j.at + TTL \in Nat
        /\ j.payload \in Fingerprints /\ now + Backoff \in Nat
    BY <1>4, BusyWorker, Times, BudgetAssumption DEF Succeed, Fail, TypeOK, TableType, Job
  <2>1. /\ NoFault \/ Fault
        /\ crashes' = crashes /\ UNCHANGED effects /\ Return(w)
    BY <1>4 DEF Succeed, Fail
  <2>2. crashes \in Nat /\ pc'[w] = "idle"
    BY <2>1, BudgetAssumption, WentHome DEF TypeOK, BudgetType
  <2>3. CASE MarkSucceeded(j.key, j.id, j.payload, j.at + TTL)
    <3>1. /\ ~HasRow(j.key, j.id) => UNCHANGED <<row, lapsed>>
          /\ HasRow(j.key, j.id) => Written(j.key) /\ row'[j.key].status = "succeeded"
      BY <2>0, <2>3, SucceededWrites DEF TypeOK
    <3>2. UNCHANGED <<victims, now>>
      BY <2>3 DEF MarkSucceeded, Update
    <3> QED
      BY <1>4, <2>0, <2>1, <2>2, <3>1, <3>2, LifeMark, FaultCounted DEF Step, Owning
  <2>4. CASE Fail(w) /\ MarkFailedRetryable(j.key, j.id, now + Backoff, j.at + TTL)
    <3>1. /\ ~HasRow(j.key, j.id) => UNCHANGED <<row, lapsed>>
          /\ HasRow(j.key, j.id) => Written(j.key) /\ row'[j.key].status = "failed"
      BY <2>0, <2>4, FailedWrites DEF TypeOK
    <3>2. UNCHANGED <<victims, now>> /\ pc[w] = "fail"
      BY <2>4 DEF Fail, MarkFailedRetryable, Update
    <3> QED
      BY <1>4, <2>0, <2>1, <2>2, <3>1, <3>2, LifeMark, FaultCounted DEF Step, Owning
  <2>5. CASE UNCHANGED tableVars /\ Fault
    BY <1>4, <2>0, <2>1, <2>2, <2>5, LifeUnwritten, FaultCounted DEF Step, Owning
  <2> QED
    BY <1>4, <2>3, <2>4, <2>5 DEF Succeed, Fail, LeftProcessing, LeftRetryable, MarkRetryable
<1>5. ASSUME NEW w \in Workers, Crash(w) PROVE LifeInv'
  <2>1. /\ pc'[w] = "idle" /\ crashes' = crashes + 1
        /\ UNCHANGED <<tableVars, effects, faults>>
    BY <1>5, WentHome DEF Crash, TypeOK
  <2>2. crashes \in Nat /\ faults \in Nat
    BY BudgetAssumption DEF TypeOK, BudgetType
  <2> QED
    BY <1>5, <2>1, <2>2, LifeUnwritten DEF Owning
<1>6. CASE UNCHANGED vars
  BY <1>6 DEF LifeInv, ExpiryInv, OwnerInv, EffectInv, SingleOwner, SingleEffect, HasRow,
        OwnedWhileProcessing, vars, tableVars, workVars, budget
<1> QED
  BY <1>1, <1>2, <1>3, <1>4, <1>5, <1>6, LifeExecute, LifeRequest, LifeEnvironment
     DEF Next, Step

\* Neither a retry after a failure nor a processing timeout starts a second execution
\* beside the first while the record of the key has not expired ...
THEOREM Ownership == Spec => []SingleOwner
<1>1. LifeInv => SingleOwner
  BY DEF LifeInv, OwnerInv
<1> QED
  BY <1>1, TypeInit, TypeStep, LifeInit, LifeStep, PTL DEF Spec

\* ... the handler behind the key has its effect at most once until then ...
THEOREM ExecutedOnce == Spec => []SingleEffect
<1>1. LifeInv => SingleEffect
  BY DEF LifeInv, EffectInv
<1> QED
  BY <1>1, TypeInit, TypeStep, LifeInit, LifeStep, PTL DEF Spec

\* ... and while nothing fails, a key in processing has an owner that will mark it.
THEOREM NeverAbandoned == Spec => []OwnedWhileProcessing
<1>1. LifeInv => OwnedWhileProcessing
  BY DEF LifeInv
<1> QED
  BY <1>1, TypeInit, TypeStep, LifeInit, LifeStep, PTL DEF Spec

-----------------------------------------------------------------------------
(* The answers match, whatever expires, is reclaimed or is deleted.          *)

\* Where a request holds the id of a record it has read.
Holding == Owning \cup {"reclaim", "reclaimExpired"}

\* Ids are never used again, so a request that holds the id of a record knows its
\* payload, however often the key has been deleted; a stored response is the one to
\* the payload the record was created with.
AnswerInv ==
    /\ \A k \in Keys : row[k] # NoRow =>
         row[k].id <= lastId /\ row[k].response \subseteq {row[k].by}
    /\ \A w \in Workers : pc[w] # "idle" => job[w].id <= lastId
    /\ \A w \in Workers : pc[w] \in Holding /\ HasRow(job[w].key, job[w].id) =>
         row[job[w].key].by = job[w].payload
    /\ AnswersMatch

\* Statements about existing records, which keep ids and fingerprints, and deletions.
LEMMA AnswerTable ==
    ASSUME TypeOK, AnswerInv, lastId' = lastId,
           \A k \in Keys : row'[k] # NoRow =>
               /\ row[k] # NoRow /\ row'[k].id = row[k].id /\ row'[k].by = row[k].by
               /\ row'[k].response \subseteq {row[k].by}
    PROVE  /\ \A k \in Keys : row'[k] # NoRow =>
                row'[k].id <= lastId' /\ row'[k].response \subseteq {row'[k].by}
           /\ \A w \in Workers :
                /\ pc[w] \in Holding
                /\ row'[job[w].key] # NoRow /\ row'[job[w].key].id = job[w].id
                => row'[job[w].key].by = job[w].payload
<1>1. \A w \in Workers : pc[w] \in Holding => job[w].key \in Keys
  BY BusyWorker DEF TypeOK, Holding, Owning
<1> QED
  BY <1>1 DEF AnswerInv, HasRow

\* A step of a request that creates no record.
LEMMA AnswerStep ==
    ASSUME TypeOK, AnswerInv, NEW w \in Workers, Step(w) \/ Crash(w), lastId' = lastId,
           \A k \in Keys : row'[k] # NoRow =>
               /\ row[k] # NoRow /\ row'[k].id = row[k].id /\ row'[k].by = row[k].by
               /\ row'[k].response \subseteq {row[k].by},
           pc'[w] # "idle" =>
               /\ job'[w].key = job[w].key /\ job'[w].payload = job[w].payload
               /\ job'[w].id <= lastId,
           pc'[w] \in Holding =>
               \/ pc[w] \in Holding /\ job'[w].id = job[w].id
               \/ row[job[w].key] # NoRow => row[job[w].key].by = job[w].payload,
           UNCHANGED answers \/ Answer(w, job[w].payload)
    PROVE  AnswerInv'
<1>0. \A v \in Workers \ {w} : pc'[v] = pc[v] /\ job'[v] = job[v]
  BY StepControl, Bystander DEF TypeOK
<1>1. pc[w] # "idle" /\ job[w].key \in Keys
  BY StepControl, BusyWorker DEF TypeOK
<1>2. \A k \in Keys : row'[k] # NoRow =>
        row'[k].id <= lastId' /\ row'[k].response \subseteq {row'[k].by}
  BY AnswerTable
<1>3. \A v \in Workers : pc'[v] # "idle" => job'[v].id <= lastId'
  BY <1>0 DEF AnswerInv
<1>4. ASSUME NEW v \in Workers, pc'[v] \in Holding, HasRow(job[v].key, job[v].id)'
      PROVE  row'[job'[v].key].by = job'[v].payload
  <2>1. CASE v # w
    BY <1>0, <1>4, <2>1, AnswerTable DEF HasRow
  <2>2. CASE v = w /\ pc[w] \in Holding /\ job'[w].id = job[w].id
    BY <1>4, <2>2, AnswerTable DEF HasRow, Holding, Owning
  <2>3. CASE v = w /\ (row[job[w].key] # NoRow => row[job[w].key].by = job[w].payload)
    BY <1>1, <1>4, <2>3 DEF HasRow, Holding, Owning
  <2> QED
    BY <1>4, <2>1, <2>2, <2>3
<1>5. AnswersMatch'
  BY <1>1 DEF AnswerInv, AnswersMatch, Answer, TypeOK, AnswerType
<1> QED
  BY <1>2, <1>3, <1>4, <1>5 DEF AnswerInv

\* A record that is created gets an id nobody holds.
LEMMA AnswerCreate ==
    ASSUME TypeOK, AnswerInv, NEW w \in Workers, Create(w),
           CreateProcessing(job[w].key, job[w].payload, job[w].at)
    PROVE  AnswerInv'
<1> DEFINE k == job[w].key
<1>0. \A v \in Workers \ {w} : pc'[v] = pc[v] /\ job'[v] = job[v]
  BY StepControl, Bystander DEF TypeOK, Step
<1>1. /\ pc[w] = "create" /\ k \in Keys /\ job[w].at \in Nat /\ job[w].payload \in Fingerprints
      /\ lastId \in Nat
  BY BusyWorker DEF Create, TypeOK, TableType, Job
<1>2. /\ row[k] = NoRow /\ lastId' = lastId + 1
      /\ row'[k].id = lastId + 1 /\ row'[k].by = job[w].payload /\ row'[k].response = {}
      /\ \A l \in Keys \ {k} : row'[l] = row[l]
  BY <1>1, CreateWrites DEF TypeOK, Written
<1>3. \/ /\ pc'[w] # "idle" /\ job'[w].key = k /\ job'[w].payload = job[w].payload
         /\ job'[w].id = lastId + 1
      \/ pc'[w] = "idle"
  <2>1. GotoWith(w, "execute", lastId + 1, "processing") \/ Return(w)
    BY <1>1, <1>2 DEF Create, tableVars
  <2> QED
    BY <1>1, <2>1, WentWith, WentHome DEF TypeOK
<1>4. /\ \A l \in Keys : row[l] # NoRow => row[l].id \in Nat
      /\ \A v \in Workers : pc[v] # "idle" => job[v].id \in Nat /\ job[v].key \in Keys
  BY RowType, BusyWorker DEF TypeOK, Record, Job
<1>5. UNCHANGED answers
  BY DEF Create
<1> HIDE DEF k
<1>6. \A l \in Keys : row'[l] # NoRow =>
        row'[l].id <= lastId' /\ row'[l].response \subseteq {row'[l].by}
  BY <1>1, <1>2, <1>4 DEF AnswerInv
<1>7. \A v \in Workers : pc'[v] # "idle" => job'[v].id <= lastId'
  BY <1>0, <1>1, <1>2, <1>3, <1>4 DEF AnswerInv
<1>8. ASSUME NEW v \in Workers, pc'[v] \in Holding, HasRow(job[v].key, job[v].id)'
      PROVE  row'[job'[v].key].by = job'[v].payload
  <2>1. CASE v = w
    BY <1>2, <1>3, <1>8, <2>1 DEF Holding, Owning
  <2>2. CASE v # w
    <3>1. pc[v] \in Holding /\ job'[v] = job[v] /\ job[v].key \in Keys /\ job[v].id <= lastId
      BY <1>0, <1>4, <1>8, <2>2 DEF AnswerInv, Holding, Owning
    <3>2. job[v].key # k
      BY <1>1, <1>2, <1>4, <1>8, <3>1 DEF HasRow, Holding, Owning
    <3> QED
      BY <1>2, <1>8, <3>1, <3>2 DEF AnswerInv, HasRow
  <2> QED
    BY <2>1, <2>2
<1>9. AnswersMatch'
  BY <1>5 DEF AnswerInv, AnswersMatch
<1> QED
  BY <1>6, <1>7, <1>8, <1>9 DEF AnswerInv

\* Nothing is answered at first.
LEMMA AnswerInit == Init => AnswerInv
  BY DEF Init, TableInit, AnswerInv, AnswersMatch, Holding, Owning

\* The invariant of the answers is inductive.
LEMMA AnswerNext == TypeOK /\ AnswerInv /\ [Next]_vars => AnswerInv'
<1> SUFFICES ASSUME TypeOK, AnswerInv, [Next]_vars PROVE AnswerInv'
  OBVIOUS
<1> DEFINE Kept == /\ lastId' = lastId
                   /\ \A k \in Keys : row'[k] # NoRow =>
                        /\ row[k] # NoRow /\ row'[k].id = row[k].id /\ row'[k].by = row[k].by
                        /\ row'[k].response \subseteq {row[k].by}
<1>0. UNCHANGED tableVars => Kept
  BY DEF tableVars, AnswerInv
<1>1. ASSUME NEW w \in Workers, Create(w) PROVE AnswerInv'
  <2>1. CASE CreateProcessing(job[w].key, job[w].payload, job[w].at)
    BY <1>1, <2>1, AnswerCreate
  <2>2. CASE UNCHANGED tableVars
    <3>1. pc[w] = "create" /\ UNCHANGED answers
      BY <1>1 DEF Create
    <3>2. (pc'[w] = "read" /\ job'[w] = job[w]) \/ pc'[w] = "idle"
      <4>1. Goto(w, "read") \/ Return(w)
        BY <1>1, <2>2 DEF Create, CreateProcessing, tableVars, TypeOK, TableType
      <4> QED
        BY <4>1, WentTo, WentHome DEF TypeOK
    <3> QED
      BY <1>0, <1>1, <2>2, <3>1, <3>2, AnswerStep DEF Step, Holding, Owning, AnswerInv
  <2> QED
    BY <1>1, <2>1, <2>2 DEF Create
<1>2. ASSUME NEW w \in Workers, Read(w) PROVE AnswerInv'
  <2> DEFINE r == row[job[w].key]
  <2>1. /\ pc[w] \in {"read", "reread"} /\ job[w].key \in Keys /\ UNCHANGED tableVars
    BY <1>2, BusyWorker DEF Read, TypeOK
  <2>2. \/ Return(w)
        \/ \E place \in {"reclaim", "reclaimExpired"}, from \in Statuses \cup {r.status} :
             r # NoRow /\ SamePayload(w) /\ GotoWith(w, place, r.id, from)
    BY <1>2 DEF Read, DecideByStatus, Statuses
  <2>3. pc'[w] # "idle" =>
          /\ job'[w].key = job[w].key /\ job'[w].payload = job[w].payload
          /\ job'[w].id <= lastId /\ r.by = job[w].payload
    BY <2>1, <2>2, WentWith, WentHome DEF TypeOK, AnswerInv, SamePayload
  <2>4. UNCHANGED answers \/ Answer(w, job[w].payload)
    <3>1. \/ UNCHANGED answers
          \/ r # NoRow /\ SamePayload(w) /\ \E response \in r.response : Answer(w, response)
      BY <1>2 DEF Read, DecideByStatus
    <3> QED
      BY <2>1, <3>1 DEF AnswerInv, SamePayload
  <2> QED
    BY <1>0, <1>2, <2>1, <2>3, <2>4, AnswerStep DEF Step, Holding, Owning
<1>3. ASSUME NEW w \in Workers, Reclaim(w) PROVE AnswerInv'
  <2> DEFINE j == job[w]
  <2>0. /\ pc[w] \in {"reclaim", "reclaimExpired"} /\ j.key \in Keys /\ j.at \in Nat
        /\ UNCHANGED answers
    BY <1>3, BusyWorker DEF Reclaim, TypeOK
  <2>1. (pc'[w] \in {"execute", "reread"} /\ job'[w] = j) \/ pc'[w] = "idle"
    BY <1>3, WentTo, WentHome DEF Reclaim, TypeOK
  <2>2. CASE TryReclaim(j.key, j.id, j.from, j.at)
    <3>1. Kept
      BY <2>0, <2>2, ReclaimWrites DEF TypeOK, Written, SameRecord, HasRow, AnswerInv
    <3> QED
      BY <1>3, <2>0, <2>1, <3>1, AnswerStep DEF Step, Holding, Owning, AnswerInv
  <2>3. CASE UNCHANGED tableVars
    BY <1>0, <1>3, <2>0, <2>1, <2>3, AnswerStep DEF Step, Holding, Owning, AnswerInv
  <2> QED
    BY <1>3, <2>2, <2>3 DEF Reclaim
<1>4. ASSUME NEW w \in Workers, Execute(w) PROVE AnswerInv'
  <2>1. pc'[w] \in {"succeed", "fail"} /\ job'[w] = job[w] /\ pc[w] = "execute"
    BY <1>4, WentTo DEF Execute, TypeOK
  <2>2. UNCHANGED tableVars /\ UNCHANGED answers
    BY <1>4 DEF Execute
  <2> QED
    BY <1>0, <1>4, <2>1, <2>2, AnswerStep DEF Step, Holding, Owning, AnswerInv
<1>5. ASSUME NEW w \in Workers, Succeed(w) \/ Fail(w) PROVE AnswerInv'
  <2> DEFINE j == job[w]
  <2>0. /\ pc[w] \in {"succeed", "fail"} /\ j.key \in Keys /\ j.at + TTL \in Nat
        /\ j.payload \in Fingerprints /\ now + Backoff \in Nat
        /\ UNCHANGED answers \/ Answer(w, j.payload)
    BY <1>5, BusyWorker, Times, BudgetAssumption DEF Succeed, Fail, TypeOK, TableType, Job
  <2>1. pc'[w] = "idle"
    BY <1>5, WentHome DEF Succeed, Fail, TypeOK
  <2>2. Kept
    <3>1. CASE MarkSucceeded(j.key, j.id, j.payload, j.at + TTL)
      <4>1. HasRow(j.key, j.id) => row[j.key].by = j.payload
        BY <2>0 DEF AnswerInv, Holding, Owning
      <4>2. lastId' = lastId
        BY <3>1 DEF MarkSucceeded, Update
      <4>3. /\ ~HasRow(j.key, j.id) => UNCHANGED row
            /\ HasRow(j.key, j.id) =>
                 Written(j.key) /\ SameRecord(j.key) /\ row'[j.key].response = {j.payload}
        BY <2>0, <3>1, SucceededWrites DEF TypeOK
      <4> QED
        BY <4>1, <4>2, <4>3 DEF Written, SameRecord, HasRow, AnswerInv
    <3>2. CASE MarkFailedRetryable(j.key, j.id, now + Backoff, j.at + TTL)
      <4>1. lastId' = lastId
        BY <3>2 DEF MarkFailedRetryable, Update
      <4>2. /\ ~HasRow(j.key, j.id) => UNCHANGED row
            /\ HasRow(j.key, j.id) =>
                 Written(j.key) /\ SameRecord(j.key) /\ row'[j.key].response = row[j.key].response
        BY <2>0, <3>2, FailedWrites DEF TypeOK
      <4> QED
        BY <4>1, <4>2 DEF Written, SameRecord, HasRow, AnswerInv
    <3> QED
      BY <1>0, <1>5, <3>1, <3>2 DEF Succeed, Fail, LeftProcessing, LeftRetryable, MarkRetryable
  <2> QED
    BY <1>5, <2>0, <2>1, <2>2, AnswerStep DEF Step, Holding, Owning
<1>6. ASSUME NEW w \in Workers, Crash(w) PROVE AnswerInv'
  <2>1. pc'[w] = "idle" /\ UNCHANGED tableVars /\ UNCHANGED answers
    BY <1>6, WentHome DEF Crash, TypeOK
  <2> QED
    BY <1>0, <1>6, <2>1, AnswerStep DEF Holding, Owning
<1>7. ASSUME NEW w \in Workers, NEW k \in Keys, NEW p \in Fingerprints, Request(w, k, p)
      PROVE  AnswerInv'
  <2>1. /\ \A v \in Workers \ {w} : pc'[v] = pc[v] /\ job'[v] = job[v]
        /\ pc'[w] = "create" /\ job'[w].id = 0
        /\ UNCHANGED <<row, lastId, answers>> /\ lastId \in Nat
    BY <1>7 DEF Request, TypeOK, WorkType, TableType, tableVars
  <2> QED
    BY <2>1 DEF AnswerInv, AnswersMatch, HasRow, Holding, Owning
<1>8. CASE Environment
  <2>1. UNCHANGED <<pc, job, answers>>
    BY <1>8 DEF Environment, workVars
  <2>2. Kept
    BY <1>8 DEF Environment, Tick, SelectExpired, DeleteVictims, AnswerInv
  <2>3. AnswersMatch'
    BY <2>1 DEF AnswerInv, AnswersMatch
  <2> QED
    BY <2>1, <2>2, <2>3, AnswerTable DEF AnswerInv, HasRow
<1>9. CASE UNCHANGED vars
  BY <1>9 DEF AnswerInv, AnswersMatch, HasRow, vars, tableVars, workVars
<1> QED
  BY <1>1, <1>2, <1>3, <1>4, <1>5, <1>6, <1>7, <1>8, <1>9 DEF Next, Step

\* Nobody is answered with the response to another payload, also when the record has
\* been reclaimed or deleted under its owner.
THEOREM MatchingAnswers == Spec => []AnswersMatch
<1>1. AnswerInv => AnswersMatch
  BY DEF AnswerInv
<1> QED
  BY <1>1, TypeInit, TypeStep, AnswerInit, AnswerNext, PTL DEF Spec
=============================================================================
