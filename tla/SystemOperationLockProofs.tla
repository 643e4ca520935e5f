---------------------- MODULE SystemOperationLockProofs ----------------------
(***************************************************************************)
(* Proofs about SystemOperationLock for any number of operations, any      *)
(* lease, and any bounds on time, faults and crashes; RenewedInTime is     *)
(* about leases of four ticks or more and one fault.                       *)
(***************************************************************************)
EXTENDS SystemOperationLock, TLAPS

-----------------------------------------------------------------------------
(* Type correctness. *)

\* A record that exists is a record, and the times the statements write are times.
LEMMA RowType == ASSUME TableType, NEW k \in Keys, row[k] # NoRow PROVE row[k] \in Record
  BY DEF TableType

\* Leases and records end at some time.
LEMMA Times == ASSUME NEW at \in Nat PROVE at + Lease \in Nat /\ at + TTL \in Nat
  BY DurationAssumption

\* The clock and the clean-up keep the type of the table.
LEMMA EnvironmentTable ==
    ASSUME TableType, Tick \/ SelectExpired \/ DeleteVictims
    PROVE  TableType' /\ now <= now'
<1>1. now \in Nat /\ MaxTime \in Nat
  BY DurationAssumption DEF TableType
<1>2. CASE Tick
  BY <1>1, <1>2 DEF Tick, TableType
<1>3. CASE SelectExpired
  <2>1. \A k \in Keys : row[k] # NoRow => row[k].id \in Nat
    BY RowType DEF Record
  <2>2. victims' \subseteq Keys \X Nat
    BY <1>3, <2>1 DEF SelectExpired
  <2> QED
    BY <1>1, <1>3, <2>2 DEF SelectExpired, TableType
<1>4. CASE DeleteVictims
  BY <1>1, <1>4 DEF DeleteVictims, TableType
<1> QED
  BY <1>2, <1>3, <1>4

\* An operation that is not idle has a job.
LEMMA BusyOperation ==
    ASSUME WorkType, NEW o \in Operations, pc[o] # "idle"
    PROVE  job[o] \in Job /\ job[o].at \in Nat /\ job[o].id \in Nat
  BY DEF WorkType, Job

\* What a step may do to the place and the job of its operation.
Control(o) ==
    \/ \E place \in Places \ {"idle"} : pc[o] # "idle" /\ Goto(o, place)
    \/ \E place \in Places \ {"idle"}, id \in Nat, from \in Statuses :
         pc[o] # "idle" /\ GotoWith(o, place, id, from)
    \/ Return(o)
    \/ UNCHANGED <<pc, job>>

\* Every step but the first does one of these.
LEMMA StepControl ==
    ASSUME TypeOK, NEW o \in Operations, Step(o), ~Acquire(o)
    PROVE  Control(o)
<1> USE DEF Places, Acquiring, Control
<1>1. CASE Create(o)
  BY <1>1 DEF Create, Statuses, TypeOK, TableType
<1>2. CASE Read(o)
  <2>1. row[LockKey] # NoRow => row[LockKey].id \in Nat /\ row[LockKey].status \in Statuses
    BY RowType, LockKeyAssumption DEF TypeOK, Record
  <2> QED
    BY <1>2, <2>1 DEF Read
<1>3. CASE Reclaim(o)
  BY <1>3 DEF Reclaim
<1>4. CASE Release(o)
  BY <1>4 DEF Release
<1>5. CASE Renew(o) \/ StopLoop(o)
  BY <1>5 DEF Renew, StopLoop
<1>6. CASE Crash(o)
  BY <1>6 DEF Crash
<1> QED
  BY <1>1, <1>2, <1>3, <1>4, <1>5, <1>6 DEF Step

\* Going from place to place keeps the types.
LEMMA ControlKeepsType ==
    ASSUME WorkType, NEW o \in Operations, Control(o)
    PROVE  WorkType'
<1>1. ASSUME NEW place \in Places \ {"idle"}, pc[o] # "idle", Goto(o, place) PROVE WorkType'
  BY <1>1 DEF Goto, WorkType
<1>2. ASSUME NEW place \in Places \ {"idle"}, NEW id \in Nat, NEW from \in Statuses,
             pc[o] # "idle", GotoWith(o, place, id, from)
      PROVE  WorkType'
  <2>1. [job[o] EXCEPT !.id = id, !.from = from] \in Job
    BY <1>2, BusyOperation DEF Job
  <2>2. /\ pc' = [pc EXCEPT ![o] = place]
        /\ job' = [job EXCEPT ![o] = [job[o] EXCEPT !.id = id, !.from = from]]
    BY <1>2 DEF GotoWith
  <2> QED
    BY <2>1, <2>2, NoJobAssumption DEF WorkType
<1>3. CASE Return(o)
  BY <1>3 DEF Return, WorkType, Places
<1>4. CASE UNCHANGED <<pc, job>>
  BY <1>4 DEF WorkType
<1> QED
  BY <1>1, <1>2, <1>3, <1>4 DEF Control

\* Who acquires has read the clock.
LEMMA AcquireKeepsType == ASSUME TypeOK, NEW o \in Operations, Acquire(o) PROVE WorkType'
<1> DEFINE j == [at |-> now, id |-> 0, from |-> "processing"]
<1>1. j \in Job
  BY DEF TypeOK, TableType, Job, Statuses
<1>2. pc' = [pc EXCEPT ![o] = "create"] /\ job' = [job EXCEPT ![o] = j]
  BY DEF Acquire
<1> HIDE DEF j
<1> QED
  BY <1>1, <1>2, NoJobAssumption DEF TypeOK, WorkType, Places, Acquiring

\* A loop is started or continued for a record it knows, or ends.
LEMMA LoopKeepsType ==
    ASSUME LoopType, now \in Nat, NEW o \in Operations,
           (\E id \in Nat : StartLoop(o, id)) \/ EndLoop(o) \/ UNCHANGED loop
    PROVE  LoopType'
<1>1. now + Interval \in Nat
  BY DurationAssumption DEF Interval
<1> QED
  BY <1>1 DEF LoopType, StartLoop, EndLoop, Loop

\* Loops start and end with jobs of their type.
LEMMA StepLoop ==
    ASSUME TypeOK, NEW o \in Operations, Step(o)
    PROVE  LoopType'
<1>1. now \in Nat /\ lastId + 1 \in Nat /\ LoopType
  BY DEF TypeOK, TableType
<1>2. (\E id \in Nat : StartLoop(o, id)) \/ EndLoop(o) \/ UNCHANGED loop
  <2>1. CASE Create(o)
    BY <1>1, <2>1 DEF Create
  <2>2. CASE Reclaim(o)
    <3>1. job[o].id \in Nat
      BY <2>2, BusyOperation DEF Reclaim, TypeOK
    <3> QED
      BY <2>2, <3>1 DEF Reclaim
  <2>3. CASE Renew(o)
    <3>1. loop[o].id \in Nat
      BY <2>3 DEF Renew, TypeOK, LoopType, Loop
    <3> QED
      BY <2>3, <3>1 DEF Renew
  <2> QED
    BY <2>1, <2>2, <2>3 DEF Step, Acquire, Read, Release, StopLoop, Crash
<1> QED
  BY <1>1, <1>2, LoopKeepsType

\* A statement writes no record but the lock's: a new one, with the next id, or the one
\* that is there, with the id it has.
StoresLock ==
    /\ UNCHANGED <<victims, now>>
    /\ \/ UNCHANGED <<row, lapsed, lastId>>
       \/ \E r \in Record :
            /\ Store(LockKey, r)
            /\ \/ lastId' = lastId + 1 /\ r.id = lastId'
               \/ lastId' = lastId /\ row[LockKey] # NoRow /\ r.id = row[LockKey].id

\* An update of the lock by its id stores a record with that id, or nothing;
LEMMA UpdateStores ==
    ASSUME NEW id, NEW r, Update(LockKey, id, r),
           row[LockKey] # NoRow => r \in Record /\ r.id = row[LockKey].id
    PROVE  StoresLock
  BY DEF Update, HasRow, StoresLock

\* and no step stores anything else.
LEMMA StepStores ==
    ASSUME TypeOK, NEW o \in Operations, Step(o)
    PROVE  StoresLock
<1> DEFINE j == job[o]
           q == row[LockKey]
<1>0. /\ LockKey \in Keys /\ o \in Fingerprints /\ now \in Nat /\ lastId + 1 \in Nat
      /\ now + TTL \in Nat /\ now + Lease \in Nat
      /\ pc[o] # "idle" => j.at + Lease \in Nat /\ j.at + TTL \in Nat
  BY BusyOperation, LockKeyAssumption, Times DEF Operations, TypeOK, TableType
<1>1. q # NoRow => q \in Record
  BY RowType, LockKeyAssumption DEF TypeOK
<1>2. CASE pc[o] # "idle" /\ CreateProcessing(LockKey, o, j.at)
  <2> DEFINE r == [id |-> lastId + 1, by |-> o, status |-> "processing", response |-> {},
                   lockedUntil |-> j.at + Lease, expiresAt |-> j.at + TTL]
  <2>1. r \in Record /\ r.id = lastId + 1
    BY <1>0, <1>2 DEF Record, Statuses
  <2>2. Store(LockKey, r) /\ lastId' = lastId + 1 /\ UNCHANGED <<victims, now>>
    BY <1>2 DEF CreateProcessing
  <2> HIDE DEF r
  <2> QED
    BY <2>1, <2>2 DEF StoresLock
<1>3. CASE pc[o] # "idle" /\ TryReclaim(LockKey, j.id, j.from, j.at)
  <2> DEFINE r == [q EXCEPT !.status = "processing",
                            !.lockedUntil = j.at + Lease, !.expiresAt = j.at + TTL]
  <2>1. q # NoRow
    BY <1>3 DEF TryReclaim, Reclaimable, HasRow
  <2>2. r \in Record /\ r.id = q.id
    BY <1>0, <1>1, <1>3, <2>1 DEF Record, Statuses
  <2>3. Store(LockKey, r) /\ UNCHANGED <<lastId, victims, now>>
    BY <1>3 DEF TryReclaim
  <2> HIDE DEF r
  <2> QED
    BY <2>1, <2>2, <2>3 DEF StoresLock
<1>4. CASE MarkSucceeded(LockKey, j.id, o, now + TTL)
  <2> DEFINE r == [q EXCEPT !.status = "succeeded", !.response = {o},
                            !.lockedUntil = 0, !.expiresAt = now + TTL]
  <2>1. q # NoRow => r \in Record /\ r.id = q.id
    BY <1>0, <1>1 DEF Record, Statuses
  <2>2. Update(LockKey, j.id, r)
    BY <1>4 DEF MarkSucceeded
  <2> HIDE DEF r
  <2> QED
    BY <2>1, <2>2, UpdateStores
<1>5. CASE MarkFailedRetryable(LockKey, j.id, now, now + TTL)
  <2> DEFINE r == [q EXCEPT !.status = "failed", !.lockedUntil = now, !.expiresAt = now + TTL]
  <2>1. q # NoRow => r \in Record /\ r.id = q.id
    BY <1>0, <1>1 DEF Record, Statuses
  <2>2. Update(LockKey, j.id, r)
    BY <1>5 DEF MarkFailedRetryable
  <2> HIDE DEF r
  <2> QED
    BY <2>1, <2>2, UpdateStores
<1>6. CASE ExtendProcessingLock(LockKey, loop[o].id, o)
  <2> DEFINE r == [q EXCEPT !.lockedUntil = now + Lease, !.expiresAt = now + TTL]
  <2>1. q # NoRow
    BY <1>6 DEF ExtendProcessingLock, Extendable, HasRow
  <2>2. r \in Record /\ r.id = q.id
    BY <1>0, <1>1, <2>1 DEF Record
  <2>3. Store(LockKey, r) /\ UNCHANGED <<lastId, victims, now>>
    BY <1>6 DEF ExtendProcessingLock
  <2> HIDE DEF r
  <2> QED
    BY <2>1, <2>2, <2>3 DEF StoresLock
<1>7. CASE UNCHANGED tableVars
  BY <1>7 DEF StoresLock, tableVars
<1>8. \/ pc[o] # "idle" /\ CreateProcessing(LockKey, o, j.at)
      \/ pc[o] # "idle" /\ TryReclaim(LockKey, j.id, j.from, j.at)
      \/ MarkSucceeded(LockKey, j.id, o, now + TTL)
      \/ MarkFailedRetryable(LockKey, j.id, now, now + TTL)
      \/ ExtendProcessingLock(LockKey, loop[o].id, o)
      \/ UNCHANGED tableVars
  BY DEF Step, Acquire, Create, Read, Reclaim, Release, Renew, StopLoop, Crash
<1> HIDE DEF j
<1> QED
  BY <1>2, <1>3, <1>4, <1>5, <1>6, <1>7, <1>8

\* The statements of an operation keep the type of the table, and the clock stands still.
LEMMA StepTable ==
    ASSUME TypeOK, NEW o \in Operations, Step(o)
    PROVE  TableType' /\ UNCHANGED now
<1>1. ASSUME NEW r \in Record, Store(LockKey, r)
      PROVE  row' \in [Keys -> Record \cup {NoRow}] /\ lapsed' \subseteq Keys
  BY <1>1, LockKeyAssumption DEF Store, TypeOK, TableType
<1>2. lastId' \in Nat
  BY StepStores DEF StoresLock, TypeOK, TableType
<1> QED
  BY <1>1, <1>2, StepStores DEF StoresLock, TypeOK, TableType

\* The initial state is type-correct.
LEMMA TypeInit == Init => TypeOK
<1> SUFFICES ASSUME Init PROVE TypeOK
  OBVIOUS
<1>1. WorkType /\ LoopType
  BY DEF Init, WorkType, LoopType, Places
<1>2. faults \in 0 .. MaxFaults /\ crashes \in 0 .. MaxCrashes
  BY BudgetAssumption DEF Init
<1>3. reused \in BOOLEAN /\ overrun \in BOOLEAN
  BY DEF Init
<1> QED
  BY <1>1, <1>2, <1>3, DurationAssumption DEF Init, TypeOK, TableInit, TableType

\* No step leaves the types.
LEMMA TypeStep == TypeOK /\ [Next]_vars => TypeOK'
<1> SUFFICES ASSUME TypeOK, [Next]_vars PROVE TypeOK'
  OBVIOUS
<1>0. Next => overrun' \in BOOLEAN
  BY DEF Next, TypeOK
<1>1. ASSUME NEW o \in Operations, Step(o), Next PROVE TypeOK'
  <2>1. WorkType'
    BY <1>1, AcquireKeepsType, StepControl, ControlKeepsType DEF TypeOK
  <2>2. reused' \in BOOLEAN
    BY <1>1
       DEF TypeOK, Step, Acquire, Create, Read, Reclaim, Release, Renew, StopLoop, Crash
  <2>3. faults' \in 0 .. MaxFaults /\ crashes' \in 0 .. MaxCrashes
    BY <1>1, BudgetAssumption
       DEF TypeOK, Step, Acquire, Create, Read, Reclaim, Release, Renew, StopLoop, Crash,
           NoFault, Fault, budget
  <2> QED
    BY <1>0, <1>1, <2>1, <2>2, <2>3, StepTable, StepLoop DEF TypeOK
<1>2. ASSUME Environment, Next PROVE TypeOK'
  <2>1. TableType'
    BY <1>2, EnvironmentTable DEF Environment, TypeOK
  <2> QED
    BY <1>0, <1>2, <2>1 DEF Environment, TypeOK, WorkType, LoopType, budget
<1>3. CASE UNCHANGED vars
  BY <1>3 DEF TypeOK, TableType, WorkType, LoopType, vars, tableVars, budget
<1> QED
  BY <1>1, <1>2, <1>3 DEF Next

\* Every reachable state is type-correct.
THEOREM TypeCorrect == Spec => []TypeOK
BY TypeInit, TypeStep, PTL DEF Spec

-----------------------------------------------------------------------------
(* Mutual exclusion. *)

\* Until an operation runs beyond its lock, every operation that runs has the lock,
\* and nobody's clock reading is in the future.
LockInv ==
    /\ ~overrun => LockedWhileHeld
    /\ \A o \in Operations : pc[o] # "idle" => job[o].at <= now
    /\ OneOperation

\* An operation begins to run only when the record is missing or its lease has ended,
\* so nobody has the lock.
LEMMA BeginsUnlocked ==
    ASSUME TypeOK, LockInv, NEW o \in Operations, Step(o),
           pc[o] # "running", pc'[o] = "running", NEW p \in Operations
    PROVE  ~Locked(p)
<1>1. Create(o) \/ Reclaim(o)
  BY DEF Step, Acquire, Create, Read, Reclaim, Release, Renew, StopLoop, Crash, Goto, GotoWith,
         Return, TypeOK, WorkType
<1>2. CASE Create(o)
  <2>1. CreateProcessing(LockKey, o, job[o].at)
    BY <1>2 DEF Create, Goto, Return, TypeOK, WorkType
  <2> QED
    BY <2>1 DEF CreateProcessing, Locked, HasRow
<1>3. CASE Reclaim(o)
  <2>1. TryReclaim(LockKey, job[o].id, job[o].from, job[o].at) /\ pc[o] = "reclaim"
    BY <1>3 DEF Reclaim, Return, TypeOK, WorkType
  <2>2. job[o].at <= now /\ job[o].at \in Nat /\ now \in Nat
    BY <2>1, BusyOperation DEF LockInv, TypeOK, TableType
  <2>3. row[LockKey] \in Record
    BY <2>1, RowType, LockKeyAssumption DEF TryReclaim, Reclaimable, HasRow, TypeOK
  <2> QED
    BY <2>1, <2>2, <2>3 DEF TryReclaim, Reclaimable, Locked, Record
<1> QED
  BY <1>1, <1>2, <1>3

\* The other operations keep their places and jobs.
LEMMA Bystander ==
    ASSUME TypeOK, NEW o \in Operations, Step(o), NEW p \in Operations, p # o
    PROVE  pc'[p] = pc[p] /\ job'[p] = job[p]
  BY DEF Step, Acquire, Create, Read, Reclaim, Release, Renew, StopLoop, Crash, Goto, GotoWith,
         Return, TypeOK, WorkType

\* The clock reading of an operation is as old as its Acquire.
LEMMA ReadingKept ==
    ASSUME TypeOK, LockInv, NEW o \in Operations, Step(o), pc'[o] # "idle"
    PROVE  job'[o].at <= now
<1>1. CASE Acquire(o)
  BY <1>1 DEF Acquire, TypeOK, WorkType, TableType
<1>2. CASE ~Acquire(o)
  <2>1. CASE UNCHANGED <<pc, job>>
    BY <2>1 DEF LockInv
  <2>2. ASSUME NEW place, pc[o] # "idle", Goto(o, place) PROVE job'[o].at <= now
    BY <2>2 DEF Goto, LockInv
  <2>3. ASSUME NEW place, NEW id, NEW from, pc[o] # "idle", GotoWith(o, place, id, from)
        PROVE  job'[o].at <= now
    <3>1. job[o] \in Job /\ job[o].at <= now
      BY <2>3, BusyOperation DEF TypeOK, LockInv
    <3>2. job'[o] = [job[o] EXCEPT !.id = id, !.from = from]
      BY <2>3 DEF GotoWith, TypeOK, WorkType
    <3> QED
      BY <3>1, <3>2 DEF Job
  <2>4. ~Return(o)
    BY DEF Return, TypeOK, WorkType
  <2> QED
    BY <1>2, <2>1, <2>2, <2>3, <2>4, StepControl DEF Control
<1> QED
  BY <1>1, <1>2

\* Nobody has the lock at first.
LEMMA LockInit == Init => LockInv
  BY DEF Init, LockInv, LockedWhileHeld, OneOperation

\* The invariant of the lock is inductive.
LEMMA LockStep == TypeOK /\ LockInv /\ [Next]_vars => LockInv'
<1> SUFFICES ASSUME TypeOK, LockInv, [Next]_vars PROVE LockInv'
  OBVIOUS
<1>1. Next => (~overrun' => LockedWhileHeld' /\ ~overrun)
  BY DEF Next, LockedWhileHeld
<1>2. ASSUME NEW o \in Operations, Step(o), Next PROVE LockInv'
  <2>1. \A p \in Operations : pc'[p] # "idle" => job'[p].at <= now'
    BY <1>2, Bystander, ReadingKept, StepTable DEF LockInv
  <2>2. OneOperation'
    <3>1. SUFFICES ASSUME ~overrun, NEW p \in Operations, NEW q \in Operations,
                          pc'[p] = "running", pc'[q] = "running"
                   PROVE  p = q
      BY <1>1, <1>2 DEF OneOperation
    <3>2. CASE pc[o] # "running" /\ pc'[o] = "running"
      BY <1>2, <3>1, <3>2, Bystander, BeginsUnlocked DEF LockInv, LockedWhileHeld
    <3>3. CASE pc[o] = "running" \/ pc'[o] # "running"
      BY <1>2, <3>1, <3>3, Bystander DEF LockInv, OneOperation
    <3> QED
      BY <3>2, <3>3
  <2> QED
    BY <1>1, <1>2, <2>1, <2>2 DEF LockInv
<1>3. ASSUME Environment, Next PROVE LockInv'
  <2>1. UNCHANGED <<pc, job>>
    BY <1>3 DEF Environment
  <2>2. now <= now' /\ now \in Nat /\ now' \in Nat
    BY <1>3, EnvironmentTable DEF Environment, TypeOK, TableType
  <2>3. \A p \in Operations : pc'[p] # "idle" => job'[p].at <= now'
    BY <2>1, <2>2, BusyOperation DEF LockInv, TypeOK
  <2> QED
    BY <1>1, <1>3, <2>1, <2>3 DEF LockInv, OneOperation
<1>4. CASE UNCHANGED vars
  BY <1>4 DEF LockInv, LockedWhileHeld, OneOperation, Locked, HasRow, vars, tableVars
<1> QED
  BY <1>2, <1>3, <1>4 DEF Next

\* System operations exclude each other until one of them runs beyond its lock.
THEOREM Exclusion == Spec => []OneOperation
<1>1. LockInv => OneOperation
  BY DEF LockInv
<1> QED
  BY <1>1, TypeInit, TypeStep, LockInit, LockStep, PTL DEF Spec

-----------------------------------------------------------------------------
(* The renewal of the lock. *)

\* One failing statement does not end a lock of four ticks or more, because a round comes
\* every third of it; and no record in processing is selected by the clean-up before its
\* lock has ended.
Patient == MaxFaults <= 1 /\ Lease >= 4 /\ Lease <= TTL

\* Three rounds of renewal fit in a lease.
LEMMA ThreeRounds == Lease \in Nat /\ Interval \in Nat /\ 3 * Interval <= Lease
  BY DurationAssumption DEF Interval

\* What a failed round has delayed the next one by.
Delay == IF faults = 0 THEN 0 ELSE Interval

\* The operation has the record it created, its loop renews that record, and the next
\* round comes before the lock ends.
Renewed(o) == LET r == row[LockKey]  l == loop[o] IN
    /\ Extendable(LockKey, job[o].id, o) /\ <<LockKey, job[o].id>> \notin victims
    /\ l # NoLoop /\ l.id = job[o].id
    /\ now <= l.due
    /\ l.due + Lease <= r.lockedUntil + 1 + Interval + Delay
    /\ r.lockedUntil <= r.expiresAt

\* Neither the lock's record nor a selected one has an id that is still to be given.
IdsGiven ==
    /\ row[LockKey] # NoRow => row[LockKey].id <= lastId
    /\ \A v \in victims : v[1] = LockKey => v[2] <= lastId

RenewInv ==
    /\ IdsGiven
    /\ \A o \in Operations : pc[o] \in Acquiring => now <= job[o].at + 1
    /\ ~reused => \A o \in Operations : pc[o] = "running" => Renewed(o)

\* An operation that will be renewed in time has the lock and its record.
LEMMA RenewedIsLocked ==
    ASSUME Patient, TypeOK, NEW o \in Operations, Renewed(o)
    PROVE  /\ Locked(o) /\ row[LockKey] \in Record /\ row[LockKey].by = o
           /\ loop[o] \in Loop /\ row[LockKey].expiresAt > now
<1>1. row[LockKey] \in Record
  BY RowType, LockKeyAssumption DEF Renewed, Extendable, HasRow, TypeOK
<1>2. loop[o] \in Loop
  BY DEF Renewed, TypeOK, LoopType
<1>3. row[LockKey].lockedUntil > now /\ row[LockKey].expiresAt > now
  BY <1>1, <1>2, ThreeRounds
     DEF Renewed, Patient, Delay, TypeOK, TableType, Record, Loop
<1> QED
  BY <1>1, <1>2, <1>3 DEF Renewed, Extendable, Locked

\* Nobody else writes the record of an operation that runs.
LEMMA RecordUntouched ==
    ASSUME Patient, TypeOK, LockInv, RenewInv, ~reused, NEW o \in Operations, Renewed(o),
           NEW p \in Operations, p # o, Step(p)
    PROVE  row'[LockKey] = row[LockKey] /\ UNCHANGED victims
<1>0. Locked(o) /\ row[LockKey] \in Record /\ row[LockKey].by = o
  BY RenewedIsLocked
<1>1. row[LockKey] # NoRow
  BY <1>0 DEF Locked, HasRow
<1>2. ~CreateProcessing(LockKey, p, job[p].at)
  BY <1>1 DEF CreateProcessing
<1>3. pc[p] # "idle" => ~TryReclaim(LockKey, job[p].id, job[p].from, job[p].at)
  <2> SUFFICES ASSUME pc[p] # "idle" PROVE ~(row[LockKey].lockedUntil <= job[p].at)
    BY DEF TryReclaim, Reclaimable
  <2>1. job[p].at <= now /\ job[p].at \in Nat
    BY BusyOperation DEF LockInv, TypeOK
  <2> QED
    BY <1>0, <2>1 DEF Locked, Record, TypeOK, TableType
<1>4. pc[p] # "running"
  BY <1>0, RenewedIsLocked DEF RenewInv
<1>5. ~ExtendProcessingLock(LockKey, loop[p].id, p)
  BY <1>0 DEF ExtendProcessingLock, Extendable
<1>6. UNCHANGED tableVars
  BY <1>2, <1>3, <1>4, <1>5
     DEF Step, Acquire, Create, Read, Reclaim, Release, Renew, StopLoop, Crash
<1> QED
  BY <1>6 DEF tableVars

\* Every step leaves another operation's record as it was, and its loop alone.
LEMMA OtherRenewed ==
    ASSUME Patient, TypeOK, LockInv, RenewInv, ~reused, NEW o \in Operations, Renewed(o),
           NEW p \in Operations, p # o, Step(p)
    PROVE  Renewed(o)'
<1>1. row'[LockKey] = row[LockKey] /\ UNCHANGED victims /\ UNCHANGED now
  BY RecordUntouched, StepTable
<1>2. job'[o] = job[o]
  BY Bystander
<1>3. loop'[o] = loop[o]
  BY DEF Step, Acquire, Create, Read, Reclaim, Release, Renew, StopLoop, Crash, StartLoop,
         EndLoop, TypeOK, LoopType
<1>4. Delay \in Nat /\ Delay' \in Nat /\ Delay <= Delay'
  <2>1. faults \in Nat /\ faults' \in Nat /\ faults <= faults'
    BY BudgetAssumption
       DEF TypeOK, Step, Acquire, Create, Read, Reclaim, Release, Renew, StopLoop, Crash,
           NoFault, Fault, budget
  <2> QED
    BY <2>1, ThreeRounds DEF Delay
<1>5. row[LockKey] \in Record /\ loop[o] \in Loop
  BY RenewedIsLocked
<1> QED
  BY <1>1, <1>2, <1>3, <1>4, <1>5, ThreeRounds DEF Renewed, Extendable, HasRow, Record, Loop

\* What an operation stores when it gets the lock or renews it.
LEMMA RecordStored ==
    ASSUME TypeOK, NEW r \in Record, Store(LockKey, r)
    PROVE  row'[LockKey] = r /\ r # NoRow
  BY LockKeyAssumption, NoRowAssumption DEF Store, TypeOK, TableType

\* The loop that is started with the lock has its first round in time.
LEMMA BeginRenewed ==
    ASSUME Patient, TypeOK, LockInv, RenewInv, NEW o \in Operations,
           Create(o) \/ Reclaim(o), pc'[o] = "running", ~reused'
    PROVE  Renewed(o)'
<1> DEFINE j == job[o]
<1>0. /\ j \in Job /\ j.at \in Nat /\ j.id \in Nat /\ j.at <= now /\ now <= j.at + 1
      /\ now \in Nat /\ lastId \in Nat /\ Lease \in Nat /\ TTL \in Nat
  BY BusyOperation, DurationAssumption
     DEF Create, Reclaim, LockInv, RenewInv, Acquiring, TypeOK, TableType
<1>1. Delay' \in Nat
  <2>1. faults' \in Nat
    BY BudgetAssumption DEF Create, Reclaim, NoFault, Fault, TypeOK
  <2> QED
    BY <2>1, ThreeRounds DEF Delay
<1>2. ASSUME NEW id \in Nat, StartLoop(o, id)
      PROVE  loop'[o].id = id /\ loop'[o].due = now + Interval /\ loop'[o] # NoLoop
  <2>1. [id |-> id, due |-> now + Interval] \in Loop
    BY <1>0, <1>2, ThreeRounds DEF Loop
  <2> QED
    BY <1>2, <2>1, NoJobAssumption DEF StartLoop, TypeOK, LoopType
<1>3. CASE Create(o)
  <2> DEFINE r == [id |-> lastId + 1, by |-> o, status |-> "processing", response |-> {},
                   lockedUntil |-> j.at + Lease, expiresAt |-> j.at + TTL]
  <2>1. /\ Store(LockKey, r) /\ StartLoop(o, lastId + 1) /\ UNCHANGED <<victims, now>>
        /\ job' = [job EXCEPT ![o] = [j EXCEPT !.id = lastId + 1, !.from = "processing"]]
    BY <1>3 DEF Create, CreateProcessing, Goto, GotoWith, Return, TypeOK, WorkType
  <2>2. r \in Record
    BY <1>0 DEF Record, Statuses, Operations
  <2>3. row'[LockKey] = r /\ row'[LockKey] # NoRow
    BY <2>1, <2>2, RecordStored
  <2>4. job'[o].id = lastId + 1
    BY <1>0, <2>1 DEF Job, TypeOK, WorkType
  <2>5. <<LockKey, lastId + 1>> \notin victims
    BY <1>0 DEF RenewInv, IdsGiven
  <2> QED
    BY <1>0, <1>1, <1>2, <2>1, <2>3, <2>4, <2>5, ThreeRounds
       DEF Renewed, Extendable, HasRow, Patient
<1>4. CASE Reclaim(o)
  <2> DEFINE r == [row[LockKey] EXCEPT !.status = "processing",
                                       !.lockedUntil = j.at + Lease, !.expiresAt = j.at + TTL]
  <2>1. /\ TryReclaim(LockKey, j.id, j.from, j.at) /\ StartLoop(o, j.id) /\ UNCHANGED job
        /\ row[LockKey].by = o /\ <<LockKey, j.id>> \notin victims
    BY <1>4 DEF Reclaim, Goto, Return, TypeOK, WorkType
  <2>2. Store(LockKey, r) /\ UNCHANGED <<victims, now>> /\ HasRow(LockKey, j.id)
    BY <2>1 DEF TryReclaim, Reclaimable
  <2>3. row[LockKey] \in Record
    BY <2>2, RowType, LockKeyAssumption DEF HasRow, TypeOK
  <2>4. r \in Record
    BY <1>0, <2>3, Times DEF Record, Statuses
  <2>5. /\ r.id = row[LockKey].id /\ r.by = row[LockKey].by /\ r.status = "processing"
        /\ r.lockedUntil = j.at + Lease /\ r.expiresAt = j.at + TTL
    BY <2>3 DEF Record
  <2>6. row'[LockKey] = r /\ row'[LockKey] # NoRow /\ r.id = j.id /\ r.by = o
    BY <2>1, <2>2, <2>4, <2>5, RecordStored DEF HasRow
  <2> HIDE DEF r
  <2> QED
    BY <1>0, <1>1, <1>2, <2>1, <2>2, <2>5, <2>6, ThreeRounds
       DEF Renewed, Extendable, HasRow, Patient
<1> QED
  BY <1>3, <1>4

\* A round renews the lock, or puts the next one off; it does not end the loop.
LEMMA RoundRenewed ==
    ASSUME Patient, TypeOK, NEW o \in Operations, Renewed(o), Renew(o)
    PROVE  Renewed(o)'
<1> DEFINE l == loop[o]  r == row[LockKey]
<1>0. /\ r \in Record /\ l \in Loop /\ now \in Nat /\ Lease \in Nat /\ TTL \in Nat
      /\ l.id \in Nat /\ l.id = job[o].id /\ Extendable(LockKey, l.id, o) /\ l.due = now
  BY RenewedIsLocked, DurationAssumption DEF Renewed, Renew, Loop, TypeOK, TableType
<1>1. StartLoop(o, l.id) /\ UNCHANGED <<job, victims, now>>
  BY <1>0 DEF Renew, ExtendProcessingLock, tableVars
<1>2. loop'[o].id = l.id /\ loop'[o].due = now + Interval /\ loop'[o] # NoLoop
  <2>1. [id |-> l.id, due |-> now + Interval] \in Loop
    BY <1>0, ThreeRounds DEF Loop
  <2> QED
    BY <1>1, <2>1, NoJobAssumption DEF StartLoop, TypeOK, LoopType
<1>3. CASE NoFault /\ ExtendProcessingLock(LockKey, l.id, o)
  <2> DEFINE s == [r EXCEPT !.lockedUntil = now + Lease, !.expiresAt = now + TTL]
  <2>1. s \in Record
    BY <1>0, Times DEF Record
  <2>2. /\ s.id = r.id /\ s.by = r.by /\ s.status = r.status
        /\ s.lockedUntil = now + Lease /\ s.expiresAt = now + TTL
    BY <1>0 DEF Record
  <2>4. row'[LockKey] = s /\ row'[LockKey] # NoRow
    BY <1>3, <2>1, RecordStored DEF ExtendProcessingLock
  <2>3. Delay' \in Nat
    BY <1>3, ThreeRounds DEF NoFault, Delay
  <2> HIDE DEF s
  <2> QED
    BY <1>0, <1>1, <1>2, <2>2, <2>3, <2>4, ThreeRounds
       DEF Renewed, Extendable, HasRow, Patient
<1>4. CASE Fault /\ UNCHANGED tableVars
  <2>1. faults = 0 /\ faults' = 1
    BY <1>4, BudgetAssumption DEF Fault, Patient, TypeOK
  <2>2. Delay = 0 /\ Delay' = Interval
    BY <2>1 DEF Delay
  <2> QED
    BY <1>0, <1>1, <1>2, <1>4, <2>2, ThreeRounds
       DEF Renewed, Extendable, HasRow, tableVars, Record
<1> QED
  BY <1>0, <1>3, <1>4 DEF Renew

\* The operation that takes a step, if it runs afterwards.
LEMMA OwnRenewed ==
    ASSUME Patient, TypeOK, LockInv, RenewInv, NEW o \in Operations, Step(o),
           pc'[o] = "running", ~reused'
    PROVE  Renewed(o)'
<1>1. Create(o) \/ Reclaim(o) \/ (Renew(o) /\ pc[o] = "running" /\ ~reused)
  <2>1. ~Acquire(o) /\ ~Read(o) /\ ~Release(o) /\ ~Crash(o)
    BY DEF Acquire, Read, Release, Crash, Goto, GotoWith, Return, TypeOK, WorkType
  <2>2. ~StopLoop(o)
    BY DEF StopLoop
  <2>3. Renew(o) => pc[o] = "running" /\ ~reused
    BY DEF Renew
  <2> QED
    BY <2>1, <2>2, <2>3 DEF Step
<1> QED
  BY <1>1, BeginRenewed, RoundRenewed DEF RenewInv

\* Neither the clock nor the clean-up does anything to a lock that is renewed.
LEMMA EnvironmentRenewed ==
    ASSUME Patient, TypeOK, RenewInv, Environment, NEW o \in Operations, pc[o] = "running", ~reused
    PROVE  Renewed(o)'
<1>0. /\ Renewed(o) /\ row[LockKey] \in Record /\ row[LockKey] # NoRow
      /\ row[LockKey].expiresAt > now /\ loop[o] \in Loop
      /\ UNCHANGED <<job, loop, faults>>
  BY RenewedIsLocked DEF RenewInv, Renewed, Extendable, HasRow, Environment, budget
<1>1. CASE Tick /\ Prompt
  <2>1. now' <= loop[o].due
    BY <1>0, <1>1 DEF Tick, Prompt, Renewed, TypeOK, TableType, Loop
  <2> QED
    BY <1>0, <1>1, <2>1 DEF Tick, Renewed, Extendable, HasRow, Delay
<1>2. CASE SelectExpired
  <2>1. <<LockKey, job[o].id>> \notin victims'
    BY <1>0, <1>2 DEF SelectExpired, TypeOK, TableType, Record
  <2> QED
    BY <1>0, <1>2, <2>1 DEF SelectExpired, Renewed, Extendable, HasRow, Delay
<1>3. CASE DeleteVictims
  <2>1. row'[LockKey] = row[LockKey] /\ victims' = {} /\ UNCHANGED now
    BY <1>0, <1>3, LockKeyAssumption DEF DeleteVictims, Renewed, Extendable, HasRow
  <2> QED
    BY <1>0, <2>1 DEF Renewed, Extendable, HasRow, Delay
<1> QED
  BY <1>1, <1>2, <1>3 DEF Environment

\* The ids of the records, and of the selected ones, have been given.
LEMMA StepIds ==
    ASSUME TypeOK, IdsGiven, NEW o \in Operations, Step(o)
    PROVE  IdsGiven'
<1>1. lastId \in Nat /\ \A v \in victims : v[2] \in Nat
  BY DEF TypeOK, TableType
<1>2. ASSUME NEW r \in Record, Store(LockKey, r) PROVE row'[LockKey] = r
  BY <1>2, LockKeyAssumption DEF Store, TypeOK, TableType
<1> QED
  BY <1>1, <1>2, StepStores DEF IdsGiven, StoresLock

\* Time and the clean-up give out no ids.
LEMMA EnvironmentIds ==
    ASSUME TypeOK, IdsGiven, Environment
    PROVE  IdsGiven'
<1>1. CASE Tick \/ SelectExpired
  <2>1. UNCHANGED <<row, lastId>>
    BY <1>1 DEF Tick, SelectExpired
  <2>2. CASE Tick
    BY <2>1, <2>2 DEF Tick, IdsGiven
  <2>3. CASE SelectExpired
    <3> SUFFICES ASSUME NEW v \in victims', v[1] = LockKey PROVE v[2] <= lastId
      BY <2>1 DEF IdsGiven
    <3>1. row[LockKey] # NoRow /\ v[2] = row[LockKey].id
      BY <2>3 DEF SelectExpired
    <3> QED
      BY <3>1 DEF IdsGiven
  <2> QED
    BY <1>1, <2>2, <2>3
<1>2. CASE DeleteVictims
  BY <1>2, LockKeyAssumption DEF DeleteVictims, IdsGiven
<1> QED
  BY <1>1, <1>2 DEF Environment

\* Acquire takes less than an interval, so its clock reading is at most one tick old.
LEMMA StepReadings ==
    ASSUME TypeOK, RenewInv, NEW o \in Operations, Step(o), NEW p \in Operations,
           pc'[p] \in Acquiring
    PROVE  now <= job'[p].at + 1
<1>0. now \in Nat
  BY DEF TypeOK, TableType
<1>1. CASE p # o
  BY <1>1, Bystander DEF RenewInv
<1>2. CASE p = o /\ Acquire(o)
  BY <1>0, <1>2 DEF Acquire, TypeOK, WorkType
<1>3. CASE p = o /\ ~Acquire(o)
  <2>1. CASE UNCHANGED <<pc, job>>
    BY <1>3, <2>1 DEF RenewInv
  <2>2. CASE Create(o) \/ Read(o) \/ Reclaim(o)
    <3>1. pc[o] \in Acquiring /\ job[o] \in Job
      BY <2>2, BusyOperation DEF Create, Read, Reclaim, Acquiring, TypeOK
    <3>2. ASSUME NEW place, NEW id, NEW from, GotoWith(o, place, id, from)
          PROVE  job'[o].at = job[o].at
      <4>1. job'[o] = [job[o] EXCEPT !.id = id, !.from = from]
        BY <3>2 DEF GotoWith, TypeOK, WorkType
      <4> QED
        BY <3>1, <4>1 DEF Job
    <3>3. job'[o].at = job[o].at
      <4>1. ~Return(o)
        BY <1>3 DEF Return, Acquiring, TypeOK, WorkType
      <4> QED
        BY <2>2, <3>2, <4>1 DEF Create, Read, Reclaim, Goto
    <3> QED
      BY <1>3, <3>1, <3>3 DEF RenewInv
  <2>3. ~Release(o) /\ ~Crash(o)
    BY <1>3 DEF Release, Crash, Return, Acquiring, TypeOK, WorkType
  <2> QED
    BY <1>3, <2>1, <2>2, <2>3 DEF Step, Renew, StopLoop
<1> QED
  BY <1>1, <1>2, <1>3

\* No loop runs at first.
LEMMA RenewInit == Init => RenewInv
  BY LockKeyAssumption DEF Init, TableInit, RenewInv, IdsGiven, Acquiring

\* With patience the invariant of the renewal is inductive.
LEMMA RenewStep ==
    ASSUME Patient
    PROVE  TypeOK /\ LockInv /\ RenewInv /\ [Next]_vars => RenewInv'
<1> SUFFICES ASSUME TypeOK, LockInv, RenewInv, [Next]_vars PROVE RenewInv'
  OBVIOUS
<1>1. ASSUME NEW o \in Operations, Step(o) PROVE RenewInv'
  <2>1. reused => reused'
    BY <1>1 DEF Step, Acquire, Create, Read, Reclaim, Release, Renew, StopLoop, Crash
  <2>2. ASSUME ~reused', NEW p \in Operations, pc'[p] = "running" PROVE Renewed(p)'
    <3>1. CASE p = o
      BY <1>1, <2>2, <3>1, OwnRenewed
    <3>2. CASE p # o
      BY <1>1, <2>1, <2>2, <3>2, Bystander, OtherRenewed DEF RenewInv
    <3> QED
      BY <3>1, <3>2
  <2>3. \A p \in Operations : pc'[p] \in Acquiring => now' <= job'[p].at + 1
    BY <1>1, StepReadings, StepTable
  <2>4. IdsGiven'
    BY <1>1, StepIds DEF RenewInv
  <2> QED
    BY <2>2, <2>3, <2>4 DEF RenewInv
<1>2. CASE Environment
  <2>1. UNCHANGED <<pc, job, reused>>
    BY <1>2 DEF Environment
  <2>2. ASSUME NEW p \in Operations, pc[p] \in Acquiring PROVE now' <= job[p].at + 1
    <3>1. CASE Tick /\ Prompt
      BY <2>2, <3>1 DEF Tick, Prompt, TypeOK, TableType
    <3>2. CASE UNCHANGED now
      BY <2>2, <3>2 DEF RenewInv
    <3> QED
      BY <1>2, <3>1, <3>2 DEF Environment, SelectExpired, DeleteVictims
  <2>3. IdsGiven'
    BY <1>2, EnvironmentIds DEF RenewInv
  <2> QED
    BY <1>2, <2>1, <2>2, <2>3, EnvironmentRenewed DEF RenewInv
<1>3. CASE UNCHANGED vars
  <2>1. \A o \in Operations : Renewed(o)' <=> Renewed(o)
    BY <1>3 DEF vars, tableVars, budget, Renewed, Extendable, HasRow, Delay
  <2> QED
    BY <1>3, <2>1 DEF vars, tableVars, RenewInv, IdsGiven
<1> QED
  BY <1>1, <1>2, <1>3 DEF Next

\* The loop renews the lock in time, although one statement fails, until an operation gets
\* the record another one created or the clean-up is deleting.
THEOREM RenewedInTime ==
    ASSUME Patient
    PROVE  Spec => []LockedUntilReused
<1>1. TypeOK /\ RenewInv => LockedUntilReused
  BY RenewedIsLocked DEF RenewInv, LockedUntilReused, LockedWhileHeld
<1>2. TypeOK /\ LockInv /\ RenewInv /\ [Next]_vars => RenewInv'
  BY RenewStep
<1> QED
  BY <1>1, <1>2, TypeInit, TypeStep, LockInit, LockStep, RenewInit, PTL DEF Spec
=============================================================================
