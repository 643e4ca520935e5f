------------------------ MODULE SystemOperationLock ------------------------
(***************************************************************************)
(* SystemOperationLockService: updates, rollbacks and restarts hold one    *)
(* global lock, a record of the idempotency table with a lease that a      *)
(* renewal loop extends.  A fingerprint is an operation id; the idempotency *)
(* coordinator in front admits one request of an id at a time.             *)
(***************************************************************************)
EXTENDS IdempotencyRecords

CONSTANTS
    LockKey,        \* the scope and key of the global lock
    NoJob,          \* what an operation that does not run works on
    NoLoop,         \* its renewLoop has ended, or never started
    MaxFaults,      \* bound: statements that return an error
    MaxCrashes      \* bound: operations whose process dies

Operations == Fingerprints

\* at: Acquire's time.Now();  id, from: the record it has read, or holds.
Job == [at : Nat, id : Nat, from : Statuses]

Loop == [id : Nat, due : Nat]

ASSUME LockKeyAssumption == LockKey \in Keys
ASSUME BudgetAssumption == MaxFaults \in Nat /\ MaxCrashes \in Nat
ASSUME NoJobAssumption == NoJob \notin Job /\ NoLoop \notin Loop

VARIABLES
    pc, job,
    loop,       \* the renewLoop of each operation: its record and when its ticker fires
    reused,     \* history: an operation got a record that another one created, or that
                \* the clean-up was deleting
    overrun,    \* history: an operation ran although its lock had ended
    faults, crashes

budget == <<faults, crashes>>
vars   == <<tableVars, pc, job, loop, reused, overrun, budget>>

Acquiring == {"create", "read", "reclaim"}
Places    == {"idle", "running"} \cup Acquiring

WorkType ==
    /\ pc \in [Operations -> Places]
    /\ job \in [Operations -> Job \cup {NoJob}]
    /\ \A o \in Operations : pc[o] = "idle" <=> job[o] = NoJob

LoopType == loop \in [Operations -> Loop \cup {NoLoop}]

\* Every variable has its type, and an operation has a job exactly while it runs.
TypeOK ==
    /\ TableType /\ WorkType /\ LoopType
    /\ reused \in BOOLEAN /\ overrun \in BOOLEAN
    /\ faults \in 0 .. MaxFaults /\ crashes \in 0 .. MaxCrashes

Init ==
    /\ TableInit
    /\ pc = [o \in Operations |-> "idle"]
    /\ job = [o \in Operations |-> NoJob]
    /\ loop = [o \in Operations |-> NoLoop]
    /\ reused = FALSE /\ overrun = FALSE
    /\ faults = 0 /\ crashes = 0

-----------------------------------------------------------------------------
Goto(o, place) == pc' = [pc EXCEPT ![o] = place] /\ UNCHANGED job

GotoWith(o, place, id, from) ==
    /\ pc' = [pc EXCEPT ![o] = place]
    /\ job' = [job EXCEPT ![o].id = id, ![o].from = from]

\* (bug) The operation is over but keeps its job.
ReturnHoldingJob(o) == pc' = [pc EXCEPT ![o] = "idle"] /\ UNCHANGED job

Return(o) ==
    /\ pc' = [pc EXCEPT ![o] = "idle"]
    /\ job' = [job EXCEPT ![o] = NoJob]

NoFault == UNCHANGED faults
Fault   == faults < MaxFaults /\ faults' = faults + 1

\* (bug) The lock is renewed when it ends.
LateInterval == Lease

Interval == Lease \div 3

\* The loop's next round is an interval ahead.
StartLoop(o, id) == loop' = [loop EXCEPT ![o] = [id |-> id, due |-> now + Interval]]
EndLoop(o)       == loop' = [loop EXCEPT ![o] = NoLoop]

\* The lock is there, processing, and its lease has not ended.
Locked(o) == LET r == row[LockKey] IN
    HasRow(LockKey, job[o].id) /\ r.status = "processing" /\ r.lockedUntil > now

Acquire(o) ==
    /\ pc[o] = "idle" /\ loop[o] = NoLoop
    /\ pc' = [pc EXCEPT ![o] = "create"]
    /\ job' = [job EXCEPT ![o] = [at |-> now, id |-> 0, from |-> "processing"]]
    /\ UNCHANGED <<tableVars, loop, reused, budget>>

Create(o) ==
    /\ pc[o] = "create"
    /\ \/ /\ NoFault /\ CreateProcessing(LockKey, o, job[o].at)
          /\ GotoWith(o, "running", lastId + 1, "processing") /\ StartLoop(o, lastId + 1)
       \/ NoFault /\ row[LockKey] # NoRow /\ Goto(o, "read") /\ UNCHANGED <<tableVars, loop>>
       \/ Fault /\ Return(o) /\ UNCHANGED <<tableVars, loop>>
       \/ Fault /\ CreateProcessing(LockKey, o, job[o].at) /\ Return(o) /\ UNCHANGED loop
    /\ UNCHANGED <<reused, crashes>>

Busy(o) == LET r == row[LockKey] IN r.status = "processing" /\ r.lockedUntil > job[o].at

Read(o) == LET r == row[LockKey] IN
    /\ pc[o] = "read"
    /\ \/ NoFault /\ r = NoRow /\ Return(o)
       \/ NoFault /\ r # NoRow /\ Busy(o) /\ Return(o)
       \/ NoFault /\ r # NoRow /\ ~Busy(o) /\ GotoWith(o, "reclaim", r.id, r.status)
       \/ Fault /\ Return(o)
    /\ UNCHANGED <<tableVars, loop, reused, crashes>>

\* The record keeps the operation id of its creator.
Reclaim(o) == LET j == job[o] IN
    /\ pc[o] = "reclaim"
    /\ \/ /\ NoFault /\ TryReclaim(LockKey, j.id, j.from, j.at)
          /\ Goto(o, "running") /\ StartLoop(o, j.id)
          /\ reused' = (reused \/ row[LockKey].by # o \/ <<LockKey, j.id>> \in victims)
       \/ /\ NoFault /\ ~Reclaimable(LockKey, j.id, j.from, j.at)
          /\ Return(o) /\ UNCHANGED <<tableVars, loop, reused>>
       \/ Fault /\ Return(o) /\ UNCHANGED <<tableVars, loop, reused>>
       \/ /\ Fault /\ TryReclaim(LockKey, j.id, j.from, j.at)
          /\ Return(o) /\ UNCHANGED <<loop, reused>>
    /\ UNCHANGED crashes

\* The operation is over: Release stops the loop and marks the record, without
\* asking whose it is.
Release(o) == LET j == job[o] IN
    /\ pc[o] = "running"
    /\ \/ NoFault /\ MarkSucceeded(LockKey, j.id, o, now + TTL)
       \/ NoFault /\ MarkFailedRetryable(LockKey, j.id, now, now + TTL)
       \/ Fault /\ UNCHANGED tableVars
    /\ Return(o)
    /\ UNCHANGED <<loop, reused, crashes>>

\* One round of the loop, perhaps in flight when Release stops it.
Renew(o) == LET l == loop[o] IN
    /\ l # NoLoop /\ l.due <= now
    /\ \/ NoFault /\ ExtendProcessingLock(LockKey, l.id, o) /\ StartLoop(o, l.id)
       \/ NoFault /\ ~Extendable(LockKey, l.id, o) /\ EndLoop(o) /\ UNCHANGED tableVars
       \/ Fault /\ StartLoop(o, l.id) /\ UNCHANGED tableVars
    /\ UNCHANGED <<pc, job, reused, crashes>>

StopLoop(o) ==
    /\ loop[o] # NoLoop /\ pc[o] # "running"
    /\ EndLoop(o)
    /\ UNCHANGED <<tableVars, pc, job, reused, budget>>

Crash(o) ==
    /\ pc[o] # "idle" /\ crashes < MaxCrashes
    /\ crashes' = crashes + 1
    /\ Return(o) /\ EndLoop(o)
    /\ UNCHANGED <<tableVars, reused, faults>>

Step(o) ==
    \/ Acquire(o) \/ Create(o) \/ Read(o) \/ Reclaim(o) \/ Release(o)
    \/ Renew(o) \/ StopLoop(o) \/ Crash(o)

\* Nothing lasts as long as an interval: a round of a loop, the end of a stopped one,
\* the statements of Acquire.
Prompt == \A o \in Operations :
    /\ loop[o] # NoLoop => loop[o].due > now /\ pc[o] = "running"
    /\ pc[o] \in Acquiring => job[o].at = now

\* The clock and IdempotencyCleanupService.
Environment ==
    /\ (Tick /\ Prompt) \/ SelectExpired \/ DeleteVictims
    /\ UNCHANGED <<pc, job, loop, reused, budget>>

Next ==
    /\ Environment \/ \E o \in Operations : Step(o)
    /\ overrun' = (overrun \/ \E o \in Operations : pc'[o] = "running" /\ ~Locked(o)')

Spec == Init /\ [][Next]_vars

-----------------------------------------------------------------------------
\* System operations exclude each other until one of them runs beyond its lock, also
\* when processes die and leave the lock behind.
OneOperation ==
    ~overrun => \A o, p \in Operations : pc[o] = "running" /\ pc[p] = "running" => o = p

\* The loop renews the lock in time ("locked_until should be renewed while lock is
\* held", system_operation_lock_service_test.go).
LockedWhileHeld == \A o \in Operations : pc[o] = "running" => Locked(o)

\* It does so, although one round fails, until an operation gets the record another
\* one created or the clean-up is deleting.
LockedUntilReused == reused \/ LockedWhileHeld
=============================================================================
