-------------------------- MODULE ConcurrencySlots --------------------------
(***************************************************************************)
(* The limits on what runs for a user or on an account at the same time:   *)
(* slots, kept in Redis sorted sets, and the counters of the waiting       *)
(* (service/concurrency_service.go, repository/concurrency_cache.go and    *)
(* handler/gateway_helper.go).                                             *)
(*                                                                         *)
(* A caller is one acquisition: a gateway request makes one for its user   *)
(* and then one for each account it tries.  Every action is one Redis      *)
(* script or command.  A pool without a limit has no slots.                *)
(***************************************************************************)
EXTENDS Integers, FiniteSets

CONSTANTS
    Pools,          \* users and accounts with a limit
    Callers,        \* concurrent acquisitions
    Processes,      \* servers, one for each time one is started
    Tickets,        \* what generateRequestID counts
    NoJob,          \* what an idle caller works on
    NoSlot,         \* the caller has no slot
    Limit,          \* maxConcurrency of each pool
    MaxWaiting,     \* how many may wait for each pool
    Timeout,        \* how long a caller waits for each pool
    TTL,            \* slotTTLSeconds
    WaitTTL,        \* waitQueueTTLSeconds
    MaxTime,        \* bound of the clock
    MaxFaults       \* bound: calls of Redis that return an error

\* requestIDPrefix and a counter.
Ids == Processes \X Tickets

\* A member of a sorted set and its score.
Slot == [id : Ids, at : Nat]

\* until: the deadline of the wait;  queued: the wait is counted.
Job == [pool : Pools, process : Processes, slot : Slot \cup {NoSlot}, until : Nat, queued : BOOLEAN]

ASSUME LimitAssumption == Limit \in [Pools -> Nat \ {0}] /\ MaxWaiting \in [Pools -> Nat \ {0}]
ASSUME DurationAssumption ==
    Timeout \in [Pools -> Nat] /\ TTL \in Nat \ {0} /\ WaitTTL \in Nat \ {0} /\ MaxTime \in Nat
ASSUME BudgetAssumption == MaxFaults \in Nat
ASSUME FiniteAssumption == IsFiniteSet(Callers)
ASSUME NoneAssumption == NoSlot \notin Slot /\ NoJob \notin Job

VARIABLES
    slots,      \* the sorted set of each pool
    keyEnds,    \* when Redis deletes it, 0 if it is empty
    waiting,    \* the wait counter of each pool
    waitEnds,   \* when Redis deletes it, 0 if it is 0
    process,    \* the state of each server
    todo,       \* the pools its start-up clean-up has yet to visit
    evicted,    \* history: the callers whose slot a start-up clean-up removed
    adrift,     \* history: the pools whose counter one deleted while somebody waited
    now,
    pc, job,    \* where each caller is, and its acquisition
    faults

slotVars  == <<slots, keyEnds>>
queueVars == <<waiting, waitEnds>>
startVars == <<process, todo>>
workVars  == <<pc, job>>
vars == <<slotVars, queueVars, startVars, evicted, adrift, now, workVars, faults>>

Places == {"idle", "try", "count", "wait", "uncount", "running"}

RedisType ==
    /\ slots \in [Pools -> SUBSET Slot] /\ keyEnds \in [Pools -> Nat]
    /\ waiting \in [Pools -> Nat] /\ waitEnds \in [Pools -> Nat]

StartType ==
    /\ process \in [Processes -> {"new", "slots", "counters", "up", "dead"}]
    /\ todo \in [Processes -> SUBSET Pools]

\* Only who runs, or has just ended its wait, has a slot.
WorkType ==
    /\ pc \in [Callers -> Places]
    /\ job \in [Callers -> Job \cup {NoJob}]
    /\ \A c \in Callers :
         /\ pc[c] = "idle" <=> job[c] = NoJob
         /\ pc[c] = "running" => job[c].slot # NoSlot
         /\ pc[c] \in {"try", "count", "wait"} => job[c].slot = NoSlot

\* Every variable has its type, and who runs has a slot.
TypeOK ==
    /\ RedisType /\ StartType /\ WorkType
    /\ evicted \subseteq Callers /\ adrift \subseteq Pools
    /\ now \in 0 .. MaxTime /\ faults \in 0 .. MaxFaults

Init ==
    /\ slots = [p \in Pools |-> {}] /\ keyEnds = [p \in Pools |-> 0]
    /\ waiting = [p \in Pools |-> 0] /\ waitEnds = [p \in Pools |-> 0]
    /\ \E up \in SUBSET Processes :
         process = [q \in Processes |-> IF q \in up THEN "up" ELSE "new"]
    /\ todo = [q \in Processes |-> {}]
    /\ evicted = {} /\ adrift = {}
    /\ now = 0
    /\ pc = [c \in Callers |-> "idle"]
    /\ job = [c \in Callers |-> NoJob]
    /\ faults = 0

-----------------------------------------------------------------------------
(* The sorted sets. *)

Store(p, members, ends) ==
    /\ slots' = [slots EXCEPT ![p] = members]
    /\ keyEnds' = [keyEnds EXCEPT ![p] = IF members = {} THEN 0 ELSE ends]

\* What ZREMRANGEBYSCORE leaves.
Live(p) == {s \in slots[p] : s.at + TTL > now}

\* (bug) One too many.
HasRoomAndOne(p) == Cardinality(Live(p)) <= Limit[p]

HasRoom(p) == Cardinality(Live(p)) < Limit[p]

AddSlot(p, s) == Store(p, Live(p) \cup {s}, now + TTL)

\* ZREM, which leaves the key's expiry alone.
RemoveSlot(p, s) == Store(p, slots[p] \ {s}, keyEnds[p])

\* generateRequestID: an id that is nobody's.
FreshSlot(q, s) ==
    /\ s.id[1] = q /\ s.at = now
    /\ \A p \in Pools : \A t \in slots[p] : t.id # s.id
    /\ \A c \in Callers : pc[c] # "idle" /\ job[c].slot # NoSlot => job[c].slot.id # s.id

NewSlots(q) == {s \in [id : {q} \X Tickets, at : {now}] : FreshSlot(q, s)}

(* The counters. *)

\* (bug) One too many.
HasSeatAndOne(p) == waiting[p] <= MaxWaiting[p]

HasSeat(p) == waiting[p] < MaxWaiting[p]

Increment(p) ==
    /\ waiting' = [waiting EXCEPT ![p] = @ + 1]
    /\ waitEnds' = [waitEnds EXCEPT ![p] = now + WaitTTL]

SetCounter(p, n) ==
    /\ waiting' = [waiting EXCEPT ![p] = n]
    /\ waitEnds' = [waitEnds EXCEPT ![p] = IF n = 0 THEN 0 ELSE @]

\* (bug) The counter is not decremented.
KeepCounter(p) == UNCHANGED queueVars

Decrement(p) == IF waiting[p] > 0 THEN SetCounter(p, waiting[p] - 1) ELSE UNCHANGED queueVars

-----------------------------------------------------------------------------
(* The way of a caller. *)

Goto(c, place) == pc' = [pc EXCEPT ![c] = place] /\ UNCHANGED <<job, evicted>>

GotoWith(c, place, slot) ==
    /\ pc' = [pc EXCEPT ![c] = place]
    /\ job' = [job EXCEPT ![c].slot = slot]
    /\ UNCHANGED evicted

\* (bug) The caller is idle again but keeps its job.
ReturnHoldingJob(c) == pc' = [pc EXCEPT ![c] = "idle"] /\ UNCHANGED <<job, evicted>>

Return(c) ==
    /\ pc' = [pc EXCEPT ![c] = "idle"]
    /\ job' = [job EXCEPT ![c] = NoJob]
    /\ evicted' = evicted \ {c}

NoFault == UNCHANGED faults
Fault   == faults < MaxFaults /\ faults' = faults + 1

Request(c, p, q) ==
    /\ pc[c] = "idle" /\ process[q] = "up"
    /\ pc' = [pc EXCEPT ![c] = "try"]
    /\ job' = [job EXCEPT ![c] = [pool |-> p, process |-> q, slot |-> NoSlot, until |-> 0, queued |-> FALSE]]
    /\ UNCHANGED <<slotVars, queueVars, startVars, evicted, adrift, now, faults>>

\* The script of an acquisition: the caller goes on with the slot, or without.  An
\* error may hide a slot that was added, as when the client disconnects in between.
Acquire(c, granted, refused, failed) == LET p == job[c].pool IN
    \/ /\ NoFault /\ HasRoom(p)
       /\ \E s \in NewSlots(job[c].process) : AddSlot(p, s) /\ GotoWith(c, granted, s)
    \/ NoFault /\ ~HasRoom(p) /\ Store(p, Live(p), keyEnds[p]) /\ Goto(c, refused)
    \/ /\ Fault
       /\ \/ UNCHANGED slotVars
          \/ HasRoom(p) /\ \E s \in NewSlots(job[c].process) : AddSlot(p, s)
       /\ IF failed = "idle" THEN Return(c) ELSE Goto(c, failed)

\* TryAcquireUserSlot, TryAcquireAccountSlot.
Try(c) ==
    /\ pc[c] = "try"
    /\ Acquire(c, "running", "count", "idle")
    /\ UNCHANGED <<queueVars, startVars, adrift, now>>

BeginWait(c, queued) ==
    /\ pc' = [pc EXCEPT ![c] = "wait"]
    /\ job' = [job EXCEPT ![c].until = now + Timeout[job[c].pool], ![c].queued = queued]
    /\ UNCHANGED evicted

\* IncrementWaitCount, which lets the caller wait when it fails.  Some handlers wait
\* for an account without being counted.
Count(c) == LET p == job[c].pool IN
    /\ pc[c] = "count"
    /\ \/ NoFault /\ HasSeat(p) /\ Increment(p) /\ BeginWait(c, TRUE)
       \/ NoFault /\ ~HasSeat(p) /\ Return(c) /\ UNCHANGED queueVars
       \/ NoFault /\ BeginWait(c, FALSE) /\ UNCHANGED queueVars
       \/ Fault /\ BeginWait(c, TRUE) /\ UNCHANGED queueVars
       \/ Fault /\ HasSeat(p) /\ Increment(p) /\ BeginWait(c, TRUE)
    /\ UNCHANGED <<slotVars, startVars, adrift, now>>

\* One round of waitForSlotWithPingTimeout.
Poll(c) ==
    /\ pc[c] = "wait"
    /\ IF job[c].queued THEN Acquire(c, "uncount", "wait", "uncount")
                        ELSE Acquire(c, "running", "wait", "idle")
    /\ UNCHANGED <<queueVars, startVars, adrift, now>>

\* The wait times out, or the client disconnects.
GiveUp(c) ==
    /\ pc[c] = "wait"
    /\ IF job[c].queued THEN Goto(c, "uncount") ELSE Return(c)
    /\ UNCHANGED <<slotVars, queueVars, startVars, adrift, now, faults>>

\* DecrementWaitCount, whose error is only logged.
Uncount(c) == LET p == job[c].pool IN
    /\ pc[c] = "uncount"
    /\ \/ NoFault /\ Decrement(p)
       \/ Fault /\ Decrement(p)
       \/ Fault /\ UNCHANGED queueVars
    /\ IF job[c].slot = NoSlot THEN Return(c) ELSE Goto(c, "running")
    /\ UNCHANGED <<slotVars, startVars, adrift, now>>

\* (bug) Nobody releases the slot.
KeepSlot(p, s) == UNCHANGED slotVars

ReleaseSlot(p, s) == RemoveSlot(p, s)

\* wrapReleaseOnDone: when the handler is over or its client has disconnected, once.
Release(c) == LET p == job[c].pool  s == job[c].slot IN
    /\ pc[c] = "running"
    /\ \/ NoFault /\ ReleaseSlot(p, s)
       \/ Fault /\ ReleaseSlot(p, s)
       \/ Fault /\ UNCHANGED slotVars
    /\ Return(c)
    /\ UNCHANGED <<queueVars, startVars, adrift, now>>

Step(c) == Try(c) \/ Count(c) \/ Poll(c) \/ GiveUp(c) \/ Uncount(c) \/ Release(c)

-----------------------------------------------------------------------------
(* Clean-up, servers, the clock. *)

\* What counts a pool, and the clean-up worker, drop its expired slots; the worker
\* also gives the key another TTL.
Prune(p) ==
    /\ \E ends \in {keyEnds[p], now + TTL} : Store(p, Live(p), ends)
    /\ UNCHANGED <<queueVars, startVars, evicted, adrift, now, workVars, faults>>

StartProcess(q) ==
    /\ process[q] = "new"
    /\ process' = [process EXCEPT ![q] = "slots"]
    /\ todo' = [todo EXCEPT ![q] = Pools]
    /\ UNCHANGED <<slotVars, queueVars, evicted, adrift, now, workVars, faults>>

\* The clean-up goes to its next pool, or from the slots to the counters.
Visited(q, p, phase, next) ==
    /\ process[q] = phase /\ p \in todo[q]
    /\ IF todo[q] = {p}
         THEN /\ process' = [process EXCEPT ![q] = next]
              /\ todo' = [todo EXCEPT ![q] = IF next = "counters" THEN Pools ELSE {}]
         ELSE /\ todo' = [todo EXCEPT ![q] = @ \ {p}]
              /\ UNCHANGED process

Waiters(p) == {c \in Callers : pc[c] \in {"wait", "uncount"} /\ job[c].pool = p /\ job[c].queued}

\* startupCleanupScript: only the slots of the starting process stay, and it has none.
CleanupSlots(q, p) == LET own == {s \in slots[p] : s.id[1] = q} IN
    /\ Visited(q, p, "slots", "counters")
    /\ Store(p, own, now + TTL)
    /\ evicted' = evicted \cup
         {c \in Callers : pc[c] # "idle" /\ job[c].pool = p /\ job[c].slot \in slots[p] \ own}
    /\ UNCHANGED <<queueVars, adrift, now, workVars, faults>>

DeleteCounter(q, p) ==
    /\ Visited(q, p, "counters", "up")
    /\ SetCounter(p, 0)
    /\ adrift' = IF Waiters(p) # {} THEN adrift \cup {p} ELSE adrift
    /\ UNCHANGED <<slotVars, evicted, now, workVars, faults>>

\* An error ends the clean-up, not the start.
CleanupFails(q) ==
    /\ process[q] \in {"slots", "counters"}
    /\ Fault
    /\ process' = [process EXCEPT ![q] = "up"]
    /\ todo' = [todo EXCEPT ![q] = {}]
    /\ UNCHANGED <<slotVars, queueVars, evicted, adrift, now, workVars>>

\* A server ends with everything it runs.
Die(q) == LET its == {c \in Callers : pc[c] # "idle" /\ job[c].process = q} IN
    /\ process[q] \notin {"new", "dead"}
    /\ process' = [process EXCEPT ![q] = "dead"]
    /\ todo' = [todo EXCEPT ![q] = {}]
    /\ pc' = [c \in Callers |-> IF c \in its THEN "idle" ELSE pc[c]]
    /\ job' = [c \in Callers |-> IF c \in its THEN NoJob ELSE job[c]]
    /\ evicted' = evicted \ its
    /\ UNCHANGED <<slotVars, queueVars, adrift, now, faults>>

\* A wait ends at its deadline; what is left of it takes no time.
Prompt == \A c \in Callers :
    /\ pc[c] = "wait" => job[c].until > now
    /\ pc[c] # "uncount"

\* Redis deletes the keys that end.
Tick ==
    /\ now < MaxTime /\ Prompt
    /\ now' = now + 1
    /\ slots' = [p \in Pools |-> IF keyEnds[p] <= now' THEN {} ELSE slots[p]]
    /\ keyEnds' = [p \in Pools |-> IF keyEnds[p] <= now' THEN 0 ELSE keyEnds[p]]
    /\ waiting' = [p \in Pools |-> IF waitEnds[p] <= now' THEN 0 ELSE waiting[p]]
    /\ waitEnds' = [p \in Pools |-> IF waitEnds[p] <= now' THEN 0 ELSE waitEnds[p]]
    /\ UNCHANGED <<startVars, evicted, adrift, workVars, faults>>

Server(q) ==
    \/ StartProcess(q) \/ CleanupFails(q) \/ Die(q)
    \/ \E p \in Pools : CleanupSlots(q, p) \/ DeleteCounter(q, p)

Next ==
    \/ \E c \in Callers, p \in Pools, q \in Processes : Request(c, p, q)
    \/ \E c \in Callers : Step(c)
    \/ \E q \in Processes : Server(q)
    \/ \E p \in Pools : Prune(p)
    \/ Tick

Spec == Init /\ [][Next]_vars

-----------------------------------------------------------------------------
\* The callers the limit of the pool holds for: they have run for less than the TTL,
\* and no server that started meanwhile has thrown them out.
Entitled(p) ==
    {c \in Callers : /\ pc[c] \in {"uncount", "running"} /\ job[c].pool = p /\ job[c].slot # NoSlot
                     /\ now < job[c].slot.at + TTL /\ c \notin evicted}

\* At most maxConcurrency of them run at a time, over all servers, whatever expires,
\* fails or dies.
LimitKept == \A p \in Pools : Cardinality(Entitled(p)) <= Limit[p]

\* Without failures no slot stays behind, on whatever way a caller leaves.
NoLeak ==
    faults = 0 /\ (\A q \in Processes : process[q] # "dead") =>
        \A p \in Pools : \A s \in slots[p] :
            \E c \in Callers : pc[c] \in {"uncount", "running"} /\ job[c].pool = p /\ job[c].slot = s

\* Pools whose counter outlives a wait.
Patient == {p \in Pools : Timeout[p] < WaitTTL}

\* Without failures the counter says how many wait.
QueueExact ==
    faults = 0 /\ (\A q \in Processes : process[q] # "dead") =>
        \A p \in Patient \ adrift : waiting[p] = Cardinality(Waiters(p))

\* Every failure lets at most one caller more into the queue.
QueueBounded ==
    \A p \in Patient \ adrift : Cardinality(Waiters(p)) <= MaxWaiting[p] + faults
=============================================================================
