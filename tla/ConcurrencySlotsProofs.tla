----------------------- MODULE ConcurrencySlotsProofs -----------------------
(***************************************************************************)
(* Proofs about ConcurrencySlots for any numbers of pools, callers and     *)
(* servers, any limits, waits and expiry times, and any bounds on time and *)
(* faults.                                                                 *)
(***************************************************************************)
EXTENDS ConcurrencySlots, FiniteSetTheorems, TLAPS

USE LimitAssumption, DurationAssumption, BudgetAssumption

-----------------------------------------------------------------------------
(* Type correctness. *)

\* What a caller that is not idle has in its hands.
LEMMA BusyCaller ==
    ASSUME WorkType, NEW c \in Callers, pc[c] # "idle"
    PROVE  /\ job[c] \in Job /\ job[c] # NoJob
           /\ job[c].pool \in Pools /\ job[c].process \in Processes
           /\ job[c].slot \in Slot \cup {NoSlot} /\ job[c].until \in Nat
           /\ job[c].queued \in BOOLEAN
  BY DEF WorkType, Job

\* A caller goes to a place, with a job that fits it.
Moves(c, place, j) ==
    /\ pc' = [pc EXCEPT ![c] = place]
    /\ job' = [job EXCEPT ![c] = j]
    /\ evicted' = evicted
    /\ place = "running" => j.slot # NoSlot
    /\ place \in {"try", "count", "wait"} => j.slot = NoSlot

\* What a step does to its caller.
Control(c) == Return(c) \/ \E place \in Places \ {"idle"}, j \in Job : Moves(c, place, j)

\* The place and the job of a caller keep their types,
LEMMA ControlKeepsType ==
    ASSUME WorkType, evicted \subseteq Callers, NEW c \in Callers, Control(c)
    PROVE  WorkType' /\ evicted' \subseteq Callers
<1>1. CASE Return(c)
  BY <1>1 DEF Return, WorkType, Places
<1>2. ASSUME NEW place \in Places \ {"idle"}, NEW j \in Job, Moves(c, place, j)
      PROVE  WorkType' /\ evicted' \subseteq Callers
  BY <1>2, NoneAssumption DEF Moves, WorkType
<1> QED
  BY <1>1, <1>2 DEF Control

\* when it goes to another place,
LEMMA GoesTo ==
    ASSUME WorkType, NEW c \in Callers, pc[c] # "idle", NEW place \in Places \ {"idle"},
           Goto(c, place),
           place = "running" => job[c].slot # NoSlot,
           place \in {"try", "count", "wait"} => job[c].slot = NoSlot
    PROVE  Moves(c, place, job[c]) /\ Control(c)
<1>1. job' = [job EXCEPT ![c] = job[c]]
  BY DEF Goto, WorkType
<1> QED
  BY <1>1, BusyCaller DEF Goto, Moves, Control

\* when it goes there with a slot it was granted,
LEMMA GoesWith ==
    ASSUME WorkType, NEW c \in Callers, pc[c] # "idle", NEW s \in Slot,
           NEW place \in {"running", "uncount"}, GotoWith(c, place, s)
    PROVE  Moves(c, place, [job[c] EXCEPT !.slot = s]) /\ Control(c)
<1> DEFINE j == [job[c] EXCEPT !.slot = s]
<1>1. j \in Job /\ j.slot = s
  BY BusyCaller DEF Job
<1>2. job' = [job EXCEPT ![c] = j]
  BY DEF GotoWith
<1> QED
  BY <1>1, <1>2, NoneAssumption DEF GotoWith, Moves, Control, Places

\* and when it begins to wait.
LEMMA BeginsWait ==
    ASSUME WorkType, now \in Nat, NEW c \in Callers, pc[c] = "count", NEW q \in BOOLEAN,
           BeginWait(c, q)
    PROVE  /\ Moves(c, "wait", [job[c] EXCEPT !.until = now + Timeout[job[c].pool], !.queued = q])
           /\ Control(c)
<1> DEFINE j == [job[c] EXCEPT !.until = now + Timeout[job[c].pool], !.queued = q]
<1>1. job[c] \in Job /\ job[c].pool \in Pools /\ job[c].slot = NoSlot
  BY BusyCaller DEF WorkType
<1>2. now + Timeout[job[c].pool] \in Nat
  BY <1>1
<1>3. j \in Job /\ j.slot = NoSlot
  BY <1>1, <1>2 DEF Job
<1>4. job' = [job EXCEPT ![c] = j]
  BY DEF BeginWait
<1> QED
  BY <1>3, <1>4 DEF BeginWait, Moves, Control, Places

\* Slots are typed after a write with typed members and time.
LEMMA StoreType ==
    ASSUME RedisType, NEW p \in Pools, NEW members \in SUBSET Slot, NEW ends \in Nat,
           Store(p, members, ends)
    PROVE  slots' \in [Pools -> SUBSET Slot] /\ keyEnds' \in [Pools -> Nat]
  BY DEF Store, RedisType

\* A new slot is of this moment.
LEMMA NewSlotType ==
    ASSUME NEW q \in Processes, now \in Nat, NEW s \in NewSlots(q)
    PROVE  s \in Slot /\ s.at = now
  BY DEF NewSlots, Slot, Ids

\* The script of an acquisition keeps the types, and where it sends its caller.
LEMMA AcquireType ==
    ASSUME RedisType, WorkType, now \in Nat, faults \in 0 .. MaxFaults, NEW c \in Callers,
           pc[c] \in {"try", "wait"},
           NEW granted \in {"running", "uncount"}, NEW refused \in {"count", "wait"},
           NEW failed \in {"idle", "uncount"},
           Acquire(c, granted, refused, failed)
    PROVE  /\ slots' \in [Pools -> SUBSET Slot] /\ keyEnds' \in [Pools -> Nat]
           /\ faults' \in 0 .. MaxFaults
           /\ Control(c)
<1> DEFINE p == job[c].pool
           q == job[c].process
<1>1. p \in Pools /\ q \in Processes /\ job[c].slot = NoSlot
  BY BusyCaller DEF WorkType
<1>2. Live(p) \in SUBSET Slot /\ keyEnds[p] \in Nat
  BY <1>1 DEF RedisType, Live
<1>3. ASSUME NEW s \in NewSlots(q), AddSlot(p, s)
      PROVE  slots' \in [Pools -> SUBSET Slot] /\ keyEnds' \in [Pools -> Nat]
  <2>1. Live(p) \cup {s} \in SUBSET Slot /\ now + TTL \in Nat
    BY <1>1, <1>2, <1>3, NewSlotType
  <2> HIDE DEF p
  <2> QED
    BY <1>1, <1>3, <2>1, StoreType DEF AddSlot
<1>4. ASSUME NEW s \in NewSlots(q), NoFault, AddSlot(p, s), GotoWith(c, granted, s)
      PROVE  slots' \in [Pools -> SUBSET Slot] /\ keyEnds' \in [Pools -> Nat] /\ Control(c)
  BY <1>1, <1>3, <1>4, NewSlotType, GoesWith
<1>5. CASE NoFault /\ Store(p, Live(p), keyEnds[p]) /\ Goto(c, refused)
  BY <1>1, <1>2, <1>5, StoreType, GoesTo DEF NoFault, Places
<1>6. CASE /\ Fault
           /\ UNCHANGED slotVars \/ \E s \in NewSlots(q) : AddSlot(p, s)
           /\ IF failed = "idle" THEN Return(c) ELSE Goto(c, failed)
  <2>1. slots' \in [Pools -> SUBSET Slot] /\ keyEnds' \in [Pools -> Nat]
    BY <1>3, <1>6 DEF slotVars, RedisType
  <2>2. Control(c)
    BY <1>1, <1>6, GoesTo DEF Control, Places
  <2> QED
    BY <1>6, <2>1, <2>2 DEF Fault
<1> QED
  BY <1>4, <1>5, <1>6 DEF Acquire, NoFault

\* The scripts on the wait counter keep its type,
LEMMA CounterType ==
    ASSUME RedisType, now \in Nat, NEW p \in Pools,
           Increment(p) \/ Decrement(p) \/ SetCounter(p, 0) \/ UNCHANGED queueVars
    PROVE  waiting' \in [Pools -> Nat] /\ waitEnds' \in [Pools -> Nat]
<1>1. CASE Increment(p)
  BY <1>1 DEF Increment, RedisType
<1>2. CASE waiting[p] > 0 /\ SetCounter(p, waiting[p] - 1)
  BY <1>2 DEF SetCounter, RedisType
<1>3. CASE SetCounter(p, 0)
  BY <1>3 DEF SetCounter, RedisType
<1> QED
  BY <1>1, <1>2, <1>3 DEF Decrement, RedisType, queueVars

\* and a release that of the sorted sets.
LEMMA RemoveType ==
    ASSUME RedisType, NEW p \in Pools, NEW s, ReleaseSlot(p, s) \/ UNCHANGED slotVars
    PROVE  slots' \in [Pools -> SUBSET Slot] /\ keyEnds' \in [Pools -> Nat]
<1>1. slots[p] \ {s} \in SUBSET Slot /\ keyEnds[p] \in Nat
  BY DEF RedisType
<1> QED
  BY <1>1, StoreType DEF ReleaseSlot, RemoveSlot, slotVars, RedisType

\* Every step of a caller keeps the types,
LEMMA StepKeepsType ==
    ASSUME TypeOK, NEW c \in Callers, Step(c)
    PROVE  TypeOK' /\ Control(c)
<1> USE DEF TypeOK
<1> SUFFICES RedisType' /\ Control(c) /\ faults' \in 0 .. MaxFaults
             /\ UNCHANGED <<startVars, adrift, now>>
  BY ControlKeepsType DEF startVars, StartType
<1>1. CASE Try(c)
  BY <1>1, AcquireType DEF Try, RedisType, queueVars
<1>2. CASE Count(c)
  <2>1. job[c].pool \in Pools /\ pc[c] = "count"
    BY <1>2, BusyCaller DEF Count
  <2>2. Increment(job[c].pool) \/ UNCHANGED queueVars
    BY <1>2 DEF Count
  <2>3. waiting' \in [Pools -> Nat] /\ waitEnds' \in [Pools -> Nat]
    BY <2>1, <2>2, CounterType
  <2>4. Return(c) \/ \E queued \in BOOLEAN : BeginWait(c, queued)
    BY <1>2 DEF Count
  <2>5. Control(c)
    <3>1. ASSUME NEW queued \in BOOLEAN, BeginWait(c, queued) PROVE Control(c)
      <4>1. WorkType /\ now \in Nat
        OBVIOUS
      <4> HIDE DEF TypeOK
      <4> QED
        BY <2>1, <3>1, <4>1, BeginsWait
    <3> QED
      BY <2>4, <3>1 DEF Control
  <2>6. (NoFault \/ Fault) /\ UNCHANGED <<slotVars, startVars, adrift, now>>
    BY <1>2 DEF Count
  <2> QED
    BY <2>3, <2>5, <2>6 DEF slotVars, RedisType, NoFault, Fault
<1>3. CASE Poll(c)
  BY <1>3, AcquireType DEF Poll, RedisType, queueVars
<1>4. CASE GiveUp(c)
  BY <1>4, GoesTo DEF GiveUp, Control, Places, RedisType, slotVars, queueVars
<1>5. CASE Uncount(c)
  <2>1. job[c].pool \in Pools /\ pc[c] = "uncount"
    BY <1>5, BusyCaller DEF Uncount
  <2>2. waiting' \in [Pools -> Nat] /\ waitEnds' \in [Pools -> Nat]
    BY <1>5, <2>1, CounterType DEF Uncount
  <2>3. Control(c)
    BY <1>5, <2>1, GoesTo DEF Uncount, Control, Places
  <2> QED
    BY <1>5, <2>2, <2>3 DEF Uncount, slotVars, RedisType, NoFault, Fault
<1>6. CASE Release(c)
  <2>1. job[c].pool \in Pools
    BY <1>6, BusyCaller DEF Release
  <2>2. slots' \in [Pools -> SUBSET Slot] /\ keyEnds' \in [Pools -> Nat]
    BY <1>6, <2>1, RemoveType DEF Release
  <2> QED
    BY <1>6, <2>2 DEF Release, Control, queueVars, RedisType, NoFault, Fault
<1> QED
  BY <1>1, <1>2, <1>3, <1>4, <1>5, <1>6 DEF Step

\* so does a new request,
LEMMA RequestMoves ==
    ASSUME TypeOK, NEW c \in Callers, NEW p \in Pools, NEW q \in Processes, Request(c, p, q)
    PROVE  Moves(c, "try", [pool |-> p, process |-> q, slot |-> NoSlot, until |-> 0, queued |-> FALSE])
           /\ Control(c)
<1> DEFINE j == [pool |-> p, process |-> q, slot |-> NoSlot, until |-> 0, queued |-> FALSE]
<1>1. j \in Job
  BY DEF Job
<1> QED
  BY <1>1 DEF Request, Moves, Control, Places

\* and so does what a server does.
LEMMA ServerKeepsType ==
    ASSUME TypeOK, NEW q \in Processes, Server(q)
    PROVE  TypeOK'
<1> USE DEF TypeOK
<1>1. CASE StartProcess(q)
  BY <1>1 DEF StartProcess, StartType, RedisType, WorkType, slotVars, queueVars, workVars
<1>2. CASE CleanupFails(q)
  BY <1>2 DEF CleanupFails, StartType, RedisType, WorkType, slotVars, queueVars, workVars, Fault
<1>3. CASE Die(q)
  <2>1. WorkType' /\ evicted' \subseteq Callers
    BY <1>3 DEF Die, WorkType, Places
  <2> QED
    BY <1>3, <2>1 DEF Die, StartType, RedisType, slotVars, queueVars
<1>4. ASSUME NEW p \in Pools, NEW phase, NEW next \in {"counters", "up"}, Visited(q, p, phase, next)
      PROVE  StartType'
  BY <1>4 DEF Visited, StartType
<1>5. ASSUME NEW p \in Pools, CleanupSlots(q, p) PROVE TypeOK'
  <2>1. StartType'
    BY <1>4, <1>5 DEF CleanupSlots
  <2>2. {s \in slots[p] : s.id[1] = q} \in SUBSET Slot /\ now + TTL \in Nat
    BY DEF RedisType
  <2>3. slots' \in [Pools -> SUBSET Slot] /\ keyEnds' \in [Pools -> Nat]
    BY <1>5, <2>2, StoreType DEF CleanupSlots
  <2>4. evicted' \subseteq Callers
    BY <1>5 DEF CleanupSlots
  <2> QED
    BY <1>5, <2>1, <2>3, <2>4 DEF CleanupSlots, RedisType, WorkType, queueVars, workVars
<1>6. ASSUME NEW p \in Pools, DeleteCounter(q, p) PROVE TypeOK'
  <2>1. StartType'
    BY <1>4, <1>6 DEF DeleteCounter
  <2>2. waiting' \in [Pools -> Nat] /\ waitEnds' \in [Pools -> Nat]
    BY <1>6, CounterType DEF DeleteCounter
  <2> QED
    BY <1>6, <2>1, <2>2 DEF DeleteCounter, RedisType, WorkType, slotVars, workVars
<1> QED
  BY <1>1, <1>2, <1>3, <1>5, <1>6 DEF Server

\* The types hold at first,
LEMMA TypeInit == Init => TypeOK
  BY DEF Init, TypeOK, RedisType, StartType, WorkType, Places

\* and every step keeps them.
LEMMA TypeStep == TypeOK /\ [Next]_vars => TypeOK'
<1> SUFFICES ASSUME TypeOK, [Next]_vars PROVE TypeOK'
  OBVIOUS
<1> USE DEF TypeOK
<1>1. ASSUME NEW c \in Callers, NEW p \in Pools, NEW q \in Processes, Request(c, p, q) PROVE TypeOK'
  BY <1>1, RequestMoves, ControlKeepsType
     DEF Request, RedisType, StartType, slotVars, queueVars, startVars
<1>2. ASSUME NEW p \in Pools, Prune(p) PROVE TypeOK'
  <2>1. Live(p) \in SUBSET Slot /\ keyEnds[p] \in Nat /\ now + TTL \in Nat
    BY DEF RedisType, Live
  <2>2. slots' \in [Pools -> SUBSET Slot] /\ keyEnds' \in [Pools -> Nat]
    BY <1>2, <2>1, StoreType DEF Prune
  <2> QED
    BY <1>2, <2>2 DEF Prune, RedisType, StartType, WorkType, queueVars, startVars, workVars
<1>3. CASE Tick
  BY <1>3 DEF Tick, RedisType, StartType, WorkType, startVars, workVars
<1>4. CASE UNCHANGED vars
  BY <1>4 DEF vars, RedisType, StartType, WorkType, slotVars, queueVars, startVars, workVars
<1> QED
  BY <1>1, <1>2, <1>3, <1>4, StepKeepsType, ServerKeepsType DEF Next

\* Every variable keeps its type, and who runs has a slot: the release function of a
\* request is never empty-handed.
THEOREM TypeCorrect == Spec => []TypeOK
  BY TypeInit, TypeStep, PTL DEF Spec

-----------------------------------------------------------------------------
(* The limit.  What is in the sorted set and has not expired is within the *)
(* limit; every caller that is entitled to run has its own slot in the     *)
(* set; so there are no more of them than slots.                           *)

Holds(c) == pc[c] # "idle" /\ job[c].slot # NoSlot

\* The key outlives its members, and the unexpired ones are within the limit.
StoredInv == \A p \in Pools :
    /\ IsFiniteSet(slots[p])
    /\ Cardinality(Live(p)) <= Limit[p]
    /\ \A s \in slots[p] : s.at <= now /\ s.at + TTL <= keyEnds[p]

\* The slot of a caller stays until it expires or a starting server evicts it.
HeldInv == \A c \in Callers :
    Holds(c) /\ now < job[c].slot.at + TTL /\ c \notin evicted => job[c].slot \in slots[job[c].pool]

\* Nobody shares a slot.
DistinctInv == \A c, d \in Callers : Holds(c) /\ Holds(d) /\ job[c].slot = job[d].slot => c = d

SlotInv == TypeOK /\ StoredInv /\ HeldInv /\ DistinctInv

\* The time of a slot is a number.
LEMMA SlotFields ==
    ASSUME NEW s \in Slot
    PROVE  s.at \in Nat
  BY DEF Slot

\* Who holds a slot has one, of a pool.
LEMMA HolderSlot ==
    ASSUME WorkType, NEW c \in Callers, Holds(c)
    PROVE  job[c].slot \in Slot /\ job[c].slot.at \in Nat /\ job[c].pool \in Pools
  BY BusyCaller, SlotFields DEF Holds

\* Sets that only shrink, with keys that outlive what is left, stay within the limit.
LEMMA ShrinkKeepsStored ==
    ASSUME RedisType, StoredInv, now \in Nat, now' \in Nat, now <= now',
           \A p \in Pools : /\ slots'[p] \subseteq slots[p]
                            /\ \A s \in slots'[p] : s.at + TTL <= keyEnds'[p]
    PROVE  StoredInv'
<1> SUFFICES ASSUME NEW p \in Pools
             PROVE  /\ IsFiniteSet(slots'[p])
                    /\ Cardinality(Live(p)') <= Limit[p]
                    /\ \A s \in slots'[p] : s.at <= now' /\ s.at + TTL <= keyEnds'[p]
  BY DEF StoredInv
<1>1. IsFiniteSet(slots[p]) /\ slots[p] \in SUBSET Slot /\ Cardinality(Live(p)) <= Limit[p]
  BY DEF StoredInv, RedisType
<1>2. IsFiniteSet(Live(p)) /\ IsFiniteSet(slots'[p])
  BY <1>1, FS_Subset DEF Live
<1>3. Live(p)' \subseteq Live(p)
  BY <1>1, SlotFields DEF Live
<1>4. Cardinality(Live(p)') <= Cardinality(Live(p)) /\ IsFiniteSet(Live(p)')
  BY <1>2, <1>3, FS_Subset
<1>5. Cardinality(Live(p)') \in Nat /\ Cardinality(Live(p)) \in Nat /\ Limit[p] \in Nat
  BY <1>2, <1>4, FS_CardinalityType
<1>6. \A s \in slots'[p] : s.at <= now'
  BY <1>1, SlotFields DEF StoredInv
<1> QED
  BY <1>1, <1>2, <1>4, <1>5, <1>6

\* A script that takes members out of a set, and renews the key or does not, leaves
\* no member that outlives its key.
LEMMA StoreKeepsStored ==
    ASSUME RedisType, StoredInv, now \in Nat, UNCHANGED now, NEW p \in Pools,
           NEW members \in SUBSET slots[p], NEW ends \in {keyEnds[p], now + TTL},
           Store(p, members, ends)
    PROVE  StoredInv'
<1>1. \A q \in Pools : slots'[q] = IF q = p THEN members ELSE slots[q]
  BY DEF Store, RedisType
<1>2. \A q \in Pools : keyEnds'[q] = IF q = p THEN IF members = {} THEN 0 ELSE ends ELSE keyEnds[q]
  BY DEF Store, RedisType
<1>3. \A s \in members : s.at + TTL <= ends
  BY SlotFields DEF StoredInv, RedisType
<1> QED
  BY <1>1, <1>2, <1>3, ShrinkKeepsStored DEF StoredInv

\* The script adds a slot only while there is room.
LEMMA AddKeepsStored ==
    ASSUME RedisType, StoredInv, now \in Nat, UNCHANGED now, NEW p \in Pools, HasRoom(p),
           NEW s \in Slot, s.at = now, AddSlot(p, s)
    PROVE  StoredInv'
<1>1. \A q \in Pools : slots'[q] = IF q = p THEN Live(p) \cup {s} ELSE slots[q]
  BY DEF AddSlot, Store, RedisType
<1>2. \A q \in Pools : keyEnds'[q] = IF q = p THEN now + TTL ELSE keyEnds[q]
  BY DEF AddSlot, Store, RedisType
<1>3. IsFiniteSet(Live(p)) /\ Cardinality(Live(p)) < Limit[p] /\ Live(p) \in SUBSET Slot
  BY FS_Subset DEF StoredInv, RedisType, Live, HasRoom
<1>4. /\ IsFiniteSet(Live(p) \cup {s})
      /\ Cardinality(Live(p) \cup {s}) <= Limit[p]
  <2>1. Cardinality(Live(p)) \in Nat /\ Limit[p] \in Nat
    BY <1>3, FS_CardinalityType
  <2>2. /\ IsFiniteSet(Live(p) \cup {s})
        /\ Cardinality(Live(p) \cup {s}) \in {Cardinality(Live(p)), Cardinality(Live(p)) + 1}
    BY <1>3, FS_AddElement, Zenon
  <2> QED
    BY <1>3, <2>1, <2>2
<1>5. ASSUME NEW q \in Pools
      PROVE  /\ IsFiniteSet(slots'[q])
             /\ Cardinality(Live(q)') <= Limit[q]
             /\ \A t \in slots'[q] : t.at <= now' /\ t.at + TTL <= keyEnds'[q]
  <2>1. CASE q = p
    <3>1. \A t \in Live(p) \cup {s} : t.at \in Nat /\ t.at <= now /\ t.at + TTL > now
      BY <1>3, SlotFields DEF StoredInv, Live
    <3>2. Live(p)' = slots'[p] /\ slots'[p] = Live(p) \cup {s}
      BY <1>1, <3>1 DEF Live
    <3> QED
      BY <1>1, <1>2, <1>4, <2>1, <3>1, <3>2
  <2>2. CASE q # p
    <3>1. Live(q)' = Live(q) /\ slots'[q] = slots[q] /\ keyEnds'[q] = keyEnds[q]
      BY <1>1, <1>2, <2>2 DEF Live
    <3> QED
      BY <3>1 DEF StoredInv
  <2> QED
    BY <2>1, <2>2
<1> QED
  BY <1>5 DEF StoredInv

\* A step after which everybody who has a slot had it before.
NoNewHolder == \A d \in Callers :
    Holds(d)' => /\ Holds(d)
                 /\ job'[d].slot = job[d].slot /\ job'[d].pool = job[d].pool
                 /\ d \in evicted => d \in evicted'

\* Without a new holder it is enough that the slots of the entitled stay.
LEMMA HeldKept ==
    ASSUME TypeOK, HeldInv, DistinctInv, NoNewHolder, now' \in Nat, now <= now',
           \A d \in Callers : Holds(d)' /\ now' < job[d].slot.at + TTL /\ d \notin evicted' =>
               \A p \in Pools : job[d].slot \in slots[p] => job[d].slot \in slots'[p]
    PROVE  HeldInv' /\ DistinctInv'
<1>1. ASSUME NEW d \in Callers, Holds(d)', now' < job'[d].slot.at + TTL, d \notin evicted'
      PROVE  job'[d].slot \in slots'[job'[d].pool]
  <2>1. Holds(d) /\ job'[d].slot = job[d].slot /\ job'[d].pool = job[d].pool /\ d \notin evicted
    BY <1>1 DEF NoNewHolder
  <2>2. job[d].slot.at \in Nat /\ job[d].pool \in Pools /\ now \in Nat
    BY <2>1, HolderSlot DEF TypeOK
  <2>3. job[d].slot \in slots[job[d].pool]
    BY <1>1, <2>1, <2>2 DEF HeldInv
  <2> QED
    BY <1>1, <2>1, <2>2, <2>3
<1>2. ASSUME NEW c \in Callers, NEW d \in Callers, Holds(c)', Holds(d)', job'[c].slot = job'[d].slot
      PROVE  c = d
  BY <1>2 DEF NoNewHolder, DistinctInv
<1> QED
  BY <1>1, <1>2 DEF HeldInv, DistinctInv

\* The caller of a step has no slot afterwards, or the one it had.
Keeps(c) ==
    \/ Return(c)
    \/ \E place \in Places \ {"idle"}, j \in Job :
         /\ Moves(c, place, j)
         /\ j.slot = NoSlot \/ (pc[c] # "idle" /\ j.slot = job[c].slot /\ j.pool = job[c].pool)

\* A caller that keeps what it has is no new holder;
LEMMA KeepsNoNewHolder ==
    ASSUME WorkType, NEW c \in Callers, Keeps(c)
    PROVE  NoNewHolder
<1>1. CASE Return(c)
  BY <1>1 DEF Return, NoNewHolder, Holds, WorkType
<1>2. ASSUME NEW place \in Places \ {"idle"}, NEW j \in Job, Moves(c, place, j),
             j.slot = NoSlot \/ (pc[c] # "idle" /\ j.slot = job[c].slot /\ j.pool = job[c].pool)
      PROVE  NoNewHolder
  <2> SUFFICES ASSUME NEW d \in Callers, Holds(d)'
               PROVE  /\ Holds(d)
                      /\ job'[d].slot = job[d].slot /\ job'[d].pool = job[d].pool
                      /\ d \in evicted => d \in evicted'
    BY DEF NoNewHolder
  <2>1. CASE d = c
    BY <1>2, <2>1 DEF Moves, Holds, WorkType
  <2>2. CASE d # c
    BY <1>2, <2>2 DEF Moves, Holds, WorkType
  <2> QED
    BY <2>1, <2>2
<1> QED
  BY <1>1, <1>2 DEF Keeps

\* one that only goes to another place does,
LEMMA StaysKeeps ==
    ASSUME WorkType, NEW c \in Callers, pc[c] # "idle", NEW place \in Places \ {"idle"},
           Goto(c, place),
           place = "running" => job[c].slot # NoSlot,
           place \in {"try", "count", "wait"} => job[c].slot = NoSlot
    PROVE  Keeps(c)
  BY GoesTo, BusyCaller DEF Keeps

\* A caller gets a slot that is nobody's.
LEMMA GrantKeepsHeld ==
    ASSUME TypeOK, StoredInv, HeldInv, DistinctInv, UNCHANGED now,
           NEW c \in Callers, pc[c] \in {"try", "wait"}, NEW place \in {"running", "uncount"},
           NEW s \in NewSlots(job[c].process),
           AddSlot(job[c].pool, s), GotoWith(c, place, s)
    PROVE  HeldInv' /\ DistinctInv'
<1> DEFINE p == job[c].pool
<1>1. p \in Pools /\ job[c].process \in Processes /\ WorkType /\ now \in Nat
  BY BusyCaller DEF TypeOK
<1>2. s \in Slot /\ s.at = now /\ FreshSlot(job[c].process, s)
  BY <1>1, NewSlotType DEF NewSlots
<1>3. \A q \in Pools : Live(q) \subseteq slots'[q] /\ s \in slots'[p]
  BY <1>1 DEF AddSlot, Store, Live, TypeOK, RedisType
<1>4. Moves(c, place, [job[c] EXCEPT !.slot = s])
  BY <1>1, <1>2, GoesWith
<1>5. \A d \in Callers \ {c} : pc'[d] = pc[d] /\ job'[d] = job[d]
  BY <1>1, <1>4 DEF Moves, WorkType
<1>6. job'[c].slot = s /\ job'[c].pool = p /\ evicted' = evicted
  BY <1>1, <1>4, BusyCaller DEF Moves, WorkType, Job
<1>7. \A d \in Callers : Holds(d) => job[d].slot # s
  BY <1>2 DEF FreshSlot, Holds
<1>8. ASSUME NEW d \in Callers, Holds(d)', now' < job'[d].slot.at + TTL, d \notin evicted'
      PROVE  job'[d].slot \in slots'[job'[d].pool]
  <2>1. CASE d = c
    BY <1>3, <1>6, <2>1, <1>1, Zenon
  <2>2. CASE d # c
    <3>1. Holds(d) /\ job'[d] = job[d]
      BY <1>5, <1>8, <2>2 DEF Holds
    <3>2. job[d].slot \in slots[job[d].pool] /\ job[d].pool \in Pools /\ now < job[d].slot.at + TTL
      BY <1>1, <1>6, <1>8, <3>1, HolderSlot DEF HeldInv
    <3> QED
      BY <1>3, <3>1, <3>2 DEF Live
  <2> QED
    BY <2>1, <2>2
<1>9. ASSUME NEW a \in Callers, NEW d \in Callers, Holds(a)', Holds(d)', job'[a].slot = job'[d].slot
      PROVE  a = d
  BY <1>5, <1>6, <1>7, <1>9 DEF Holds, DistinctInv
<1> QED
  BY <1>8, <1>9 DEF HeldInv, DistinctInv

\* and one that begins to wait.
LEMMA WaiterKeeps ==
    ASSUME WorkType, now \in Nat, NEW c \in Callers, pc[c] = "count", NEW q \in BOOLEAN,
           BeginWait(c, q)
    PROVE  Keeps(c)
<1> DEFINE j == [job[c] EXCEPT !.until = now + Timeout[job[c].pool], !.queued = q]
<1>1. job[c] \in Job /\ now + Timeout[job[c].pool] \in Nat
  BY BusyCaller
<1>2. j \in Job /\ j.slot = job[c].slot /\ j.pool = job[c].pool
  BY <1>1 DEF Job
<1>3. Moves(c, "wait", j)
  BY BeginsWait
<1> HIDE DEF j
<1> QED
  BY <1>2, <1>3 DEF Keeps, Places

\* Who keeps its slot still has it when unexpired slots stay.
LEMMA KeepsKeepsHeld ==
    ASSUME TypeOK, HeldInv, DistinctInv, UNCHANGED now, NEW c \in Callers, Keeps(c),
           \A p \in Pools : Live(p) \subseteq slots'[p]
    PROVE  HeldInv' /\ DistinctInv'
<1>1. NoNewHolder
  BY KeepsNoNewHolder DEF TypeOK
<1>2. ASSUME NEW d \in Callers, Holds(d)', now' < job[d].slot.at + TTL, NEW p \in Pools,
             job[d].slot \in slots[p]
      PROVE  job[d].slot \in slots'[p]
  BY <1>2 DEF Live
<1> QED
  BY <1>1, <1>2, HeldKept DEF TypeOK

\* The acquire script, granting, refusing or failing, keeps the slots of the others.
LEMMA AcquireKeepsSlots ==
    ASSUME SlotInv, UNCHANGED now, NEW c \in Callers, pc[c] \in {"try", "wait"},
           NEW granted \in {"running", "uncount"}, NEW refused \in {"count", "wait"},
           NEW failed \in {"idle", "uncount"},
           Acquire(c, granted, refused, failed)
    PROVE  StoredInv' /\ HeldInv' /\ DistinctInv'
<1> DEFINE p == job[c].pool
           q == job[c].process
<1> USE DEF SlotInv
<1>1. /\ p \in Pools /\ q \in Processes /\ job[c].slot = NoSlot
      /\ WorkType /\ RedisType /\ now \in Nat
  BY BusyCaller DEF WorkType, TypeOK
<1>2. Live(p) \in SUBSET slots[p]
  BY <1>1 DEF Live
<1>3. ASSUME NEW s \in NewSlots(q), HasRoom(p), AddSlot(p, s)
      PROVE  StoredInv' /\ \A r \in Pools : Live(r) \subseteq slots'[r]
  <2>1. s \in Slot /\ s.at = now
    BY <1>1, <1>3, NewSlotType
  <2>2. \A r \in Pools : Live(r) \subseteq slots'[r]
    BY <1>1, <1>3 DEF AddSlot, Store, Live, RedisType
  <2> HIDE DEF p
  <2> QED
    BY <1>1, <1>3, <2>1, <2>2, AddKeepsStored
<1>4. ASSUME HasRoom(p), NEW s \in NewSlots(q), AddSlot(p, s), GotoWith(c, granted, s)
      PROVE  StoredInv' /\ HeldInv' /\ DistinctInv'
  BY <1>3, <1>4, GrantKeepsHeld
<1>5. CASE Store(p, Live(p), keyEnds[p]) /\ Goto(c, refused)
  <2>1. StoredInv'
    BY <1>1, <1>2, <1>5, StoreKeepsStored
  <2>2. \A r \in Pools : Live(r) \subseteq slots'[r]
    BY <1>1, <1>5 DEF Store, Live, RedisType
  <2>3. Keeps(c)
    BY <1>1, <1>5, StaysKeeps DEF Places
  <2> QED
    BY <2>1, <2>2, <2>3, KeepsKeepsHeld
<1>6. CASE /\ UNCHANGED slotVars \/ (HasRoom(p) /\ \E s \in NewSlots(q) : AddSlot(p, s))
           /\ IF failed = "idle" THEN Return(c) ELSE Goto(c, failed)
  <2>1. UNCHANGED slotVars => StoredInv' /\ \A r \in Pools : Live(r) \subseteq slots'[r]
    BY DEF slotVars, StoredInv, Live
  <2>2. Keeps(c)
    BY <1>1, <1>6, StaysKeeps DEF Places, Keeps
  <2> QED
    BY <1>3, <1>6, <2>1, <2>2, KeepsKeepsHeld
<1>7. \/ HasRoom(p) /\ \E s \in NewSlots(q) : AddSlot(p, s) /\ GotoWith(c, granted, s)
      \/ Store(p, Live(p), keyEnds[p]) /\ Goto(c, refused)
      \/ /\ UNCHANGED slotVars \/ (HasRoom(p) /\ \E s \in NewSlots(q) : AddSlot(p, s))
         /\ IF failed = "idle" THEN Return(c) ELSE Goto(c, failed)
  BY DEF Acquire
<1> HIDE DEF SlotInv
<1> QED
  BY <1>4, <1>5, <1>6, <1>7, Zenon

\* A caller gives its slot back, or leaves it to expire.
LEMMA ReleaseKeepsSlots ==
    ASSUME SlotInv, NEW c \in Callers, Release(c)
    PROVE  StoredInv' /\ HeldInv' /\ DistinctInv'
<1> DEFINE p == job[c].pool
           s == job[c].slot
<1> USE DEF SlotInv
<1>1. p \in Pools /\ WorkType /\ RedisType /\ now \in Nat /\ Holds(c) /\ UNCHANGED now /\ Return(c)
  BY BusyCaller DEF WorkType, TypeOK, Release, Holds
<1>2. NoNewHolder /\ ~Holds(c)'
  BY <1>1, KeepsNoNewHolder DEF Keeps, Return, Holds, WorkType
<1>3. CASE RemoveSlot(p, s)
  <2>0. slots[p] \ {s} \in SUBSET slots[p]
    OBVIOUS
  <2>1. StoredInv'
    BY <1>1, <1>3, <2>0, StoreKeepsStored DEF RemoveSlot
  <2>2. \A r \in Pools : slots[r] \ {s} \subseteq slots'[r]
    BY <1>1, <1>3 DEF RemoveSlot, Store, RedisType
  <2>3. \A d \in Callers : Holds(d)' => job[d].slot # s
    BY <1>1, <1>2 DEF NoNewHolder, DistinctInv
  <2> QED
    BY <1>1, <1>2, <2>1, <2>2, <2>3, HeldKept
<1>4. CASE UNCHANGED slotVars
  <2>1. StoredInv'
    BY <1>1, <1>4 DEF slotVars, StoredInv, Live
  <2> QED
    BY <1>1, <1>2, <1>4, <2>1, HeldKept DEF slotVars
<1> QED
  BY <1>3, <1>4 DEF Release, ReleaseSlot

\* Every step of a caller keeps the three parts of the invariant,
LEMMA StepKeepsSlots ==
    ASSUME SlotInv, NEW c \in Callers, Step(c)
    PROVE  StoredInv' /\ HeldInv' /\ DistinctInv'
<1> USE DEF SlotInv
<1>1. CASE Try(c)
  BY <1>1, AcquireKeepsSlots DEF Try
<1>2. CASE Poll(c)
  BY <1>2, AcquireKeepsSlots DEF Poll
<1>3. CASE Release(c)
  BY <1>3, ReleaseKeepsSlots
<1>4. ASSUME Keeps(c), UNCHANGED <<slotVars, now>>
      PROVE  StoredInv' /\ HeldInv' /\ DistinctInv'
  <2>1. \A p \in Pools : Live(p) \subseteq slots'[p]
    BY <1>4 DEF slotVars, Live
  <2>2. StoredInv'
    BY <1>4 DEF slotVars, StoredInv, Live
  <2> QED
    BY <1>4, <2>1, <2>2, KeepsKeepsHeld
<1>5. CASE Count(c)
  <2>1. Return(c) \/ \E q \in BOOLEAN : BeginWait(c, q)
    BY <1>5 DEF Count
  <2>2. Keeps(c)
    BY <1>5, <2>1, WaiterKeeps DEF Count, Keeps, TypeOK
  <2> QED
    BY <1>4, <1>5, <2>2 DEF Count
<1>6. CASE GiveUp(c)
  <2>1. Keeps(c)
    BY <1>6, StaysKeeps DEF GiveUp, Keeps, TypeOK, Places
  <2> QED
    BY <1>4, <1>6, <2>1 DEF GiveUp
<1>7. CASE Uncount(c)
  <2>1. Keeps(c)
    BY <1>7, StaysKeeps DEF Uncount, Keeps, TypeOK, Places
  <2> QED
    BY <1>4, <1>7, <2>1 DEF Uncount
<1> QED
  BY <1>1, <1>2, <1>3, <1>5, <1>6, <1>7 DEF Step

\* the start-up clean-up as well, since those it evicts are not entitled,
LEMMA CleanupKeepsSlots ==
    ASSUME SlotInv, NEW q \in Processes, NEW p \in Pools, CleanupSlots(q, p)
    PROVE  StoredInv' /\ HeldInv' /\ DistinctInv'
<1> DEFINE own == {s \in slots[p] : s.id[1] = q}
<1> USE DEF SlotInv
<1>1. RedisType /\ WorkType /\ now \in Nat /\ own \in SUBSET slots[p]
  BY DEF TypeOK
<1>2. /\ Store(p, own, now + TTL)
      /\ UNCHANGED <<now, workVars>>
      /\ evicted' = evicted \cup {c \in Callers : pc[c] # "idle" /\ job[c].pool = p /\ job[c].slot \in slots[p] \ own}
  BY DEF CleanupSlots
<1> HIDE DEF own
<1>3. StoredInv'
  BY <1>1, <1>2, StoreKeepsStored
<1>4. \A r \in Pools : slots'[r] = IF r = p THEN own ELSE slots[r]
  BY <1>1, <1>2 DEF Store, RedisType
<1>5. ASSUME NEW d \in Callers, Holds(d)', now' < job'[d].slot.at + TTL, d \notin evicted'
      PROVE  job'[d].slot \in slots'[job'[d].pool]
  <2>1. Holds(d) /\ now < job[d].slot.at + TTL /\ d \notin evicted /\ job' = job /\ job[d].pool \in Pools
    BY <1>1, <1>2, <1>5, HolderSlot DEF Holds, workVars
  <2>2. job[d].slot \in slots[job[d].pool]
    BY <2>1 DEF HeldInv
  <2> QED
    BY <1>2, <1>4, <1>5, <2>1, <2>2 DEF Holds
<1>6. DistinctInv'
  BY <1>2 DEF DistinctInv, Holds, workVars
<1> QED
  BY <1>3, <1>5, <1>6 DEF HeldInv

\* and everything else a server does.
LEMMA ServerKeepsSlots ==
    ASSUME SlotInv, NEW q \in Processes, Server(q)
    PROVE  StoredInv' /\ HeldInv' /\ DistinctInv'
<1> USE DEF SlotInv
<1>1. ASSUME UNCHANGED <<slotVars, now>>, NoNewHolder PROVE StoredInv' /\ HeldInv' /\ DistinctInv'
  BY <1>1, HeldKept DEF StoredInv, Live, slotVars, TypeOK
<1>2. CASE Die(q)
  BY <1>1, <1>2 DEF Die, NoNewHolder, Holds, slotVars, TypeOK, WorkType
<1>3. CASE StartProcess(q) \/ CleanupFails(q) \/ \E p \in Pools : DeleteCounter(q, p)
  BY <1>1, <1>3 DEF StartProcess, CleanupFails, DeleteCounter, NoNewHolder, Holds, workVars
<1> QED
  BY <1>2, <1>3, CleanupKeepsSlots DEF Server

\* When Redis deletes a key, whatever was in it has expired.
LEMMA TickKeepsSlots ==
    ASSUME SlotInv, Tick
    PROVE  StoredInv' /\ HeldInv' /\ DistinctInv'
<1> USE DEF SlotInv
<1>1. /\ RedisType /\ WorkType /\ now \in Nat /\ now' = now + 1
      /\ UNCHANGED <<workVars, evicted>>
  BY DEF TypeOK, Tick
<1>2. \A p \in Pools : /\ slots'[p] = IF keyEnds[p] <= now' THEN {} ELSE slots[p]
                       /\ keyEnds'[p] = IF keyEnds[p] <= now' THEN 0 ELSE keyEnds[p]
  BY DEF Tick
<1>3. StoredInv'
  <2>1. \A p \in Pools : /\ slots'[p] \subseteq slots[p]
                         /\ \A s \in slots'[p] : s.at + TTL <= keyEnds'[p]
    BY <1>2 DEF StoredInv
  <2> QED
    BY <1>1, <2>1, ShrinkKeepsStored
<1>4. NoNewHolder
  BY <1>1 DEF NoNewHolder, Holds, workVars
<1>5. ASSUME NEW d \in Callers, Holds(d)', now' < job[d].slot.at + TTL, NEW p \in Pools,
             job[d].slot \in slots[p]
      PROVE  job[d].slot \in slots'[p]
  <2>1. job[d].slot.at \in Nat /\ keyEnds[p] \in Nat /\ job[d].slot.at + TTL <= keyEnds[p]
    BY <1>1, <1>5, SlotFields DEF StoredInv, RedisType
  <2> QED
    BY <1>1, <1>2, <1>5, <2>1
<1> QED
  BY <1>1, <1>3, <1>4, <1>5, HeldKept

\* Nobody holds anything at first.
LEMMA SlotInit == Init => SlotInv
<1> SUFFICES ASSUME Init PROVE SlotInv
  OBVIOUS
<1>1. \A p \in Pools : Live(p) = {} /\ slots[p] = {}
  BY DEF Init, Live
<1>2. StoredInv
  BY <1>1, FS_EmptySet DEF StoredInv
<1> QED
  BY <1>2, TypeInit DEF Init, SlotInv, HeldInv, DistinctInv, Holds

\* The invariant is inductive.
LEMMA SlotStep == SlotInv /\ [Next]_vars => SlotInv'
<1> SUFFICES ASSUME SlotInv, [Next]_vars PROVE StoredInv' /\ HeldInv' /\ DistinctInv'
  BY TypeStep DEF SlotInv
<1>1. ASSUME NEW c \in Callers, NEW p \in Pools, NEW q \in Processes, Request(c, p, q)
      PROVE  StoredInv' /\ HeldInv' /\ DistinctInv'
  <2> DEFINE j == [pool |-> p, process |-> q, slot |-> NoSlot, until |-> 0, queued |-> FALSE]
  <2>1. j \in Job /\ j.slot = NoSlot /\ Moves(c, "try", j)
    BY <1>1, RequestMoves DEF Job, SlotInv
  <2> HIDE DEF j
  <2>2. Keeps(c)
    BY <2>1 DEF Keeps, Places
  <2>3. UNCHANGED <<slotVars, now>>
    BY <1>1 DEF Request
  <2>4. (\A r \in Pools : Live(r) \subseteq slots'[r]) /\ StoredInv'
    BY <2>3 DEF SlotInv, slotVars, StoredInv, Live
  <2> QED
    BY <2>2, <2>3, <2>4, KeepsKeepsHeld DEF SlotInv
<1>2. ASSUME NEW p \in Pools, Prune(p)
      PROVE  StoredInv' /\ HeldInv' /\ DistinctInv'
  <2>1. RedisType /\ now \in Nat /\ UNCHANGED <<now, workVars, evicted>>
    BY <1>2 DEF SlotInv, TypeOK, Prune
  <2>2. Live(p) \in SUBSET slots[p] /\ \E ends \in {keyEnds[p], now + TTL} : Store(p, Live(p), ends)
    BY <1>2 DEF Prune, Live
  <2>3. StoredInv'
    BY <2>1, <2>2, StoreKeepsStored DEF SlotInv
  <2>4. \A r \in Pools : Live(r) \subseteq slots'[r]
    BY <2>1, <2>2 DEF Store, Live, RedisType
  <2>5. NoNewHolder
    BY <2>1 DEF NoNewHolder, Holds, workVars
  <2> QED
    BY <2>1, <2>3, <2>4, <2>5, HeldKept DEF SlotInv, Live
<1>3. CASE UNCHANGED vars
  BY <1>3 DEF vars, slotVars, workVars, SlotInv, StoredInv, HeldInv, DistinctInv, Holds, Live
<1> QED
  BY <1>1, <1>2, <1>3, StepKeepsSlots, ServerKeepsSlots, TickKeepsSlots DEF Next

\* As many unexpired slots as callers that are entitled to one.
LEMMA SlotsCoverCallers == SlotInv => LimitKept
<1> SUFFICES ASSUME SlotInv, NEW p \in Pools PROVE Cardinality(Entitled(p)) <= Limit[p]
  BY DEF LimitKept
<1> USE DEF SlotInv
<1>1. IsFiniteSet(Live(p)) /\ Cardinality(Live(p)) <= Limit[p] /\ Limit[p] \in Nat
  BY FS_Subset DEF StoredInv, Live
<1> DEFINE f == [c \in Entitled(p) |-> job[c].slot]
<1>2. ASSUME NEW c \in Entitled(p) PROVE c \in Callers /\ Holds(c) /\ job[c].slot \in Live(p)
  <2>1. c \in Callers /\ Holds(c) /\ job[c].pool = p /\ now < job[c].slot.at + TTL /\ c \notin evicted
    BY DEF Entitled, Holds
  <2>2. job[c].slot \in slots[p] /\ job[c].slot.at \in Nat /\ now \in Nat
    BY <2>1, HolderSlot DEF HeldInv, TypeOK
  <2> QED
    BY <2>1, <2>2 DEF Live
<1>3. f \in [Entitled(p) -> Live(p)]
  BY <1>2
<1>4. ASSUME NEW c \in Entitled(p), NEW d \in Entitled(p), f[c] = f[d] PROVE c = d
  BY <1>2, <1>4 DEF DistinctInv
<1>5. f \in Injection(Entitled(p), Live(p))
  BY <1>3, <1>4 DEF Injection, IsInjective
<1>6. IsFiniteSet(Entitled(p)) /\ Cardinality(Entitled(p)) <= Cardinality(Live(p))
  BY <1>1, <1>5, FS_Injection
<1> QED
  BY <1>1, <1>6, FS_CardinalityType

\* maxConcurrency holds over all servers, for every caller that neither runs beyond the
\* TTL nor was evicted, whatever expires, fails or dies: the script counts and adds in
\* one step, a slot stays until it expires or is given back, and nobody gives back
\* another's.
THEOREM LimitHolds == Spec => []LimitKept
<1>1. Spec => []SlotInv
  BY SlotInit, SlotStep, PTL DEF Spec
<1> QED
  BY <1>1, SlotsCoverCallers, PTL

-----------------------------------------------------------------------------
(* No slot stays behind. *)

\* No fault yet and nobody died.
Calm == faults = 0 /\ \A q \in Processes : process[q] # "dead"

\* Failures are not undone.
LEMMA CalmBefore ==
    ASSUME TypeOK, [Next]_vars
    PROVE  faults \in Nat /\ faults' \in Nat /\ faults <= faults' /\ (Calm' => Calm)
<1>1. faults \in Nat /\ (NoFault \/ Fault => faults' \in Nat /\ faults <= faults')
  BY DEF TypeOK, NoFault, Fault
<1>2. ASSUME NEW c \in Callers, Step(c) PROVE (NoFault \/ Fault) /\ UNCHANGED process
  <2>1. ASSUME NEW granted, NEW refused, NEW failed, Acquire(c, granted, refused, failed)
        PROVE  NoFault \/ Fault
    BY <2>1 DEF Acquire
  <2>2. CASE Try(c) \/ Poll(c)
    BY <2>1, <2>2 DEF Try, Poll, startVars
  <2>3. CASE Count(c)
    BY <2>3 DEF Count, startVars
  <2>4. CASE GiveUp(c) \/ Uncount(c) \/ Release(c)
    BY <2>4 DEF GiveUp, Uncount, Release, NoFault, startVars
  <2> QED
    BY <1>2, <2>2, <2>3, <2>4 DEF Step
<1>3. ASSUME NEW q \in Processes, Server(q)
      PROVE  (NoFault \/ Fault) /\ \A r \in Processes : process[r] = "dead" => process'[r] = "dead"
  <2>1. CASE StartProcess(q) \/ CleanupFails(q) \/ Die(q)
    BY <2>1 DEF StartProcess, CleanupFails, Die, TypeOK, StartType, NoFault
  <2>2. ASSUME NEW p \in Pools, NEW phase \in {"slots", "counters"}, NEW next, Visited(q, p, phase, next)
        PROVE  \A r \in Processes : process[r] = "dead" => process'[r] = "dead"
    BY <2>2 DEF Visited, TypeOK, StartType
  <2> QED
    BY <1>3, <2>1, <2>2 DEF Server, CleanupSlots, DeleteCounter, NoFault
<1>4. ASSUME \/ Tick \/ UNCHANGED vars \/ (\E p \in Pools : Prune(p))
             \/ \E c \in Callers, p \in Pools, q \in Processes : Request(c, p, q)
      PROVE  NoFault /\ UNCHANGED process
  BY <1>4 DEF Tick, Prune, Request, vars, startVars, NoFault
<1> QED
  <2>1. (NoFault \/ Fault) /\ \A r \in Processes : process[r] = "dead" => process'[r] = "dead"
    BY <1>2, <1>3, <1>4 DEF Next, Tick, Prune, Request, vars, startVars, NoFault
  <2> QED
    BY <1>1, <2>1 DEF Calm, NoFault, Fault

Owns(c, p, s) == pc[c] \in {"uncount", "running"} /\ job[c].pool = p /\ job[c].slot = s

AllOwned == \A p \in Pools : \A s \in slots[p] : \E c \in Callers : Owns(c, p, s)

\* Without new members it is enough that no owner loses its slot.
LEMMA OwnersKept ==
    ASSUME AllOwned, \A p \in Pools : slots'[p] \subseteq slots[p],
           \A p \in Pools : \A s \in slots'[p] : \A c \in Callers : Owns(c, p, s) => Owns(c, p, s)'
    PROVE  AllOwned'
  BY DEF AllOwned

\* A step changes nobody but its caller.
LEMMA Others ==
    ASSUME WorkType, NEW c \in Callers, Control(c)
    PROVE  \A d \in Callers \ {c} : pc'[d] = pc[d] /\ job'[d] = job[d]
  BY DEF Control, Moves, Return, WorkType

\* Without faults the caller that adds a slot goes on with it.
LEMMA AcquireKeepsOwners ==
    ASSUME TypeOK, AllOwned, NEW c \in Callers, pc[c] \in {"try", "wait"}, Control(c),
           NEW granted \in {"running", "uncount"}, NEW refused \in {"count", "wait"},
           NEW failed \in {"idle", "uncount"},
           Acquire(c, granted, refused, failed), ~Fault
    PROVE  AllOwned'
<1>0. PICK p \in Pools : p = job[c].pool
  BY BusyCaller DEF TypeOK
<1>1. RedisType /\ WorkType /\ \A r \in Pools : \A s \in slots[r] : ~Owns(c, r, s)
  BY BusyCaller DEF TypeOK, Owns
<1>2. \A r \in Pools : \A s \in slots[r], d \in Callers : Owns(d, r, s) => Owns(d, r, s)'
  BY <1>1, Others DEF Owns
<1>3. ASSUME NEW s, AddSlot(p, s), GotoWith(c, granted, s) PROVE AllOwned'
  <2>1. Owns(c, p, s)'
    BY <1>0, <1>1, <1>3, BusyCaller DEF GotoWith, Owns, WorkType, Job
  <2>2. \A r \in Pools : slots'[r] = IF r = p THEN Live(p) \cup {s} ELSE slots[r]
    BY <1>1, <1>3 DEF AddSlot, Store, RedisType
  <2>3. Live(p) \subseteq slots[p]
    BY DEF Live
  <2>4. ASSUME NEW r \in Pools, NEW t \in slots'[r] PROVE \E d \in Callers : Owns(d, r, t)'
    <3>1. CASE t \in slots[r]
      BY <1>2, <3>1 DEF AllOwned
    <3>2. CASE t \notin slots[r]
      BY <2>1, <2>2, <2>3, <2>4, <3>2
    <3> QED
      BY <3>1, <3>2
  <2> QED
    BY <2>4 DEF AllOwned
<1>4. CASE Store(p, Live(p), keyEnds[p])
  <2>1. \A r \in Pools : slots'[r] \subseteq slots[r]
    BY <1>1, <1>4 DEF Store, Live, RedisType
  <2> QED
    BY <1>2, <2>1, OwnersKept
<1> QED
  BY <1>0, <1>3, <1>4 DEF Acquire

\* A caller that meets no failure takes its slot with it or releases it.
LEMMA StepKeepsOwners ==
    ASSUME TypeOK, AllOwned, NEW c \in Callers, Step(c), ~Fault
    PROVE  AllOwned'
<1>1. Control(c) /\ WorkType /\ RedisType
  BY StepKeepsType DEF TypeOK
<1>2. \A d \in Callers \ {c} : pc'[d] = pc[d] /\ job'[d] = job[d]
  BY <1>1, Others
<1>3. ASSUME slots' = slots, pc[c] \notin {"uncount", "running"} PROVE AllOwned'
  BY <1>2, <1>3, OwnersKept DEF Owns
<1>4. CASE Uncount(c)
  <2>1. /\ slots' = slots /\ pc[c] = "uncount"
        /\ job[c].slot # NoSlot => pc' = [pc EXCEPT ![c] = "running"] /\ job' = job
    BY <1>4 DEF Uncount, Goto, slotVars
  <2>2. \A p \in Pools : \A s \in slots[p] : Owns(c, p, s) => Owns(c, p, s)'
    BY <1>1, <2>1, NoneAssumption DEF Owns, RedisType, WorkType
  <2> QED
    BY <1>2, <2>1, <2>2, OwnersKept DEF Owns
<1>5. CASE Release(c)
  <2>1. RemoveSlot(job[c].pool, job[c].slot) /\ job[c].pool \in Pools
    BY <1>1, <1>5, BusyCaller DEF Release, ReleaseSlot
  <2>2. /\ \A p \in Pools : slots'[p] \subseteq slots[p]
        /\ job[c].slot \notin slots'[job[c].pool]
    BY <1>1, <2>1 DEF RemoveSlot, Store, RedisType
  <2> QED
    BY <1>2, <2>2, OwnersKept DEF Owns
<1> QED
  BY <1>1, <1>3, <1>4, <1>5, AcquireKeepsOwners DEF Step, Try, Poll, Count, GiveUp, slotVars

\* No step leaves a slot without its caller unless it fails.
LEMMA NoLeakStep == TypeOK /\ NoLeak /\ [Next]_vars => NoLeak'
<1> SUFFICES ASSUME TypeOK, NoLeak, [Next]_vars, Calm' PROVE AllOwned'
  BY DEF NoLeak, AllOwned, Calm, Owns
<1>1. AllOwned /\ ~Fault
  BY CalmBefore DEF NoLeak, AllOwned, Calm, Owns, Fault
<1>2. ASSUME \A p \in Pools : slots'[p] \subseteq slots[p], UNCHANGED workVars PROVE AllOwned'
  BY <1>1, <1>2, OwnersKept DEF Owns, workVars
<1>3. CASE UNCHANGED <<slotVars, workVars>>
  BY <1>2, <1>3 DEF slotVars
<1>4. ASSUME NEW c \in Callers, NEW p \in Pools, NEW q \in Processes, Request(c, p, q)
      PROVE AllOwned'
  BY <1>1, <1>4, RequestMoves, Others, OwnersKept DEF Request, Owns, slotVars, TypeOK
<1>5. ASSUME NEW q \in Processes, Server(q) PROVE AllOwned'
  <2>1. ~Die(q)
    BY <1>5 DEF Calm, Die, TypeOK, StartType
  <2>2. ASSUME NEW p \in Pools, CleanupSlots(q, p) PROVE AllOwned'
    BY <1>2, <2>2 DEF CleanupSlots, Store, TypeOK, RedisType
  <2> QED
    BY <1>3, <1>5, <2>1, <2>2 DEF Server, StartProcess, CleanupFails, DeleteCounter
<1>6. ASSUME NEW p \in Pools, Prune(p) PROVE AllOwned'
  BY <1>2, <1>6 DEF Prune, Store, Live, TypeOK, RedisType
<1>7. CASE Tick
  BY <1>2, <1>7 DEF Tick
<1> QED
  BY <1>1, <1>3, <1>4, <1>5, <1>6, <1>7, StepKeepsOwners DEF Next, vars

\* On every way out of an acquisition, also when a starting server has removed its slot
\* or the key has expired, a caller gives back what it has: without failures every slot in
\* a set is somebody's who runs.
THEOREM NothingLeaks == Spec => []NoLeak
<1>1. Init => NoLeak
  BY DEF Init, NoLeak
<1> QED
  BY <1>1, TypeInit, TypeStep, NoLeakStep, PTL DEF Spec

-----------------------------------------------------------------------------
(* The wait counters.  A fault lets the counter fall behind the queue by   *)
(* one; and it may leave one waiter whose wait the counter's key does not  *)
(* outlive.                                                                *)

InQueue(c, p) == pc[c] \in {"wait", "uncount"} /\ job[c].pool = p /\ job[c].queued

\* The waiters that the counter may not outlive.
Late(p) == {c \in Waiters(p) : waitEnds[p] <= job[c].until}

QueueAt(p) ==
    /\ waiting[p] <= MaxWaiting[p] /\ waitEnds[p] <= now + WaitTTL
    /\ p \in Patient \ adrift =>
         /\ Cardinality(Waiters(p)) <= waiting[p] + faults
         /\ Cardinality(Late(p)) <= faults
         /\ Calm => waiting[p] <= Cardinality(Waiters(p))

\* Only who has been counted goes on to be uncounted.
UncountInv == \A c \in Callers : pc[c] = "uncount" => job[c].queued

QueueInv == TypeOK /\ UncountInv /\ \A p \in Pools : QueueAt(p)

\* Waiters can be counted.
LEMMA FiniteQueues ==
    ASSUME NEW p
    PROVE  /\ IsFiniteSet(Waiters(p)) /\ Cardinality(Waiters(p)) \in Nat
           /\ IsFiniteSet(Waiters(p)') /\ Cardinality(Waiters(p)') \in Nat
           /\ IsFiniteSet(Late(p)) /\ Cardinality(Late(p)) \in Nat
           /\ IsFiniteSet(Late(p)') /\ Cardinality(Late(p)') \in Nat
<1>1. Waiters(p) \in SUBSET Callers /\ Waiters(p)' \in SUBSET Callers
  BY DEF Waiters
<1>2. Late(p) \in SUBSET Callers /\ Late(p)' \in SUBSET Callers
  BY <1>1 DEF Late
<1>3. ASSUME NEW S \in SUBSET Callers PROVE IsFiniteSet(S) /\ Cardinality(S) \in Nat
  BY FiniteAssumption, FS_Subset, FS_CardinalityType
<1> QED
  BY <1>1, <1>2, <1>3

\* A queue that nobody joins, beside an untouched counter.
LEMMA QueueKeptAt ==
    ASSUME NEW p \in Pools, QueueAt(p), TypeOK, TypeOK',
           waiting'[p] = waiting[p], waitEnds'[p] = waitEnds[p], p \in adrift => p \in adrift',
           UNCHANGED now, faults <= faults',
           Waiters(p)' \subseteq Waiters(p),
           \A c \in Waiters(p)' : job'[c].until = job[c].until,
           Calm' => Calm /\ Waiters(p)' = Waiters(p)
    PROVE  QueueAt(p)'
<1>1. /\ waiting[p] \in Nat /\ waitEnds[p] \in Nat /\ now \in Nat
      /\ faults \in Nat /\ faults' \in Nat
  BY DEF TypeOK, RedisType
<1>2. Late(p)' \subseteq Late(p)
  BY DEF Late
<1>3. /\ Cardinality(Waiters(p)') <= Cardinality(Waiters(p))
      /\ Cardinality(Late(p)') <= Cardinality(Late(p))
  BY <1>2, FiniteQueues, FS_Subset
<1>4. /\ Cardinality(Waiters(p)') \in Nat /\ Cardinality(Waiters(p)) \in Nat
      /\ Cardinality(Late(p)') \in Nat /\ Cardinality(Late(p)) \in Nat
  BY FiniteQueues
<1> QED
  BY <1>1, <1>3, <1>4 DEF QueueAt

\* The caller of the step waits where it waited, if it did.
SameQueue(c) ==
    /\ \A p \in Pools : InQueue(c, p)' <=> InQueue(c, p)
    /\ \A p \in Pools : InQueue(c, p) => job'[c].until = job[c].until
    /\ pc'[c] = "uncount" => job'[c].queued

\* A step that neither touches the counter nor changes who waits keeps the queue.
LEMMA SameQueueKept ==
    ASSUME QueueInv, TypeOK', NEW c \in Callers, Control(c), SameQueue(c),
           UNCHANGED <<queueVars, adrift, now>>, faults <= faults', Calm' => Calm
    PROVE  QueueInv'
<1>1. \A d \in Callers \ {c} : pc'[d] = pc[d] /\ job'[d] = job[d]
  BY Others DEF QueueInv, TypeOK
<1>2. UncountInv'
  BY <1>1 DEF SameQueue, UncountInv, QueueInv
<1>3. ASSUME NEW p \in Pools PROVE QueueAt(p)'
  <2>1. \A d \in Callers : InQueue(d, p)' <=> InQueue(d, p)
    BY <1>1 DEF SameQueue, InQueue
  <2>2. Waiters(p)' = Waiters(p)
    BY <2>1 DEF InQueue, Waiters
  <2>3. \A d \in Waiters(p)' : job'[d].until = job[d].until
    BY <1>1, <2>2 DEF SameQueue, InQueue, Waiters
  <2> QED
    BY <2>2, <2>3, QueueKeptAt DEF QueueInv, queueVars
<1> QED
  BY <1>2, <1>3 DEF QueueInv

\* A pool whose counter and queue the step leaves alone.
LEMMA OtherPool ==
    ASSUME QueueInv, TypeOK', NEW c \in Callers, Control(c), NEW p \in Pools, p # job[c].pool,
           job'[c] # NoJob => job'[c].pool = job[c].pool,
           waiting'[p] = waiting[p], waitEnds'[p] = waitEnds[p],
           UNCHANGED <<adrift, now>>, faults <= faults', Calm' => Calm
    PROVE  QueueAt(p)'
<1>1. \A d \in Callers \ {c} : pc'[d] = pc[d] /\ job'[d] = job[d]
  BY Others DEF QueueInv, TypeOK
<1>2. c \notin Waiters(p) /\ c \notin Waiters(p)'
  BY DEF Waiters, TypeOK, WorkType
<1>3. Waiters(p)' = Waiters(p) /\ \A d \in Waiters(p)' : job'[d].until = job[d].until
  BY <1>1, <1>2 DEF Waiters
<1> QED
  BY <1>3, QueueKeptAt DEF QueueInv

\* Trying and polling are such steps.
LEMMA AcquireSameQueue ==
    ASSUME TypeOK, NEW c \in Callers,
           \/ pc[c] = "try" /\ Acquire(c, "running", "count", "idle")
           \/ Poll(c)
    PROVE  SameQueue(c)
<1>1. WorkType /\ job[c] \in Job
  BY BusyCaller DEF TypeOK, Poll
<1>2. CASE pc[c] = "try" /\ Acquire(c, "running", "count", "idle")
  <2>1. pc'[c] \in {"running", "count", "idle"}
    BY <1>1, <1>2 DEF Acquire, Goto, GotoWith, Return, WorkType
  <2> QED
    BY <1>2, <2>1 DEF SameQueue, InQueue
<1>3. CASE pc[c] = "wait" /\ job[c].queued /\ Acquire(c, "uncount", "wait", "uncount")
  <2>1. /\ pc'[c] \in {"wait", "uncount"}
        /\ job'[c] = job[c] \/ \E s \in NewSlots(job[c].process) : job'[c] = [job[c] EXCEPT !.slot = s]
    BY <1>1, <1>3 DEF Acquire, Goto, GotoWith, WorkType
  <2>2. job'[c].pool = job[c].pool /\ job'[c].until = job[c].until /\ job'[c].queued = job[c].queued
    BY <1>1, <2>1 DEF Job
  <2> QED
    BY <1>3, <2>1, <2>2 DEF SameQueue, InQueue
<1>4. CASE pc[c] = "wait" /\ ~job[c].queued /\ Acquire(c, "running", "wait", "idle")
  <2>1. pc'[c] \in {"running", "idle"} \/ (pc'[c] = "wait" /\ job'[c] = job[c])
    BY <1>1, <1>4 DEF Acquire, Goto, GotoWith, Return, WorkType
  <2> QED
    BY <1>4, <2>1 DEF SameQueue, InQueue
<1> QED
  BY <1>2, <1>3, <1>4 DEF Poll

\* A caller joins the queue, counted or, through a fault, not.
LEMMA JoinKeepsQueue ==
    ASSUME QueueInv, TypeOK', NEW c \in Callers, pc[c] = "count", BeginWait(c, TRUE),
           \/ HasSeat(job[c].pool) /\ Increment(job[c].pool)
           \/ UNCHANGED queueVars /\ faults' > faults,
           UNCHANGED <<adrift, now>>, faults <= faults', Calm' => Calm
    PROVE  QueueInv'
<1>0. PICK p \in Pools : p = job[c].pool
  BY BusyCaller DEF QueueInv, TypeOK
<1>1. /\ WorkType /\ RedisType /\ now \in Nat /\ faults \in Nat /\ faults' \in Nat
      /\ Timeout[p] \in Nat /\ MaxWaiting[p] \in Nat /\ waiting[p] \in Nat /\ waitEnds[p] \in Nat
  BY DEF QueueInv, TypeOK, RedisType
<1>2. Control(c) /\ \A d \in Callers \ {c} : pc'[d] = pc[d] /\ job'[d] = job[d]
  BY <1>1, BeginsWait, Others
<1>3. /\ pc'[c] = "wait" /\ job'[c].pool = p /\ job'[c].queued
      /\ job'[c].until = now + Timeout[p]
  BY <1>0, <1>1, BusyCaller DEF BeginWait, WorkType, Job
<1>4. Waiters(p)' = Waiters(p) \cup {c} /\ c \notin Waiters(p)
  BY <1>2, <1>3 DEF Waiters
<1>5. Cardinality(Waiters(p)') = Cardinality(Waiters(p)) + 1
  BY <1>4, FiniteQueues, FS_AddElement
<1>6. UncountInv'
  BY <1>2, <1>3 DEF UncountInv, QueueInv
<1>7. ASSUME NEW r \in Pools, r # p PROVE QueueAt(r)'
  <2>1. waiting'[r] = waiting[r] /\ waitEnds'[r] = waitEnds[r]
    BY <1>0, <1>1, <1>7 DEF Increment, queueVars, RedisType
  <2> QED
    BY <1>0, <1>2, <1>3, <1>7, <2>1, OtherPool
<1>8. QueueAt(p)'
  <2>1. CASE HasSeat(p) /\ Increment(p)
    <3>1. waiting'[p] = waiting[p] + 1 /\ waitEnds'[p] = now + WaitTTL /\ waiting[p] < MaxWaiting[p]
      BY <1>1, <2>1 DEF Increment, HasSeat, RedisType
    <3>2. ASSUME p \in Patient \ adrift PROVE Late(p)' \subseteq Late(p)
      <4>1. Timeout[p] < WaitTTL /\ waitEnds[p] <= now + WaitTTL
        BY <3>2 DEF Patient, QueueInv, QueueAt
      <4>2. SUFFICES ASSUME NEW d \in Late(p)' PROVE d \in Late(p)
        OBVIOUS
      <4>3. d \in Waiters(p)' /\ waitEnds'[p] <= job'[d].until
        BY <4>2 DEF Late
      <4>4. d # c
        BY <1>1, <1>3, <3>1, <4>1, <4>3
      <4>5. d \in Waiters(p) /\ job'[d] = job[d] /\ job[d].until \in Nat
        BY <1>1, <1>2, <1>4, <4>3, <4>4, BusyCaller DEF Waiters
      <4> QED
        BY <1>1, <3>1, <4>1, <4>3, <4>5 DEF Late
    <3>3. p \in Patient \ adrift => Cardinality(Late(p)') <= Cardinality(Late(p))
      BY <3>2, FiniteQueues, FS_Subset
    <3> QED
      BY <1>1, <1>5, <3>1, <3>3, FiniteQueues DEF QueueInv, QueueAt
  <2>2. CASE UNCHANGED queueVars /\ faults' > faults
    <3>1. waiting'[p] = waiting[p] /\ waitEnds'[p] = waitEnds[p] /\ faults' >= faults + 1 /\ ~Calm'
      BY <1>1, <2>2 DEF queueVars, Calm
    <3>2. Late(p)' \subseteq Late(p) \cup {c}
      BY <1>2, <1>4, <3>1 DEF Late, Waiters
    <3>3. /\ IsFiniteSet(Late(p) \cup {c})
          /\ Cardinality(Late(p) \cup {c}) \in {Cardinality(Late(p)), Cardinality(Late(p)) + 1}
      BY FiniteQueues, FS_AddElement, Zenon
    <3>4. Cardinality(Late(p)') <= Cardinality(Late(p) \cup {c})
      BY <3>2, <3>3, FS_Subset
    <3>5. Cardinality(Late(p)') <= Cardinality(Late(p)) + 1
      BY <3>3, <3>4, FiniteQueues
    <3> QED
      BY <1>1, <1>5, <3>1, <3>5, FiniteQueues DEF QueueInv, QueueAt
  <2> QED
    BY <1>0, <2>1, <2>2
<1> QED
  BY <1>6, <1>7, <1>8 DEF QueueInv

\* A caller leaves the queue; its decrement may be lost.
LEMMA UncountKeepsQueue ==
    ASSUME QueueInv, TypeOK', NEW c \in Callers, Uncount(c), Control(c), faults <= faults',
           Calm' => Calm
    PROVE  QueueInv'
<1>0. PICK p \in Pools : p = job[c].pool
  BY BusyCaller DEF QueueInv, TypeOK, Uncount
<1>1. /\ WorkType /\ RedisType /\ now \in Nat /\ faults \in Nat /\ faults' \in Nat
      /\ MaxWaiting[p] \in Nat /\ waiting[p] \in Nat /\ waitEnds[p] \in Nat
  BY DEF QueueInv, TypeOK, RedisType
<1>2. /\ \A d \in Callers \ {c} : pc'[d] = pc[d] /\ job'[d] = job[d]
      /\ pc'[c] \in {"idle", "running"} /\ (job'[c] = NoJob \/ job'[c] = job[c])
      /\ UNCHANGED <<adrift, now>>
  <2>1. (Return(c) \/ Goto(c, "running")) /\ UNCHANGED <<adrift, now>>
    BY DEF Uncount
  <2>2. \A d \in Callers \ {c} : pc'[d] = pc[d] /\ job'[d] = job[d]
    BY <1>1, Others
  <2> QED
    BY <1>1, <2>1, <2>2 DEF Return, Goto, WorkType
<1>3. c \in Waiters(p) /\ Waiters(p)' = Waiters(p) \ {c}
  <2>1. pc[c] = "uncount" /\ job[c].queued /\ c \notin Waiters(p)'
    BY <1>2 DEF QueueInv, UncountInv, Uncount, Waiters
  <2>2. c \in Waiters(p)
    BY <1>0, <2>1 DEF Waiters
  <2>3. \A d \in Callers \ {c} : d \in Waiters(p)' <=> d \in Waiters(p)
    BY <1>2 DEF Waiters
  <2>4. Waiters(p) \subseteq Callers /\ Waiters(p)' \subseteq Callers
    BY DEF Waiters
  <2> QED
    BY <2>1, <2>2, <2>3, <2>4
<1>4. Cardinality(Waiters(p)') = Cardinality(Waiters(p)) - 1
  <2>1. Cardinality(Waiters(p) \ {c}) = Cardinality(Waiters(p)) - 1
    BY <1>3, FiniteQueues, FS_RemoveElement, Zenon
  <2> QED
    BY <1>3, <2>1
<1>5. UncountInv'
  BY <1>2 DEF UncountInv, QueueInv
<1>6. ASSUME NEW r \in Pools, r # p PROVE QueueAt(r)'
  <2>1. waiting'[r] = waiting[r] /\ waitEnds'[r] = waitEnds[r]
    BY <1>0, <1>1, <1>6 DEF Uncount, Decrement, SetCounter, queueVars, RedisType
  <2> QED
    BY <1>0, <1>2, <1>6, <2>1, OtherPool
<1>7. QueueAt(p)'
  <2>1. \A d \in Waiters(p)' : d \in Waiters(p) /\ job'[d] = job[d]
    BY <1>2, <1>3 DEF Waiters
  <2>2. \/ waiting[p] > 0 /\ SetCounter(p, waiting[p] - 1)
        \/ UNCHANGED queueVars /\ (waiting[p] = 0 \/ faults' > faults)
    BY <1>0, <1>1 DEF Uncount, Decrement, Fault
  <2>3. CASE waiting[p] > 0 /\ SetCounter(p, waiting[p] - 1) /\ waiting[p] # 1
    <3>1. waiting'[p] = waiting[p] - 1 /\ waitEnds'[p] = waitEnds[p]
      BY <1>1, <2>3 DEF SetCounter, RedisType
    <3>2. Late(p)' \subseteq Late(p)
      BY <2>1, <3>1 DEF Late
    <3>3. Cardinality(Late(p)') <= Cardinality(Late(p))
      BY <3>2, FiniteQueues, FS_Subset
    <3> QED
      BY <1>1, <1>2, <1>4, <3>1, <3>3, FiniteQueues DEF QueueInv, QueueAt
  <2>4. CASE SetCounter(p, waiting[p] - 1) /\ waiting[p] = 1
    <3>1. waiting'[p] = 0 /\ waitEnds'[p] = 0
      BY <1>1, <2>4 DEF SetCounter, RedisType
    <3>2. Cardinality(Late(p)') <= Cardinality(Waiters(p)')
      BY FiniteQueues, FS_Subset DEF Late
    <3> QED
      BY <1>1, <1>2, <1>4, <2>4, <3>1, <3>2, FiniteQueues DEF QueueInv, QueueAt
  <2>5. CASE UNCHANGED queueVars /\ (waiting[p] = 0 \/ faults' > faults)
    <3>1. waiting'[p] = waiting[p] /\ waitEnds'[p] = waitEnds[p]
      BY <2>5 DEF queueVars
    <3>2. Late(p)' \subseteq Late(p)
      BY <2>1, <3>1 DEF Late
    <3>3. Cardinality(Late(p)') <= Cardinality(Late(p))
      BY <3>2, FiniteQueues, FS_Subset
    <3>4. Calm' => waiting[p] = 0
      BY <1>1, <2>5 DEF Calm
    <3> QED
      BY <1>1, <1>2, <1>4, <3>1, <3>3, <3>4, FiniteQueues DEF QueueInv, QueueAt
  <2> QED
    BY <2>2, <2>3, <2>4, <2>5
<1> QED
  BY <1>5, <1>6, <1>7 DEF QueueInv

\* Every step of a caller keeps the queue within its bound,
LEMMA StepKeepsQueue ==
    ASSUME QueueInv, TypeOK', NEW c \in Callers, Step(c), faults <= faults', Calm' => Calm
    PROVE  QueueInv'
<1>1. Control(c) /\ TypeOK /\ WorkType
  BY StepKeepsType DEF QueueInv, TypeOK
<1>2. CASE Try(c)
  BY <1>1, <1>2, AcquireSameQueue, SameQueueKept DEF Try
<1>3. CASE Poll(c)
  BY <1>1, <1>3, AcquireSameQueue, SameQueueKept DEF Poll
<1>4. CASE GiveUp(c)
  <2>1. SameQueue(c)
    BY <1>1, <1>4 DEF GiveUp, Goto, Return, SameQueue, InQueue, WorkType
  <2> QED
    BY <1>1, <1>4, <2>1, SameQueueKept DEF GiveUp
<1>5. CASE Release(c)
  <2>1. SameQueue(c)
    BY <1>1, <1>5 DEF Release, Return, SameQueue, InQueue, WorkType
  <2> QED
    BY <1>1, <1>5, <2>1, SameQueueKept DEF Release
<1>6. CASE Count(c)
  <2>0. pc[c] = "count" /\ UNCHANGED <<adrift, now>>
    BY <1>6 DEF Count
  <2>1. \/ BeginWait(c, TRUE) /\ HasSeat(job[c].pool) /\ Increment(job[c].pool)
        \/ BeginWait(c, TRUE) /\ UNCHANGED queueVars /\ Fault
        \/ (BeginWait(c, FALSE) \/ Return(c)) /\ UNCHANGED queueVars
    BY <1>6 DEF Count
  <2>2. Fault => faults' > faults
    BY <1>1 DEF Fault, TypeOK
  <2>3. CASE (BeginWait(c, FALSE) \/ Return(c)) /\ UNCHANGED queueVars
    <3>1. BeginWait(c, FALSE) => pc'[c] = "wait" /\ ~job'[c].queued
      BY <1>1, <2>0, BusyCaller DEF BeginWait, WorkType, Job
    <3>2. SameQueue(c)
      BY <1>1, <2>0, <2>3, <3>1 DEF Return, SameQueue, InQueue, WorkType
    <3> QED
      BY <1>1, <2>0, <2>3, <3>2, SameQueueKept
  <2> QED
    BY <2>0, <2>1, <2>2, <2>3, JoinKeepsQueue
<1>7. CASE Uncount(c)
  BY <1>1, <1>7, UncountKeepsQueue
<1> QED
  BY <1>2, <1>3, <1>4, <1>5, <1>6, <1>7 DEF Step

\* A step that moves nobody and touches no counter.
LEMMA BystanderKeepsQueue ==
    ASSUME QueueInv, TypeOK', UNCHANGED <<queueVars, workVars, adrift, now>>,
           faults <= faults', Calm' => Calm
    PROVE  QueueInv'
<1>1. UncountInv'
  BY DEF UncountInv, QueueInv, workVars
<1>2. ASSUME NEW p \in Pools PROVE QueueAt(p)'
  <2>1. Waiters(p)' = Waiters(p) /\ \A d \in Callers : job'[d].until = job[d].until
    BY DEF Waiters, workVars
  <2> QED
    BY <2>1, QueueKeptAt DEF QueueInv, queueVars, Waiters
<1> QED
  BY <1>1, <1>2 DEF QueueInv

\* Nobody is counted in a pool that nobody waits for; a pool that somebody waits for is
\* adrift from here on.
LEMMA DeleteKeepsQueue ==
    ASSUME QueueInv, TypeOK', NEW q \in Processes, NEW p \in Pools, DeleteCounter(q, p),
           faults <= faults', Calm' => Calm
    PROVE  QueueInv'
<1>1. RedisType /\ now \in Nat /\ faults \in Nat /\ faults' \in Nat /\ MaxWaiting[p] \in Nat
  BY DEF QueueInv, TypeOK
<1>2. /\ \A r \in Pools : Waiters(r)' = Waiters(r)
      /\ \A d \in Callers : job'[d].until = job[d].until
      /\ UncountInv' /\ UNCHANGED now
  BY DEF DeleteCounter, Waiters, workVars, UncountInv, QueueInv
<1>3. waiting'[p] = 0 /\ waitEnds'[p] = 0 /\ (Waiters(p) # {} => p \in adrift')
  BY <1>1 DEF DeleteCounter, SetCounter, RedisType
<1>4. ASSUME NEW r \in Pools, r # p PROVE QueueAt(r)'
  <2>1. waiting'[r] = waiting[r] /\ waitEnds'[r] = waitEnds[r] /\ (r \in adrift => r \in adrift')
    BY <1>1, <1>4 DEF DeleteCounter, SetCounter, RedisType
  <2> QED
    BY <1>2, <2>1, QueueKeptAt DEF QueueInv, Waiters
<1>5. QueueAt(p)'
  <2>1. Waiters(p)' = {} => Cardinality(Waiters(p)') = 0 /\ Cardinality(Late(p)') = 0
    <3>1. Waiters(p)' = {} => Late(p)' = {}
      BY DEF Late
    <3> QED
      BY <3>1, FS_EmptySet
  <2> QED
    BY <1>1, <1>2, <1>3, <2>1 DEF QueueAt
<1> QED
  BY <1>2, <1>4, <1>5 DEF QueueInv

\* and so does a death, which is a failure.
LEMMA DieKeepsQueue ==
    ASSUME QueueInv, TypeOK', NEW q \in Processes, Die(q), faults <= faults', Calm' => Calm
    PROVE  QueueInv'
<1>1. \A c \in Callers : pc'[c] # "idle" => pc'[c] = pc[c] /\ job'[c] = job[c]
  BY DEF Die, QueueInv, TypeOK, WorkType
<1>2. UncountInv'
  BY <1>1 DEF UncountInv, QueueInv
<1>3. ~Calm'
  BY DEF Calm, Die, QueueInv, TypeOK, StartType
<1>4. ASSUME NEW p \in Pools PROVE QueueAt(p)'
  <2>1. Waiters(p)' \subseteq Waiters(p) /\ \A c \in Waiters(p)' : job'[c].until = job[c].until
    BY <1>1 DEF Waiters
  <2> QED
    BY <1>3, <2>1, QueueKeptAt DEF QueueInv, Die, queueVars
<1> QED
  BY <1>2, <1>4 DEF QueueInv

\* When Redis deletes a counter, whoever still waits is late.
LEMMA TickKeepsQueue ==
    ASSUME QueueInv, TypeOK', Tick, faults <= faults', Calm' => Calm
    PROVE  QueueInv'
<1>1. /\ RedisType /\ WorkType /\ now \in Nat /\ now' = now + 1
      /\ faults' = faults /\ faults \in Nat /\ UNCHANGED <<workVars, adrift>> /\ Prompt
  BY DEF QueueInv, TypeOK, Tick
<1>2. UncountInv'
  BY <1>1 DEF UncountInv, QueueInv, workVars
<1>3. ASSUME NEW p \in Pools PROVE QueueAt(p)'
  <2>1. Waiters(p)' = Waiters(p) /\ \A d \in Waiters(p) : job'[d].until = job[d].until
    BY <1>1 DEF Waiters, workVars
  <2>2. /\ waiting[p] \in Nat /\ waitEnds[p] \in Nat /\ MaxWaiting[p] \in Nat
        /\ waiting[p] <= MaxWaiting[p] /\ waitEnds[p] <= now + WaitTTL
    BY <1>1 DEF RedisType, QueueInv, QueueAt
  <2>3. CASE waitEnds[p] <= now'
    <3>1. waiting'[p] = 0 /\ waitEnds'[p] = 0
      BY <2>3 DEF Tick
    <3>2. \A d \in Waiters(p) : job[d].until > now /\ job[d].until \in Nat
      BY <1>1, BusyCaller DEF Waiters, Prompt
    <3>3. Late(p) = Waiters(p) /\ Late(p)' = Waiters(p)
      BY <1>1, <2>1, <2>2, <2>3, <3>1, <3>2 DEF Late
    <3> QED
      BY <1>1, <2>1, <2>2, <3>1, <3>3, FiniteQueues DEF QueueInv, QueueAt
  <2>4. CASE ~(waitEnds[p] <= now')
    <3>1. waiting'[p] = waiting[p] /\ waitEnds'[p] = waitEnds[p]
      BY <2>4 DEF Tick
    <3>2. Late(p)' = Late(p)
      BY <2>1, <3>1 DEF Late
    <3>3. Calm' => Calm
      OBVIOUS
    <3> QED
      BY <1>1, <2>1, <2>2, <3>1, <3>2 DEF QueueInv, QueueAt
  <2> QED
    BY <2>3, <2>4
<1> QED
  BY <1>2, <1>3 DEF QueueInv

\* Nobody waits at first.
LEMMA QueueInit == Init => QueueInv
<1> SUFFICES ASSUME Init PROVE UncountInv /\ \A p \in Pools : QueueAt(p)
  BY TypeInit DEF QueueInv
<1>1. ASSUME NEW p \in Pools PROVE QueueAt(p)
  <2>1. Waiters(p) = {} /\ Late(p) = {}
    BY DEF Init, Waiters, Late
  <2>2. waiting[p] = 0 /\ waitEnds[p] = 0 /\ now = 0 /\ faults = 0 /\ MaxWaiting[p] \in Nat
    BY DEF Init
  <2> QED
    BY <2>1, <2>2, FS_EmptySet DEF QueueAt
<1> QED
  BY <1>1 DEF Init, UncountInv

\* The invariant is inductive.
LEMMA QueueStep == QueueInv /\ [Next]_vars => QueueInv'
<1> SUFFICES ASSUME QueueInv, [Next]_vars PROVE QueueInv'
  OBVIOUS
<1>1. TypeOK /\ TypeOK' /\ faults <= faults' /\ (Calm' => Calm)
  BY TypeStep, CalmBefore DEF QueueInv
<1>2. ASSUME NEW c \in Callers, NEW p \in Pools, NEW q \in Processes, Request(c, p, q)
      PROVE QueueInv'
  <2>1. Control(c) /\ SameQueue(c)
    BY <1>1, <1>2, RequestMoves DEF Request, SameQueue, InQueue, TypeOK, WorkType
  <2> QED
    BY <1>1, <1>2, <2>1, SameQueueKept DEF Request
<1>3. ASSUME NEW q \in Processes, Server(q) PROVE QueueInv'
  BY <1>1, <1>3, DieKeepsQueue, DeleteKeepsQueue, BystanderKeepsQueue
     DEF Server, StartProcess, CleanupFails, CleanupSlots
<1>4. CASE UNCHANGED vars \/ \E p \in Pools : Prune(p)
  BY <1>1, <1>4, BystanderKeepsQueue DEF vars, Prune
<1> QED
  BY <1>1, <1>2, <1>3, <1>4, StepKeepsQueue, TickKeepsQueue DEF Next

\* In every pool whose counter outlives a wait, and whose counter no starting server has
\* deleted under the waiting, the counter says exactly how many wait as long as nothing
\* has failed.
THEOREM CounterIsExact == Spec => []QueueExact
<1>1. Spec => []QueueInv
  BY QueueInit, QueueStep, PTL DEF Spec
<1>2. ASSUME QueueInv, NEW p \in Patient \ adrift, Calm PROVE waiting[p] = Cardinality(Waiters(p))
  <2>1. p \in Pools /\ faults = 0 /\ waiting[p] \in Nat /\ QueueAt(p)
    BY <1>2 DEF Patient, Calm, QueueInv, TypeOK, RedisType
  <2> QED
    BY <1>2, <2>1, FiniteQueues DEF QueueAt
<1>3. QueueInv => QueueExact
  BY <1>2 DEF QueueExact, Calm
<1> QED
  BY <1>1, <1>3, PTL

\* However many calls fail, servers die and keys expire: a fault lets in one caller
\* beyond maxWait, not more.
THEOREM QueueIsBounded == Spec => []QueueBounded
<1>1. Spec => []QueueInv
  BY QueueInit, QueueStep, PTL DEF Spec
<1>2. ASSUME QueueInv, NEW p \in Patient \ adrift
      PROVE Cardinality(Waiters(p)) <= MaxWaiting[p] + faults
  <2>1. p \in Pools /\ faults \in Nat /\ waiting[p] \in Nat /\ MaxWaiting[p] \in Nat /\ QueueAt(p)
    BY <1>2 DEF Patient, QueueInv, TypeOK, RedisType
  <2> QED
    BY <1>2, <2>1, FiniteQueues DEF QueueAt
<1>3. QueueInv => QueueBounded
  BY <1>2 DEF QueueBounded
<1> QED
  BY <1>1, <1>3, PTL
=============================================================================
