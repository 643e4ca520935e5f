----------------------- MODULE SchedulerSnapshotProofs -----------------------
(***************************************************************************)
(* Proofs about SchedulerSnapshot for any number of writers, transactions, *)
(* workers, pollers and keys, and any bounds on changes and faults.        *)
(***************************************************************************)
EXTENDS SchedulerSnapshot, FiniteSetTheorems, TLAPS

-----------------------------------------------------------------------------
(* The inductive invariants. *)

Places == {"idle", "mark", "list", "account", "lock", "load", "number",
           "activate", "unlock", "watermark", "cleanup", "lag"}
Roles == {"none", "poll", "rebuild", "request"}

\* The types without the bounds, which take counting.
WideEvent  == [id : Nat, key : Keys, pending : BOOLEAN]
WideWriter == [pc : {"idle", "insert", "commit"}, id : Nat, key : Keys]
WideWorker == [role : Roles, pc : Places, mark : Nat, last : Nat, gen : Nat,
               number : Nat, ok : BOOLEAN]
Shape ==
  /\ row \in Nat /\ outbox \subseteq WideEvent /\ seq \in Nat /\ watermark \in Nat
  /\ list \in Nat \cup {None} /\ lock \in Workers \cup {NoOne}
  /\ writer \in [Writers -> WideWriter] /\ worker \in [Workers -> WideWorker]
  /\ faults \in 0..MaxFaults

\* No load has seen a change that has not been made.
LoadsInv ==
  /\ row <= MaxGen
  /\ list # None => list <= row
  /\ \A v \in Workers : worker[v].gen <= row

\* The row lock: one transaction at a time, with a change to make.
Open(w) == writer[w].pc \in {"insert", "commit"}
RowLockInv ==
  \A w \in Transactions : Open(w) =>
    row < MaxGen /\ \A u \in Transactions : Open(u) => u = w

\* What the sequence has given is paid for by a change or a fault.
Inserting == {w \in Writers \ Transactions : writer[w].pc = "insert"}
Unpaid == IF \E w \in Transactions : writer[w].pc = "commit" THEN 1 ELSE 0
SequenceInv ==
  /\ IsFiniteSet(Inserting)
  /\ seq + Cardinality(Inserting) <= row + faults + Unpaid

\* Nobody knows an id that the sequence has not given.
IdsInv ==
  /\ watermark <= seq
  /\ \A e \in outbox : e.id <= seq
  /\ \A w \in Writers : writer[w].id <= seq
  /\ \A v \in Workers : worker[v].mark <= seq /\ worker[v].last <= seq

\* The numbers above the active version are different, and no more than there are faults
\* are missing below the greatest.
NumbersInv ==
  /\ \A v \in Workers : worker[v].number > 0 => worker[v].pc = "activate"
  /\ \A u, v \in Numbered : worker[u].number = worker[v].number => u = v
  /\ \A v \in Numbered : worker[v].number <= Cardinality(Numbered) + faults

BoundsInv == LoadsInv /\ RowLockInv /\ SequenceInv /\ IdsInv /\ NumbersInv

\* Until an old load gets a new number, the numbers are in the order of the loads.
OrderInv == "misnumbered" \in excuses \/
  /\ \A v \in Numbered : list # None => list <= worker[v].gen
  /\ \A u, v \in Numbered :
       worker[u].number < worker[v].number => worker[u].gen <= worker[v].gen
  /\ \A v \in Workers : worker[v].pc = "activate" /\ worker[v].number = 0
       => list # None /\ worker[v].gen <= list

\* A load is fresh for a reader of the outbox from last on when it has seen every change,
\* or an event that the reader finds is there or is still to come.
Announcing(w) == writer[w].pc = "insert" \/ (writer[w].pc = "commit" /\ writer[w].id # 0)
Coming(last) ==
  \/ \E w \in Writers \ Transactions : Announcing(w)
  \/ \E e \in outbox : e.id > last
Fresh(load, last) == load = row \/ Coming(last)
FreshList(last) == list # None /\ Fresh(list, last)

Polls(v) == worker[v].role = "poll"
Loaded(v) == worker[v].pc \in {"number", "activate"}
Rebuilt(v) == \/ worker[v].pc \in {"watermark", "cleanup"}
              \/ worker[v].pc = "unlock" /\ worker[v].ok /\ Polls(v)

FreshInv == excuses # {} \/
  /\ \A e \in outbox : e.pending =>
       /\ watermark < e.id
       /\ \A v \in Workers : worker[v].mark < e.id /\ worker[v].last < e.id
  /\ list # None => Fresh(list, watermark)
  /\ \A v \in Workers :
       /\ Loaded(v) /\ list = None => Fresh(worker[v].gen, watermark)
       /\ Loaded(v) /\ Polls(v) => \/ Fresh(worker[v].gen, worker[v].last)
                                   \/ FreshList(worker[v].last)
       /\ Rebuilt(v) => FreshList(worker[v].last)

-----------------------------------------------------------------------------
(* What a step of a worker does to it and to the rest. *)

Alone(w) ==
  /\ worker' \in [Workers -> WideWorker]
  /\ \A v \in Workers \ {w} : worker'[v] = worker[v]

\* Steps that put the worker in a place without a load, with nothing new in its hands.
StepsAside(w) ==
  LET i == worker[w]  j == worker'[w] IN
  /\ Alone(w)
  /\ j.pc \notin {"number", "activate"} /\ j.number = 0
  /\ j.mark \in {0, i.mark} /\ j.last \in {0, i.last} /\ j.gen \in {0, i.gen}
  /\ i.number > 0 => faults < faults'
  /\ Rebuilt(w)' => excuses' # {} \/ (Rebuilt(w) /\ j.last = i.last)
  /\ UNCHANGED <<row, outbox, seq, watermark, list, writer>>
  /\ excuses \subseteq excuses' /\ faults' \in 0..MaxFaults /\ faults <= faults'
  /\ lock' \in Workers \cup {NoOne}

\* The others: a poll reads the watermark, reads the events, sets the watermark, deletes.
Marks(w) ==
  LET i == worker[w]  j == worker'[w] IN
  /\ Alone(w) /\ i.number = 0 /\ j.pc = "list"
  /\ j.mark = watermark /\ j.last = i.last /\ j.gen = i.gen /\ j.number = 0
  /\ UNCHANGED <<row, outbox, seq, redis, writer, excuses, faults>>

Reads(w) ==
  LET i == worker[w]  j == worker'[w] IN
  /\ Alone(w) /\ i.number = 0 /\ j.pc \in {"idle", "account"}
  /\ j.mark = 0 /\ j.gen \in {0, i.gen} /\ j.number = 0
  /\ j.last = 0 \/ \E e \in outbox : j.last = e.id
  /\ outbox' = ReleaseKeys(After(i.mark))
  /\ UNCHANGED <<row, seq, redis, writer, excuses>>
  /\ faults' \in 0..MaxFaults /\ faults <= faults'

Sets(w) ==
  LET i == worker[w]  j == worker'[w] IN
  /\ Alone(w) /\ i.number = 0 /\ i.pc = "watermark" /\ j.pc = "cleanup"
  /\ j.mark = i.mark /\ j.last = i.last /\ j.gen = i.gen /\ j.number = 0
  /\ watermark' = i.last
  /\ UNCHANGED <<row, outbox, seq, list, lock, writer, excuses, faults>>

Deletes(w) ==
  LET i == worker[w]  j == worker'[w] IN
  /\ Alone(w) /\ i.number = 0 /\ i.pc = "cleanup" /\ j.pc = "lag"
  /\ j.mark = 0 /\ j.last = 0 /\ j.gen = 0 /\ j.number = 0
  /\ outbox' \subseteq outbox /\ \A e \in outbox \ outbox' : e.id <= i.last
  /\ UNCHANGED <<row, seq, redis, writer, excuses, faults>>

\* A rebuild or a request loads the accounts, takes a number, and is accepted or not.
Loads(w) ==
  LET i == worker[w]  j == worker'[w] IN
  /\ Alone(w) /\ i.number = 0 /\ j.pc = "number"
  /\ j.mark = i.mark /\ j.last = i.last /\ j.gen = row /\ j.number = 0
  /\ UNCHANGED <<row, outbox, seq, redis, writer, excuses, faults>>

Takes(w) ==
  LET i == worker[w]  j == worker'[w] IN
  /\ Alone(w) /\ i.number = 0 /\ i.pc = "number" /\ j.pc = "activate" /\ j.role = i.role
  /\ j.mark = i.mark /\ j.last = i.last /\ j.gen = i.gen
  /\ j.number > 0 /\ \A v \in Numbered : worker[v].number < j.number
  /\ j.number <= Cardinality(Numbered) + 1 + faults
  /\ excuses \subseteq excuses'
  /\ "misnumbered" \in excuses' \/
       /\ list # None => list <= i.gen
       /\ \A v \in Numbered : worker[v].gen <= i.gen
  /\ UNCHANGED <<row, outbox, seq, redis, writer, faults>>

Finishes(w) ==
  LET i == worker[w]  j == worker'[w] IN
  /\ i.pc = "activate" /\ j.pc \in {"idle", "unlock"}
  /\ j.mark \in {0, i.mark} /\ j.last \in {0, i.last} /\ j.gen = 0 /\ j.number = 0
  /\ Rebuilt(w)' => Polls(w) /\ j.last = i.last
  /\ UNCHANGED <<row, outbox, seq, watermark, lock, writer, excuses, faults>>

Renumbers(w, v) ==
  LET i == worker[v]  j == worker'[v]  n == worker[w].number IN
  /\ j.role = i.role /\ j.pc = i.pc /\ j.mark = i.mark /\ j.last = i.last /\ j.gen = i.gen
  /\ j.ok = i.ok /\ j.number = IF i.number > n THEN i.number - n ELSE 0

Accepts(w) ==
  /\ worker[w].number > 0 /\ list' = worker[w].gen
  /\ worker' \in [Workers -> WideWorker] /\ Finishes(w)
  /\ \A v \in Workers \ {w} : Renumbers(w, v)

Overtaken(w) ==
  Alone(w) /\ worker[w].number = 0 /\ Finishes(w) /\ UNCHANGED list

\* What a step does to the number of faults.
LEMMA Budget ==
    ASSUME Shape, Faultless \/ Fault
    PROVE  faults' \in 0..MaxFaults /\ faults <= faults' /\ (Fault => faults < faults')
  BY SchedulerAssumption DEF Shape, Faultless, Fault

\* A worker and a writer with nothing to do are of their types.
LEMMA IdleIsWide == IdleWorker \in WideWorker /\ IdleWriter \in WideWriter
  BY SchedulerAssumption DEF IdleWorker, IdleWriter, WideWorker, WideWriter, Roles, Places

\* A worker that becomes a record of its type is that record, and the others are as before.
LEMMA Became ==
    ASSUME Shape, NEW w \in Workers, NEW j \in WideWorker, Become(w, j)
    PROVE  Alone(w) /\ worker'[w] = j
  BY DEF Become, Alone, Shape

\* The same for a worker that goes idle.
LEMMA GoesIdle ==
    ASSUME Shape, NEW w \in Workers, Idle(w)
    PROVE  Alone(w) /\ worker'[w] = IdleWorker
  BY Became, IdleIsWide DEF Idle

\* The same for a worker that goes to another place with what it has.
LEMMA Went ==
    ASSUME Shape, NEW w \in Workers, NEW place \in Places, Goto(w, place)
    PROVE  /\ Alone(w) /\ worker'[w].pc = place
           /\ worker'[w].role = worker[w].role /\ worker'[w].mark = worker[w].mark
           /\ worker'[w].last = worker[w].last /\ worker'[w].gen = worker[w].gen
           /\ worker'[w].number = worker[w].number /\ worker'[w].ok = worker[w].ok
<1> DEFINE j == [worker[w] EXCEPT !.pc = place]
<1>1. worker[w] \in WideWorker
  BY DEF Shape
<1>2. j \in WideWorker
  BY <1>1 DEF WideWorker
<1>3. /\ j.pc = place /\ j.role = worker[w].role /\ j.mark = worker[w].mark
      /\ j.last = worker[w].last /\ j.gen = worker[w].gen
      /\ j.number = worker[w].number /\ j.ok = worker[w].ok
  BY <1>1 DEF WideWorker
<1>4. Become(w, j)
  BY DEF Goto
<1> HIDE DEF j
<1> QED
  BY <1>2, <1>3, <1>4, Became

\* A failed query or Redis call puts the worker aside.
LEMMA FailsAside ==
    ASSUME Shape, NEW w \in Workers, Fails(w),
           UNCHANGED <<row, outbox, seq, redis, writer, excuses>>
    PROVE  StepsAside(w)
<1> DEFINE j == [worker[w] EXCEPT !.pc = "unlock", !.ok = FALSE, !.number = 0, !.gen = 0]
<1>1. worker[w] \in WideWorker /\ Fault
  BY DEF Shape, Fails
<1>2. j \in WideWorker
  BY <1>1 DEF WideWorker, Places
<1>3. /\ j.pc = "unlock" /\ ~j.ok /\ j.number = 0 /\ j.gen = 0
      /\ j.mark = worker[w].mark /\ j.last = worker[w].last
  BY <1>1 DEF WideWorker
<1>4. Become(w, IF worker[w].role = "request" THEN IdleWorker ELSE j)
  BY DEF Fails, Leave
<1> HIDE DEF j
<1>5. Alone(w) /\ (worker'[w] = j \/ worker'[w] = IdleWorker)
  BY <1>2, <1>4, Became, IdleIsWide
<1> QED
  BY <1>1, <1>3, <1>5, Budget DEF StepsAside, IdleWorker, Rebuilt, Polls, redis, Shape

\* So does a worker that starts,
LEMMA Beginning ==
    ASSUME Shape, NumbersInv, NEW w \in Workers, StartPoll(w) \/ StartRebuild(w) \/ StartRequest(w)
    PROVE  StepsAside(w)
<1>1. \E role \in Roles \ {"none"}, pc \in {"mark", "lock", "load"} :
        Become(w, [IdleWorker EXCEPT !.role = role, !.pc = pc])
  BY DEF StartPoll, StartRebuild, StartRequest, Roles
<1>2. PICK role \in Roles \ {"none"}, pc \in {"mark", "lock", "load"} :
        Become(w, [IdleWorker EXCEPT !.role = role, !.pc = pc])
  BY <1>1
<1> DEFINE j == [IdleWorker EXCEPT !.role = role, !.pc = pc]
<1>3. j \in WideWorker
  BY SchedulerAssumption DEF IdleWorker, WideWorker, Roles, Places
<1>4. j.pc = pc /\ j.mark = 0 /\ j.last = 0 /\ j.gen = 0 /\ j.number = 0
  BY DEF IdleWorker
<1>5. Become(w, j)
  BY <1>2
<1> HIDE DEF j
<1>6. Alone(w) /\ worker'[w] = j
  BY <1>3, <1>5, Became
<1>7. /\ worker[w].number \in Nat /\ worker[w].pc = "idle"
      /\ UNCHANGED <<row, outbox, seq, redis, writer, excuses>> /\ (Faultless \/ Fault)
  BY DEF StartPoll, StartRebuild, StartRequest, Faultless, Shape, WideWorker
<1>8. ~(worker[w].number > 0)
  BY <1>7 DEF NumbersInv
<1> QED
  BY <1>4, <1>6, <1>7, <1>8, Budget DEF StepsAside, Rebuilt, redis, Shape

\* one that dies wherever it is,
LEMMA Dying ==
    ASSUME Shape, NEW w \in Workers, Idle(w), Fault, lock' \in Workers \cup {NoOne},
           UNCHANGED <<row, outbox, seq, watermark, list, writer, excuses>>
    PROVE  StepsAside(w)
  BY GoesIdle, Budget DEF StepsAside, IdleWorker, Rebuilt, Polls

\* one that gives up before it has a number,
LEMMA Stopping ==
    ASSUME Shape, NumbersInv, NEW w \in Workers, Idle(w), worker[w].pc # "activate",
           Faultless \/ Fault, lock' \in Workers \cup {NoOne},
           UNCHANGED <<row, outbox, seq, watermark, list, writer, excuses>>
    PROVE  StepsAside(w)
<1>1. ~(worker[w].number > 0)
  BY DEF NumbersInv
<1> QED
  BY <1>1, GoesIdle, Budget DEF StepsAside, IdleWorker, Rebuilt, Polls

\* and one that goes on to a place where nothing is loaded or numbered.
LEMMA Going ==
    ASSUME Shape, NumbersInv, NEW w \in Workers, worker[w].pc # "activate",
           NEW place \in Places \ {"number", "activate"}, Goto(w, place), Faultless \/ Fault,
           \/ place \notin {"unlock", "watermark", "cleanup"}
           \/ Rebuilt(w)
           \/ excuses' # {},
           UNCHANGED <<row, outbox, seq, watermark, list, writer>>, excuses \subseteq excuses',
           lock' \in Workers \cup {NoOne}
    PROVE  StepsAside(w)
<1>1. ~(worker[w].number > 0) /\ worker[w].number \in Nat
  BY DEF NumbersInv, Shape, WideWorker
<1> QED
  BY <1>1, Went, Budget DEF StepsAside, Rebuilt, Polls, Places

\* The actions that do only that: account read, lag check, lock, unlock, death.
LEMMA Passing ==
    ASSUME Shape, NumbersInv, NEW w \in Workers,
           ReadAccount(w) \/ CheckOutboxLag(w) \/ LockBucket(w) \/ UnlockBucket(w) \/ Die(w)
    PROVE  StepsAside(w)
<1> USE DEF Places
<1>1. CASE ReadAccount(w)
  BY <1>1, Going, Dying DEF ReadAccount, redis, Shape
<1>2. CASE CheckOutboxLag(w)
  <2>1. CASE Idle(w)
    BY <1>2, <2>1, Stopping DEF CheckOutboxLag, redis, Shape, Faultless
  <2>2. CASE Become(w, [IdleWorker EXCEPT !.role = "rebuild", !.pc = "lock"])
    <3> DEFINE j == [IdleWorker EXCEPT !.role = "rebuild", !.pc = "lock"]
    <3>1. j \in WideWorker
      BY SchedulerAssumption DEF IdleWorker, WideWorker, Roles
    <3>2. j.pc = "lock" /\ j.mark = 0 /\ j.last = 0 /\ j.gen = 0 /\ j.number = 0
      BY DEF IdleWorker
    <3> HIDE DEF j
    <3>3. Alone(w) /\ worker'[w] = j
      BY <2>2, <3>1, Became DEF j
    <3>4. ~(worker[w].number > 0)
      BY <1>2 DEF CheckOutboxLag, NumbersInv
    <3> QED
      BY <1>2, <3>2, <3>3, <3>4 DEF CheckOutboxLag, StepsAside, Rebuilt, redis, Shape
  <2> QED
    BY <1>2, <2>1, <2>2 DEF CheckOutboxLag
<1>3. CASE LockBucket(w)
  <2>1. CASE Goto(w, "load") /\ lock' = w /\ Faultless /\ UNCHANGED excuses
    BY <1>3, <2>1, Going DEF LockBucket
  <2>2. CASE Goto(w, "watermark") /\ Excuse("unnoticed") /\ UNCHANGED lock /\ Faultless
    BY <1>3, <2>2, Going DEF LockBucket, Excuse, Shape
  <2>3. CASE Idle(w) /\ UNCHANGED <<lock, excuses>> /\ (Faultless \/ Fault)
    BY <1>3, <2>3, Stopping DEF LockBucket, Shape
  <2> QED
    BY <1>3, <2>1, <2>2, <2>3 DEF LockBucket
<1>4. CASE UnlockBucket(w)
  <2>1. lock' \in Workers \cup {NoOne} /\ (Faultless \/ Fault)
    BY <1>4 DEF UnlockBucket, Shape
  <2>2. CASE Idle(w)
    BY <1>4, <2>1, <2>2, Stopping DEF UnlockBucket
  <2>3. CASE worker[w].role = "poll" /\ worker[w].ok /\ Goto(w, "watermark")
    BY <1>4, <2>1, <2>3, Going DEF UnlockBucket, Rebuilt, Polls
  <2> QED
    BY <1>4, <2>2, <2>3 DEF UnlockBucket
<1>5. CASE Die(w)
  BY <1>5, Dying DEF Die, redis, Shape
<1> QED
  BY <1>1, <1>2, <1>3, <1>4, <1>5

-----------------------------------------------------------------------------
(* The greatest of a bounded set of numbers. *)

\* What the intervals from its members to the bound have a smallest one for.
LEMMA Greatest ==
    ASSUME NEW S \in SUBSET Nat, S # {}, NEW b \in Nat, \A x \in S : x <= b
    PROVE  Max(S) \in S /\ \A x \in S : x <= Max(S)
<1> DEFINE T == {x .. b : x \in S}
<1>1. T \subseteq FiniteSubsetsOf(Nat) /\ T # {}
  <2>1. ASSUME NEW x \in S PROVE x .. b \in FiniteSubsetsOf(Nat)
    <3>1. x \in Int /\ b \in Int /\ x .. b \subseteq Nat
      OBVIOUS
    <3>2. IsFiniteSet(x .. b)
      BY <3>1, FS_Interval
    <3> QED
      BY <3>1, <3>2 DEF FiniteSubsetsOf
  <2> QED
    BY <2>1
<1>2. IsWellFoundedOn(StrictSubsetOrdering(Nat), FiniteSubsetsOf(Nat))
  BY FS_StrictSubsetOrderingWellFounded
<1>3. PICK t \in T : \A u \in T : <<u, t>> \notin StrictSubsetOrdering(Nat)
  <2> HIDE DEF T
  <2> QED
    BY <1>1, <1>2, WFMin
<1>4. PICK m \in S : t = m .. b
  OBVIOUS
<1>5. ASSUME NEW x \in S, x > m PROVE FALSE
  <2>1. x .. b \subseteq m .. b /\ m \in m .. b /\ m \notin x .. b
    BY <1>5
  <2>2. x .. b \in SUBSET Nat /\ m .. b \in SUBSET Nat
    OBVIOUS
  <2>3. <<x .. b, m .. b>> \in StrictSubsetOrdering(Nat)
    BY <2>1, <2>2 DEF StrictSubsetOrdering
  <2> QED
    BY <1>3, <1>4, <2>3
<1>6. \E x \in S : \A y \in S : x >= y
  BY <1>5
<1> QED
  BY <1>6 DEF Max

-----------------------------------------------------------------------------
(* Each step of a worker is one of these. *)

\* Only a worker about to activate has a number.
LEMMA WithoutNumber ==
    ASSUME Shape, NumbersInv, NEW w \in Workers, worker[w].pc # "activate"
    PROVE  worker[w] \in WideWorker /\ worker[w].number = 0
  BY DEF Shape, NumbersInv, WideWorker

\* Reading the watermark marks it or puts the worker aside.
LEMMA ReadWatermarkForm ==
    ASSUME Shape, NumbersInv, NEW w \in Workers, ReadWatermark(w)
    PROVE  StepsAside(w) \/ Marks(w)
<1>1. worker[w] \in WideWorker /\ worker[w].number = 0
  BY WithoutNumber DEF ReadWatermark
<1> DEFINE j == [worker[w] EXCEPT !.pc = "list", !.mark = watermark]
<1>2. j \in WideWorker
  BY <1>1 DEF WideWorker, Places, Shape
<1>3. /\ j.pc = "list" /\ j.mark = watermark /\ j.last = worker[w].last /\ j.gen = worker[w].gen
      /\ j.number = 0
  BY <1>1 DEF WideWorker
<1>4. CASE Become(w, j) /\ Faultless
  <2> HIDE DEF j
  <2>1. Alone(w) /\ worker'[w] = j
    BY <1>2, <1>4, Became
  <2> QED
    BY <1>1, <1>3, <1>4, <2>1 DEF ReadWatermark, Marks, Faultless
<1>5. CASE Idle(w) /\ Fault
  BY <1>5, Dying DEF ReadWatermark, redis, Shape
<1> QED
  BY <1>4, <1>5 DEF ReadWatermark

\* Reading the events takes the last id from them and releases their keys.
LEMMA ListEventsForm ==
    ASSUME Shape, IdsInv, NumbersInv, NEW w \in Workers, ListEvents(w)
    PROVE  Reads(w)
<1> DEFINE batch == After(worker[w].mark)
           last == Max({e.id : e \in batch})
           j == [worker[w] EXCEPT !.pc = "account", !.mark = 0, !.last = last]
<1>0. /\ worker[w] \in WideWorker /\ worker[w].number = 0
      /\ outbox' = ReleaseKeys(batch) /\ UNCHANGED <<row, seq, redis, writer, excuses>>
  BY WithoutNumber DEF ListEvents
<1>1. CASE Idle(w) /\ (Faultless \/ Fault)
  BY <1>0, <1>1, GoesIdle, Budget DEF Reads, IdleWorker
<1>2. CASE batch # {} /\ Faultless /\ Become(w, j)
  <2>1. \E e \in outbox : last = e.id
    <3> DEFINE S == {e.id : e \in batch}
    <3>1. S \in SUBSET Nat /\ S # {} /\ seq \in Nat /\ \A x \in S : x <= seq
      BY <1>2 DEF After, Shape, WideEvent, IdsInv
    <3> HIDE DEF S
    <3>2. Max(S) \in S
      BY <3>1, Greatest
    <3> QED
      BY <3>2 DEF S, After
  <2>2. last \in Nat
    BY <2>1 DEF Shape, WideEvent
  <2> HIDE DEF last
  <2>3. j \in WideWorker
    BY <1>0, <2>2 DEF WideWorker, Places
  <2>4. /\ j.pc = "account" /\ j.mark = 0 /\ j.last = last /\ j.gen = worker[w].gen
        /\ j.number = 0
    BY <1>0 DEF WideWorker
  <2> HIDE DEF j
  <2>5. Alone(w) /\ worker'[w] = j
    BY <1>2, <2>3, Became
  <2> QED
    BY <1>0, <1>2, <2>1, <2>4, <2>5, Budget DEF Reads
<1> QED
  BY <1>1, <1>2 DEF ListEvents

\* Setting the watermark sets it to the last id read.
LEMMA SetOutboxWatermarkForm ==
    ASSUME Shape, NumbersInv, NEW w \in Workers, SetOutboxWatermark(w)
    PROVE  StepsAside(w) \/ Sets(w)
<1>0. worker[w] \in WideWorker /\ worker[w].number = 0
  BY WithoutNumber DEF SetOutboxWatermark
<1>1. CASE watermark' = worker[w].last /\ Goto(w, "cleanup") /\ Faultless
  BY <1>0, <1>1, Went DEF SetOutboxWatermark, Sets, Places, Faultless
<1>2. CASE UNCHANGED watermark /\ Fault
           /\ Become(w, [IdleWorker EXCEPT !.role = "poll", !.pc = "lag"])
  <2> DEFINE j == [IdleWorker EXCEPT !.role = "poll", !.pc = "lag"]
  <2>1. j \in WideWorker
    BY SchedulerAssumption DEF IdleWorker, WideWorker, Roles, Places
  <2>2. j.pc = "lag" /\ j.mark = 0 /\ j.last = 0 /\ j.gen = 0 /\ j.number = 0
    BY DEF IdleWorker
  <2> HIDE DEF j
  <2>3. Alone(w) /\ worker'[w] = j
    BY <1>2, <2>1, Became DEF j
  <2> QED
    BY <1>0, <1>2, <2>2, <2>3, Budget DEF SetOutboxWatermark, StepsAside, Rebuilt, Shape
<1> QED
  BY <1>1, <1>2 DEF SetOutboxWatermark, Consumed

\* The clean-up deletes only events up to the last id read.
LEMMA CleanupForm ==
    ASSUME Shape, NumbersInv, NEW w \in Workers, Cleanup(w)
    PROVE  Deletes(w)
<1>0. worker[w].number = 0
  BY WithoutNumber DEF Cleanup
<1> DEFINE j == [IdleWorker EXCEPT !.role = "poll", !.pc = "lag"]
<1>1. j \in WideWorker
  BY SchedulerAssumption DEF IdleWorker, WideWorker, Roles, Places
<1>2. j.pc = "lag" /\ j.mark = 0 /\ j.last = 0 /\ j.gen = 0 /\ j.number = 0
  BY DEF IdleWorker
<1>3. Become(w, j)
  BY DEF Cleanup
<1> HIDE DEF j
<1>4. Alone(w) /\ worker'[w] = j
  BY <1>1, <1>3, Became
<1> QED
  BY <1>0, <1>2, <1>4 DEF Cleanup, Deletes

\* Loading the accounts sees every change made so far.
LEMMA LoadAccountsForm ==
    ASSUME Shape, NumbersInv, NEW w \in Workers, LoadAccounts(w)
    PROVE  StepsAside(w) \/ Loads(w)
<1>0. worker[w] \in WideWorker /\ worker[w].number = 0
  BY WithoutNumber DEF LoadAccounts
<1> DEFINE j == [worker[w] EXCEPT !.pc = "number", !.gen = row]
<1>1. CASE Become(w, j) /\ Faultless
  <2>1. j \in WideWorker
    BY <1>0 DEF WideWorker, Places, Shape
  <2>2. /\ j.pc = "number" /\ j.mark = worker[w].mark /\ j.last = worker[w].last
        /\ j.gen = row /\ j.number = 0
    BY <1>0 DEF WideWorker
  <2> HIDE DEF j
  <2>3. Alone(w) /\ worker'[w] = j
    BY <1>1, <2>1, Became
  <2> QED
    BY <1>0, <1>1, <2>2, <2>3 DEF LoadAccounts, Loads, Faultless
<1>2. CASE Fails(w)
  BY <1>2, FailsAside DEF LoadAccounts
<1> QED
  BY <1>1, <1>2 DEF LoadAccounts

\* The next number is one more than the greatest.
Taken == {0} \cup {worker[v].number : v \in Numbered}

\* A new number is above all those in use, and at most one more than there are of them
\* plus the faults.
LEMMA NextNumber ==
    ASSUME Shape, NumbersInv
    PROVE  /\ 1 + Max(Taken) \in Nat /\ 1 + Max(Taken) > 0
           /\ \A v \in Numbered : worker[v].number < 1 + Max(Taken)
           /\ 1 + Max(Taken) <= Cardinality(Numbered) + 1 + faults
<1>0. Cardinality(Numbered) \in Nat /\ faults \in Nat
  BY SchedulerAssumption, FS_Subset, FS_CardinalityType DEF Numbered, Shape
<1>1. \A v \in Numbered : worker[v].number \in Nat
  BY DEF Numbered, Shape, WideWorker
<1>2. Taken \in SUBSET Nat /\ Taken # {}
  BY <1>1 DEF Taken
<1>3. \A x \in Taken : x <= Cardinality(Numbered) + faults
  <2>1. \A v \in Numbered : worker[v].number <= Cardinality(Numbered) + faults
    BY DEF NumbersInv
  <2>2. 0 <= Cardinality(Numbered) + faults
    BY <1>0
  <2>3. \A x \in Taken : x = 0 \/ \E v \in Numbered : x = worker[v].number
    BY DEF Taken
  <2> QED
    BY <2>1, <2>2, <2>3
<1>4. Max(Taken) \in Taken /\ \A x \in Taken : x <= Max(Taken)
  <2> DEFINE b == Cardinality(Numbered) + faults
  <2>1. b \in Nat /\ \A x \in Taken : x <= b
    BY <1>0, <1>3
  <2> HIDE DEF b
  <2> QED
    BY <1>2, <2>1, Greatest
<1>5. \A v \in Numbered : worker[v].number <= Max(Taken)
  BY <1>4 DEF Taken
<1>6. Max(Taken) \in Nat /\ Max(Taken) <= Cardinality(Numbered) + faults
  BY <1>2, <1>3, <1>4
<1> QED
  BY <1>0, <1>1, <1>5, <1>6

\* Taking a number is one of these, and an older load than another excuses itself.
LEMMA TakeNumberForm ==
    ASSUME Shape, NumbersInv, NEW w \in Workers, TakeNumber(w)
    PROVE  StepsAside(w) \/ Takes(w)
<1> DEFINE i == worker[w]
           n == 1 + Max(Taken)
           j == [i EXCEPT !.pc = "activate", !.number = n]
           others == (IF list # None THEN {list} ELSE {}) \cup {worker[v].gen : v \in Numbered}
           Late == \E g \in others : g > i.gen
<1>0. /\ i \in WideWorker /\ i.number = 0 /\ i.pc = "number"
      /\ UNCHANGED <<row, outbox, seq, redis, writer>>
  BY WithoutNumber DEF TakeNumber
<1>1. CASE Become(w, j) /\ ExcuseIf(Late, "misnumbered") /\ Faultless
  <2>1. /\ n \in Nat /\ n > 0 /\ \A v \in Numbered : worker[v].number < n
        /\ n <= Cardinality(Numbered) + 1 + faults
    BY NextNumber
  <2> HIDE DEF n
  <2>2. j \in WideWorker
    BY <1>0, <2>1 DEF WideWorker, Places
  <2>3. /\ j.pc = "activate" /\ j.role = i.role /\ j.mark = i.mark /\ j.last = i.last
        /\ j.gen = i.gen /\ j.number = n
    BY <1>0 DEF WideWorker
  <2>4. Become(w, j)
    BY <1>1
  <2> HIDE DEF j
  <2>5. Alone(w) /\ worker'[w] = j
    BY <2>2, <2>4, Became
  <2>6. /\ i.gen \in Nat /\ (list # None => list \in Nat)
        /\ \A v \in Numbered : worker[v].gen \in Nat
    BY <1>0 DEF Shape, WideWorker, Numbered
  <2>7. /\ excuses \subseteq excuses'
        /\ "misnumbered" \in excuses' \/ ~Late
    BY <1>1 DEF ExcuseIf
  <2>8. ~Late => /\ list # None => list <= i.gen
                 /\ \A v \in Numbered : worker[v].gen <= i.gen
    BY <2>6
  <2> HIDE DEF Late
  <2> QED
    BY <1>0, <1>1, <2>1, <2>3, <2>5, <2>7, <2>8 DEF Takes, Faultless
<1>2. CASE Fails(w) /\ UNCHANGED excuses
  BY <1>0, <1>2, FailsAside
<1> QED
  BY <1>1, <1>2 DEF TakeNumber, Taken

\* Activating accepts the number, or finds a greater one accepted, or fails.
LEMMA ActivateForm ==
    ASSUME Shape, NEW w \in Workers, Activate(w)
    PROVE  StepsAside(w) \/ Accepts(w) \/ Overtaken(w)
<1> DEFINE i == worker[w]  n == i.number
           j == IF i.role = "request" THEN IdleWorker
                ELSE [i EXCEPT !.pc = "unlock", !.number = 0, !.gen = 0]
<1>0. /\ i \in WideWorker /\ i.pc = "activate" /\ n \in Nat
      /\ UNCHANGED <<row, outbox, seq, watermark, lock, writer, excuses>>
  BY DEF Shape, Activate, WideWorker
<1>1. j \in WideWorker
  BY <1>0, IdleIsWide, SchedulerAssumption DEF WideWorker, Places
<1>2. /\ j.pc \in {"idle", "unlock"} /\ j.mark \in {0, i.mark} /\ j.last \in {0, i.last}
      /\ j.gen = 0 /\ j.number = 0
      /\ j.pc = "unlock" => j.role = i.role /\ j.last = i.last
  BY <1>0 DEF WideWorker, IdleWorker
<1>3. worker'[w] = j /\ Faultless => Finishes(w)
  BY <1>0, <1>2 DEF Finishes, Faultless, Rebuilt, Polls
<1>4. CASE n > 0 /\ list' = i.gen /\ Faultless /\ worker' = [Renumbered(w) EXCEPT ![w] = j]
  <2> HIDE DEF j
  <2>1. \A v \in Workers \ {w} :
          worker'[v] = [worker[v] EXCEPT
            !.number = IF worker[v].number > n THEN worker[v].number - n ELSE 0]
    BY <1>4 DEF Renumbered
  <2>2. ASSUME NEW v \in Workers \ {w}
        PROVE  worker'[v] \in WideWorker /\ Renumbers(w, v)
    <3>1. worker[v] \in WideWorker
      BY DEF Shape
    <3>2. DEFINE m == IF worker[v].number > n THEN worker[v].number - n ELSE 0
    <3>3. m \in Nat
      BY <1>0, <3>1 DEF WideWorker
    <3>4. worker'[v] = [worker[v] EXCEPT !.number = m]
      BY <2>1
    <3> HIDE DEF m
    <3>5. worker'[v] \in WideWorker
      BY <3>1, <3>3, <3>4 DEF WideWorker
    <3>6. /\ worker'[v].role = worker[v].role /\ worker'[v].pc = worker[v].pc
          /\ worker'[v].mark = worker[v].mark /\ worker'[v].last = worker[v].last
          /\ worker'[v].gen = worker[v].gen /\ worker'[v].ok = worker[v].ok
          /\ worker'[v].number = m
      BY <3>1, <3>4 DEF WideWorker
    <3> QED
      BY <3>5, <3>6 DEF Renumbers, m
  <2>3. worker'[w] = j
    BY <1>4 DEF Renumbered
  <2>4. worker' \in [Workers -> WideWorker]
    <3>1. DOMAIN worker' = Workers /\ worker' = [v \in Workers |-> worker'[v]]
      BY <1>4 DEF Renumbered
    <3> QED
      BY <1>1, <2>2, <2>3, <3>1
  <2> QED
    BY <1>3, <1>4, <2>2, <2>3, <2>4 DEF Accepts
<1>5. CASE n = 0 /\ UNCHANGED list /\ Faultless /\ Become(w, j)
  <2> HIDE DEF j
  <2>1. Alone(w) /\ worker'[w] = j
    BY <1>1, <1>5, Became
  <2> QED
    BY <1>3, <1>5, <2>1 DEF Overtaken
<1>6. CASE UNCHANGED list /\ Fails(w)
  BY <1>0, <1>6, FailsAside DEF redis
<1>7. Accepted(n) <=> n > 0
  BY DEF Accepted
<1>8. ~(n > 0) => n = 0
  BY <1>0
<1> HIDE DEF j
<1> QED
  BY <1>0, <1>4, <1>5, <1>6, <1>7, <1>8 DEF Activate, j

WorkForm(w) ==
  \/ StepsAside(w)
  \/ Marks(w) \/ Reads(w) \/ Sets(w) \/ Deletes(w)
  \/ Loads(w) \/ Takes(w) \/ Accepts(w) \/ Overtaken(w)

WorkerStep(w) == StartPoll(w) \/ StartRebuild(w) \/ StartRequest(w) \/ Work(w) \/ Die(w)

\* Every step of a worker has one of the forms.
LEMMA WorkerForm ==
    ASSUME Shape, IdsInv, NumbersInv, NEW w \in Workers, WorkerStep(w)
    PROVE  WorkForm(w)
  BY Beginning, Passing, ReadWatermarkForm, ListEventsForm, SetOutboxWatermarkForm, CleanupForm,
     LoadAccountsForm, TakeNumberForm, ActivateForm
     DEF WorkForm, WorkerStep, Work

-----------------------------------------------------------------------------
(* What a step of a writer does. *)

WriterAlone(w) ==
  /\ writer' \in [Writers -> WideWriter]
  /\ \A u \in Writers \ {w} : writer'[u] = writer[u]

Changes(w) ==
  /\ WriterAlone(w) /\ writer[w].pc = "idle" /\ ~RowLocked /\ row < MaxGen
  /\ writer'[w].pc = "insert" /\ writer'[w].id = 0
  /\ row' = IF w \in Transactions THEN row ELSE row + 1
  /\ UNCHANGED <<outbox, seq, excuses, faults>>

Inserts(w) ==
  /\ WriterAlone(w) /\ writer[w].pc = "insert" /\ writer'[w].pc = "commit"
  /\ \/ writer'[w].id = 0 /\ seq' = seq /\ \E e \in outbox : e.pending
     \/ writer'[w].id = seq + 1 /\ seq' = seq + 1
  /\ UNCHANGED <<row, outbox, excuses, faults>>

Commits(w) ==
  LET i == writer[w] IN
  /\ WriterAlone(w) /\ i.pc = "commit" /\ writer'[w] = IdleWriter
  /\ outbox' = outbox \cup
       (IF i.id = 0 THEN {} ELSE {[id |-> i.id, key |-> i.key, pending |-> TRUE]})
  /\ row' = IF w \in Transactions THEN row + 1 ELSE row
  /\ excuses \subseteq excuses'
  /\ \/ excuses' # {}
     \/ i.id # 0 /\ ~Passed(i.id)
     \/ i.id = 0 /\ (w \in Transactions => \E e \in outbox : e.pending)
  /\ UNCHANGED <<seq, faults>>

Abandons(w) ==
  /\ WriterAlone(w) /\ writer[w].pc \in {"insert", "commit"} /\ writer'[w] = IdleWriter
  /\ faults' = faults + 1 /\ faults' \in 0..MaxFaults
  /\ excuses \subseteq excuses' /\ (w \notin Transactions => excuses' # {})
  /\ UNCHANGED <<row, outbox, seq>>

WriteForm(w) ==
  /\ Changes(w) \/ Inserts(w) \/ Commits(w) \/ Abandons(w)
  /\ UNCHANGED <<redis, worker>>

\* A writer that becomes a record of its type is that record, and the others are as before.
LEMMA Wrote ==
    ASSUME Shape, NEW w \in Writers, NEW j \in WideWriter, Write(w, j)
    PROVE  WriterAlone(w) /\ writer'[w] = j
  BY DEF Write, WriterAlone, Shape

\* A change of an account makes the row newer, or opens the transaction that will.
LEMMA ChangeForm ==
    ASSUME Shape, NEW w \in Writers, Change(w)
    PROVE  WriteForm(w)
<1>1. PICK k \in Keys : Write(w, [IdleWriter EXCEPT !.pc = "insert", !.key = k])
  BY SchedulerAssumption DEF Change
<1> DEFINE j == [IdleWriter EXCEPT !.pc = "insert", !.key = k]
<1>2. j \in WideWriter /\ j.pc = "insert" /\ j.id = 0
  BY DEF IdleWriter, WideWriter
<1>3. Write(w, j)
  BY <1>1
<1> HIDE DEF j
<1>4. WriterAlone(w) /\ writer'[w] = j
  BY <1>2, <1>3, Wrote
<1> QED
  BY <1>2, <1>4 DEF Change, Changes, WriteForm

\* Inserting an event takes an id unless one with its key is pending.
LEMMA InsertForm ==
    ASSUME Shape, NEW w \in Writers, Insert(w)
    PROVE  WriteForm(w)
<1> DEFINE i == writer[w]
           pending == \E e \in outbox : e.pending /\ e.key = i.key
           id == IF pending THEN 0 ELSE seq + 1
           j == [i EXCEPT !.pc = "commit", !.id = id]
<1>1. /\ i \in WideWriter /\ i.pc = "insert" /\ Write(w, j)
      /\ seq' = (IF pending THEN seq ELSE seq + 1)
      /\ UNCHANGED <<row, outbox, redis, worker, excuses, faults>>
  BY DEF Insert, Shape
<1>2. id \in Nat
  BY DEF Shape
<1> HIDE DEF id
<1>3. j \in WideWriter /\ j.pc = "commit" /\ j.id = id
  BY <1>1, <1>2 DEF WideWriter
<1> HIDE DEF j
<1>4. WriterAlone(w) /\ writer'[w] = j
  BY <1>1, <1>3, Wrote
<1>5. pending => \E e \in outbox : e.pending
  OBVIOUS
<1> QED
  BY <1>1, <1>3, <1>4, <1>5 DEF id, Inserts, WriteForm

\* A commit makes the transaction's change and its event visible.
LEMMA CommitForm ==
    ASSUME Shape, NEW w \in Writers, Commit(w)
    PROVE  WriteForm(w)
<1> DEFINE i == writer[w]
<1>1. /\ i.pc = "commit" /\ Write(w, IdleWriter)
      /\ UNCHANGED <<seq, redis, worker, faults>>
      /\ row' = IF w \in Transactions THEN row + 1 ELSE row
      /\ outbox' = IF i.id = 0 THEN outbox
                   ELSE outbox \cup {[id |-> i.id, key |-> i.key, pending |-> TRUE]}
  BY DEF Commit
<1>2. WriterAlone(w) /\ writer'[w] = IdleWriter
  BY <1>1, IdleIsWide, Wrote
<1>3. excuses \subseteq excuses'
  BY DEF Commit, ExcuseIf
<1>4. CASE i.id # 0
  <2>1. excuses' # {} \/ ~Passed(i.id)
    BY <1>4 DEF Commit, ExcuseIf
  <2> QED
    BY <1>1, <1>2, <1>3, <1>4, <2>1 DEF Commits, WriteForm
<1>5. CASE i.id = 0
  <2>1. excuses' # {} \/ (w \in Transactions => Absorbed(w))
    BY <1>5 DEF Commit, ExcuseIf
  <2>2. Absorbed(w) => \E e \in outbox : e.pending
    BY DEF Absorbed
  <2>3. outbox' = outbox \cup {}
    BY <1>1, <1>5
  <2> QED
    BY <1>1, <1>2, <1>3, <1>5, <2>1, <2>2, <2>3 DEF Commits, WriteForm
<1> QED
  BY <1>4, <1>5

\* A failed insert leaves the change without an event, and says so.
LEMMA InsertFailsForm ==
    ASSUME Shape, NEW w \in Writers, InsertFails(w)
    PROVE  WriteForm(w)
<1>1. WriterAlone(w) /\ writer'[w] = IdleWriter
  BY IdleIsWide, Wrote DEF InsertFails
<1>2. faults' = faults + 1 /\ faults' \in 0..MaxFaults
  BY SchedulerAssumption DEF InsertFails, Fault, Shape
<1>3. excuses \subseteq excuses' /\ (w \notin Transactions => excuses' # {})
  BY DEF InsertFails, ExcuseIf
<1> QED
  BY <1>1, <1>2, <1>3 DEF InsertFails, Abandons, WriteForm

WriterStep(w) == Change(w) \/ Announce(w)

\* Every step of a writer has the form above.
LEMMA WriterForm == ASSUME Shape, NEW w \in Writers, WriterStep(w) PROVE WriteForm(w)
  BY ChangeForm, InsertForm, CommitForm, InsertFailsForm DEF WriterStep, Announce

-----------------------------------------------------------------------------
(* The types without the bounds. *)

\* The types are kept by the steps of the workers,
LEMMA ShapeWork == ASSUME Shape, NEW w \in Workers, WorkForm(w) PROVE Shape'
<1>0. /\ row \in Nat /\ watermark \in Nat /\ outbox \subseteq WideEvent
      /\ worker[w] \in WideWorker
  BY DEF Shape
<1>1. CASE StepsAside(w)
  BY <1>1 DEF StepsAside, Alone, Shape
<1>2. CASE Marks(w) \/ Loads(w) \/ Takes(w) \/ Overtaken(w)
  BY <1>2 DEF Marks, Loads, Takes, Overtaken, Finishes, Alone, Shape, redis
<1>3. CASE Reads(w)
  <2>1. outbox' \subseteq WideEvent
    BY <1>0, <1>3 DEF Reads, ReleaseKeys, WideEvent
  <2> QED
    BY <1>3, <2>1 DEF Reads, Alone, Shape, redis
<1>4. CASE Sets(w)
  BY <1>0, <1>4 DEF Sets, Alone, Shape, WideWorker
<1>5. CASE Deletes(w)
  BY <1>5 DEF Deletes, Alone, Shape, redis
<1>6. CASE Accepts(w)
  BY <1>0, <1>6 DEF Accepts, Finishes, Shape, WideWorker
<1> QED
  BY <1>1, <1>2, <1>3, <1>4, <1>5, <1>6 DEF WorkForm

\* and by those of the writers.
LEMMA ShapeWrite == ASSUME Shape, NEW w \in Writers, WriteForm(w) PROVE Shape'
<1>1. CASE Changes(w)
  BY <1>1 DEF WriteForm, Changes, WriterAlone, Shape, redis
<1>2. CASE Inserts(w)
  BY <1>2 DEF WriteForm, Inserts, WriterAlone, Shape, redis
<1>3. CASE Commits(w)
  <2>1. writer[w] \in WideWriter
    BY DEF Shape
  <2>2. [id |-> writer[w].id, key |-> writer[w].key, pending |-> TRUE] \in WideEvent
    BY <2>1 DEF WideWriter, WideEvent
  <2>3. outbox' \subseteq WideEvent
    BY <1>3, <2>2 DEF Commits, Shape
  <2> QED
    BY <1>3, <2>3 DEF WriteForm, Commits, WriterAlone, Shape, redis
<1>4. CASE Abandons(w)
  BY <1>4 DEF WriteForm, Abandons, WriterAlone, Shape, redis
<1> QED
  BY <1>1, <1>2, <1>3, <1>4 DEF WriteForm

-----------------------------------------------------------------------------
(* The bounds. *)

\* No load sees a change before it is made: workers,
LEMMA LoadsWork == ASSUME Shape, LoadsInv, NEW w \in Workers, WorkForm(w) PROVE LoadsInv'
<1>0. row \in Nat /\ list \in Nat \cup {None} /\ \A v \in Workers : worker[v].gen \in Nat
  BY DEF Shape, WideWorker
<1>1. CASE StepsAside(w)
  BY <1>0, <1>1 DEF StepsAside, Alone, LoadsInv
<1>2. CASE Marks(w) \/ Loads(w) \/ Takes(w) \/ Overtaken(w)
  BY <1>0, <1>2 DEF Marks, Loads, Takes, Overtaken, Finishes, Alone, LoadsInv, redis
<1>3. CASE Reads(w) \/ Sets(w) \/ Deletes(w)
  BY <1>0, <1>3 DEF Reads, Sets, Deletes, Alone, LoadsInv, redis
<1>4. CASE Accepts(w)
  BY <1>0, <1>4 DEF Accepts, Finishes, Renumbers, LoadsInv
<1> QED
  BY <1>1, <1>2, <1>3, <1>4 DEF WorkForm

\* and writers.
LEMMA LoadsWrite ==
    ASSUME Shape, LoadsInv, RowLockInv, NEW w \in Writers, WriteForm(w)
    PROVE  LoadsInv'
<1>1. row' >= row /\ row' <= MaxGen /\ row \in Nat /\ row' \in Nat
  BY SchedulerAssumption
     DEF WriteForm, Changes, Inserts, Commits, Abandons, LoadsInv, RowLockInv, Open, Shape
<1>2. list \in Nat \cup {None} /\ \A v \in Workers : worker[v].gen \in Nat
  BY DEF Shape, WideWorker
<1> QED
  BY <1>1, <1>2 DEF LoadsInv, WriteForm, redis

\* The row lock lets one transaction be open at a time.
LEMMA RowLockWrite ==
    ASSUME Shape, RowLockInv, NEW w \in Writers, WriteForm(w)
    PROVE  RowLockInv'
<1>1. CASE Changes(w)
  BY <1>1, SchedulerAssumption DEF Changes, WriterAlone, RowLocked, RowLockInv, Open, Shape
<1>2. CASE Inserts(w)
  BY <1>2, SchedulerAssumption DEF Inserts, WriterAlone, RowLockInv, Open
<1>3. CASE Commits(w)
  BY <1>3, SchedulerAssumption DEF Commits, WriterAlone, RowLockInv, Open, IdleWriter
<1>4. CASE Abandons(w)
  BY <1>4, SchedulerAssumption DEF Abandons, WriterAlone, RowLockInv, Open, IdleWriter
<1> QED
  BY <1>1, <1>2, <1>3, <1>4 DEF WriteForm

\* One more writer inserts, or one fewer.
LEMMA InsertingGrows ==
    ASSUME NEW w \in Writers, WriterAlone(w), IsFiniteSet(Inserting)
    PROVE  /\ IsFiniteSet(Inserting')
           /\ w \in Transactions => Inserting' = Inserting
           /\ w \notin Transactions =>
                Cardinality(Inserting') =
                  Cardinality(Inserting) + (IF writer'[w].pc = "insert" THEN 1 ELSE 0)
                                         - (IF writer[w].pc = "insert" THEN 1 ELSE 0)
<1>0. Cardinality(Inserting) \in Nat
  BY FS_CardinalityType
<1>1. CASE w \in Transactions
  <2>1. Inserting' = Inserting
    BY <1>1 DEF Inserting, WriterAlone
  <2> QED
    BY <1>1, <2>1
<1>2. CASE w \notin Transactions
  <2> DEFINE before == writer[w].pc = "insert"  after == writer'[w].pc = "insert"
  <2>1. w \in Inserting <=> before
    BY <1>2 DEF Inserting
  <2>2. CASE before = after
    <3>1. Inserting' = Inserting
      BY <1>2, <2>2 DEF Inserting, WriterAlone
    <3> QED
      BY <1>0, <1>2, <2>2, <3>1
  <2>3. CASE ~before /\ after
    <3>1. Inserting' = Inserting \cup {w}
      BY <1>2, <2>3 DEF Inserting, WriterAlone
    <3>2. /\ IsFiniteSet(Inserting \cup {w})
          /\ Cardinality(Inserting \cup {w}) = Cardinality(Inserting) + 1
      BY <2>1, <2>3, FS_AddElement
    <3> QED
      BY <1>0, <1>2, <2>3, <3>1, <3>2
  <2>4. CASE before /\ ~after
    <3>1. Inserting' = Inserting \ {w}
      BY <1>2, <2>4 DEF Inserting, WriterAlone
    <3>2. IsFiniteSet(Inserting \ {w}) /\ Cardinality(Inserting \ {w}) = Cardinality(Inserting) - 1
      BY <2>1, <2>4, FS_RemoveElement
    <3> QED
      BY <1>0, <1>2, <2>4, <3>1, <3>2
  <2> QED
    BY <2>2, <2>3, <2>4
<1> QED
  BY <1>1, <1>2

\* At most one transaction has an id that its change has not paid for.
LEMMA UnpaidWrite ==
    ASSUME Shape, RowLockInv, NEW w \in Writers, WriterAlone(w)
    PROVE  /\ Unpaid \in {0, 1} /\ Unpaid' \in {0, 1}
           /\ w \notin Transactions => Unpaid' = Unpaid
           /\ w \in Transactions /\ Open(w) =>
                /\ Unpaid = IF writer[w].pc = "commit" THEN 1 ELSE 0
                /\ Unpaid' = IF writer'[w].pc = "commit" THEN 1 ELSE 0
           /\ w \in Transactions /\ writer[w].pc # "commit" /\ writer'[w].pc # "commit"
                => Unpaid' = Unpaid
  BY SchedulerAssumption DEF Unpaid, WriterAlone, RowLockInv, Open

\* Each id is paid for by a change or by a fault.
LEMMA SequenceWrite ==
    ASSUME Shape, RowLockInv, SequenceInv, NEW w \in Writers, WriteForm(w)
    PROVE  SequenceInv'
<1> DEFINE c == Cardinality(Inserting)  d == Cardinality(Inserting')
<1>0. /\ row \in Nat /\ seq \in Nat /\ faults \in Nat /\ IsFiniteSet(Inserting)
      /\ seq + c <= row + faults + Unpaid
  BY SchedulerAssumption DEF Shape, SequenceInv
<1>1. WriterAlone(w)
  BY DEF WriteForm, Changes, Inserts, Commits, Abandons
<1>2. /\ IsFiniteSet(Inserting') /\ c \in Nat /\ d \in Nat
      /\ w \in Transactions => d = c
      /\ w \notin Transactions => d = c + (IF writer'[w].pc = "insert" THEN 1 ELSE 0)
                                        - (IF writer[w].pc = "insert" THEN 1 ELSE 0)
  BY <1>0, <1>1, InsertingGrows, FS_CardinalityType
<1>3. /\ Unpaid \in {0, 1} /\ Unpaid' \in {0, 1}
      /\ w \notin Transactions => Unpaid' = Unpaid
      /\ w \in Transactions /\ Open(w) =>
           /\ Unpaid = IF writer[w].pc = "commit" THEN 1 ELSE 0
           /\ Unpaid' = IF writer'[w].pc = "commit" THEN 1 ELSE 0
      /\ w \in Transactions /\ writer[w].pc # "commit" /\ writer'[w].pc # "commit"
           => Unpaid' = Unpaid
  BY <1>1, UnpaidWrite
<1> HIDE DEF c, d
<1>4. seq' + d <= row' + faults' + Unpaid'
  <2>1. CASE Changes(w)
    BY <1>0, <1>2, <1>3, <2>1 DEF Changes
  <2>2. CASE Inserts(w)
    BY <1>0, <1>2, <1>3, <2>2 DEF Inserts, Open
  <2>3. CASE Commits(w)
    <3>1. writer[w].pc = "commit" /\ writer'[w].pc = "idle" /\ seq' = seq /\ faults' = faults
      BY <2>3 DEF Commits, IdleWriter
    <3>2. CASE w \in Transactions
      <4>1. Unpaid = 1 /\ Unpaid' = 0 /\ d = c /\ row' = row + 1
        BY <1>2, <1>3, <2>3, <3>1, <3>2 DEF Commits, Open
      <4> QED
        BY <1>0, <1>2, <3>1, <4>1
    <3>3. CASE w \notin Transactions
      BY <1>0, <1>2, <1>3, <2>3, <3>1, <3>3 DEF Commits
    <3> QED
      BY <3>2, <3>3
  <2>4. CASE Abandons(w)
    BY <1>0, <1>2, <1>3, <2>4 DEF Abandons, Open, IdleWriter
  <2> QED
    BY <2>1, <2>2, <2>3, <2>4 DEF WriteForm
<1> QED
  BY <1>2, <1>4 DEF SequenceInv, d

\* Nobody knows an id that was not given: workers,
LEMMA IdsWork == ASSUME Shape, IdsInv, NEW w \in Workers, WorkForm(w) PROVE IdsInv'
<1>0. seq \in Nat /\ worker[w].last <= seq /\ worker[w].mark <= seq /\ watermark <= seq
  BY DEF Shape, IdsInv
<1>1. CASE StepsAside(w)
  BY <1>0, <1>1 DEF StepsAside, Alone, IdsInv
<1>2. CASE Marks(w) \/ Loads(w) \/ Takes(w) \/ Overtaken(w)
  BY <1>0, <1>2 DEF Marks, Loads, Takes, Overtaken, Finishes, Alone, IdsInv, redis
<1>3. CASE Reads(w)
  <2>1. \A e \in outbox' : \E d \in outbox : e.id = d.id
    <3> SUFFICES ASSUME NEW e \in outbox' PROVE \E d \in outbox : e.id = d.id
      OBVIOUS
    <3>1. PICK d \in outbox :
            e = IF d \in After(worker[w].mark) THEN [d EXCEPT !.pending = FALSE] ELSE d
      BY <1>3 DEF Reads, ReleaseKeys
    <3>2. d \in WideEvent
      BY DEF Shape
    <3> QED
      BY <3>1, <3>2 DEF WideEvent
  <2> QED
    BY <1>0, <1>3, <2>1 DEF Reads, Alone, IdsInv, redis
<1>4. CASE Sets(w) \/ Deletes(w)
  BY <1>0, <1>4 DEF Sets, Deletes, Alone, IdsInv, redis
<1>5. CASE Accepts(w)
  BY <1>0, <1>5 DEF Accepts, Finishes, Renumbers, IdsInv
<1> QED
  BY <1>1, <1>2, <1>3, <1>4, <1>5 DEF WorkForm

\* and writers.
LEMMA IdsWrite == ASSUME Shape, IdsInv, NEW w \in Writers, WriteForm(w) PROVE IdsInv'
<1>0. /\ seq \in Nat /\ watermark \in Nat /\ \A e \in outbox : e.id \in Nat
      /\ \A u \in Writers : writer[u].id \in Nat
      /\ \A v \in Workers : worker[v].mark \in Nat /\ worker[v].last \in Nat
  BY DEF Shape, WideEvent, WideWriter, WideWorker
<1>1. CASE Changes(w)
  BY <1>0, <1>1 DEF WriteForm, Changes, WriterAlone, IdsInv, redis
<1>2. CASE Inserts(w)
  BY <1>0, <1>2 DEF WriteForm, Inserts, WriterAlone, IdsInv, redis
<1>3. CASE Commits(w)
  <2>1. \A e \in outbox' : e \in outbox \/ e.id = writer[w].id
    BY <1>3 DEF Commits
  <2> QED
    BY <1>0, <1>3, <2>1 DEF WriteForm, Commits, WriterAlone, IdsInv, IdleWriter, redis
<1>4. CASE Abandons(w)
  BY <1>0, <1>4 DEF WriteForm, Abandons, WriterAlone, IdsInv, IdleWriter, redis
<1> QED
  BY <1>1, <1>2, <1>3, <1>4 DEF WriteForm

\* Accepting number n leaves at most n workers without theirs.
LEMMA Outnumbered ==
    ASSUME Shape, NumbersInv, NEW n \in Nat
    PROVE  LET left == {v \in Numbered : worker[v].number > n} IN
           /\ IsFiniteSet(left) /\ Cardinality(left) \in Nat
           /\ Cardinality(Numbered) <= Cardinality(left) + n
<1> DEFINE left == {v \in Numbered : worker[v].number > n}
           gone == Numbered \ left
           f == [v \in gone |-> worker[v].number]
<1>1. IsFiniteSet(Numbered) /\ Cardinality(Numbered) \in Nat
  BY SchedulerAssumption, FS_Subset, FS_CardinalityType DEF Numbered
<1>2. IsFiniteSet(1 .. n) /\ Cardinality(1 .. n) = n
  BY FS_Interval
<1>3. \A v \in Numbered : worker[v].number \in Nat /\ worker[v].number > 0
  BY DEF Shape, WideWorker, Numbered
<1>4. f \in Injection(gone, 1 .. n)
  <2>1. f \in [gone -> 1 .. n]
    BY <1>3
  <2>2. \A u, v \in gone : f[u] = f[v] => u = v
    BY DEF NumbersInv
  <2> HIDE DEF f, gone
  <2> QED
    BY <2>1, <2>2 DEF Injection, IsInjective
<1>5. IsFiniteSet(left) /\ left \subseteq Numbered
  BY <1>1, FS_Subset
<1> HIDE DEF left, f
<1>6. Cardinality(gone) <= n
  BY <1>2, <1>4, FS_Injection
<1>7. Cardinality(gone) = Cardinality(Numbered) - Cardinality(left)
  <2>1. Numbered \cap left = left
    BY <1>5
  <2> QED
    BY <1>1, <2>1, FS_Difference
<1>8. Cardinality(left) \in Nat
  BY <1>5, FS_CardinalityType
<1>9. Cardinality(Numbered) <= Cardinality(left) + n
  BY <1>1, <1>6, <1>7, <1>8
<1> QED
  BY <1>5, <1>8, <1>9 DEF left

\* The numbers stay different and as many as the workers and the faults allow.
LEMMA NumbersWork ==
    ASSUME Shape, NumbersInv, NEW w \in Workers, WorkForm(w)
    PROVE  NumbersInv'
<1>0. /\ IsFiniteSet(Numbered) /\ Cardinality(Numbered) \in Nat
      /\ faults \in Nat /\ faults' \in Nat /\ faults <= faults'
      /\ \A v \in Workers : worker[v].number \in Nat
  <2>1. IsFiniteSet(Numbered) /\ Cardinality(Numbered) \in Nat
    BY SchedulerAssumption, FS_Subset, FS_CardinalityType DEF Numbered
  <2>2. faults \in Nat /\ \A v \in Workers : worker[v].number \in Nat
    BY SchedulerAssumption DEF Shape, WideWorker
  <2>3. faults' \in Nat /\ faults <= faults'
    BY <2>2, SchedulerAssumption
    DEF WorkForm, StepsAside, Marks, Reads, Sets, Deletes, Loads, Takes, Accepts,
       Overtaken, Finishes
  <2> QED
    BY <2>1, <2>2, <2>3
\* Without its number, if it had one, the worker leaves the others as they are.
<1>1. ASSUME Alone(w), worker'[w].number = 0, worker[w].number > 0 => faults < faults'
      PROVE  NumbersInv'
  <2>1. Numbered' = Numbered \ {w}
    BY <1>1 DEF Numbered, Alone
  <2>2. /\ w \in Numbered => Cardinality(Numbered \ {w}) = Cardinality(Numbered) - 1
        /\ w \notin Numbered => Cardinality(Numbered \ {w}) = Cardinality(Numbered)
    BY <1>0, FS_RemoveElement
  <2>3. Cardinality(Numbered) + faults <= Cardinality(Numbered') + faults'
    <3>1. CASE w \in Numbered
      <4>1. faults + 1 <= faults'
        BY <1>0, <1>1, <3>1 DEF Numbered
      <4> QED
        BY <1>0, <2>1, <2>2, <3>1, <4>1
    <3>2. CASE w \notin Numbered
      BY <1>0, <2>1, <2>2, <3>2
    <3> QED
      BY <3>1, <3>2
  <2>4. \A v \in Numbered' : v \in Numbered /\ worker'[v] = worker[v]
    BY <1>1, <2>1 DEF Alone, Numbered
  <2>5. \A v \in Numbered' : worker'[v].number <= Cardinality(Numbered') + faults'
    <3> DEFINE b == Cardinality(Numbered) + faults  c == Cardinality(Numbered') + faults'
    <3>1. b \in Nat /\ c \in Int /\ b <= c
      BY <1>0, <2>1, <2>2, <2>3
    <3>2. \A v \in Numbered' : worker[v].number \in Nat /\ worker[v].number <= b
      BY <1>0, <2>4 DEF NumbersInv, Numbered
    <3> HIDE DEF b, c
    <3>3. \A v \in Numbered' : worker'[v].number <= c
      BY <2>4, <3>1, <3>2
    <3> QED
      BY <3>3 DEF c
  <2>6. \A v \in Workers : worker'[v].number > 0 => worker'[v].pc = "activate"
    BY <1>1 DEF NumbersInv, Alone
  <2>7. \A u, v \in Numbered' : worker'[u].number = worker'[v].number => u = v
    BY <2>4 DEF NumbersInv
  <2> QED
    BY <2>5, <2>6, <2>7 DEF NumbersInv
<1>2. CASE StepsAside(w)
  BY <1>1, <1>2 DEF StepsAside
<1>3. CASE Marks(w) \/ Reads(w) \/ Sets(w) \/ Deletes(w) \/ Loads(w) \/ Overtaken(w)
  <2>1. Alone(w) /\ worker[w].number = 0 /\ worker'[w].number = 0
    BY <1>3 DEF Marks, Reads, Sets, Deletes, Loads, Overtaken, Finishes
  <2> QED
    BY <1>1, <2>1
<1>4. CASE Takes(w)
  <2> DEFINE n == worker'[w].number
  <2>0. Alone(w) /\ worker[w].number = 0 /\ n \in Nat /\ n > 0 /\ faults' = faults
        /\ n <= Cardinality(Numbered) + 1 + faults /\ worker'[w].pc = "activate"
        /\ \A v \in Numbered : worker[v].number < n
    BY <1>4 DEF Takes, Alone, WideWorker
  <2>1. Numbered' = Numbered \cup {w} /\ w \notin Numbered
    BY <2>0 DEF Numbered, Alone
  <2>2. Cardinality(Numbered') = Cardinality(Numbered) + 1
    BY <1>0, <2>1, FS_AddElement
  <2>3. \A v \in Numbered : worker'[v] = worker[v]
    BY <2>0, <2>1 DEF Alone, Numbered
  <2> HIDE DEF n
  <2>4. \A v \in Numbered' : worker'[v].number <= Cardinality(Numbered') + faults'
    <3> DEFINE b == Cardinality(Numbered) + faults  c == Cardinality(Numbered') + faults'
    <3>1. b \in Nat /\ c = b + 1 /\ n <= c
      BY <1>0, <2>0, <2>2
    <3>2. \A v \in Numbered : worker[v].number \in Nat /\ worker[v].number <= b
      BY <1>0 DEF NumbersInv, Numbered
    <3> HIDE DEF b, c
    <3>3. \A v \in Numbered' : worker'[v].number <= c
      BY <2>1, <2>3, <3>1, <3>2 DEF n
    <3> QED
      BY <3>3 DEF c
  <2>5. \A v \in Workers : worker'[v].number > 0 => worker'[v].pc = "activate"
    BY <2>0 DEF NumbersInv, Alone
  <2>6. \A u, v \in Numbered' : worker'[u].number = worker'[v].number => u = v
    BY <1>0, <2>0, <2>1, <2>3 DEF NumbersInv, n, Numbered
  <2> QED
    BY <2>4, <2>5, <2>6 DEF NumbersInv
<1>5. CASE Accepts(w)
  <2> DEFINE n == worker[w].number
             left == {v \in Numbered : worker[v].number > n}
  <2>0. /\ n \in Nat /\ n > 0 /\ faults' = faults /\ worker'[w].number = 0
        /\ \A v \in Workers \ {w} :
             /\ worker'[v].number = IF worker[v].number > n THEN worker[v].number - n ELSE 0
             /\ worker'[v].pc = worker[v].pc
    BY <1>0, <1>5 DEF Accepts, Finishes, Renumbers
  <2>1. Numbered' = left /\ w \notin left
    BY <1>0, <2>0 DEF Numbered
  <2>2. Cardinality(left) \in Nat /\ Cardinality(Numbered) <= Cardinality(left) + n
    BY <2>0, Outnumbered
  <2>3. \A v \in left : /\ worker[v].number \in Nat /\ worker[v].number > n
                        /\ worker'[v].number = worker[v].number - n
    BY <1>0, <2>0, <2>1 DEF Numbered
  <2> HIDE DEF left, n
  <2>4. \A v \in left : worker'[v].number <= Cardinality(left) + faults
    <3> DEFINE b == Cardinality(Numbered) + faults  c == Cardinality(left) + faults
    <3>1. b \in Nat /\ c \in Nat /\ b <= c + n
      BY <1>0, <2>0, <2>2
    <3>2. \A v \in left : worker[v].number <= b
      BY DEF NumbersInv, left
    <3> HIDE DEF b, c
    <3>3. \A v \in left : worker'[v].number <= c
      BY <2>0, <2>3, <3>1, <3>2
    <3> QED
      BY <3>3 DEF c
  <2>5. \A v \in Workers : worker'[v].number > 0 => worker'[v].pc = "activate"
    BY <1>0, <2>0 DEF NumbersInv
  <2>6. \A u, v \in left : worker'[u].number = worker'[v].number => u = v
    <3>1. \A u, v \in left :
            worker'[u].number = worker'[v].number => worker[u].number = worker[v].number
      BY <2>0, <2>3
    <3> QED
      BY <3>1 DEF NumbersInv, left
  <2> QED
    BY <2>0, <2>1, <2>4, <2>5, <2>6 DEF NumbersInv
<1> QED
  BY <1>2, <1>3, <1>4, <1>5 DEF WorkForm

-----------------------------------------------------------------------------
(* The order of the numbers. *)

\* The numbers stay in the order of the loads, or a load was given a new one.
LEMMA OrderWork ==
    ASSUME Shape, NumbersInv, OrderInv, NEW w \in Workers, WorkForm(w)
    PROVE  OrderInv'
<1>0. /\ list \in Nat \cup {None} /\ None \notin Nat
      /\ \A v \in Workers : worker[v].number \in Nat /\ worker[v].gen \in Nat
  BY SchedulerAssumption DEF Shape, WideWorker
<1>1. excuses \subseteq excuses'
  BY DEF WorkForm, StepsAside, Marks, Reads, Sets, Deletes, Loads, Takes, Accepts, Overtaken,
         Finishes
<1>2. SUFFICES ASSUME "misnumbered" \notin excuses, "misnumbered" \notin excuses' PROVE OrderInv'
  BY <1>1 DEF OrderInv
<1>3. ASSUME Alone(w), worker'[w].number = 0, worker'[w].pc # "activate", UNCHANGED list
      PROVE  OrderInv'
  BY <1>0, <1>2, <1>3 DEF OrderInv, Alone, Numbered
<1>4. CASE StepsAside(w)
  BY <1>3, <1>4 DEF StepsAside
<1>5. CASE Marks(w) \/ Reads(w) \/ Sets(w) \/ Deletes(w) \/ Loads(w) \/ Overtaken(w)
  BY <1>3, <1>5 DEF Marks, Reads, Sets, Deletes, Loads, Overtaken, Finishes, redis
<1>6. CASE Takes(w)
  <2>1. /\ Alone(w) /\ worker'[w].number \in Nat /\ worker'[w].number > 0 /\ list' = list
        /\ \A v \in Numbered : worker[v].number < worker'[w].number
        /\ worker'[w].gen = worker[w].gen
        /\ list # None => list <= worker[w].gen
        /\ \A v \in Numbered : worker[v].gen <= worker[w].gen
    BY <1>2, <1>6 DEF Takes, Alone, WideWorker, redis
  <2>2. \A v \in Workers \ {w} : worker'[v] = worker[v]
    BY <2>1 DEF Alone
  <2>3. /\ \A v \in Numbered : list # None => list <= worker[v].gen
        /\ \A u, v \in Numbered :
             worker[u].number < worker[v].number => worker[u].gen <= worker[v].gen
        /\ \A v \in Workers : worker[v].pc = "activate" /\ worker[v].number = 0
             => list # None /\ worker[v].gen <= list
    BY <1>2 DEF OrderInv
  <2>4. \A v \in Numbered' : list' # None => list' <= worker'[v].gen
    BY <2>1, <2>2, <2>3 DEF Numbered
  <2>5. ASSUME NEW u \in Numbered', NEW v \in Numbered', worker'[u].number < worker'[v].number
        PROVE  worker'[u].gen <= worker'[v].gen
    <3>1. CASE u = w
      <4>1. v = w \/ (v \in Numbered /\ worker'[v] = worker[v])
        BY <2>2 DEF Numbered
      <4> QED
        BY <1>0, <2>1, <2>5, <3>1, <4>1 DEF Numbered
    <3>2. CASE u # w
      <4>1. u \in Numbered /\ worker'[u] = worker[u]
        BY <2>2, <3>2 DEF Numbered
      <4>2. v = w \/ (v \in Numbered /\ worker'[v] = worker[v])
        BY <2>2 DEF Numbered
      <4> QED
        BY <2>1, <2>3, <2>5, <4>1, <4>2
    <3> QED
      BY <3>1, <3>2
  <2>6. \A v \in Workers : worker'[v].pc = "activate" /\ worker'[v].number = 0
             => list' # None /\ worker'[v].gen <= list'
    BY <2>1, <2>2, <2>3
  <2> QED
    BY <2>4, <2>5, <2>6 DEF OrderInv
<1>7. CASE Accepts(w)
  <2> DEFINE n == worker[w].number
  <2>1. /\ w \in Numbered /\ list' = worker[w].gen /\ list' \in Nat
        /\ worker'[w].number = 0 /\ worker'[w].pc # "activate"
        /\ \A v \in Workers \ {w} :
             /\ worker'[v].number = IF worker[v].number > n THEN worker[v].number - n ELSE 0
             /\ worker'[v].pc = worker[v].pc /\ worker'[v].gen = worker[v].gen
    BY <1>0, <1>7 DEF Accepts, Finishes, Renumbers, Numbered
  <2>2. /\ \A v \in Numbered : list # None => list <= worker[v].gen
        /\ \A u, v \in Numbered :
             worker[u].number < worker[v].number => worker[u].gen <= worker[v].gen
        /\ \A v \in Workers : worker[v].pc = "activate" /\ worker[v].number = 0
             => list # None /\ worker[v].gen <= list
    BY <1>2 DEF OrderInv
  <2>3. \A v \in Numbered' : /\ v \in Numbered /\ v # w /\ worker[v].number > n
                             /\ worker'[v].number = worker[v].number - n
                             /\ worker'[v].gen = worker[v].gen
    BY <1>0, <2>1 DEF Numbered
  <2>4. \A v \in Numbered' : list' <= worker'[v].gen
    BY <1>0, <2>1, <2>2, <2>3
  <2>5. \A u, v \in Numbered' :
             worker'[u].number < worker'[v].number => worker'[u].gen <= worker'[v].gen
    <3>1. \A u, v \in Numbered' :
             worker'[u].number < worker'[v].number => worker[u].number < worker[v].number
      BY <1>0, <2>3 DEF Numbered
    <3> QED
      BY <2>2, <2>3, <3>1
  <2>6. ASSUME NEW v \in Workers, worker'[v].pc = "activate", worker'[v].number = 0
        PROVE  worker'[v].gen <= list'
    <3>1. v # w /\ worker[v].pc = "activate" /\ worker'[v].gen = worker[v].gen
      BY <2>1, <2>6
    <3>2. CASE worker[v].number = 0
      BY <1>0, <2>1, <2>2, <3>1, <3>2
    <3>3. CASE worker[v].number > 0
      <4>1. v \in Numbered /\ worker[v].number <= n
        BY <1>0, <2>1, <2>6, <3>1, <3>3 DEF Numbered
      <4>2. worker[v].number # n
        BY <2>1, <3>1, <4>1 DEF NumbersInv
      <4>3. worker[v].number < n
        BY <1>0, <4>1, <4>2
      <4> QED
        BY <2>1, <2>2, <3>1, <4>1, <4>3
    <3> QED
      BY <1>0, <3>2, <3>3
  <2> QED
    BY <1>0, <2>1, <2>4, <2>5, <2>6 DEF OrderInv
<1> QED
  BY <1>4, <1>5, <1>6, <1>7 DEF WorkForm

-----------------------------------------------------------------------------
(* Freshness. *)

\* Only a change makes a load out of date, and it is announced; what is announced is
\* given up only by what a poll has read.
LEMMA FreshWork ==
    ASSUME Shape, LoadsInv, OrderInv, FreshInv, NEW w \in Workers, WorkForm(w)
    PROVE  FreshInv'
<1>0. /\ list \in Nat \cup {None} /\ None \notin Nat /\ row \in Nat /\ watermark \in Nat
      /\ \A v \in Workers : worker[v] \in WideWorker
      /\ \A e \in outbox : e.id \in Nat
  BY SchedulerAssumption DEF Shape, WideEvent
<1>1. excuses \subseteq excuses' /\ UNCHANGED <<row, writer>>
  BY DEF WorkForm, StepsAside, Marks, Reads, Sets, Deletes, Loads, Takes, Accepts, Overtaken,
         Finishes, redis
<1>2. SUFFICES ASSUME excuses = {}, excuses' = {} PROVE FreshInv'
  BY <1>1 DEF FreshInv
<1>3. /\ \A e \in outbox : e.pending =>
           watermark < e.id /\ \A v \in Workers : worker[v].mark < e.id /\ worker[v].last < e.id
      /\ list # None => Fresh(list, watermark)
      /\ \A v \in Workers :
           /\ Loaded(v) /\ list = None => Fresh(worker[v].gen, watermark)
           /\ Loaded(v) /\ Polls(v) => \/ Fresh(worker[v].gen, worker[v].last)
                                       \/ FreshList(worker[v].last)
           /\ Rebuilt(v) => FreshList(worker[v].last)
  BY <1>2 DEF FreshInv
\* A step that leaves the outbox, the watermark and the list alone, and puts the worker
\* in no place that FreshInv speaks of but where it was.
<1>4. ASSUME Alone(w), UNCHANGED <<outbox, watermark, list>>,
             worker'[w].mark \in {0, worker[w].mark, watermark},
             worker'[w].last \in {0, worker[w].last},
             Loaded(w)' /\ list = None => Fresh(worker'[w].gen, watermark),
             Loaded(w)' /\ Polls(w)' => \/ Fresh(worker'[w].gen, worker'[w].last)
                                        \/ FreshList(worker'[w].last),
             Rebuilt(w)' => FreshList(worker'[w].last)
      PROVE  FreshInv'
  <2>1. \A load, last : /\ Fresh(load, last) => Fresh(load, last)'
                        /\ FreshList(last) => FreshList(last)'
    BY <1>1, <1>4 DEF Fresh, FreshList, Coming, Announcing
  <2>2. \A v \in Workers \ {w} : worker'[v] = worker[v] /\ (Loaded(v)' <=> Loaded(v))
                                 /\ (Polls(v)' <=> Polls(v)) /\ (Rebuilt(v)' <=> Rebuilt(v))
    BY <1>4 DEF Alone, Loaded, Polls, Rebuilt
  <2>3. \A e \in outbox : e.pending =>
          \A v \in Workers : worker'[v].mark < e.id /\ worker'[v].last < e.id
    BY <1>0, <1>3, <1>4, <2>2
  <2> QED
    BY <1>3, <1>4, <2>1, <2>2, <2>3 DEF FreshInv
<1>5. CASE StepsAside(w)
  <2>1. ~Loaded(w)'
    BY <1>5 DEF StepsAside, Loaded
  <2>2. Rebuilt(w)' => FreshList(worker'[w].last)
    BY <1>2, <1>3, <1>5 DEF StepsAside
  <2> QED
    BY <1>4, <1>5, <2>1, <2>2 DEF StepsAside
<1>6. CASE Marks(w)
  <2>1. ~Loaded(w)' /\ ~Rebuilt(w)'
    BY <1>6 DEF Marks, Loaded, Rebuilt
  <2> QED
    BY <1>4, <1>6, <2>1 DEF Marks, redis
<1>7. CASE Loads(w)
  <2>1. ~Rebuilt(w)' /\ \A last : Fresh(worker'[w].gen, last)
    BY <1>7 DEF Loads, Rebuilt, Fresh
  <2> QED
    BY <1>4, <1>7, <2>1 DEF Loads, redis
<1>8. CASE Takes(w)
  <2>1. ~Rebuilt(w)' /\ Loaded(w) /\ (Polls(w)' <=> Polls(w))
    BY <1>8 DEF Takes, Rebuilt, Loaded, Polls
  <2> QED
    BY <1>3, <1>4, <1>8, <2>1 DEF Takes, redis
\* All ids stay, and nothing is pending any more.
<1>9. CASE Reads(w)
  <2>0. /\ Alone(w) /\ outbox' = ReleaseKeys(After(worker[w].mark)) /\ UNCHANGED <<watermark, list>>
        /\ ~Loaded(w)' /\ ~Rebuilt(w)'
    BY <1>9 DEF Reads, Loaded, Rebuilt, redis
  <2>1. ASSUME NEW d \in outbox
        PROVE  \E e \in outbox' : e.id = d.id
    <3> DEFINE e == IF d \in After(worker[w].mark) THEN [d EXCEPT !.pending = FALSE] ELSE d
    <3>1. e \in outbox'
      BY <2>0 DEF ReleaseKeys
    <3>2. e.id = d.id
      BY DEF Shape, WideEvent
    <3> QED
      BY <3>1, <3>2
  <2>2. ASSUME NEW e \in outbox'
        PROVE  ~e.pending
    <3>1. PICK d \in outbox :
            e = IF d \in After(worker[w].mark) THEN [d EXCEPT !.pending = FALSE] ELSE d
      BY <2>0 DEF ReleaseKeys
    <3>2. d \in WideEvent
      BY DEF Shape
    <3>3. CASE d \in After(worker[w].mark)
      BY <3>1, <3>2, <3>3 DEF WideEvent
    <3>4. CASE d \notin After(worker[w].mark)
      <4>1. ~(d.id > worker[w].mark)
        BY <3>4 DEF After
      <4>2. ~d.pending
        BY <1>0, <1>3, <4>1 DEF WideWorker
      <4> QED
        BY <3>1, <3>4, <4>2
    <3> QED
      BY <3>3, <3>4
  <2>3. \A load, last : /\ Fresh(load, last) => Fresh(load, last)'
                        /\ FreshList(last) => FreshList(last)'
    BY <1>1, <2>0, <2>1 DEF Fresh, FreshList, Coming, Announcing
  <2>4. \A v \in Workers \ {w} : worker'[v] = worker[v] /\ (Loaded(v)' <=> Loaded(v))
                                 /\ (Polls(v)' <=> Polls(v)) /\ (Rebuilt(v)' <=> Rebuilt(v))
    BY <2>0 DEF Alone, Loaded, Polls, Rebuilt
  <2> QED
    BY <1>3, <2>0, <2>2, <2>3, <2>4 DEF FreshInv
\* What the poll has read is in the list.
<1>10. CASE Sets(w)
  <2>0. /\ Alone(w) /\ watermark' = worker[w].last /\ UNCHANGED <<outbox, list>>
        /\ Rebuilt(w) /\ ~Loaded(w)' /\ worker'[w].last = worker[w].last
        /\ worker'[w].mark = worker[w].mark
    BY <1>10 DEF Sets, Loaded, Rebuilt
  <2>1. \A load, last : /\ Fresh(load, last) => Fresh(load, last)'
                        /\ FreshList(last) => FreshList(last)'
    BY <1>1, <2>0 DEF Fresh, FreshList, Coming, Announcing
  <2>2. \A v \in Workers \ {w} : worker'[v] = worker[v] /\ (Loaded(v)' <=> Loaded(v))
                                 /\ (Polls(v)' <=> Polls(v)) /\ (Rebuilt(v)' <=> Rebuilt(v))
    BY <2>0 DEF Alone, Loaded, Polls, Rebuilt
  <2>3. FreshList(worker[w].last) /\ list # None
    BY <1>3, <2>0 DEF FreshList
  <2>4. Fresh(list, watermark)'
    BY <2>0, <2>1, <2>3 DEF FreshList
  <2>5. \A e \in outbox' : e.pending =>
          watermark' < e.id /\ \A v \in Workers : worker'[v].mark < e.id /\ worker'[v].last < e.id
    BY <1>3, <2>0, <2>2
  <2>6. \A v \in Workers :
           /\ Loaded(v)' /\ Polls(v)' => \/ Fresh(worker[v].gen, worker[v].last)'
                                         \/ FreshList(worker[v].last)'
           /\ Rebuilt(v)' => FreshList(worker[v].last)'
    BY <1>3, <2>0, <2>1, <2>2, <2>3
  <2> QED
    BY <2>0, <2>3, <2>4, <2>5, <2>6 DEF FreshInv
\* What is deleted is in the list.
<1>11. CASE Deletes(w)
  <2>0. /\ Alone(w) /\ outbox' \subseteq outbox /\ UNCHANGED <<watermark, list>>
        /\ \A e \in outbox \ outbox' : e.id <= worker[w].last
        /\ Rebuilt(w) /\ ~Loaded(w)' /\ ~Rebuilt(w)'
        /\ worker'[w].last = 0 /\ worker'[w].mark = 0
    BY <1>11 DEF Deletes, Loaded, Rebuilt, redis
  <2>1. FreshList(worker[w].last) /\ list # None
    BY <1>3, <2>0 DEF FreshList
  <2>2. ASSUME NEW last \in Nat, Coming(last)
        PROVE  Fresh(list, last)'
    <3>1. CASE \E u \in Writers \ Transactions : Announcing(u)
      BY <1>1, <3>1 DEF Fresh, Coming, Announcing
    <3>2. ASSUME NEW e \in outbox, e.id > last PROVE Fresh(list, last)'
      <4>1. CASE e \in outbox'
        BY <3>2, <4>1 DEF Fresh, Coming
      <4>2. CASE e \notin outbox'
        <5>1. last < worker[w].last /\ worker[w].last \in Nat
          BY <1>0, <2>0, <3>2, <4>2 DEF WideWorker
        <5>2. CASE list = row
          BY <1>1, <2>0, <5>2 DEF Fresh
        <5>3. CASE \E u \in Writers \ Transactions : Announcing(u)
          BY <1>1, <5>3 DEF Fresh, Coming, Announcing
        <5>4. ASSUME NEW d \in outbox, d.id > worker[w].last PROVE Fresh(list, last)'
          <6>1. d \in outbox' /\ d.id > last
            BY <1>0, <2>0, <5>1, <5>4
          <6> QED
            BY <6>1 DEF Fresh, Coming
        <5> QED
          BY <2>1, <5>2, <5>3, <5>4 DEF FreshList, Fresh, Coming
      <4> QED
        BY <4>1, <4>2
    <3> QED
      BY <2>2, <3>1, <3>2 DEF Coming
  <2>3. \A last \in Nat : /\ Fresh(list, last) => Fresh(list, last)'
                          /\ FreshList(last) => FreshList(last)'
    BY <1>1, <2>0, <2>2 DEF Fresh, FreshList
  <2>4. \A load, last : last \in Nat /\ Fresh(load, last) =>
                          Fresh(load, last)' \/ FreshList(last)'
    BY <1>1, <2>0, <2>1, <2>2 DEF Fresh, FreshList
  <2>5. \A v \in Workers \ {w} : worker'[v] = worker[v] /\ (Loaded(v)' <=> Loaded(v))
                                 /\ (Polls(v)' <=> Polls(v)) /\ (Rebuilt(v)' <=> Rebuilt(v))
    BY <2>0 DEF Alone, Loaded, Polls, Rebuilt
  <2>6. \A e \in outbox' : e.pending =>
          watermark' < e.id /\ \A v \in Workers : worker'[v].mark < e.id /\ worker'[v].last < e.id
    <3>1. \A e \in outbox : e.pending => 0 < e.id
      BY <1>0, <1>3
    <3> QED
      BY <1>3, <2>0, <2>5, <3>1
  <2>7. \A v \in Workers : worker[v].last \in Nat
    BY <1>0 DEF WideWorker
  <2>8. ASSUME NEW v \in Workers
        PROVE  /\ Loaded(v)' /\ Polls(v)' => \/ Fresh(worker[v].gen, worker[v].last)'
                                             \/ FreshList(worker[v].last)'
               /\ Rebuilt(v)' => FreshList(worker[v].last)'
    <3>1. CASE v = w
      BY <2>0, <3>1
    <3>2. CASE v # w
      <4>1. worker'[v] = worker[v] /\ (Loaded(v)' <=> Loaded(v))
            /\ (Polls(v)' <=> Polls(v)) /\ (Rebuilt(v)' <=> Rebuilt(v))
        BY <2>5, <3>2
      <4>2. Rebuilt(v)' => FreshList(worker[v].last)'
        BY <1>3, <2>3, <2>7, <4>1 DEF FreshList, Fresh, Coming, Announcing
      <4>3. Loaded(v)' /\ Polls(v)' => \/ Fresh(worker[v].gen, worker[v].last)'
                                       \/ FreshList(worker[v].last)'
        <5>1. PICK load, last : load = worker[v].gen /\ last = worker[v].last
          OBVIOUS
        <5>2. /\ Fresh(load, last) => Fresh(load, last)' \/ FreshList(last)'
              /\ FreshList(last) => FreshList(last)'
          BY <2>3, <2>4, <2>7, <5>1
        <5>3. Loaded(v)' /\ Polls(v)' => Fresh(load, last) \/ FreshList(last)
          BY <1>3, <4>1, <5>1
        <5> QED
          BY <4>1, <5>1, <5>2, <5>3 DEF FreshList, Fresh, Coming, Announcing
      <4> QED
        BY <4>2, <4>3
    <3> QED
      BY <3>1, <3>2
  <2>9. Fresh(list, watermark)'
    <3>1. Fresh(list, watermark)
      BY <1>3, <2>1
    <3> QED
      BY <1>0, <2>0, <2>3, <3>1 DEF Fresh, Coming, Announcing
  <2> QED
    BY <2>0, <2>1, <2>6, <2>8, <2>9 DEF FreshInv
\* The list does not go back: when it has seen every change, so has the new one.
<1>12. CASE Accepts(w)
  <2> DEFINE new == worker[w].gen
  <2>0. /\ list' = new /\ new \in Nat /\ list' # None /\ new <= row
        /\ list # None => list <= new /\ list \in Nat
        /\ UNCHANGED <<row, outbox, watermark, writer>>
    <3>1. w \in Numbered /\ "misnumbered" \notin excuses
      BY <1>2, <1>12 DEF Accepts, Numbered
    <3> QED
      BY <1>0, <1>12, <3>1 DEF Accepts, Finishes, LoadsInv, OrderInv, WideWorker
  <2>1. \A load, last : Fresh(load, last) => Fresh(load, last)'
    BY <2>0 DEF Fresh, Coming, Announcing
  <2>2. \A last : FreshList(last) => FreshList(last)'
    BY <1>0, <2>0 DEF FreshList, Fresh, Coming, Announcing
  <2>3. \A last : Fresh(new, last) => FreshList(last)'
    BY <2>0 DEF FreshList, Fresh, Coming, Announcing
  <2>4. Loaded(w) /\ ~Loaded(w)'
    BY <1>12 DEF Accepts, Finishes, Loaded
  <2>5. Fresh(list, watermark)'
    <3>1. CASE list = None
      <4>1. Fresh(new, watermark)
        BY <1>3, <2>4, <3>1
      <4> QED
        BY <2>0, <2>3, <4>1 DEF FreshList, Fresh, Coming, Announcing
    <3>2. CASE list # None
      <4>1. FreshList(watermark)
        BY <1>3, <3>2 DEF FreshList
      <4> QED
        BY <2>0, <2>2, <4>1 DEF FreshList, Fresh, Coming, Announcing
    <3> QED
      BY <3>1, <3>2
  <2>6. \A v \in Workers \ {w} :
          /\ worker'[v].mark = worker[v].mark /\ worker'[v].last = worker[v].last
          /\ worker'[v].gen = worker[v].gen
          /\ (Loaded(v)' <=> Loaded(v)) /\ (Polls(v)' <=> Polls(v)) /\ (Rebuilt(v)' <=> Rebuilt(v))
    BY <1>12 DEF Accepts, Renumbers, Loaded, Polls, Rebuilt
  <2>7. /\ worker'[w].mark \in {0, worker[w].mark} /\ worker'[w].last \in {0, worker[w].last}
        /\ Rebuilt(w)' => Polls(w) /\ worker'[w].last = worker[w].last
    BY <1>12 DEF Accepts, Finishes
  <2>8. \A e \in outbox' : e.pending =>
          watermark' < e.id /\ \A v \in Workers : worker'[v].mark < e.id /\ worker'[v].last < e.id
    BY <1>0, <1>3, <2>0, <2>6, <2>7
  <2>9. ASSUME NEW v \in Workers
        PROVE  /\ Loaded(v)' /\ Polls(v)' => \/ Fresh(worker[v].gen, worker[v].last)'
                                             \/ FreshList(worker[v].last)'
               /\ Rebuilt(v)' => FreshList(worker[v].last)'
    <3>1. PICK load, last : load = worker[v].gen /\ last = worker[v].last
      OBVIOUS
    <3>2. CASE v = w
      <4>1. Rebuilt(v)' => worker'[v].last = last /\ (Fresh(new, last) \/ FreshList(last))
        BY <1>3, <2>4, <2>7, <3>1, <3>2
      <4>2. Rebuilt(v)' => worker'[v].last = last /\ FreshList(last)'
        BY <2>2, <2>3, <4>1
      <4> QED
        BY <2>4, <3>2, <4>2 DEF FreshList, Fresh, Coming, Announcing
    <3>3. CASE v # w
      <4>1. /\ Loaded(v)' /\ Polls(v)' => Fresh(load, last) \/ FreshList(last)
            /\ Rebuilt(v)' => FreshList(last)
        BY <1>3, <2>6, <3>1, <3>3
      <4>2. /\ Loaded(v)' /\ Polls(v)' => Fresh(load, last)' \/ FreshList(last)'
            /\ Rebuilt(v)' => FreshList(last)'
        BY <2>1, <2>2, <4>1
      <4>3. worker'[v].gen = load /\ worker'[v].last = last
        BY <2>6, <3>1, <3>3
      <4> QED
        BY <4>2, <4>3 DEF FreshList, Fresh, Coming, Announcing
    <3> QED
      BY <3>2, <3>3
  <2> QED
    BY <2>0, <2>5, <2>8, <2>9 DEF FreshInv
\* The list overtook this load.
<1>13. CASE Overtaken(w)
  <2>0. /\ Alone(w) /\ UNCHANGED <<outbox, watermark, list>> /\ ~Loaded(w)'
        /\ worker'[w].mark \in {0, worker[w].mark} /\ worker'[w].last \in {0, worker[w].last}
        /\ Rebuilt(w)' => Polls(w) /\ worker'[w].last = worker[w].last
        /\ Loaded(w) /\ list # None /\ worker[w].gen <= list /\ list <= row
        /\ worker[w].gen \in Nat /\ list \in Nat
    <3>1. "misnumbered" \notin excuses /\ worker[w].pc = "activate" /\ worker[w].number = 0
      BY <1>2, <1>13 DEF Overtaken, Finishes
    <3> QED
      BY <1>0, <1>13, <3>1 DEF Overtaken, Finishes, LoadsInv, OrderInv, Loaded, WideWorker
  <2>1. \A last : Fresh(worker[w].gen, last) => FreshList(last)
    BY <1>0, <2>0 DEF Fresh, FreshList
  <2>2. Rebuilt(w)' => FreshList(worker'[w].last)
    BY <1>3, <2>0, <2>1
  <2> QED
    BY <1>4, <2>0, <2>2
<1> QED
  BY <1>5, <1>6, <1>7, <1>8, <1>9, <1>10, <1>11, <1>12, <1>13 DEF WorkForm

\* A change is announced, by its writer, by a pending event, or by its own.
LEMMA FreshWrite ==
    ASSUME Shape, FreshInv, NEW w \in Writers, WriteForm(w)
    PROVE  FreshInv'
<1>0. /\ watermark \in Nat /\ seq \in Nat /\ writer[w].id \in Nat
      /\ \A v \in Workers : worker[v].mark \in Nat /\ worker[v].last \in Nat
      /\ UNCHANGED <<watermark, list, worker>>
  BY DEF Shape, WideWriter, WideWorker, WriteForm, redis
<1>1. excuses \subseteq excuses'
  BY DEF WriteForm, Changes, Inserts, Commits, Abandons
<1>2. SUFFICES ASSUME excuses = {}, excuses' = {} PROVE FreshInv'
  BY <1>1 DEF FreshInv
<1>3. /\ \A e \in outbox : e.pending =>
           watermark < e.id /\ \A v \in Workers : worker[v].mark < e.id /\ worker[v].last < e.id
      /\ list # None => Fresh(list, watermark)
      /\ \A v \in Workers :
           /\ Loaded(v) /\ list = None => Fresh(worker[v].gen, watermark)
           /\ Loaded(v) /\ Polls(v) => \/ Fresh(worker[v].gen, worker[v].last)
                                       \/ FreshList(worker[v].last)
           /\ Rebuilt(v) => FreshList(worker[v].last)
  BY <1>2 DEF FreshInv
<1>4. \A v \in Workers : (Loaded(v)' <=> Loaded(v)) /\ (Polls(v)' <=> Polls(v))
                         /\ (Rebuilt(v)' <=> Rebuilt(v))
  BY <1>0 DEF Loaded, Polls, Rebuilt
<1> DEFINE Read(last) == last = watermark \/ \E v \in Workers : last = worker[v].last
           Kept == \A load, last : Read(last) =>
                     /\ Fresh(load, last) => Fresh(load, last)'
                     /\ FreshList(last) => FreshList(last)'
           All  == \A last : Read(last) => Coming(last)'
<1>5. All => Kept
  BY <1>0 DEF Fresh, FreshList
<1>6. (\E e \in outbox : e.pending) => \A last : Read(last) => \E e \in outbox : e.id > last
  BY <1>0, <1>3 DEF Shape, WideEvent
<1>7. ASSUME Kept,
             \A e \in outbox' \ outbox :
               watermark < e.id /\ \A v \in Workers : worker[v].mark < e.id /\ worker[v].last < e.id
      PROVE  FreshInv'
  <2>1. Fresh(list, watermark) => Fresh(list, watermark)'
    <3>1. PICK load, last : load = list /\ last = watermark
      OBVIOUS
    <3>2. Fresh(load, last) => Fresh(load, last)'
      BY <1>7, <3>1
    <3> QED
      BY <1>0, <3>1, <3>2 DEF Fresh, Coming, Announcing
  <2>2. ASSUME NEW v \in Workers
        PROVE  /\ Fresh(worker[v].gen, watermark) => Fresh(worker[v].gen, watermark)'
               /\ Fresh(worker[v].gen, worker[v].last) => Fresh(worker[v].gen, worker[v].last)'
               /\ FreshList(worker[v].last) => FreshList(worker[v].last)'
    <3>1. PICK load, last, mark : load = worker[v].gen /\ last = worker[v].last /\ mark = watermark
      OBVIOUS
    <3>2. /\ Fresh(load, last) => Fresh(load, last)'
          /\ Fresh(load, mark) => Fresh(load, mark)'
          /\ FreshList(last) => FreshList(last)'
      BY <1>7, <3>1
    <3> QED
      BY <1>0, <3>1, <3>2 DEF FreshList, Fresh, Coming, Announcing
  <2>3. \A e \in outbox' : e.pending =>
          watermark' < e.id /\ \A v \in Workers : worker'[v].mark < e.id /\ worker'[v].last < e.id
    BY <1>0, <1>3, <1>7
  <2> HIDE DEF Kept
  <2> QED
    BY <1>0, <1>3, <1>4, <2>1, <2>2, <2>3 DEF FreshInv
<1>8. ASSUME w \in Transactions, WriterAlone(w), UNCHANGED <<row, outbox>>
      PROVE  Kept
  BY <1>0, <1>8 DEF WriterAlone, FreshList, Fresh, Coming, Announcing
<1>9. CASE Changes(w)
  <2>1. outbox' = outbox /\ WriterAlone(w)
    BY <1>9 DEF Changes
  <2>2. CASE w \in Transactions
    BY <1>7, <1>8, <1>9, <2>1, <2>2 DEF Changes
  <2>3. CASE w \notin Transactions
    <3>1. All
      BY <1>9, <2>3 DEF Changes, Coming, Announcing
    <3> QED
      BY <1>5, <1>7, <2>1, <3>1
  <2> QED
    BY <2>2, <2>3
<1>10. CASE Inserts(w)
  <2>1. outbox' = outbox /\ row' = row /\ WriterAlone(w)
    BY <1>10 DEF Inserts
  <2>2. CASE w \in Transactions
    BY <1>7, <1>8, <2>1, <2>2
  <2>3. CASE w \notin Transactions /\ writer'[w].id # 0
    <3>1. All
      BY <1>10, <2>3 DEF Inserts, Coming, Announcing
    <3> QED
      BY <1>5, <1>7, <2>1, <3>1
  <2>4. CASE writer'[w].id = 0
    <3>1. \E e \in outbox : e.pending
      BY <1>0, <1>10, <2>4 DEF Inserts
    <3>2. All
      BY <1>6, <2>1, <3>1 DEF Coming
    <3> QED
      BY <1>5, <1>7, <2>1, <3>2
  <2> QED
    BY <2>2, <2>3, <2>4
<1>11. CASE Commits(w)
  <2>0. WriterAlone(w) /\ writer[w].pc = "commit"
    BY <1>11 DEF Commits
  <2>1. CASE writer[w].id # 0 /\ ~Passed(writer[w].id)
    <3> DEFINE e == [id |-> writer[w].id, key |-> writer[w].key, pending |-> TRUE]
    <3>1. outbox' = outbox \cup {e} /\ e.id = writer[w].id
      BY <1>11, <2>1 DEF Commits
    <3>2. watermark < e.id /\ \A v \in Workers : worker[v].mark < e.id /\ worker[v].last < e.id
      BY <1>0, <2>1, <3>1 DEF Passed
    <3> HIDE DEF e
    <3>3. All
      BY <3>1, <3>2 DEF Coming
    <3>4. \A d \in outbox' \ outbox :
            watermark < d.id /\ \A v \in Workers : worker[v].mark < d.id /\ worker[v].last < d.id
      BY <3>1, <3>2
    <3> QED
      BY <1>5, <1>7, <3>3, <3>4
  <2>2. CASE writer[w].id = 0
    <3>1. outbox' = outbox
      BY <1>11, <2>2 DEF Commits
    <3>2. CASE w \in Transactions
      <4>1. \E e \in outbox : e.pending
        BY <1>2, <1>11, <2>2, <3>2 DEF Commits
      <4>2. All
        BY <1>6, <3>1, <4>1 DEF Coming
      <4> QED
        BY <1>5, <1>7, <3>1, <4>2
    <3>3. CASE w \notin Transactions
      <4>1. row' = row
        BY <1>11, <3>3 DEF Commits
      <4>2. ~Announcing(w)
        BY <2>0, <2>2 DEF Announcing
      <4>3. Kept
        BY <1>0, <2>0, <3>1, <4>1, <4>2 DEF WriterAlone, FreshList, Fresh, Coming, Announcing
      <4> QED
        BY <1>7, <3>1, <4>3
    <3> QED
      BY <3>2, <3>3
  <2> QED
    BY <1>2, <1>11, <2>1, <2>2 DEF Commits
<1>12. CASE Abandons(w)
  <2>1. w \in Transactions /\ WriterAlone(w) /\ UNCHANGED <<row, outbox>>
    BY <1>2, <1>12 DEF Abandons
  <2> QED
    BY <1>7, <1>8, <2>1
<1> QED
  BY <1>9, <1>10, <1>11, <1>12 DEF WriteForm

-----------------------------------------------------------------------------
(* The invariant, and what follows from it. *)

IInv == Shape /\ BoundsInv /\ OrderInv /\ FreshInv

\* The inductive invariant holds at first,
LEMMA InvInit == Init => IInv
<1> SUFFICES ASSUME Init PROVE IInv
  OBVIOUS
<1>1. Shape
  BY IdleIsWide, SchedulerAssumption DEF Init, Shape
<1>2. LoadsInv /\ RowLockInv /\ IdsInv
  BY SchedulerAssumption DEF Init, LoadsInv, RowLockInv, Open, IdsInv, IdleWriter, IdleWorker
<1>3. SequenceInv
  <2>1. Inserting = {}
    BY DEF Init, Inserting, IdleWriter
  <2>2. Unpaid \in {0, 1}
    BY DEF Unpaid
  <2> QED
    BY <2>1, <2>2, FS_EmptySet DEF Init, SequenceInv
<1>4. NumbersInv
  BY DEF Init, NumbersInv, Numbered, IdleWorker
<1>5. OrderInv /\ FreshInv
  BY DEF Init, OrderInv, FreshInv, Numbered, IdleWorker, Loaded, Rebuilt
<1> QED
  BY <1>1, <1>2, <1>3, <1>4, <1>5 DEF IInv, BoundsInv

\* and every step keeps it.
LEMMA InvStep == IInv /\ [Next]_vars => IInv'
<1> SUFFICES ASSUME IInv, [Next]_vars PROVE IInv'
  OBVIOUS
<1> USE DEF IInv, BoundsInv
<1>1. ASSUME NEW w \in Writers, WriterStep(w) PROVE IInv'
  <2>1. WriteForm(w)
    BY <1>1, WriterForm
  <2>2. Shape' /\ LoadsInv' /\ RowLockInv' /\ SequenceInv' /\ IdsInv' /\ FreshInv'
    BY <2>1, ShapeWrite, LoadsWrite, RowLockWrite, SequenceWrite, IdsWrite, FreshWrite
  <2>3. /\ UNCHANGED <<list, worker>> /\ excuses \subseteq excuses'
        /\ faults \in Nat /\ faults' \in Nat /\ faults <= faults'
    BY <2>1, SchedulerAssumption DEF WriteForm, Changes, Inserts, Commits, Abandons, redis, Shape
  <2>4. NumbersInv'
    <3>1. Numbered' = Numbered /\ Cardinality(Numbered) \in Nat
      BY <2>3, SchedulerAssumption, FS_Subset, FS_CardinalityType DEF Numbered
    <3>2. \A v \in Numbered : worker[v].number \in Nat
      BY DEF Numbered, Shape, WideWorker
    <3>3. \A v \in Numbered : worker[v].number <= Cardinality(Numbered) + faults'
      BY <2>3, <3>1, <3>2 DEF NumbersInv
    <3> QED
      BY <2>3, <3>1, <3>3 DEF NumbersInv
  <2>5. OrderInv'
    BY <2>3 DEF OrderInv, Numbered
  <2> QED
    BY <2>2, <2>4, <2>5
<1>2. ASSUME NEW w \in Workers, WorkerStep(w) PROVE IInv'
  <2>1. WorkForm(w)
    BY <1>2, WorkerForm
  <2>2. Shape' /\ LoadsInv' /\ IdsInv' /\ NumbersInv' /\ OrderInv' /\ FreshInv'
    BY <2>1, ShapeWork, LoadsWork, IdsWork, NumbersWork, OrderWork, FreshWork
  <2>3. UNCHANGED <<row, seq, writer>>
    BY <2>1 DEF WorkForm, StepsAside, Marks, Reads, Sets, Deletes, Loads, Takes, Accepts, Overtaken,
           Finishes
  <2>4. faults <= faults' /\ faults \in Nat /\ faults' \in Nat
    BY <2>1, <2>2, SchedulerAssumption
       DEF WorkForm, StepsAside, Marks, Reads, Sets, Deletes, Loads, Takes, Accepts, Overtaken,
           Finishes, Shape
  <2>5. RowLockInv'
    BY <2>3 DEF RowLockInv, Open
  <2>6. SequenceInv'
    <3>1. Inserting' = Inserting /\ Unpaid' = Unpaid /\ Unpaid \in {0, 1}
      BY <2>3 DEF Inserting, Unpaid
    <3>2. Cardinality(Inserting) \in Nat /\ seq \in Nat /\ row \in Nat
      BY FS_CardinalityType DEF SequenceInv, Shape
    <3> QED
      BY <2>3, <2>4, <3>1, <3>2 DEF SequenceInv
  <2> QED
    BY <2>2, <2>5, <2>6
<1>3. CASE ExpireLock \/ UNCHANGED vars
  <2>1. /\ UNCHANGED <<row, outbox, seq, watermark, list, writer, worker, excuses, faults>>
        /\ lock' \in Workers \cup {NoOne}
    BY <1>3 DEF ExpireLock, vars, redis, Shape
  <2>2. Shape' /\ LoadsInv' /\ RowLockInv' /\ IdsInv'
    BY <2>1 DEF Shape, LoadsInv, RowLockInv, Open, IdsInv
  <2>3. SequenceInv'
    BY <2>1 DEF SequenceInv, Inserting, Unpaid
  <2>4. NumbersInv' /\ OrderInv'
    BY <2>1 DEF NumbersInv, OrderInv, Numbered
  <2>5. FreshInv'
    BY <2>1 DEF FreshInv, FreshList, Fresh, Coming, Announcing, Loaded, Polls, Rebuilt
  <2> QED
    BY <2>2, <2>3, <2>4, <2>5
<1> QED
  BY <1>1, <1>2, <1>3 DEF Next, WriterStep, WorkerStep

\* What the counting is for: ids and numbers stay within their types.
LEMMA InvType == IInv => TypeOK
<1> SUFFICES ASSUME IInv PROVE TypeOK
  OBVIOUS
<1> USE DEF IInv, BoundsInv
<1>0. /\ MaxGen \in Nat /\ MaxFaults \in Nat /\ row \in Nat /\ seq \in Nat
      /\ faults \in Nat /\ faults <= MaxFaults
  BY SchedulerAssumption DEF Shape
<1>1. row + Unpaid <= MaxGen
  <2>1. CASE \E w \in Transactions : writer[w].pc = "commit"
    <3>1. row < MaxGen /\ Unpaid = 1
      BY <2>1 DEF RowLockInv, Open, Unpaid
    <3> QED
      BY <1>0, <3>1
  <2>2. CASE ~\E w \in Transactions : writer[w].pc = "commit"
    <3>1. Unpaid = 0
      BY <2>2 DEF Unpaid
    <3> QED
      BY <1>0, <3>1 DEF LoadsInv
  <2> QED
    BY <2>1, <2>2
<1>2. seq <= MaxGen + MaxFaults
  <2>1. Cardinality(Inserting) \in Nat /\ Unpaid \in {0, 1}
    BY FS_CardinalityType DEF SequenceInv, Unpaid
  <2> QED
    BY <1>0, <1>1, <2>1 DEF SequenceInv
<1>3. ASSUME NEW id \in Nat, id <= seq PROVE id \in Ids
  BY <1>0, <1>2, <1>3 DEF Ids
<1>4. ASSUME NEW g \in Nat, g <= row PROVE g \in Gens
  BY <1>0, <1>4 DEF LoadsInv, Gens
<1>5. outbox \subseteq Event
  BY <1>3 DEF Shape, WideEvent, Event, IdsInv
<1>6. writer \in [Writers -> WriterJob]
  BY <1>3 DEF Shape, WideWriter, WriterJob, IdsInv
<1>7. ASSUME NEW v \in Workers PROVE worker[v].number \in 0..(Cardinality(Workers) + MaxFaults)
  <2>1. /\ Cardinality(Numbered) \in Nat /\ Cardinality(Workers) \in Nat
        /\ Cardinality(Numbered) <= Cardinality(Workers)
    BY SchedulerAssumption, FS_Subset, FS_CardinalityType DEF Numbered
  <2>2. worker[v].number \in Nat
    BY DEF Shape, WideWorker
  <2>3. CASE v \in Numbered
    <3>1. worker[v].number <= Cardinality(Numbered) + faults
      BY <2>3 DEF NumbersInv
    <3> QED
      BY <1>0, <2>1, <2>2, <3>1
  <2>4. CASE v \notin Numbered
    BY <1>0, <2>1, <2>2, <2>4 DEF Numbered
  <2> QED
    BY <2>3, <2>4
<1>8. ASSUME NEW v \in Workers PROVE worker[v] \in WorkerJob
  <2>1. worker[v] \in WideWorker
    BY DEF Shape
  <2>2. worker[v].mark \in Ids /\ worker[v].last \in Ids /\ worker[v].gen \in Gens
    BY <1>3, <1>4, <2>1 DEF WideWorker, IdsInv, LoadsInv
  <2> QED
    BY <1>7, <2>1, <2>2 DEF WideWorker, WorkerJob, Roles, Places
<1>9. row \in Gens /\ seq \in Ids /\ watermark \in Ids /\ list \in Gens \cup {None}
  BY <1>0, <1>3, <1>4 DEF Shape, IdsInv, LoadsInv
<1> QED
  BY <1>5, <1>6, <1>8, <1>9 DEF Shape, TypeOK

\* Every reachable state is type-correct: ids and version numbers stay as few as the
\* changes, the workers and the faults there are.
THEOREM TypeCorrect == Spec => []TypeOK
BY InvInit, InvStep, InvType, PTL DEF Spec

\* A step that activates another list activates a later load.
LEMMA ListStep ==
    ASSUME IInv, [Next]_vars
    PROVE  list # None /\ list' # list => list' > list \/ "misnumbered" \in excuses
<1> USE DEF IInv, BoundsInv
<1> SUFFICES ASSUME list # None, list' # list, "misnumbered" \notin excuses PROVE list' > list
  OBVIOUS
<1>1. PICK w \in Workers : WorkForm(w)
  <2>1. \E w \in Workers : WorkerStep(w)
    BY DEF Next, vars, redis, Announce, Change, Insert, Commit, InsertFails, ExpireLock, WorkerStep
  <2> QED
    BY <2>1, WorkerForm
<1>2. Accepts(w)
  BY <1>1 DEF WorkForm, StepsAside, Marks, Reads, Sets, Deletes, Loads, Takes, Overtaken, redis
<1>3. list \in Nat /\ worker[w].gen \in Nat /\ list <= worker[w].gen
  BY <1>2 DEF Accepts, Shape, WideWorker, OrderInv, Numbered
<1> QED
  BY <1>2, <1>3 DEF Accepts

\* However many rebuilds and requests activate their lists, and whoever fails or dies in
\* between, the active list is never of an older load than the one before, unless an
\* old load got a new number.
THEOREM NoStaleActivation == Spec => ListNeverGoesBack
<1>1. IInv /\ [Next]_vars =>
        [list # None /\ list' # list => list' > list \/ "misnumbered" \in excuses]_vars
  BY ListStep
<1> QED
  BY <1>1, InvInit, InvStep, PTL DEF Spec, ListNeverGoesBack

\* When all is quiet the active list is of a load that read the last change, unless one
\* of the marked accidents has happened.
THEOREM QuietAndFresh == Spec => []QuietIsFresh
<1>1. IInv => QuietIsFresh
  <2> SUFFICES ASSUME IInv, Quiet, list # None, excuses = {} PROVE list = row
    BY DEF QuietIsFresh
  <2>1. Fresh(list, watermark)
    BY DEF IInv, FreshInv
  <2>2. \A e \in outbox : e.id \in Nat /\ watermark \in Nat /\ e.id <= watermark
    BY DEF IInv, Shape, WideEvent, Quiet
  <2>3. ~Coming(watermark)
    BY <2>2 DEF Quiet, Coming, Announcing
  <2> QED
    BY <2>1, <2>3 DEF Fresh
<1> QED
  BY <1>1, InvInit, InvStep, PTL DEF Spec
=============================================================================
