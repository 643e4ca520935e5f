------------------------- MODULE OAuthRefreshProofs -------------------------
(***************************************************************************)
(* Proofs about OAuthRefresh for any number of workers and servers, any    *)
(* number of retries, and any bounds on generations and faults.            *)
(***************************************************************************)
EXTENDS OAuthRefresh, TLAPS

-----------------------------------------------------------------------------
(* Type correctness. *)

RowType   == gen \in Generations /\ status \in {"active", "error"} /\ blocked \in BOOLEAN
WorldType == latest \in Generations /\ revoked \in BOOLEAN /\ aged \in Generations
KeysType  == lock \in Workers \cup {NoWorker} /\ cache \in Generations \cup {NoToken}
JobType   == job \in [Workers -> Job]
PastType  == excuses \subseteq {"unlocked", "lost", "misread", "revoked"} /\ faults \in 0..MaxFaults

\* The type invariant in parts, to be cited apart.
LEMMA TypeParts == TypeOK <=> RowType /\ WorldType /\ KeysType /\ JobType /\ PastType
  BY DEF TypeOK, RowType, WorldType, KeysType, JobType, PastType

\* Having nothing to do is a job.
LEMMA IdleIsJob == IdleJob \in Job
  BY BoundAssumption DEF IdleJob, Job, Places, Generations

\* The fields of a job are of their types.
LEMMA Busy ==
    ASSUME JobType, NEW w \in Workers
    PROVE  /\ job[w] \in Job
           /\ job[w].pc \in Places /\ job[w].acc \in Generations /\ job[w].fresh \in Generations
           /\ job[w].new \in Generations /\ job[w].locked \in BOOLEAN /\ job[w].stale \in BOOLEAN
           /\ job[w].seenBlocked \in BOOLEAN
           /\ job[w].result \in {"none", "fresh", "refreshed", "failed", "dead"}
           /\ job[w].tries \in 0..MaxRetries
  BY DEF JobType, Job

\* A worker that takes a new job leaves the others theirs.
LEMMA BecomeKeepsType ==
    ASSUME JobType, NEW w \in Workers, NEW j \in Job, Become(w, j)
    PROVE  JobType' /\ job'[w] = j /\ \A v \in Workers \ {w} : job'[v] = job[v]
  BY DEF JobType, Become

\* An attempt under way is not beyond the last one.
TriesLeft == \A w \in Workers : job[w].pc \in Critical \cup {"enter"} => job[w].tries < MaxRetries

\* Every step of a worker is one new job.
LEMMA StepIsJob ==
    ASSUME TypeOK, TriesLeft, NEW w \in Workers, StartCycle(w) \/ StartRequest(w) \/ Work(w)
    PROVE  \E j \in Job : Become(w, j)
<1> USE DEF Idle, Goto, Finish
<1>0. RowType /\ WorldType /\ KeysType /\ JobType /\ IdleJob \in Job /\ 0 \in Generations
  BY TypeParts, IdleIsJob, BoundAssumption DEF Generations
<1>1. CASE StartCycle(w)
  BY <1>0, <1>1 DEF StartCycle, RowType, IdleJob, Job, Places
<1>2. CASE StartRequest(w)
  <2>1. PICK g \in 0..gen :
          Become(w, [IdleJob EXCEPT !.pc = IF Due(g) THEN "enter" ELSE "check", !.acc = g])
    BY <1>2 DEF StartRequest
  <2>2. g \in Generations
    BY <1>0, BoundAssumption DEF RowType, Generations
  <2>3. \A place \in Places : [IdleJob EXCEPT !.pc = place, !.acc = g] \in Job
    BY <2>2, IdleIsJob DEF IdleJob, Job
  <2>4. (IF Due(g) THEN "enter" ELSE "check") \in Places
    BY DEF Places
  <2> QED
    BY <2>1, <2>3, <2>4
<1>3. CASE Enter(w) \/ LockHeld(w)
  BY <1>0, <1>3, Busy DEF Enter, LockHeld, Job, Places, Critical
<1>4. CASE Reread(w)
  BY <1>0, <1>4, Busy DEF Reread, AfterReread, RowType, Job, Places, Critical
<1>5. CASE Call(w)
  <2>1. latest + 1 \in Generations
    BY <1>0, <1>5, BoundAssumption DEF Call, WorldType, Generations
  <2> QED
    BY <1>0, <1>5, <2>1, Busy DEF Call, Job, Places, Critical
<1>6. CASE Refused(w) \/ CallFails(w)
  BY <1>0, <1>6, Busy DEF Refused, CallFails, Job, Places, Critical
<1>7. CASE Recover(w)
  BY <1>0, <1>7, Busy DEF Recover, RowType, Job, Places, Critical
<1>8. CASE Persist(w)
  BY <1>0, <1>8, Busy DEF Persist, Merged, Job, Places, Critical
<1>9. CASE Release(w)
  <2>1. job[w].tries + 1 \in 0..MaxRetries
    BY <1>0, <1>9, Busy, BoundAssumption DEF Release, TriesLeft, Critical
  <2>2. CASE w \in Cycles /\ job[w].result = "failed"
    BY <1>0, <1>9, <2>1, <2>2, Busy DEF Release, AfterCycle, Leave, Job, Places, Critical
  <2>3. CASE w \in Cycles /\ job[w].result # "failed"
    BY <1>0, <1>9, <2>3, Busy DEF Release, AfterCycle, Leave, Job, Places, Critical
  <2>4. CASE w \notin Cycles
    BY <1>0, <1>9, <2>4, Busy DEF Release, AfterRequest, Leave, Job, Places, Critical
  <2> QED
    BY <2>2, <2>3, <2>4
<1>10. CASE PostRefresh(w) \/ Disable(w) \/ Block(w)
  BY <1>0, <1>10 DEF PostRefresh, Disable, Block
<1>11. CASE Check(w) \/ Fill(w)
  BY <1>0, <1>11, Busy DEF Check, Fill, Job, Places, Critical
<1> QED
  BY <1>1, <1>2, <1>3, <1>4, <1>5, <1>6, <1>7, <1>8, <1>9, <1>10, <1>11 DEF Work

-----------------------------------------------------------------------------
(* The inductive invariant.                                                *)

\* What is true of one worker.
Sound(w) ==
  LET j == job[w]
  IN /\ j.acc <= gen /\ j.fresh <= gen
     /\ j.pc \in Critical \cup {"enter"} => j.tries < MaxRetries
     /\ j.locked => j.pc \in Critical
     /\ j.pc \in Critical => (j.locked /\ lock = w) \/ "unlocked" \in excuses
     /\ j.pc = "persist" => gen < latest /\ j.new = latest
     /\ j.pc = "recover" => j.fresh < latest \/ revoked
     /\ j.pc \in {"call", "recover"} /\ ~j.stale => j.fresh = gen \/ excuses # {}
     /\ j.pc = "disable" \/ (j.pc = "release" /\ j.result = "dead") => excuses # {}

\* The mutex of a process.
Mutex ==
  \A v, w \in Workers :
    v # w /\ Host[v] = Host[w] => job[v].pc \notin Critical \/ job[w].pc \notin Critical

\* The latest token is stored, or one worker is about to store it, or it is lost.
Rotation ==
  /\ gen <= latest
  /\ gen < latest => "lost" \in excuses \/ \E w \in Workers : job[w].pc = "persist"
  /\ \A v, w \in Workers : job[v].pc = "persist" /\ job[w].pc = "persist" => v = w

Account ==
  /\ revoked => "revoked" \in excuses
  /\ status = "error" => excuses # {}

IInv == /\ TypeOK
        /\ \A w \in Workers : Sound(w)
        /\ Mutex /\ Rotation /\ Account

\* Who refreshes has an attempt left.
LEMMA SoundTries == ASSUME \A w \in Workers : Sound(w) PROVE TriesLeft
  BY DEF Sound, TriesLeft

\* The mutex and the lock keep two workers from the provider.
LEMMA OneCalls ==
    ASSUME IInv, NEW v \in Workers, NEW w \in Workers, v # w,
           job[v].pc \in Critical, job[w].pc \in Critical
    PROVE  Host[v] # Host[w] /\ "unlocked" \in excuses
  BY DEF IInv, Mutex, Sound

\* Who calls the provider is inside the mutex.
LEMMA CallingIsCritical == Calling \subseteq Critical
  BY DEF Calling, Critical

\* The three properties follow from the invariant: one refresh at a time,
LEMMA SingleFollows == IInv => SingleRefresher
  BY OneCalls, CallingIsCritical DEF SingleRefresher

\* the token in the row or with one worker,
LEMMA TokenFollows == IInv => TokenKept
<1> SUFFICES ASSUME IInv, "lost" \notin excuses PROVE TokenKept
  BY DEF TokenKept
<1>1. gen \in Nat /\ latest \in Nat
  BY DEF IInv, TypeOK, Generations
<1>2. CASE gen = latest
  BY <1>1, <1>2 DEF IInv, Sound, TokenKept
<1>3. CASE gen # latest
  BY <1>1, <1>3 DEF IInv, Sound, Rotation, TokenKept
<1> QED
  BY <1>2, <1>3

\* and no alarm without cause.
LEMMA NoFalseFollows == IInv => NoFalseAlarm
  BY DEF IInv, Account, NoFalseAlarm

\* The invariant holds at first.
LEMMA InitHolds == Init => IInv
<1> SUFFICES ASSUME Init PROVE IInv
  OBVIOUS
<1>1. TypeOK
  <2>1. JobType
    BY IdleIsJob DEF Init, JobType
  <2>2. RowType /\ WorldType
    <3>1. 0 \in Generations
      BY BoundAssumption DEF Generations
    <3> QED
      BY <3>1, Zenon DEF Init, RowType, WorldType
  <2>3. KeysType /\ PastType
    BY BoundAssumption DEF Init, KeysType, PastType
  <2> QED
    BY <2>1, <2>2, <2>3, TypeParts
<1>2. \A w \in Workers : job[w] = IdleJob
  BY DEF Init
<1> QED
  BY <1>1, <1>2, BoundAssumption DEF Init, IInv, IdleJob, Critical, Sound, Mutex, Rotation, Account

-----------------------------------------------------------------------------
(* What a step leaves of the others.                                       *)

\* A bystander stays sound when the row and the history only grow, the lock
\* passes on only with an excuse, and the row and the provider change only in
\* the hands of one that calls.
LEMMA Bystander ==
    ASSUME IInv, TypeOK', NEW v \in Workers, job'[v] = job[v],
           gen <= gen', latest <= latest', excuses \subseteq excuses', revoked => revoked',
           lock = v /\ job[v].locked => lock' = v \/ "unlocked" \in excuses',
           gen' = gen \/ job[v].pc \notin Critical \/ excuses # {},
           (latest' = latest /\ gen' = gen) \/ job[v].pc # "persist"
    PROVE  Sound(v)'
<1>1. gen \in Nat /\ gen' \in Nat /\ latest \in Nat /\ latest' \in Nat
  BY DEF IInv, TypeOK, Generations
<1>2. job[v].acc \in Nat /\ job[v].fresh \in Nat /\ job[v].pc \in Places
  BY Busy, TypeParts DEF IInv, Generations
<1>3. Sound(v)
  BY DEF IInv
<1> QED
  BY <1>1, <1>2, <1>3 DEF Sound, Critical

-----------------------------------------------------------------------------
(* Each step keeps the type. *)

\* The steps of the workers keep the types,
LEMMA WorkKeepsType ==
    ASSUME TypeOK, TriesLeft, NEW w \in Workers, StartCycle(w) \/ StartRequest(w) \/ Work(w)
    PROVE  TypeOK'
<1>0. RowType /\ WorldType /\ KeysType /\ JobType /\ PastType
  BY TypeParts
<1>1. JobType'
  BY <1>0, StepIsJob, BecomeKeepsType
<1>2. faults \in 0..MaxFaults /\ (faults < MaxFaults => faults + 1 \in 0..MaxFaults)
  BY <1>0, BoundAssumption DEF PastType
<1>3. PastType'
  BY <1>0, <1>2 DEF StartCycle, StartRequest, Work, Enter, LockHeld, Reread, Call, Refused,
       CallFails, Recover, Persist, Release, PostRefresh, Disable, Block, Check, Fill,
       Fault, Faultless, Excuse, PastType
<1>4. RowType'
  <2>1. CASE Persist(w)
    BY <1>0, <2>1, Busy DEF Persist, Merged, RowType
  <2>2. CASE PostRefresh(w) \/ Disable(w) \/ Block(w)
    BY <1>0, <2>2 DEF PostRefresh, Disable, Block, RowType
  <2> QED
    BY <1>0, <2>1, <2>2 DEF StartCycle, StartRequest, Work, Enter, LockHeld, Reread, Call,
       Refused, CallFails, Recover, Release, Check, Fill, RowType, row
<1>5. WorldType'
  <2>1. CASE Call(w)
    BY <1>0, <2>1, BoundAssumption DEF Call, WorldType, Generations
  <2> QED
    BY <1>0, <2>1 DEF StartCycle, StartRequest, Work, Enter, LockHeld, Reread, Refused,
       CallFails, Recover, Persist, Release, PostRefresh, Disable, Block, Check, Fill, WorldType,
           world
<1>6. KeysType'
  <2>1. CASE Fill(w)
    BY <1>0, <2>1, Busy DEF Fill, KeysType
  <2>2. CASE Enter(w) \/ Release(w) \/ PostRefresh(w)
    BY <1>0, <2>2 DEF Enter, Release, PostRefresh, KeysType
  <2> QED
    BY <1>0, <2>1, <2>2 DEF StartCycle, StartRequest, Work, LockHeld, Reread, Call, Refused,
       CallFails, Recover, Persist, Disable, Block, Check, KeysType
<1> QED
  BY <1>1, <1>3, <1>4, <1>5, <1>6 DEF TypeOK, RowType, WorldType, KeysType, JobType, PastType

\* The steps of nobody, and the death of a server.
Around == ExpireLock \/ ExpireToken \/ Unblock \/ Age \/ Revoke \/ \E s \in Servers : Die(s)

\* and so does what happens around them.
LEMMA AroundKeepsType ==
    ASSUME TypeOK, Around
    PROVE  TypeOK'
<1>0. RowType /\ WorldType /\ KeysType /\ JobType /\ PastType
  BY TypeParts
<1>1. faults \in 0..MaxFaults /\ (faults < MaxFaults => faults + 1 \in 0..MaxFaults)
  BY <1>0, BoundAssumption DEF PastType
<1>2. JobType' /\ PastType'
  BY <1>0, <1>1, IdleIsJob DEF Around, ExpireLock, ExpireToken, Unblock, Age, Revoke, Die,
       Fault, Excuse, PastType, JobType
<1>3. RowType' /\ KeysType'
  BY <1>0 DEF Around, ExpireLock, ExpireToken, Unblock, Age, Revoke, Die, RowType, KeysType, row
<1>4. WorldType'
  <2>1. CASE Age
    BY <1>0, <2>1, BoundAssumption DEF Age, WorldType, Generations
  <2> QED
    BY <1>0, <2>1 DEF Around, ExpireLock, ExpireToken, Unblock, Revoke, Die, WorldType, world
<1> QED
  BY <1>2, <1>3, <1>4 DEF TypeOK, RowType, WorldType, KeysType, JobType, PastType

-----------------------------------------------------------------------------
(* Each step of a worker keeps its own soundness. *)

\* A worker that makes a step has what its new place says it has.
LEMMA WorkerStaysSound ==
    ASSUME IInv, TypeOK', NEW w \in Workers, StartCycle(w) \/ StartRequest(w) \/ Work(w)
    PROVE  Sound(w)'
<1> USE DEF Idle, Goto, Finish, Leave, Become, Faultless, Excuse
<1>0. /\ gen \in Nat /\ latest \in Nat /\ gen <= latest /\ Sound(w) /\ JobType
      /\ job[w].acc \in Nat /\ job[w].fresh \in Nat /\ job[w].new \in Nat /\ job[w].tries \in Nat
      /\ job[w].pc \in Places /\ job[w] \in Job
  BY Busy, TypeParts DEF IInv, TypeOK, Generations, Rotation
<1>i. ASSUME job' = [job EXCEPT ![w] = IdleJob], UNCHANGED <<gen, excuses>> PROVE Sound(w)'
  <2>1. job'[w] = IdleJob
    BY <1>0, <1>i DEF JobType
  <2> QED
    BY <1>0, <1>i, <2>1, BoundAssumption DEF Sound, IdleJob, Critical
<1>1. CASE StartCycle(w)
  <2>1. job'[w] = [IdleJob EXCEPT !.pc = "enter", !.acc = gen]
    BY <1>0, <1>1 DEF StartCycle, JobType
  <2> QED
    BY <1>0, <1>1, <2>1, BoundAssumption DEF StartCycle, row, Sound, IdleJob, Critical
<1>2. CASE StartRequest(w)
  <2>1. PICK g \in 0..gen :
          job'[w] = [IdleJob EXCEPT !.pc = IF Due(g) THEN "enter" ELSE "check", !.acc = g]
    BY <1>0, <1>2 DEF StartRequest, JobType
  <2>2. /\ job'[w].pc \in {"enter", "check"} /\ job'[w].acc = g /\ job'[w].fresh = 0
        /\ ~job'[w].locked /\ job'[w].tries = 0
    BY <2>1 DEF IdleJob
  <2>3. UNCHANGED <<gen, latest, revoked, lock, excuses>>
    BY <1>2 DEF StartRequest, row, world
  <2> QED
    BY <1>0, <2>2, <2>3, BoundAssumption DEF Sound, Critical
<1>3. CASE Enter(w)
  <2>1. /\ job'[w].pc = "reread" /\ job'[w].acc = job[w].acc /\ job'[w].fresh = job[w].fresh
        /\ job'[w].tries = job[w].tries
        /\ (job'[w].locked /\ lock' = w) \/ "unlocked" \in excuses'
    <3>1. CASE job' = [job EXCEPT ![w] = [job[w] EXCEPT !.pc = "reread", !.locked = TRUE]] /\ lock' = w
      BY <1>0, <3>1 DEF JobType, Job
    <3>2. CASE /\ job' = [job EXCEPT ![w] = [job[w] EXCEPT !.pc = "reread"]]
               /\ UNCHANGED lock /\ excuses' = excuses \cup {"unlocked"}
      BY <1>0, <3>2 DEF JobType, Job
    <3> QED
      BY <1>3, <3>1, <3>2 DEF Enter
  <2>2. UNCHANGED <<gen, latest, revoked>> /\ excuses \subseteq excuses'
    BY <1>3 DEF Enter, row, world
  <2> QED
    BY <1>0, <1>3, <2>1, <2>2 DEF Sound, Critical, Enter
<1>4. CASE LockHeld(w)
  <2>1. UNCHANGED <<gen, latest, revoked, lock, excuses>>
    BY <1>4 DEF LockHeld, row, world
  <2>2. CASE job' = [job EXCEPT ![w] = IdleJob]
    BY <1>i, <2>1, <2>2
  <2>3. CASE job' = [job EXCEPT ![w] = [job[w] EXCEPT !.pc = "check"]]
    <3>1. /\ job'[w].pc = "check" /\ job'[w].acc = job[w].acc /\ job'[w].fresh = job[w].fresh
          /\ job'[w].locked = job[w].locked
      BY <1>0, <2>3 DEF JobType, Job
    <3> QED
      BY <1>0, <1>4, <2>1, <3>1 DEF LockHeld, Sound, Critical
  <2> QED
    BY <1>4, <2>2, <2>3 DEF LockHeld
<1>5. CASE Reread(w)
  <2>1. UNCHANGED <<gen, latest, revoked, lock, excuses>>
    BY <1>5 DEF Reread, row, world
  <2>2. /\ job'[w].pc \in {"call", "release"} /\ job'[w].acc = job[w].acc
        /\ job'[w].locked = job[w].locked /\ job'[w].tries = job[w].tries
        /\ job'[w].result \in {"none", "fresh"}
        /\ (job'[w].fresh = gen /\ ~job'[w].stale) \/ (job'[w].fresh = job[w].acc /\ job'[w].stale)
    <3>1. CASE job'[w] = AfterReread([job[w] EXCEPT !.stale = FALSE, !.seenBlocked = blocked], gen)
      BY <1>0, <3>1 DEF AfterReread, Job
    <3>2. CASE job'[w] = AfterReread([job[w] EXCEPT !.stale = TRUE, !.seenBlocked = FALSE], job[w].acc)
      BY <1>0, <3>2 DEF AfterReread, Job
    <3> QED
      BY <1>0, <1>5, <3>1, <3>2 DEF Reread, JobType
  <2> QED
    BY <1>0, <1>5, <2>1, <2>2 DEF Reread, Sound, Critical
<1>6. CASE Call(w)
  <2>1. UNCHANGED <<gen, revoked, lock>> /\ excuses \subseteq excuses' /\ latest' = latest + 1
    BY <1>6 DEF Call, row
  <2>2. /\ job'[w].pc \in {"persist", "release"} /\ job'[w].acc = job[w].acc
        /\ job'[w].fresh = job[w].fresh
        /\ job'[w].locked = job[w].locked /\ job'[w].tries = job[w].tries
        /\ job'[w].pc = "release" => job'[w].result = "failed"
        /\ job'[w].pc = "persist" => job'[w].new = latest + 1
    <3>1. CASE job'[w] = [job[w] EXCEPT !.pc = "persist", !.new = latest + 1]
      BY <1>0, <3>1 DEF Job
    <3>2. CASE job'[w] = [job[w] EXCEPT !.pc = "release", !.result = "failed"]
      BY <1>0, <3>2 DEF Job
    <3> QED
      BY <1>0, <1>6, <3>1, <3>2 DEF Call, JobType
  <2> QED
    BY <1>0, <1>6, <2>1, <2>2 DEF Call, Sound, Critical
<1>8. CASE CallFails(w)
  <2>1. UNCHANGED <<gen, latest, revoked, lock, excuses>>
    BY <1>8 DEF CallFails, row, world
  <2>2. /\ job'[w].pc = "release" /\ job'[w].acc = job[w].acc /\ job'[w].fresh = job[w].fresh
        /\ job'[w].locked = job[w].locked /\ job'[w].tries = job[w].tries /\ job'[w].result = "failed"
    BY <1>0, <1>8 DEF CallFails, JobType, Job
  <2> QED
    BY <1>0, <1>8, <2>1, <2>2 DEF CallFails, Sound, Critical
<1>10. CASE Persist(w)
  <2>1. UNCHANGED <<latest, revoked, lock>> /\ excuses \subseteq excuses'
    BY <1>10 DEF Persist, world
  <2>2. /\ job'[w].pc = "release" /\ job'[w].acc = job[w].acc
        /\ job'[w].locked = job[w].locked /\ job'[w].tries = job[w].tries
        /\ job'[w].result \in {"refreshed", "failed"}
        /\ (gen' = job[w].new /\ job'[w].fresh = gen') \/ (gen' = gen /\ job'[w].fresh = job[w].fresh)
    <3>1. CASE /\ gen' = job[w].new
               /\ job'[w] = [job[w] EXCEPT !.pc = "release", !.fresh = job[w].new, !.result = "refreshed"]
      BY <1>0, <3>1 DEF Job
    <3>2. CASE gen' = gen /\ job'[w] = [job[w] EXCEPT !.pc = "release", !.result = "failed"]
      BY <1>0, <3>2 DEF Job
    <3> QED
      BY <1>0, <1>10, <3>1, <3>2 DEF Persist, Merged, JobType
  <2> QED
    BY <1>0, <1>10, <2>1, <2>2 DEF Persist, Sound, Critical
<1>11. CASE Release(w)
  <2>1. UNCHANGED <<gen, latest, revoked, excuses>>
    BY <1>11 DEF Release, row, world
  <2>2. CASE job' = [job EXCEPT ![w] = IdleJob]
    BY <1>i, <2>1, <2>2
  <2>3. CASE job' # [job EXCEPT ![w] = IdleJob]
    <3>1. /\ job'[w].pc \in {"post", "disable", "block", "check", "enter"} /\ ~job'[w].locked
          /\ job'[w].acc \in {job[w].acc, job[w].fresh} /\ job'[w].fresh = 0
          /\ job'[w].pc = "enter" => job'[w].tries < MaxRetries
          /\ job'[w].pc = "disable" => job[w].result = "dead"
      <4>1. CASE w \in Cycles
        <5>1. ASSUME NEW place \in {"post", "disable", "block"},
                     job'[w] = [IdleJob EXCEPT !.pc = place, !.acc = job[w].acc,
                                               !.seenBlocked = job[w].seenBlocked],
                     place = "disable" => job[w].result = "dead"
              PROVE  /\ job'[w].pc = place /\ ~job'[w].locked
                     /\ job'[w].acc = job[w].acc /\ job'[w].fresh = 0
          BY <1>0, <5>1 DEF IdleJob
        <5>2. CASE /\ job'[w] = [IdleJob EXCEPT !.pc = "enter", !.acc = job[w].acc,
                                               !.tries = job[w].tries + 1]
                   /\ job[w].tries + 1 < MaxRetries
          BY <1>0, <5>2 DEF IdleJob
        <5> QED
          BY <1>0, <1>11, <2>3, <4>1, <5>1, <5>2 DEF Release, AfterCycle, JobType
      <4>2. CASE w \notin Cycles
        <5>1. CASE job'[w] = [IdleJob EXCEPT !.pc = "check", !.acc = job[w].acc,
                                             !.seenBlocked = job[w].seenBlocked]
          BY <1>0, <5>1 DEF IdleJob
        <5>2. CASE job'[w] = [IdleJob EXCEPT !.pc = "check", !.acc = job[w].fresh]
          BY <1>0, <5>2 DEF IdleJob
        <5> QED
          BY <1>0, <1>11, <2>3, <4>2, <5>1, <5>2 DEF Release, AfterRequest, JobType
      <4> QED
        BY <4>1, <4>2
    <3> QED
      BY <1>0, <1>11, <2>1, <3>1 DEF Release, Sound, Critical
  <2> QED
    BY <2>2, <2>3
<1>12. CASE PostRefresh(w) \/ Disable(w) \/ Block(w) \/ Fill(w)
  BY <1>12, <1>i DEF PostRefresh, Disable, Block, Fill, row
<1>13. CASE Check(w)
  <2>1. UNCHANGED <<gen, latest, revoked, lock, excuses>>
    BY <1>13 DEF Check, row, world
  <2>2. CASE job' = [job EXCEPT ![w] = IdleJob]
    BY <1>i, <2>1, <2>2
  <2>3. CASE job' = [job EXCEPT ![w] = [job[w] EXCEPT !.pc = "fill"]]
    <3>1. /\ job'[w].pc = "fill" /\ job'[w].acc = job[w].acc /\ job'[w].fresh = job[w].fresh
          /\ job'[w].locked = job[w].locked
      BY <1>0, <2>3 DEF JobType, Job
    <3> QED
      BY <1>0, <1>13, <2>1, <3>1 DEF Check, Sound, Critical
  <2> QED
    BY <1>13, <2>2, <2>3 DEF Check
<1>14. \* A token the provider refuses, and that nobody is about to store, is lost.
       job[w].pc \in {"call", "recover"} /\ job[w].fresh = gen /\ (gen < latest \/ revoked) => excuses # {}
  <2>1. CASE revoked
    BY <2>1 DEF IInv, Account
  <2>2. CASE gen < latest /\ job[w].pc \in {"call", "recover"}
    <3>1. CASE \E v \in Workers : job[v].pc = "persist"
      BY <2>2, <3>1, OneCalls DEF Critical
    <3> QED
      BY <2>2, <3>1 DEF IInv, Rotation
  <2> QED
    BY <2>1, <2>2
<1>7. CASE Refused(w)
  <2>1. UNCHANGED <<gen, latest, revoked, lock>> /\ excuses \subseteq excuses'
    BY <1>7 DEF Refused, row, world
  <2>2. /\ job'[w].pc \in {"recover", "release"} /\ job'[w].acc = job[w].acc
        /\ job'[w].fresh = job[w].fresh /\ job'[w].stale = job[w].stale
        /\ job'[w].locked = job[w].locked /\ job'[w].tries = job[w].tries
        /\ job'[w].pc = "release" => (job[w].stale => "misread" \in excuses')
    <3>1. CASE job'[w] = [job[w] EXCEPT !.pc = "recover"]
      BY <1>0, <3>1 DEF Job
    <3>2. CASE /\ job'[w] = [job[w] EXCEPT !.pc = "release", !.result = "dead"]
               /\ job[w].stale => "misread" \in excuses'
      BY <1>0, <3>2 DEF Job
    <3> QED
      BY <1>0, <1>7, <3>1, <3>2 DEF Refused, JobType
  <2>3. job[w].fresh < latest \/ revoked
    BY <1>0, <1>7 DEF Refused, Accepted, Sound
  <2>4. job'[w].pc = "release" => excuses' # {}
    BY <1>0, <1>7, <1>14, <2>1, <2>2, <2>3 DEF Refused, Sound
  <2> QED
    BY <1>0, <1>7, <2>1, <2>2, <2>3, <2>4 DEF Refused, Sound, Critical
<1>9. CASE Recover(w)
  <2>1. UNCHANGED <<gen, latest, revoked, lock>> /\ excuses \subseteq excuses'
    BY <1>9 DEF Recover, row, world
  <2>2. /\ job'[w].pc = "release" /\ job'[w].acc = job[w].acc
        /\ job'[w].fresh \in {gen, job[w].fresh}
        /\ job'[w].locked = job[w].locked /\ job'[w].tries = job[w].tries
        /\ job'[w].result = "dead" => job[w].fresh = gen \/ "misread" \in excuses'
    <3>1. CASE job'[w] = [job[w] EXCEPT !.pc = "release", !.fresh = gen, !.result = "fresh"]
      BY <1>0, <3>1 DEF Job
    <3>2. CASE /\ job'[w] = [job[w] EXCEPT !.pc = "release", !.result = "dead"]
               /\ job[w].fresh = gen \/ "misread" \in excuses'
      BY <1>0, <3>2 DEF Job
    <3> QED
      BY <1>0, <1>9, <3>1, <3>2 DEF Recover, Recovered, JobType
  <2>3. job'[w].result = "dead" => excuses' # {}
    BY <1>0, <1>9, <1>14, <2>1, <2>2 DEF Recover, Sound
  <2> QED
    BY <1>0, <1>9, <2>1, <2>2, <2>3 DEF Recover, Sound, Critical
<1> QED
  BY <1>1, <1>2, <1>3, <1>4, <1>5, <1>6, <1>7, <1>8, <1>9, <1>10, <1>11, <1>12, <1>13 DEF Work

-----------------------------------------------------------------------------
(* The others, the mutex, the rotation and the account.                    *)

\* The provider rotates a token only while the row holds the latest.
LEMMA CallFromLatest ==
    ASSUME IInv, NEW w \in Workers, Call(w)
    PROVE  gen = latest /\ \A v \in Workers : job[v].pc # "persist"
<1>1. gen \in Nat /\ latest \in Nat /\ job[w].fresh \in Nat
  BY Busy, TypeParts DEF IInv, TypeOK, Generations
<1>2. gen = latest
  BY <1>1 DEF IInv, Sound, Rotation, Call, Accepted
<1> QED
  BY <1>1, <1>2 DEF IInv, Sound

\* Generations grow; only Persist changes the row and only Call the latest token.
LEMMA WorkerMoves ==
    ASSUME IInv, TypeOK', NEW w \in Workers, StartCycle(w) \/ StartRequest(w) \/ Work(w)
    PROVE  /\ gen <= gen' /\ latest <= latest' /\ excuses \subseteq excuses' /\ UNCHANGED revoked
           /\ gen' # gen => Persist(w) /\ gen' = latest
           /\ latest' # latest => Call(w)
<1>1. gen \in Nat /\ gen' \in Nat /\ latest \in Nat /\ latest' \in Nat
  BY DEF IInv, TypeOK, Generations
<1>2. CASE Persist(w)
  BY <1>1, <1>2 DEF Persist, Merged, IInv, Sound, Excuse, world
<1>3. CASE Call(w)
  BY <1>1, <1>3 DEF Call, Excuse, row
<1>4. CASE ~Persist(w) /\ ~Call(w)
  <2>1. UNCHANGED gen
    BY <1>4 DEF StartCycle, StartRequest, Work, Enter, LockHeld, Reread, Refused, CallFails,
       Recover, Release, PostRefresh, Disable, Block, Check, Fill, row
  <2>2. UNCHANGED <<latest, revoked>>
    BY <1>4 DEF StartCycle, StartRequest, Work, Enter, LockHeld, Reread, Refused, CallFails,
       Recover, Release, PostRefresh, Disable, Block, Check, Fill, world
  <2>3. excuses \subseteq excuses'
    BY <1>4 DEF StartCycle, StartRequest, Work, Enter, LockHeld, Reread, Refused, CallFails,
       Recover, Release, PostRefresh, Disable, Block, Check, Fill, Excuse
  <2> QED
    BY <1>1, <2>1, <2>2, <2>3
<1> QED
  BY <1>2, <1>3, <1>4

\* What the others have been told stays true when a worker makes a step.
LEMMA OthersStaySound ==
    ASSUME IInv, TypeOK', NEW w \in Workers, StartCycle(w) \/ StartRequest(w) \/ Work(w),
           NEW v \in Workers, v # w, job'[v] = job[v]
    PROVE  Sound(v)'
<1>1. gen <= gen' /\ latest <= latest' /\ excuses \subseteq excuses' /\ (revoked => revoked')
  BY WorkerMoves
<1>2. lock = v /\ job[v].locked => lock' = v \/ "unlocked" \in excuses'
  <2>1. CASE Release(w)
    BY <1>1, <2>1 DEF Release, IInv, Sound, Critical
  <2>2. CASE Enter(w)
    BY <2>2, WorkerAssumption DEF Enter
  <2> QED
    BY <2>1, <2>2 DEF StartCycle, StartRequest, Work, LockHeld, Reread, Call, Refused,
       CallFails, Recover, Persist, PostRefresh, Disable, Block, Check, Fill
<1>3. gen' = gen \/ job[v].pc \notin Critical \/ excuses # {}
  BY WorkerMoves, OneCalls DEF Persist, Critical
<1>4. (latest' = latest /\ gen' = gen) \/ job[v].pc # "persist"
  BY WorkerMoves, CallFromLatest DEF Persist, IInv, Rotation
<1> QED
  BY <1>1, <1>2, <1>3, <1>4, Bystander

\* Which places a step leads to.
LEMMA NextPlace ==
    ASSUME IInv, NEW w \in Workers
    PROVE  /\ StartCycle(w) \/ StartRequest(w) => job'[w].pc \in {"enter", "check"}
           /\ Enter(w) => job'[w].pc = "reread"
           /\ LockHeld(w) => job'[w].pc \in {"idle", "check"}
           /\ Reread(w) => job'[w].pc \in {"call", "release"}
           /\ Release(w) => job'[w].pc \in {"idle", "post", "disable", "block", "enter", "check"}
           /\ PostRefresh(w) \/ Disable(w) \/ Block(w) \/ Fill(w) => job'[w].pc = "idle"
           /\ Check(w) => job'[w].pc \in {"idle", "fill"}
<1> USE DEF Goto, Idle, Finish, Leave, Become
<1>0. job \in [Workers -> Job] /\ job[w] \in Job
  BY DEF IInv, TypeOK
<1>i. IdleJob.pc = "idle" /\ \A j : job' = [job EXCEPT ![w] = j] => job'[w] = j
  BY <1>0 DEF IdleJob
<1>p. \A place : [job[w] EXCEPT !.pc = place].pc = place
  BY <1>0 DEF Job
<1>1. ASSUME StartCycle(w) \/ StartRequest(w) PROVE job'[w].pc \in {"enter", "check"}
  <2>1. PICK place \in {"enter", "check"}, g \in 0..gen \cup {gen} :
          job'[w] = [IdleJob EXCEPT !.pc = place, !.acc = g]
    BY <1>1, <1>i DEF StartCycle, StartRequest
  <2> QED
    BY <2>1 DEF IdleJob
<1>2. Enter(w) => job'[w].pc = "reread"
  <2>1. [job[w] EXCEPT !.pc = "reread", !.locked = TRUE].pc = "reread"
    BY <1>0 DEF Job
  <2> QED
    BY <1>i, <1>p, <2>1 DEF Enter
<1>3. LockHeld(w) => job'[w].pc \in {"idle", "check"}
  BY <1>i, <1>p DEF LockHeld
<1>4. Reread(w) => job'[w].pc \in {"call", "release"}
  <2>1. ASSUME NEW j \in Job, NEW g PROVE AfterReread(j, g).pc \in {"call", "release"}
    BY DEF AfterReread, Job
  <2>2. [job[w] EXCEPT !.stale = FALSE, !.seenBlocked = blocked] \in Job
    BY <1>0 DEF Job, IInv, TypeOK
  <2>3. [job[w] EXCEPT !.stale = TRUE, !.seenBlocked = FALSE] \in Job
    BY <1>0 DEF Job
  <2> QED
    BY <1>i, <2>1, <2>2, <2>3 DEF Reread
<1>5. Release(w) => job'[w].pc \in {"idle", "post", "disable", "block", "enter", "check"}
  <2>1. ASSUME NEW place \in Places, Leave(w, place)
        PROVE  job'[w].pc = place
    <3>1. job'[w] = [IdleJob EXCEPT !.pc = place, !.acc = job[w].acc,
                                    !.seenBlocked = job[w].seenBlocked]
      BY <1>i, <2>1
    <3> QED
      BY <3>1 DEF IdleJob
  <2>2. \A g, tries : [IdleJob EXCEPT !.pc = "enter", !.acc = g, !.tries = tries].pc = "enter"
    BY DEF IdleJob
  <2>3. \A g : [IdleJob EXCEPT !.pc = "check", !.acc = g].pc = "check"
    BY DEF IdleJob
  <2>4. ASSUME AfterCycle(w) PROVE job'[w].pc \in {"idle", "post", "disable", "block", "enter"}
    <3>1. CASE job' = [job EXCEPT ![w] = IdleJob]
      BY <1>i, <3>1
    <3>2. ASSUME NEW place \in {"post", "disable", "block"},
                 Leave(w, place)
          PROVE  job'[w].pc = place
      BY <2>1, <3>2 DEF Places
    <3>3. CASE job' = [job EXCEPT ![w] = [IdleJob EXCEPT !.pc = "enter", !.acc = job[w].acc,
                                                         !.tries = job[w].tries + 1]]
      BY <1>i, <2>2, <3>3
    <3> QED
      BY <2>4, <3>1, <3>2, <3>3 DEF AfterCycle
  <2>5. ASSUME AfterRequest(w) PROVE job'[w].pc = "check"
    <3>1. CASE Leave(w, "check")
      BY <2>1, <3>1 DEF Places
    <3>2. CASE job' = [job EXCEPT ![w] = [IdleJob EXCEPT !.pc = "check", !.acc = job[w].fresh]]
      BY <1>i, <2>3, <3>2
    <3> QED
      BY <2>5, <3>1, <3>2 DEF AfterRequest
  <2> QED
    BY <2>4, <2>5 DEF Release
<1>6. PostRefresh(w) \/ Disable(w) \/ Block(w) \/ Fill(w) => job'[w].pc = "idle"
  BY <1>i DEF PostRefresh, Disable, Block, Fill
<1>7. Check(w) => job'[w].pc \in {"idle", "fill"}
  BY <1>i, <1>p DEF Check
<1> QED
  BY <1>1, <1>2, <1>3, <1>4, <1>5, <1>6, <1>7

\* On one server no second worker comes inside.
LEMMA MutexIsKept ==
    ASSUME IInv, TypeOK', NEW w \in Workers, StartCycle(w) \/ StartRequest(w) \/ Work(w),
           \A v \in Workers \ {w} : job'[v] = job[v]
    PROVE  Mutex'
<1> USE DEF Goto, Idle, Finish, Leave, Become
<1>0. job \in [Workers -> Job] /\ Mutex
  BY DEF IInv, TypeOK
<1>1. CASE Enter(w)
  BY <1>0, <1>1 DEF Enter, MutexFree, Mutex
<1>2. CASE ~Enter(w)
  <2>1. job'[w].pc \in Critical => job[w].pc \in Critical
    BY <1>2, NextPlace DEF Work, Reread, Call, Refused, CallFails, Recover, Persist,
                        Release, Critical
  <2> QED
    BY <1>0, <2>1 DEF Mutex
<1> QED
  BY <1>1, <1>2

\* The latest token passes from the provider to one worker and from it to the row.
LEMMA RotationIsKept ==
    ASSUME IInv, TypeOK', NEW w \in Workers, StartCycle(w) \/ StartRequest(w) \/ Work(w),
           \A v \in Workers \ {w} : job'[v] = job[v]
    PROVE  Rotation'
<1> USE DEF Goto, Idle, Finish, Leave, Become
<1>0. /\ job \in [Workers -> Job] /\ Rotation
      /\ gen \in Nat /\ gen' \in Nat /\ latest \in Nat /\ latest' \in Nat
  BY DEF IInv, TypeOK, Generations
<1>1. CASE Call(w)
  <2>1. gen = latest /\ \A v \in Workers : job[v].pc # "persist"
    BY <1>1, CallFromLatest
  <2>2. gen' = gen /\ latest' = latest + 1
    BY <1>1 DEF Call, row
  <2>3. job'[w].pc = "persist" \/ "lost" \in excuses'
    BY <1>0, <1>1 DEF Call, Excuse, Job
  <2> QED
    BY <1>0, <2>1, <2>2, <2>3 DEF Rotation
<1>2. CASE Persist(w)
  <2>1. latest' = latest /\ (gen' = latest \/ ("lost" \in excuses' /\ gen' = gen))
    BY <1>2 DEF Persist, Merged, world, IInv, Sound, Excuse
  <2>2. job'[w].pc # "persist"
    BY <1>0, <1>2 DEF Persist, Job
  <2> QED
    BY <1>0, <1>2, <2>1, <2>2 DEF Rotation, Persist
<1>3. CASE ~Call(w) /\ ~Persist(w)
  <2>1. gen' = gen /\ latest' = latest /\ excuses \subseteq excuses'
    BY <1>3, WorkerMoves
  <2>2. job'[w].pc # "persist" /\ job[w].pc # "persist"
    <3>1. CASE Refused(w) \/ CallFails(w) \/ Recover(w)
      BY <1>0, <3>1 DEF Refused, CallFails, Recover, Job
    <3>2. CASE StartCycle(w) \/ StartRequest(w)
      BY <3>2, NextPlace DEF StartCycle, StartRequest
    <3>3. CASE ~(StartCycle(w) \/ StartRequest(w) \/ Refused(w) \/ CallFails(w) \/ Recover(w))
      BY <1>3, <3>3, NextPlace DEF Work, Enter, LockHeld, Reread, Release, PostRefresh, Disable,
         Block, Check, Fill
    <3> QED
      BY <3>1, <3>2, <3>3
  <2> QED
    BY <1>0, <2>1, <2>2 DEF Rotation
<1> QED
  BY <1>1, <1>2, <1>3

\* The account is disabled by a true refusal only.
LEMMA AccountIsKept ==
    ASSUME IInv, TypeOK', NEW w \in Workers, StartCycle(w) \/ StartRequest(w) \/ Work(w)
    PROVE  Account'
<1>1. UNCHANGED revoked /\ excuses \subseteq excuses'
  BY WorkerMoves
<1>2. CASE Disable(w)
  BY <1>1, <1>2 DEF Disable, IInv, Sound, Account
<1>3. CASE ~Disable(w)
  <2>1. UNCHANGED status
    BY <1>3 DEF StartCycle, StartRequest, Work, Enter, LockHeld, Reread, Call, Refused,
       CallFails, Recover, Persist, Release, PostRefresh, Block, Check, Fill, row
  <2> QED
    BY <1>1, <2>1 DEF IInv, Account
<1> QED
  BY <1>2, <1>3

\* So the steps of a worker keep the invariant,
LEMMA WorkerKeepsInvariant ==
    ASSUME IInv, NEW w \in Workers, StartCycle(w) \/ StartRequest(w) \/ Work(w)
    PROVE  IInv'
<1>1. TypeOK'
  BY WorkKeepsType, SoundTries DEF IInv
<1>2. \A v \in Workers \ {w} : job'[v] = job[v]
  BY StepIsJob, SoundTries, BecomeKeepsType, TypeParts DEF IInv
<1>3. \A v \in Workers : Sound(v)'
  BY <1>1, <1>2, WorkerStaysSound, OthersStaySound
<1>4. Mutex' /\ Rotation' /\ Account'
  BY <1>1, <1>2, MutexIsKept, RotationIsKept, AccountIsKept
<1> QED
  BY <1>1, <1>3, <1>4 DEF IInv

-----------------------------------------------------------------------------
(* The steps around the workers.                                           *)

\* the death of a server does, which may lose the token and says so,
LEMMA DeathKeepsInvariant ==
    ASSUME IInv, TypeOK', NEW s \in Servers, Die(s)
    PROVE  IInv'
<1>0. /\ job \in [Workers -> Job] /\ gen \in Nat /\ latest \in Nat
  BY DEF IInv, TypeOK, Generations
<1>1. UNCHANGED <<gen, latest, revoked, status, lock>> /\ excuses \subseteq excuses'
  BY DEF Die, row, world, Excuse
<1>2. \A v \in Workers : job'[v] = job[v] \/ job'[v] = IdleJob
  BY <1>0 DEF Die
<1>3. \A v \in Workers : Sound(v)'
  <2> SUFFICES ASSUME NEW v \in Workers PROVE Sound(v)'
    OBVIOUS
  <2>1. CASE job'[v] = job[v]
    BY <1>0, <1>1, <2>1, Bystander
  <2>2. CASE job'[v] = IdleJob
    BY <1>0, <1>1, <2>2, BoundAssumption DEF Sound, IdleJob, Critical
  <2> QED
    BY <1>2, <2>1, <2>2
<1>4. Mutex'
  BY <1>2 DEF IInv, Mutex, IdleJob, Critical
<1>5. Rotation'
  <2>1. (\E v \in Workers : job[v].pc = "persist") =>
           "lost" \in excuses' \/ \E v \in Workers : job'[v].pc = "persist"
    BY <1>0 DEF Die, Excuse
  <2> QED
    BY <1>1, <1>2, <2>1 DEF IInv, Rotation, IdleJob
<1>6. Account'
  BY <1>1 DEF IInv, Account
<1> QED
  BY <1>3, <1>4, <1>5, <1>6 DEF IInv

\* everything around them does,
LEMMA AroundKeepsInvariant ==
    ASSUME IInv, Around
    PROVE  IInv'
<1>1. TypeOK'
  BY AroundKeepsType DEF IInv
<1>2. CASE \E s \in Servers : Die(s)
  BY <1>1, <1>2, DeathKeepsInvariant
<1>3. CASE ~\E s \in Servers : Die(s)
  <2>0. gen \in Nat /\ latest \in Nat
    BY DEF IInv, TypeOK, Generations
  <2>1. UNCHANGED <<gen, latest, status, job>> /\ excuses \subseteq excuses'
    BY <1>3 DEF Around, ExpireLock, ExpireToken, Unblock, Age, Revoke, row, world, Excuse
  <2>2. revoked => revoked'
    BY <1>3 DEF Around, ExpireLock, ExpireToken, Unblock, Age, Revoke, world
  <2>3. revoked' => "revoked" \in excuses'
    BY <1>3, <2>1 DEF Around, ExpireLock, ExpireToken, Unblock, Age, Revoke, world, Excuse,
                       IInv, Account
  <2>4. \A v \in Workers : lock = v /\ job[v].locked => lock' = v \/ "unlocked" \in excuses'
    BY <1>3 DEF Around, ExpireLock, ExpireToken, Unblock, Age, Revoke, Excuse
  <2>5. \A v \in Workers : Sound(v)'
    BY <1>1, <2>0, <2>1, <2>2, <2>4, Bystander
  <2>6. Mutex' /\ Rotation'
    BY <2>1 DEF IInv, Mutex, Rotation
  <2>7. Account'
    BY <2>1, <2>3 DEF IInv, Account
  <2> QED
    BY <1>1, <2>5, <2>6, <2>7 DEF IInv
<1> QED
  BY <1>2, <1>3

\* and doing nothing.
LEMMA StutterKeepsInvariant == ASSUME IInv, UNCHANGED vars PROVE IInv'
  BY DEF IInv, TypeOK, vars, row, world, Sound, Mutex, Rotation, Account

\* The invariant holds always.
LEMMA Inductive == Spec => []IInv
<1>1. Init => IInv
  BY InitHolds
<1>2. IInv /\ [Next]_vars => IInv'
  BY WorkerKeepsInvariant, AroundKeepsInvariant, StutterKeepsInvariant DEF Next, Around
<1> QED
  BY <1>1, <1>2, PTL DEF Spec

-----------------------------------------------------------------------------
(* The theorems. *)

\* Every variable keeps its type, whatever the workers, servers and bounds.
THEOREM TypeCorrect == Spec => []TypeOK
<1>1. IInv => TypeOK
  BY DEF IInv
<1> QED
  BY <1>1, Inductive, PTL

\* The mutex and the Redis lock keep all but one worker from the provider.
THEOREM OneRefreshes == Spec => []SingleRefresher
  BY Inductive, SingleFollows, PTL

\* Conditionless writes never lose the provider's only valid refresh token:
\* the provider itself orders the refreshes, even where the locks do not.
THEOREM TokenIsKept == Spec => []TokenKept
  BY Inductive, TokenFollows, PTL

\* No account is disabled for a race it lost.
THEOREM AlarmsAreTrue == Spec => []NoFalseAlarm
  BY Inductive, NoFalseFollows, PTL
=============================================================================
