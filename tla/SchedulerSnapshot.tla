------------------------- MODULE SchedulerSnapshot -------------------------
(* How a change of an account reaches the scheduler: the event in the      *)
(* outbox table (repository/scheduler_outbox_repo.go), the polls and the   *)
(* full rebuilds (service/scheduler_snapshot_service.go), and the numbered *)
(* snapshots in Redis (repository/scheduler_cache.go). One bucket and one  *)
(* account in it; what a load reads of the account is its generation, and  *)
(* a list is the generation that was loaded with it. Other accounts keep   *)
(* the list from being empty. The copies of single accounts (sched:meta:, *)
(* sched:acc:) are left out: they have no version, every SetSnapshot       *)
(* writes them before its number is compared, and GetSnapshot answers with *)
(* them, so the properties are about the list and not about what it is     *)
(* answered with. That storing a copy may fail, and end the poll, is kept. *)
EXTENDS Naturals, FiniteSets, FiniteSetsExt

CONSTANTS
  Writers,      \* handlers that change the account
  Transactions, \* those whose change and event commit together (usage billing)
  Workers,      \* goroutines: a poll, a rebuild or a request that missed the cache
  Pollers,      \* those that poll the outbox; the others rebuild and serve requests
  Keys,         \* dedup keys: event type, account and payload
  Plain,        \* the one without a payload
  NoOne,        \* nobody holds the bucket's lock
  None,         \* nothing in Redis
  MaxGen,       \* bound: changes of the account
  MaxFaults     \* bound: failed calls, lost replies and deaths

ASSUME SchedulerAssumption ==
  /\ Transactions \subseteq Writers /\ Pollers \subseteq Workers
  /\ IsFiniteSet(Workers) /\ NoOne \notin Workers
  /\ Plain \in Keys /\ None \notin Nat /\ MaxGen \in Nat /\ MaxFaults \in Nat

VARIABLES
  row,          \* the account's committed generation
  outbox,       \* scheduler_outbox: committed events; pending until a poll reads them
  seq,          \* the table's sequence
  watermark,    \* sched:outbox:watermark
  list,         \* what the list of the active snapshot was loaded from
  lock,         \* who took the bucket's lock
  writer, worker,
  excuses,      \* history: what happened that leaves the cache behind
  faults        \* bound

redis == <<watermark, list, lock>>
vars  == <<row, outbox, seq, redis, writer, worker, excuses, faults>>

Gens == 0..MaxGen
Ids  == 0..(MaxGen + MaxFaults)  \* a transaction that fails uses one up
Event == [id : Ids, key : Keys, pending : BOOLEAN]

\* id is 0 when the insert hit a pending event of the same key.
WriterJob  == [pc : {"idle", "insert", "commit"}, id : Ids, key : Keys]
IdleWriter == [pc |-> "idle", id |-> 0, key |-> Plain]

\* number: how far the snapshot's version is above the active one's, 0 when
\* below. Only the order of versions counts.
WorkerJob  == [role : {"none", "poll", "rebuild", "request"},
               pc : {"idle", "mark", "list", "account", "lock", "load", "number",
                     "activate", "unlock", "watermark", "cleanup", "lag"},
               mark : Ids, last : Ids, gen : Gens,
               number : 0..(Cardinality(Workers) + MaxFaults), ok : BOOLEAN]
IdleWorker == [role |-> "none", pc |-> "idle", mark |-> 0, last |-> 0, gen |-> 0,
               number |-> 0, ok |-> TRUE]

-----------------------------------------------------------------------------
Faultless == UNCHANGED faults
Fault == faults < MaxFaults /\ faults' = faults + 1
Excuse(e) == excuses' = excuses \cup {e}
ExcuseIf(bad, e) == excuses' = excuses \cup (IF bad THEN {e} ELSE {})

Write(w, j) == writer' = [writer EXCEPT ![w] = j]
Become(w, j) == worker' = [worker EXCEPT ![w] = j]
Goto(w, place) == Become(w, [worker[w] EXCEPT !.pc = place])
Idle(w) == Become(w, IdleWorker)

Init ==
  /\ row = 0 /\ outbox = {} /\ seq = 0
  /\ watermark = 0 /\ list = None /\ lock = NoOne
  /\ writer = [w \in Writers |-> IdleWriter] /\ worker = [w \in Workers |-> IdleWorker]
  /\ excuses = {} /\ faults = 0

-----------------------------------------------------------------------------
(* Changes of the account: accountRepository, and quotas in a transaction. *)

RowLocked == \E w \in Transactions : writer[w].pc \in {"insert", "commit"}

\* A transaction's update shows when it commits, a statement's at once.
Change(w) ==
  /\ writer[w].pc = "idle" /\ ~RowLocked /\ row < MaxGen
  /\ row' = IF w \in Transactions THEN row ELSE row + 1
  /\ \E k \in IF w \in Transactions THEN {Plain} ELSE Keys :
       Write(w, [IdleWriter EXCEPT !.pc = "insert", !.key = k])
  /\ UNCHANGED <<outbox, seq, redis, worker, excuses, faults>>

\* ON CONFLICT (dedup_key) DO NOTHING: waits for an event of the same key that
\* is not committed yet, and inserts nothing beside a pending one.
Insert(w) ==
  LET key == writer[w].key
      pending == \E e \in outbox : e.pending /\ e.key = key
  IN /\ writer[w].pc = "insert"
     /\ \A v \in Writers \ {w} :
          ~(writer[v].pc = "commit" /\ writer[v].id # 0 /\ writer[v].key = key)
     /\ seq' = IF pending THEN seq ELSE seq + 1
     /\ Write(w, [writer[w] EXCEPT !.pc = "commit", !.id = IF pending THEN 0 ELSE seq + 1])
     /\ UNCHANGED <<row, outbox, redis, worker, excuses, faults>>

Absorbed(w) == \E e \in outbox : e.pending /\ e.key = writer[w].key
Passed(id) == id <= watermark \/ \E v \in Workers : id <= worker[v].mark \/ id <= worker[v].last

\* The polls ask for ids above the watermark: an event that commits below it, or
\* below what a running poll has read of it, may never be read; nor is a change
\* whose event was taken for a pending one that has been read by now. (The mark
\* counts because the slower of two polls may have set the watermark back.)
Commit(w) ==
  LET j == writer[w]
      new == {[id |-> j.id, key |-> j.key, pending |-> TRUE]}
  IN /\ j.pc = "commit"
     /\ outbox' = IF j.id = 0 THEN outbox ELSE outbox \cup new
     /\ row' = IF w \in Transactions THEN row + 1 ELSE row
     /\ ExcuseIf(IF j.id # 0 THEN Passed(j.id) ELSE w \in Transactions /\ ~Absorbed(w), "unnoticed")
     /\ Write(w, IdleWriter)
     /\ UNCHANGED <<seq, redis, worker, faults>>

\* A transaction that fails leaves nothing; after a statement the failed
\* insert is only logged. Or the process dies.
InsertFails(w) ==
  /\ writer[w].pc \in {"insert", "commit"} /\ Fault
  /\ Write(w, IdleWriter)
  /\ ExcuseIf(w \notin Transactions, "unnoticed")
  /\ UNCHANGED <<row, outbox, seq, redis, worker>>

-----------------------------------------------------------------------------
(* pollOutbox.                                                             *)

StartPoll(w) ==
  /\ w \in Pollers /\ worker[w].pc = "idle"
  /\ Become(w, [IdleWorker EXCEPT !.role = "poll", !.pc = "mark"])
  /\ UNCHANGED <<row, outbox, seq, redis, writer, excuses, faults>>

ReadWatermark(w) ==
  /\ worker[w].pc = "mark"
  /\ \/ Become(w, [worker[w] EXCEPT !.pc = "list", !.mark = watermark]) /\ Faultless
     \/ Idle(w) /\ Fault
  /\ UNCHANGED <<row, outbox, seq, redis, writer, excuses>>

After(mark) == {e \in outbox : e.id > mark}

\* ListAfterAndReleaseDedup: what is read no longer absorbs later events. (Up
\* to 200 at once; the model has fewer.)
KeepKeys(read) == outbox  \* (bug) the keys are not released
ReleaseKeys(read) == {IF e \in read THEN [e EXCEPT !.pending = FALSE] ELSE e : e \in outbox}

ListEvents(w) ==
  LET batch == After(worker[w].mark)
  IN /\ worker[w].pc = "list"
     /\ outbox' = ReleaseKeys(batch)
     /\ \/ batch = {} /\ Idle(w) /\ Faultless
        \/ /\ batch # {} /\ Faultless
           /\ Become(w, [worker[w] EXCEPT !.pc = "account", !.mark = 0,
                                          !.last = Max({e.id : e \in batch})])
        \/ Idle(w) /\ Fault
     /\ UNCHANGED <<row, seq, redis, writer, excuses>>

\* handleAccountEvent reads the account and stores its copy; an error ends the
\* poll. The events of a batch rebuild the bucket once, after the first copy.
ReadAccount(w) ==
  /\ worker[w].pc = "account"
  /\ \/ Goto(w, "lock") /\ Faultless
     \/ Idle(w) /\ Fault
  /\ UNCHANGED <<row, outbox, seq, redis, writer, excuses>>

\* SetOutboxWatermark stores the last id of the batch, whatever is there by now.
NextToRead(last) == last + 1  \* (bug) the first id that was not read
Consumed(last) == last
SetOutboxWatermark(w) ==
  /\ worker[w].pc = "watermark"
  /\ \/ watermark' = Consumed(worker[w].last) /\ Goto(w, "cleanup") /\ Faultless
     \/ UNCHANGED watermark /\ Fault
        /\ Become(w, [IdleWorker EXCEPT !.role = "poll", !.pc = "lag"])
  /\ UNCHANGED <<row, outbox, seq, list, lock, writer, excuses>>

\* DeleteConsumedUpTo: the rows up to the last id that are older than 10 s.
Cleanup(w) ==
  /\ worker[w].pc = "cleanup"
  /\ \E old \in SUBSET {e \in outbox : e.id <= worker[w].last} : outbox' = outbox \ old
  /\ Become(w, [IdleWorker EXCEPT !.role = "poll", !.pc = "lag"])
  /\ UNCHANGED <<row, seq, redis, writer, excuses, faults>>

\* checkOutboxLag: a rebuild of everything when the events are old or many.
CheckOutboxLag(w) ==
  /\ worker[w].pc = "lag"
  /\ Idle(w) \/ Become(w, [IdleWorker EXCEPT !.role = "rebuild", !.pc = "lock"])
  /\ UNCHANGED <<row, outbox, seq, redis, writer, excuses, faults>>

-----------------------------------------------------------------------------
(* rebuildBucket and SetSnapshot.                                          *)

\* triggerFullRebuild, at the start and by the clock.  The bucket is a registered one:
\* the others are not rebuilt, and what is asked of them comes from the database.
StartRebuild(w) ==
  /\ w \notin Pollers /\ worker[w].pc = "idle"
  /\ Become(w, [IdleWorker EXCEPT !.role = "rebuild", !.pc = "lock"])
  /\ UNCHANGED <<row, outbox, seq, redis, writer, excuses, faults>>

\* ListSchedulableAccounts after a miss or an error of Redis: no lock.
StartRequest(w) ==
  /\ w \notin Pollers /\ worker[w].pc = "idle"
  /\ \/ list = None /\ Faultless
     \/ list # None /\ Fault
  /\ Become(w, [IdleWorker EXCEPT !.role = "request", !.pc = "load"])
  /\ UNCHANGED <<row, outbox, seq, redis, writer, excuses>>

\* A bucket that is locked counts as rebuilt.
LockBucket(w) ==
  /\ worker[w].pc = "lock"
  /\ \/ /\ lock = NoOne /\ lock' = w
        /\ Goto(w, "load") /\ Faultless /\ UNCHANGED excuses
     \/ /\ lock # NoOne /\ UNCHANGED lock /\ Faultless
        /\ IF worker[w].role = "poll"
           THEN Goto(w, "watermark") /\ Excuse("unnoticed")
           ELSE Idle(w) /\ UNCHANGED excuses
     \/ UNCHANGED <<lock, excuses>> /\ Fault /\ Idle(w)
  /\ UNCHANGED <<row, outbox, seq, watermark, list, writer>>

\* The end of the rebuild, for who holds the lock and who does not.
Leave(w, j, ok) ==
  Become(w, IF j.role = "request" THEN IdleWorker
            ELSE [j EXCEPT !.pc = "unlock", !.ok = ok, !.number = 0, !.gen = 0])
Fails(w) == Leave(w, worker[w], FALSE) /\ Fault

LoadAccounts(w) ==
  /\ worker[w].pc = "load"
  /\ \/ Become(w, [worker[w] EXCEPT !.pc = "number", !.gen = row]) /\ Faultless
     \/ Fails(w)
  /\ UNCHANGED <<row, outbox, seq, redis, writer, excuses>>

Numbered == {v \in Workers : worker[v].number > 0}

\* INCR of the version, after the load: the numbers need not be in its order.
\* Then the copies of the accounts, which are left out, and the list under its own key.
TakeNumber(w) ==
  LET others == (IF list # None THEN {list} ELSE {}) \cup {worker[v].gen : v \in Numbered}
  IN /\ worker[w].pc = "number"
     /\ \/ /\ Become(w, [worker[w] EXCEPT !.pc = "activate",
                           !.number = 1 + Max({0} \cup {worker[v].number : v \in Numbered})])
           /\ ExcuseIf(\E g \in others : g > worker[w].gen, "misnumbered") /\ Faultless
        \/ Fails(w) /\ UNCHANGED excuses
     /\ UNCHANGED <<row, outbox, seq, redis, writer>>

AnyAccepted(number) == TRUE  \* (bug) the script does not compare the versions
Accepted(number) == number > 0

\* The others' numbers are now relative to the new active version.
Renumbered(w) ==
  LET n == worker[w].number
  IN [v \in Workers |-> [worker[v] EXCEPT !.number = IF @ > n THEN @ - n ELSE 0]]

\* activateSnapshotScript.
Activate(w) ==
  LET j == worker[w]
      done == IF j.role = "request" THEN IdleWorker
              ELSE [j EXCEPT !.pc = "unlock", !.number = 0, !.gen = 0]
  IN /\ j.pc = "activate"
     /\ \/ /\ IF Accepted(j.number)
              THEN list' = j.gen /\ worker' = [Renumbered(w) EXCEPT ![w] = done]
              ELSE UNCHANGED list /\ Become(w, done)
           /\ Faultless
        \/ UNCHANGED list /\ Fails(w)
     /\ UNCHANGED <<row, outbox, seq, watermark, lock, writer, excuses>>

\* UnlockBucket deletes the key whoever set it. A failed rebuild ends the poll.
UnlockBucket(w) ==
  /\ worker[w].pc = "unlock"
  /\ IF worker[w].role = "poll" /\ worker[w].ok THEN Goto(w, "watermark") ELSE Idle(w)
  /\ \/ lock' = NoOne /\ Faultless
     \/ UNCHANGED lock /\ Fault
  /\ UNCHANGED <<row, outbox, seq, watermark, list, writer, excuses>>

-----------------------------------------------------------------------------
NeverExpire == FALSE /\ UNCHANGED vars  \* (bug) a lock without a time to live
ExpireLock ==
  /\ lock # NoOne /\ lock' = NoOne
  /\ UNCHANGED <<row, outbox, seq, watermark, list, writer, worker, excuses, faults>>

Die(w) ==
  /\ worker[w].pc # "idle" /\ Fault
  /\ Idle(w)
  /\ UNCHANGED <<row, outbox, seq, redis, writer, excuses>>

Announce(w) == Insert(w) \/ Commit(w) \/ InsertFails(w)

Work(w) ==
  \/ ReadWatermark(w) \/ ListEvents(w) \/ ReadAccount(w)
  \/ SetOutboxWatermark(w) \/ Cleanup(w) \/ CheckOutboxLag(w)
  \/ LockBucket(w) \/ LoadAccounts(w) \/ TakeNumber(w) \/ Activate(w)
  \/ UnlockBucket(w)

Next ==
  \/ \E w \in Writers : Change(w) \/ Announce(w)
  \/ \E w \in Workers : \/ StartPoll(w) \/ StartRebuild(w) \/ StartRequest(w)
                        \/ Work(w) \/ Die(w)
  \/ ExpireLock

Spec == Init /\ [][Next]_vars

\* What runs goes on, the lock runs out, and the clock starts full rebuilds.
\* Strong fairness because the rebuilds have a goroutine of their own, while
\* the few workers of the model may all be busy now and then.
Fairness ==
  /\ \A w \in Writers : WF_vars(Announce(w))
  /\ \A w \in Workers : WF_vars(Work(w))
  /\ SF_vars(\E w \in Workers : StartRebuild(w))
  /\ WF_vars(ExpireLock)
FairSpec == Spec /\ Fairness

-----------------------------------------------------------------------------
TypeOK ==
  /\ row \in Gens /\ outbox \subseteq Event /\ seq \in Ids /\ watermark \in Ids
  /\ list \in Gens \cup {None} /\ lock \in Workers \cup {NoOne}
  /\ writer \in [Writers -> WriterJob] /\ worker \in [Workers -> WorkerJob]
  /\ faults \in 0..MaxFaults

\* The list the scheduler sees never goes back to an older load, however many
\* rebuilds and requests activate theirs, unless an old load got a new number.
ListNeverGoesBack ==
  [][list # None /\ list' # list => list' > list \/ "misnumbered" \in excuses]_vars

\* When every event up to the watermark is read and nobody is at work, the active
\* list is of a load that read the last change: only the accidents marked as excuses make
\* the list miss a change, whatever fails and whoever dies in between.
Quiet ==
  /\ \A w \in Writers : writer[w].pc = "idle"
  /\ \A w \in Workers : worker[w].pc = "idle"
  /\ \A e \in outbox : e.id <= watermark
QuietIsFresh == Quiet /\ list # None => list = row \/ excuses # {}

\* After the last change the active list is of a load that read it, for good,
\* whatever was skipped, lost or overtaken: the full rebuilds repair it.
FreshInTheEnd == <>[](list = row)
=============================================================================
