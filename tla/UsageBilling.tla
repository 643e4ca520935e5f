--------------------------- MODULE UsageBilling ---------------------------
(* What a request costs its user: the look at the cached balance before    *)
(* it, the transaction that charges it once (repository/                   *)
(* usage_billing_repo.go), the cache writes and the usage log after it     *)
(* (service/gateway_service.go, service/billing_cache_service.go), next to *)
(* recharges, saves of the user's profile and the archiving of old claims. *)
(* One user in balance mode; the other increments of the transaction       *)
(* (quotas, rate limits) stand and fall with the balance.                  *)
EXTENDS Integers, FiniteSets, FiniteSetsExt

CONSTANTS
  Requests,     \* one handler and usage task each
  Keys,         \* (request id, API key): a claim may be tried again
  Fingerprints, \* fingerprints of what is to be charged
  LaterTurns,   \* requests that come over a WebSocket after its first turn
  Key, Fingerprint, \* of a request
  Cost,         \* of a fingerprint
  Servers, Host,
  None,
  Deposit,      \* the balance at the start
  Recharge,     \* the amount of a recharge
  Reserve,      \* minimum_balance_reserve
  QueueSize,    \* cacheWriteBufferSize
  MaxRecharges, \* bound
  MaxFaults     \* bound: failed statements, lost replies, deaths, saves of the profile

ASSUME RequestAssumption ==
  /\ LaterTurns \subseteq Requests
  /\ Key \in [Requests -> Keys] /\ Fingerprint \in [Requests -> Fingerprints]
  /\ Host \in [Requests -> Servers]
  /\ None \notin Fingerprints
ASSUME AmountAssumption ==
  /\ Cost \in [Fingerprints -> Nat \ {0}]
  /\ Deposit \in Int /\ Recharge \in Nat /\ Reserve \in Nat /\ QueueSize \in Nat
  /\ MaxRecharges \in Nat /\ MaxFaults \in Nat
  /\ None \notin Int

VARIABLES
  balance,      \* users.balance
  dedup,        \* usage_billing_dedup: the fingerprint a key was claimed with
  archive,      \* usage_billing_dedup_archive
  logged,       \* usage_logs
  cached,       \* billing:balance in Redis
  queue,        \* cache writes that wait in the processes' channels
  pc,           \* where each request is
  left,         \* the balance its transaction returned (NewBalance), else None
  notices,      \* recharges whose invalidation is still to come
  form,         \* the balance in a user object that is going to be saved
  recharges,    \* history: how many there were
  charges,      \* history: how often a key was charged
  excuses,      \* history: what happened that the code cannot prevent
  faults        \* bound

tables == <<balance, dedup, archive, logged>>
caches == <<cached, queue>>
others == <<notices, form, recharges>>
vars   == <<tables, caches, pc, left, others, charges, excuses, faults>>

InTransaction == {"compare", "look", "apply"}
Quiet  == {"idle", "done"}  \* done: refused, failed or charged
Places == {"load", "serve", "finalize", "log"} \cup InTransaction \cup Quiet
Write  == [kind : {"set", "deduct"}, by : Requests, amount : Int]

Exhausted(b) == b <= 0 \/ b < Reserve  \* balanceBelowEligibilityThreshold
Claimed(k) == dedup[k] # None \/ archive[k] # None

-----------------------------------------------------------------------------
Goto(r, place) == pc' = [pc EXCEPT ![r] = place]
Faultless == UNCHANGED faults
Fault == faults < MaxFaults /\ faults' = faults + 1
Excuse(e) == excuses' = excuses \cup {e}

Init ==
  /\ balance = Deposit /\ cached = None /\ queue = {}
  /\ dedup = [k \in Keys |-> None] /\ archive = [k \in Keys |-> None]
  /\ logged = {}
  /\ pc = [r \in Requests |-> "idle"] /\ left = [r \in Requests |-> None]
  /\ notices = 0 /\ form = None /\ recharges = 0
  /\ charges = [k \in Keys |-> 0] /\ excuses = {} /\ faults = 0

-----------------------------------------------------------------------------
(* checkBalanceEligibility.                                                *)

Verdict(b) == IF Exhausted(b) THEN "done" ELSE "serve"

\* A miss and an error of Redis both lead to the database.
Arrive(r) ==
  /\ pc[r] = "idle" /\ r \notin LaterTurns
  /\ \/ Goto(r, IF cached = None THEN "load" ELSE Verdict(cached)) /\ Faultless
     \/ Goto(r, "load") /\ Fault
  /\ UNCHANGED <<tables, caches, left, others, charges, excuses>>

\* The balance is looked at when a WebSocket is opened, not before each turn.
NextTurn(r) ==
  /\ pc[r] = "idle" /\ r \in LaterTurns
  /\ Goto(r, "serve")
  /\ UNCHANGED <<tables, caches, left, others, charges, excuses, faults>>

HasRoom(r) == Cardinality({w \in queue : Host[w.by] = Host[r]}) < QueueSize
Enqueue(kind, r, amount) ==
  queue' = queue \cup {[kind |-> kind, by |-> r, amount |-> amount]}

\* The value is queued for the cache, or not cached when the channel is full.
Load(r) ==
  /\ pc[r] = "load"
  /\ \/ /\ Goto(r, Verdict(balance))
        /\ IF HasRoom(r) THEN Enqueue("set", r, balance) ELSE UNCHANGED queue
        /\ Faultless
     \/ Goto(r, "done") /\ Fault /\ UNCHANGED queue
  /\ UNCHANGED <<tables, cached, left, others, charges, excuses>>

-----------------------------------------------------------------------------
(* Apply: one transaction, READ COMMITTED.                                 *)

\* INSERT ... ON CONFLICT DO NOTHING waits for another transaction that holds
\* the key and then sees what it has left.
Insert(r) ==
  /\ pc[r] = "serve"
  /\ \A s \in Requests \ {r} : Key[s] = Key[r] => pc[s] \notin {"look", "apply"}
  /\ Goto(r, IF dedup[Key[r]] = None THEN "look" ELSE "compare")
  /\ UNCHANGED <<tables, caches, left, others, charges, excuses, faults>>

\* A claim with another fingerprint is a conflict, and so is one that is not
\* there any more; one with the same is done already.
Compare(r) ==
  /\ pc[r] = "compare"
  /\ Goto(r, IF dedup[Key[r]] = Fingerprint[r] THEN "log" ELSE "done")
  /\ UNCHANGED <<tables, caches, left, others, charges, excuses, faults>>

\* The archive has the last word; the inserted claim is rolled back.
NotLookedUp(r) == "apply"  \* (bug) the archive is not asked
LookedUp(r) ==
  IF archive[Key[r]] = None THEN "apply"
  ELSE IF archive[Key[r]] = Fingerprint[r] THEN "log" ELSE "done"
Look(r) ==
  /\ pc[r] = "look"
  /\ Goto(r, LookedUp(r))
  /\ UNCHANGED <<tables, caches, left, others, charges, excuses, faults>>

\* The balance may become negative. A commit may succeed without the reply.
Apply(r) ==
  /\ pc[r] = "apply"
  /\ dedup' = [dedup EXCEPT ![Key[r]] = Fingerprint[r]]
  /\ balance' = balance - Cost[Fingerprint[r]]
  /\ charges' = [charges EXCEPT ![Key[r]] = @ + 1]
  /\ \/ /\ Goto(r, "finalize") /\ left' = [left EXCEPT ![r] = balance - Cost[Fingerprint[r]]]
        /\ Faultless /\ UNCHANGED excuses
     \/ Goto(r, "done") /\ Fault /\ Excuse("replyLost") /\ UNCHANGED left
  /\ UNCHANGED <<archive, logged, caches, others>>

\* Any statement may fail, and then nothing of the transaction remains.
RollBack(r) ==
  /\ pc[r] \in InTransaction /\ Fault
  /\ Goto(r, "done")
  /\ UNCHANGED <<tables, caches, left, others, charges, excuses>>

-----------------------------------------------------------------------------
(* finalizePostUsageBilling and the usage log.                             *)

Deducted(amount) == IF cached = None THEN None ELSE cached - amount

OverdraftOnly(b) == b < 0  \* (bug) only a debt invalidates
MustInvalidate(b) == Exhausted(b)

Invalidate ==
  \/ cached' = None /\ Faultless /\ UNCHANGED excuses
  \/ UNCHANGED cached /\ Fault /\ Excuse("notInvalidated")

\* syncBalanceCacheAfterDeduction; a full channel makes the deduction
\* synchronous, and its failure is only logged.
Finalize(r) ==
  /\ pc[r] = "finalize"
  /\ Goto(r, "log") /\ left' = [left EXCEPT ![r] = None]
  /\ \/ MustInvalidate(left[r]) /\ Invalidate /\ UNCHANGED queue
     \/ /\ ~MustInvalidate(left[r]) /\ HasRoom(r)
        /\ Enqueue("deduct", r, Cost[Fingerprint[r]]) /\ UNCHANGED <<cached, excuses>> /\ Faultless
     \/ /\ ~MustInvalidate(left[r]) /\ ~HasRoom(r)
        /\ \/ cached' = Deducted(Cost[Fingerprint[r]]) /\ Faultless
           \/ UNCHANGED cached /\ Fault
        /\ UNCHANGED <<queue, excuses>>
  /\ UNCHANGED <<tables, others, charges>>

Log(r) ==
  /\ pc[r] = "log"
  /\ Goto(r, "done")
  /\ \/ logged' = logged \cup {Key[r]} /\ Faultless
     \/ UNCHANGED logged /\ Fault
  /\ UNCHANGED <<balance, dedup, archive, caches, left, others, charges, excuses>>

\* Ten workers take from a channel, so that writes overtake each other. A
\* value loaded before the last charge may come after its invalidation.
WriteCache(w) ==
  /\ queue' = queue \ {w}
  /\ \/ /\ cached' = (IF w.kind = "set" THEN w.amount ELSE Deducted(w.amount))
        /\ IF w.kind = "set" /\ ~Exhausted(w.amount) /\ Exhausted(balance)
           THEN Excuse("lateSet") ELSE UNCHANGED excuses
        /\ Faultless
     \/ UNCHANGED <<cached, excuses>> /\ Fault
  /\ UNCHANGED <<tables, pc, left, others, charges>>

-----------------------------------------------------------------------------
(* Everything around the requests.                                         *)

\* A recharge commits, and a goroutine invalidates the cache.
Credit ==
  /\ recharges < MaxRecharges /\ recharges' = recharges + 1
  /\ balance' = balance + Recharge /\ notices' = notices + 1
  /\ UNCHANGED <<dedup, archive, logged, caches, pc, left, form, charges, excuses, faults>>

Notice ==
  /\ notices > 0 /\ notices' = notices - 1
  /\ Invalidate
  /\ UNCHANGED <<tables, queue, pc, left, form, recharges, charges>>

\* UpdateProfile, ChangePassword and others read the user, and
\* userRepository.Update stores the whole row with the balance that was read.
OpenForm ==
  /\ form = None /\ form' = balance /\ Fault
  /\ UNCHANGED <<tables, caches, pc, left, notices, recharges, charges, excuses>>

SaveForm ==
  /\ form # None /\ form' = None
  /\ balance' = form
  /\ IF form # balance THEN Excuse("overwritten") ELSE UNCHANGED excuses
  /\ UNCHANGED <<dedup, archive, logged, caches, pc, left, notices, recharges, charges, faults>>

\* CleanupUsageBillingDedup moves an old claim in one statement.
DroppedFromDedup(k) == archive  \* (bug) deleted without being archived
Archived(k) == [archive EXCEPT ![k] = IF @ = None THEN dedup[k] ELSE @]
Archive(k) ==
  /\ dedup[k] # None
  /\ archive' = Archived(k) /\ dedup' = [dedup EXCEPT ![k] = None]
  /\ UNCHANGED <<balance, logged, caches, pc, left, others, charges, excuses, faults>>

NeverExpire == FALSE /\ UNCHANGED vars  \* (bug) a key without a time to live
Expire ==
  /\ cached # None /\ cached' = None
  /\ UNCHANGED <<tables, queue, pc, left, others, charges, excuses, faults>>

\* A process dies with its requests and its channel; the database rolls back.
Die(s) ==
  LET on == {r \in Requests : Host[r] = s}
  IN /\ \E r \in on : pc[r] \notin Quiet
     /\ pc' = [r \in Requests |-> IF r \in on /\ pc[r] \notin Quiet THEN "done" ELSE pc[r]]
     /\ left' = [r \in Requests |-> IF r \in on THEN None ELSE left[r]]
     /\ queue' = {w \in queue : Host[w.by] # s}
     /\ IF \E r \in on : pc[r] = "finalize" THEN Excuse("died") ELSE UNCHANGED excuses
     /\ Fault
     /\ UNCHANGED <<tables, cached, others, charges>>

Serve(r) == Load(r) \/ Insert(r) \/ Compare(r) \/ Look(r) \/ Apply(r) \/ RollBack(r)
            \/ Finalize(r) \/ Log(r)

Next ==
  \/ \E r \in Requests : Arrive(r) \/ NextTurn(r) \/ Serve(r)
  \/ \E w \in queue : WriteCache(w)
  \/ \E k \in Keys : Archive(k)
  \/ Credit \/ Notice \/ OpenForm \/ SaveForm \/ Expire
  \/ \E s \in Servers : Die(s)

Spec == Init /\ [][Next]_vars

\* Requests and cache workers run on, and keys of Redis run out. Each of the
\* finitely many charges may renew the key's time to live.
Fairness ==
  /\ \A r \in Requests : WF_vars(Serve(r))
  /\ WF_vars(\E w \in queue : WriteCache(w)) /\ WF_vars(Notice) /\ WF_vars(Expire)
FairSpec == Spec /\ Fairness

-----------------------------------------------------------------------------
TypeOK ==
  /\ balance \in Int /\ cached \in Int \cup {None}
  /\ dedup \in [Keys -> Fingerprints \cup {None}] /\ archive \in [Keys -> Fingerprints \cup {None}]
  /\ logged \subseteq Keys /\ queue \subseteq Write
  /\ pc \in [Requests -> Places] /\ left \in [Requests -> Int \cup {None}]
  /\ notices \in Nat /\ form \in Int \cup {None} /\ recharges \in Nat
  /\ charges \in [Keys -> Nat] /\ faults \in Nat

\* A request is charged at most once, however often and with whatever
\* fingerprint its claim is tried, while old claims move to the archive.
ChargedOnce == \A k \in Keys : charges[k] <= 1

\* The balance is what was paid in less the price of every claim, recent or
\* archived. The comment of addOrVerifyNotifyEmail (user_service.go:1259) calls
\* a duplicate entry the worst that saves next to each other can do.
Price(k) == IF dedup[k] # None THEN Cost[dedup[k]] ELSE Cost[archive[k]]
BalanceIsExact ==
  balance = Deposit + recharges * Recharge
            - MapThenSumSet(Price, {k \in Keys : Claimed(k)})

\* The books agree: the balance is exact unless a save has overwritten it, and
\* the usage log holds nothing that was not charged.
BooksAgree ==
  /\ "overwritten" \in excuses \/ BalanceIsExact
  /\ \A k \in logged : Claimed(k)

\* When the balance is used up, the cache says so or is about to be cleared
\* by the request that used it up, unless the cache could not be reached, a
\* process died, or a value loaded earlier arrived late.
ExhaustedIsKnown ==
  Exhausted(balance) /\ cached # None /\ ~Exhausted(cached) =>
    \/ \E r \in Requests : pc[r] = "finalize" /\ Exhausted(left[r])
    \/ excuses # {}

\* A user who has paid again is not refused for ever on a stale balance.
RechargeIsSeen ==
  ~Exhausted(balance) /\ cached # None /\ Exhausted(cached)
    ~> Exhausted(balance) \/ cached = None \/ ~Exhausted(cached)
=============================================================================
