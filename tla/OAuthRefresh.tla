--------------------------- MODULE OAuthRefresh ---------------------------
(* One OAuth account whose provider hands out single-use refresh tokens    *)
(* (Anthropic, OpenAI), renewed by the background cycles and by the        *)
(* requests of several servers: service/oauth_refresh_api.go under         *)
(* service/token_refresh_service.go and service/claude_token_provider.go.  *)
(* Credentials are their generation: the provider's n-th refresh token,    *)
(* the access token and the _token_version that came with it are all n.    *)
EXTENDS Naturals

CONSTANTS
  Workers,      \* goroutines that may refresh
  Cycles,       \* those that run the background cycle; the others are requests
  Servers,
  Host,         \* the server a worker runs on
  NoWorker,     \* nobody
  NoToken,      \* the cache has no token
  MaxRetries,   \* attempts of one background cycle
  MaxGen,       \* bound: generations of the credentials
  MaxFaults     \* bound: failed calls, lost replies and deaths of a server

ASSUME WorkerAssumption ==
  /\ Cycles \subseteq Workers
  /\ Host \in [Workers -> Servers]
  /\ NoWorker \notin Workers
ASSUME BoundAssumption ==
  /\ MaxRetries \in Nat \ {0}
  /\ MaxGen \in Nat
  /\ MaxFaults \in Nat
  /\ NoToken \notin Nat

VARIABLES
  gen,          \* the account's row: the credentials
  status,       \* the account's row: "active" or "error"
  blocked,      \* the account's row: temporarily unschedulable
  lock,         \* who set the Redis lock (the key itself holds only a 1)
  cache,        \* the access token in Redis
  latest,       \* the provider: the only refresh token it still accepts
  revoked,      \* the provider: the user has withdrawn the authorisation
  aged,         \* generations below this one are inside the refresh window
  job,          \* what each worker is doing
  excuses,      \* history: what happened that the code cannot prevent
  faults        \* bound

row    == <<gen, status, blocked>>
world  == <<latest, revoked, aged>>
vars   == <<row, lock, cache, world, job, excuses, faults>>

Generations == 0..MaxGen
\* Holding the process's mutex, and calling the provider under it.
Critical == {"reread", "call", "recover", "persist", "release"}
Calling  == {"call", "recover", "persist"}
Places   == Critical \cup {"idle", "enter", "post", "disable", "block", "check", "fill"}

\* acc is the caller's account object, fresh the one read under the lock.
Job == [pc : Places, acc : Generations, fresh : Generations, new : Generations,
        locked : BOOLEAN, stale : BOOLEAN, seenBlocked : BOOLEAN,
        result : {"none", "fresh", "refreshed", "failed", "dead"},
        tries : 0..MaxRetries]
IdleJob == [pc |-> "idle", acc |-> 0, fresh |-> 0, new |-> 0, locked |-> FALSE,
            stale |-> FALSE, seenBlocked |-> FALSE, result |-> "none", tries |-> 0]

Due(g) == g < aged

-----------------------------------------------------------------------------
Become(w, j) == job' = [job EXCEPT ![w] = j]
Goto(w, place) == Become(w, [job[w] EXCEPT !.pc = place])
Idle(w) == Become(w, IdleJob)
Finish(w, result) == Become(w, [job[w] EXCEPT !.pc = "release", !.result = result])

Faultless == UNCHANGED faults
Fault == faults < MaxFaults /\ faults' = faults + 1
Excuse(e) == excuses' = excuses \cup {e}

Init ==
  /\ gen = 0 /\ status = "active" /\ blocked = FALSE
  /\ lock = NoWorker /\ cache = NoToken
  /\ latest = 0 /\ revoked = FALSE /\ aged = 0
  /\ job = [w \in Workers |-> IdleJob]
  /\ excuses = {} /\ faults = 0

-----------------------------------------------------------------------------
(* The two callers.                                                        *)

\* processRefresh lists the active, unblocked accounts and takes a due one.
StartCycle(w) ==
  /\ w \in Cycles /\ job[w].pc = "idle"
  /\ status = "active" /\ ~blocked /\ Due(gen)
  /\ Become(w, [IdleJob EXCEPT !.pc = "enter", !.acc = gen])
  /\ UNCHANGED <<row, lock, cache, world, excuses, faults>>

\* GetAccessToken misses the cache; the scheduler's account object may be old.
StartRequest(w) ==
  /\ w \in Workers \ Cycles /\ job[w].pc = "idle"
  /\ cache = NoToken
  /\ \E g \in 0..gen :
       Become(w, [IdleJob EXCEPT !.pc = IF Due(g) THEN "enter" ELSE "check", !.acc = g])
  /\ UNCHANGED <<row, lock, cache, world, excuses, faults>>

-----------------------------------------------------------------------------
(* RefreshIfNeeded.                                                        *)

MutexUnused(w) == TRUE  \* (bug) the local mutex is not taken
MutexFree(w) ==
  \A v \in Workers \ {w} : Host[v] = Host[w] => job[v].pc \notin Critical

\* A free lock is taken; when Redis fails the refresh goes on without it.
Enter(w) ==
  /\ job[w].pc = "enter" /\ MutexFree(w)
  /\ \/ /\ lock = NoWorker /\ lock' = w
        /\ Become(w, [job[w] EXCEPT !.pc = "reread", !.locked = TRUE])
        /\ Faultless /\ UNCHANGED excuses
     \/ /\ Fault /\ Excuse("unlocked")
        /\ Become(w, [job[w] EXCEPT !.pc = "reread"])
        /\ UNCHANGED lock
  /\ UNCHANGED <<row, cache, world>>

\* LockHeld: a cycle skips the account; a request looks into the cache once
\* more and else goes on with the token it has.
LockHeld(w) ==
  /\ job[w].pc = "enter" /\ MutexFree(w) /\ lock # NoWorker
  /\ IF w \in Cycles \/ cache # NoToken THEN Idle(w) ELSE Goto(w, "check")
  /\ UNCHANGED <<row, lock, cache, world, excuses, faults>>

\* What the row read under the lock says; the caller's object when the read fails.
AfterReread(j, g) ==
  [j EXCEPT !.fresh = g, !.result = IF Due(g) THEN "none" ELSE "fresh",
            !.pc = IF Due(g) THEN "call" ELSE "release"]

Reread(w) ==
  /\ job[w].pc = "reread"
  /\ \/ /\ Become(w, AfterReread([job[w] EXCEPT !.stale = FALSE, !.seenBlocked = blocked], gen))
        /\ Faultless
     \/ /\ Become(w, AfterReread([job[w] EXCEPT !.stale = TRUE, !.seenBlocked = FALSE], job[w].acc))
        /\ Fault
  /\ UNCHANGED <<row, lock, cache, world, excuses>>

Accepted(w) == job[w].fresh = latest /\ ~revoked

\* executor.Refresh: the provider rotates the token; the reply may be lost.
Call(w) ==
  /\ job[w].pc = "call" /\ Accepted(w) /\ latest < MaxGen
  /\ latest' = latest + 1
  /\ \/ /\ Become(w, [job[w] EXCEPT !.pc = "persist", !.new = latest + 1])
        /\ Faultless /\ UNCHANGED excuses
     \/ Finish(w, "failed") /\ Fault /\ Excuse("lost")
  /\ UNCHANGED <<row, lock, cache, revoked, aged>>

\* A used or withdrawn token is refused: with invalid_grant, or in words that
\* tryRecoverFromRefreshRace is not called for (refresh_token_reused).
Refused(w) ==
  /\ job[w].pc = "call" /\ ~Accepted(w)
  /\ \/ Goto(w, "recover") /\ UNCHANGED excuses
     \/ /\ Finish(w, "dead")
        /\ IF job[w].stale THEN Excuse("misread") ELSE UNCHANGED excuses
  /\ UNCHANGED <<row, lock, cache, world, faults>>

\* The call fails without an effect and may be tried again.
CallFails(w) ==
  /\ job[w].pc = "call" /\ Fault /\ Finish(w, "failed")
  /\ UNCHANGED <<row, lock, cache, world, excuses>>

\* tryRecoverFromRefreshRace: another token in the row means somebody else refreshed.
NotRecovered(j) == FALSE  \* (bug) no second look at the row
Recovered(j) == gen # j.fresh

Recover(w) ==
  /\ job[w].pc = "recover"
  /\ \/ /\ IF Recovered(job[w])
           THEN Become(w, [job[w] EXCEPT !.pc = "release", !.fresh = gen, !.result = "fresh"])
           ELSE Finish(w, "dead")
        /\ Faultless /\ UNCHANGED excuses
     \/ Finish(w, "dead") /\ Fault /\ Excuse("misread")
  /\ UNCHANGED <<row, lock, cache, world>>

\* MergeCredentials: the provider's fields win over the old ones.
MergedOldWins(j) == j.fresh  \* (bug) the old fields win
Merged(j) == j.new

\* persistAccountCredentials writes without a condition; the new token is
\* gone when it fails.
Persist(w) ==
  /\ job[w].pc = "persist"
  /\ \/ /\ gen' = Merged(job[w])
        /\ Become(w, [job[w] EXCEPT !.pc = "release", !.fresh = Merged(job[w]), !.result = "refreshed"])
        /\ Faultless /\ UNCHANGED excuses
     \/ Finish(w, "failed") /\ Fault /\ Excuse("lost") /\ UNCHANGED gen
  /\ UNCHANGED <<status, blocked, lock, cache, world>>

Leave(w, place) ==
  Become(w, [IdleJob EXCEPT !.pc = place, !.acc = job[w].acc, !.seenBlocked = job[w].seenBlocked])

\* refreshWithRetry: where a cycle goes on.
AfterCycle(w) ==
  LET tries == job[w].tries + 1
  IN \/ job[w].result = "fresh" /\ Idle(w)
     \/ job[w].result = "refreshed" /\ Leave(w, "post")
     \/ job[w].result = "dead" /\ Leave(w, "disable")
     \/ job[w].result = "failed" /\ tries = MaxRetries /\ Leave(w, "block")
     \/ /\ job[w].result = "failed" /\ tries < MaxRetries
        /\ Become(w, [IdleJob EXCEPT !.pc = "enter", !.acc = job[w].acc, !.tries = tries])

\* GetAccessToken: a request keeps its own account object when the refresh failed.
AfterRequest(w) ==
  \/ job[w].result \in {"failed", "dead"} /\ Leave(w, "check")
  \/ /\ job[w].result \in {"fresh", "refreshed"}
     /\ Become(w, [IdleJob EXCEPT !.pc = "check", !.acc = job[w].fresh])

\* ReleaseRefreshLock deletes the key whoever set it.
Release(w) ==
  /\ job[w].pc = "release"
  /\ IF w \in Cycles THEN AfterCycle(w) ELSE AfterRequest(w)
  /\ \/ lock' = (IF job[w].locked THEN NoWorker ELSE lock) /\ Faultless
     \/ job[w].locked /\ Fault /\ UNCHANGED lock
  /\ UNCHANGED <<row, cache, world, excuses>>

-----------------------------------------------------------------------------
(* What follows in a cycle, and in a request.                              *)

\* postRefreshActions: clear the block that was read, drop the cached token.
PostRefresh(w) ==
  /\ job[w].pc = "post"
  /\ blocked' = (blocked /\ ~job[w].seenBlocked)
  /\ \/ cache' = NoToken /\ Faultless
     \/ UNCHANGED cache /\ Fault
  /\ Idle(w)
  /\ UNCHANGED <<gen, status, lock, world, excuses>>

Disable(w) ==
  /\ job[w].pc = "disable"
  /\ \/ status' = "error" /\ Faultless
     \/ UNCHANGED status /\ Fault
  /\ Idle(w)
  /\ UNCHANGED <<gen, blocked, lock, cache, world, excuses>>

Block(w) ==
  /\ job[w].pc = "block"
  /\ \/ blocked' = TRUE /\ Faultless
     \/ UNCHANGED blocked /\ Fault
  /\ Idle(w)
  /\ UNCHANGED <<gen, status, lock, cache, world, excuses>>

\* CheckTokenVersion: an older version than the row's is not cached.
Check(w) ==
  /\ job[w].pc = "check"
  /\ \/ (IF gen > job[w].acc THEN Idle(w) ELSE Goto(w, "fill")) /\ Faultless
     \/ Goto(w, "fill") /\ Fault
  /\ UNCHANGED <<row, lock, cache, world, excuses>>

Fill(w) ==
  /\ job[w].pc = "fill"
  /\ \/ cache' = job[w].acc /\ Faultless
     \/ UNCHANGED cache /\ Fault
  /\ Idle(w)
  /\ UNCHANGED <<row, lock, world, excuses>>

-----------------------------------------------------------------------------
(* Time, the provider's user, and the operating system.                    *)

NeverExpireLock == FALSE /\ UNCHANGED vars  \* (bug) SETNX without a time to live

\* The lock outlives its 60 s, perhaps under a holder still at work: a call
\* to the provider may take 60 s (Anthropic) or 120 s (OpenAI).
ExpireLock ==
  /\ lock # NoWorker /\ lock' = NoWorker
  /\ IF job[lock].locked THEN Excuse("unlocked") ELSE UNCHANGED excuses
  /\ UNCHANGED <<row, cache, world, job, faults>>

ExpireToken ==
  /\ cache # NoToken /\ cache' = NoToken
  /\ UNCHANGED <<row, lock, world, job, excuses, faults>>

Unblock ==
  /\ blocked /\ blocked' = FALSE
  /\ UNCHANGED <<gen, status, lock, cache, world, job, excuses, faults>>

\* Every token handed out so far comes into the refresh window.
Age ==
  /\ latest < MaxGen /\ aged' = latest + 1 /\ aged' # aged
  /\ UNCHANGED <<row, lock, cache, latest, revoked, job, excuses, faults>>

Revoke ==
  /\ ~revoked /\ revoked' = TRUE /\ Excuse("revoked") /\ Fault
  /\ UNCHANGED <<row, lock, cache, latest, aged, job>>

\* A process dies; a token its workers were about to store dies with it.
Die(s) ==
  LET on == {w \in Workers : Host[w] = s}
  IN /\ \E w \in on : job[w].pc # "idle"
     /\ job' = [w \in Workers |-> IF w \in on THEN IdleJob ELSE job[w]]
     /\ IF \E w \in on : job[w].pc = "persist" THEN Excuse("lost") ELSE UNCHANGED excuses
     /\ Fault
     /\ UNCHANGED <<row, lock, cache, world>>

Work(w) ==
  \/ Enter(w) \/ LockHeld(w) \/ Reread(w) \/ Call(w) \/ Refused(w) \/ CallFails(w)
  \/ Recover(w) \/ Persist(w) \/ Release(w) \/ PostRefresh(w) \/ Disable(w)
  \/ Block(w) \/ Check(w) \/ Fill(w)

Next ==
  \/ \E w \in Workers : StartCycle(w) \/ StartRequest(w) \/ Work(w)
  \/ ExpireLock \/ ExpireToken \/ Unblock \/ Age \/ Revoke
  \/ \E s \in Servers : Die(s)

Spec == Init /\ [][Next]_vars

\* Goroutines run on, the cycles come back with their ticker, keys and blocks
\* run out. Nothing makes a request arrive or a token age.
Fairness ==
  /\ \A w \in Workers : WF_vars(Work(w)) /\ WF_vars(StartCycle(w))
  /\ WF_vars(ExpireLock) /\ WF_vars(Unblock)
FairSpec == Spec /\ Fairness

-----------------------------------------------------------------------------
TypeOK ==
  /\ gen \in Generations /\ status \in {"active", "error"} /\ blocked \in BOOLEAN
  /\ lock \in Workers \cup {NoWorker} /\ cache \in Generations \cup {NoToken}
  /\ latest \in Generations /\ revoked \in BOOLEAN /\ aged \in Generations
  /\ job \in [Workers -> Job]
  /\ excuses \subseteq {"unlocked", "lost", "misread", "revoked"}
  /\ faults \in 0..MaxFaults

\* Two workers talk to the provider at once only on different servers, and
\* only after the lock lapsed under its holder or Redis could not be asked.
SingleRefresher ==
  \A v, w \in Workers :
    v # w /\ job[v].pc \in Calling /\ job[w].pc \in Calling =>
      Host[v] # Host[w] /\ "unlocked" \in excuses

\* The one refresh token the provider accepts is in the row or on its way
\* there in exactly one worker, unless a reply, a write or a process was lost;
\* whatever the locks do.
TokenKept ==
  \/ "lost" \in excuses
  \/ gen = latest /\ \A w \in Workers : job[w].pc # "persist"
  \/ \E w \in Workers : /\ job[w].pc = "persist" /\ job[w].new = latest
                        /\ \A v \in Workers \ {w} : job[v].pc # "persist"

\* An account is taken out of service only when its authorisation is really
\* gone, or the lock or the reads that protect against a lost race failed.
NoFalseAlarm == status = "error" => excuses # {}

\* A due account is renewed as long as its authorisation is intact, in spite
\* of locks left behind, blocked periods, failed attempts and requests that
\* hold the lock when the cycle comes.
DueIsServed ==
  Due(gen) /\ status = "active" ~>
    ~Due(gen) \/ status = "error" \/ excuses \cap {"lost", "revoked"} # {}
=============================================================================
