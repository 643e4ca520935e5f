---------------------------- MODULE Idempotency ----------------------------
(***************************************************************************)
(* IdempotencyCoordinator.Execute (service/idempotency.go): requests with  *)
(* an Idempotency-Key execute once and are answered with the stored        *)
(* response afterwards.  A worker is a request of any server instance; an  *)
(* execution of the handler behind it succeeds or has no effect.           *)
(***************************************************************************)
EXTENDS IdempotencyRecords

CONSTANTS
    Workers,        \* concurrent requests
    NoJob,          \* what an idle worker works on
    Backoff,        \* FailedRetryBackoff
    MaxFaults,      \* bound: statements of the coordinator that return an error
    MaxCrashes      \* bound: requests that die half way

\* at: the request's time.Now();  id, from: the record it has read, or owns.
Job == [key : Keys, payload : Fingerprints, at : Nat, id : Nat, from : Statuses]

ASSUME BudgetAssumption == Backoff \in Nat /\ MaxFaults \in Nat /\ MaxCrashes \in Nat
ASSUME NoJobAssumption == NoJob \notin Job

VARIABLES
    effects,    \* how often the handler behind a key was executed with success
    answers,    \* history: payloads asked with, and those whose response was the answer
    pc, job, faults, crashes

workVars == <<pc, job>>
budget   == <<faults, crashes>>
vars == <<tableVars, effects, answers, workVars, budget>>

\* The owner of a record: between the claim and the statement that marks it.
Owning == {"execute", "succeed", "fail"}

Places == {"idle", "create", "read", "reclaim", "reclaimExpired", "reread"} \cup Owning

AnswerType == effects \in [Keys -> Nat] /\ answers \in [Keys -> SUBSET (Fingerprints \X Fingerprints)]

WorkType ==
    /\ pc \in [Workers -> Places]
    /\ job \in [Workers -> Job \cup {NoJob}]
    /\ \A w \in Workers : pc[w] = "idle" <=> job[w] = NoJob
    /\ \A w \in Workers : pc[w] # "idle" => job[w].at <= now

BudgetType == faults \in 0 .. MaxFaults /\ crashes \in 0 .. MaxCrashes

\* Every variable has its type, a worker holds a job exactly while it runs, and
\* no request has read the clock in the future.
TypeOK == TableType /\ AnswerType /\ WorkType /\ BudgetType

Init ==
    /\ TableInit
    /\ effects = [k \in Keys |-> 0]
    /\ answers = [k \in Keys |-> {}]
    /\ pc = [w \in Workers |-> "idle"]
    /\ job = [w \in Workers |-> NoJob]
    /\ faults = 0
    /\ crashes = 0

-----------------------------------------------------------------------------
Goto(w, place) == pc' = [pc EXCEPT ![w] = place] /\ UNCHANGED job

\* Goes on with a record it has read, or owns.
GotoWith(w, place, id, from) ==
    /\ pc' = [pc EXCEPT ![w] = place]
    /\ job' = [job EXCEPT ![w].id = id, ![w].from = from]

\* (bug) The worker is idle again but keeps its job.
ReturnHoldingJob(w) == pc' = [pc EXCEPT ![w] = "idle"] /\ UNCHANGED job

Return(w) ==
    /\ pc' = [pc EXCEPT ![w] = "idle"]
    /\ job' = [job EXCEPT ![w] = NoJob]

NoFault == UNCHANGED faults
Fault   == faults < MaxFaults /\ faults' = faults + 1

Answer(w, response) ==
    answers' = [answers EXCEPT ![job[w].key] = @ \cup {<<job[w].payload, response>>}]

Request(w, k, payload) ==
    /\ pc[w] = "idle"
    /\ pc' = [pc EXCEPT ![w] = "create"]
    /\ job' = [job EXCEPT ![w] = [key |-> k, payload |-> payload, at |-> now,
                                  id |-> 0, from |-> "processing"]]
    /\ UNCHANGED <<tableVars, effects, answers, budget>>

\* An insert whose reply is lost leaves a record without an owner.
Create(w) == LET k == job[w].key  p == job[w].payload IN
    /\ pc[w] = "create"
    /\ \/ NoFault /\ CreateProcessing(k, p, job[w].at) /\ GotoWith(w, "execute", lastId + 1, "processing")
       \/ NoFault /\ row[k] # NoRow /\ Goto(w, "read") /\ UNCHANGED tableVars
       \/ Fault /\ Return(w) /\ UNCHANGED tableVars
       \/ Fault /\ CreateProcessing(k, p, job[w].at) /\ Return(w)
    /\ UNCHANGED <<effects, answers, crashes>>

\* (bug) A key may be used again with another payload.
AnyPayload(w) == TRUE

SamePayload(w) == row[job[w].key].by = job[w].payload

\* What Execute does with a record of its payload that has not expired, or that
\* another request has reclaimed: replay, conflict, back off or reclaim.
DecideByStatus(w) == LET r == row[job[w].key] IN
    \/ /\ r.status = "succeeded"
       /\ \E response \in r.response : Answer(w, response)
       /\ Return(w)
    \/ r.status = "processing" /\ Return(w) /\ UNCHANGED answers
    \/ r.status = "failed" /\ r.lockedUntil > job[w].at /\ Return(w) /\ UNCHANGED answers
    \/ /\ r.status = "failed" /\ r.lockedUntil <= job[w].at
       /\ GotoWith(w, "reclaim", r.id, "failed") /\ UNCHANGED answers

\* GetByScopeAndKeyHash, first or after an expired record could not be reclaimed.
Read(w) == LET r == row[job[w].key] IN
    /\ pc[w] \in {"read", "reread"}
    /\ \/ NoFault /\ r = NoRow /\ Return(w) /\ UNCHANGED answers
       \/ NoFault /\ r # NoRow /\ ~SamePayload(w) /\ Return(w) /\ UNCHANGED answers
       \/ /\ NoFault /\ r # NoRow /\ SamePayload(w)
          /\ pc[w] = "read" /\ r.expiresAt <= job[w].at
          /\ GotoWith(w, "reclaimExpired", r.id, r.status) /\ UNCHANGED answers
       \/ /\ NoFault /\ r # NoRow /\ SamePayload(w)
          /\ (pc[w] = "reread" \/ r.expiresAt > job[w].at)
          /\ DecideByStatus(w)
       \/ Fault /\ Return(w) /\ UNCHANGED answers
    /\ UNCHANGED <<tableVars, effects, crashes>>

Reclaim(w) == LET j == job[w] IN
    /\ pc[w] \in {"reclaim", "reclaimExpired"}
    /\ \/ NoFault /\ TryReclaim(j.key, j.id, j.from, j.at) /\ Goto(w, "execute")
       \/ /\ NoFault /\ ~Reclaimable(j.key, j.id, j.from, j.at)
          /\ IF pc[w] = "reclaim" THEN Return(w) ELSE Goto(w, "reread")
          /\ UNCHANGED tableVars
       \/ Fault /\ Return(w) /\ UNCHANGED tableVars
       \/ Fault /\ TryReclaim(j.key, j.id, j.from, j.at) /\ Return(w)
    /\ UNCHANGED <<effects, answers, crashes>>

\* The handler behind the key.
Execute(w) == LET k == job[w].key IN
    /\ pc[w] = "execute"
    /\ \/ effects' = [effects EXCEPT ![k] = @ + 1] /\ Goto(w, "succeed")
       \/ Goto(w, "fail") /\ UNCHANGED effects
    /\ UNCHANGED <<tableVars, answers, budget>>

MarkRetryable(w) == MarkFailedRetryable(job[w].key, job[w].id, now + Backoff, job[w].at + TTL)

\* What is done to the record when the response could not be stored, and when the
\* handler failed.
LeftProcessing(w) == UNCHANGED tableVars
LeftRetryable(w)  == MarkRetryable(w)

\* MarkSucceeded.  When it fails the caller gets an error and the record stays
\* processing, which nobody takes over before it expires.
Succeed(w) == LET j == job[w] IN
    /\ pc[w] = "succeed"
    /\ \/ NoFault /\ MarkSucceeded(j.key, j.id, j.payload, j.at + TTL) /\ Answer(w, j.payload)
       \/ Fault /\ LeftProcessing(w) /\ UNCHANGED answers
       \/ Fault /\ MarkSucceeded(j.key, j.id, j.payload, j.at + TTL) /\ UNCHANGED answers
    /\ Return(w)
    /\ UNCHANGED <<effects, crashes>>

\* The error of MarkFailedRetryable is only counted.
Fail(w) ==
    /\ pc[w] = "fail"
    /\ \/ NoFault /\ LeftRetryable(w)
       \/ Fault /\ LeftRetryable(w)
       \/ Fault /\ UNCHANGED tableVars
    /\ Return(w)
    /\ UNCHANGED <<effects, answers, crashes>>

Crash(w) ==
    /\ pc[w] # "idle" /\ crashes < MaxCrashes
    /\ crashes' = crashes + 1
    /\ Return(w)
    /\ UNCHANGED <<tableVars, effects, answers, faults>>

Step(w) == Create(w) \/ Read(w) \/ Reclaim(w) \/ Execute(w) \/ Succeed(w) \/ Fail(w)

\* The clock and IdempotencyCleanupService.
Environment == (Tick \/ SelectExpired \/ DeleteVictims) /\ UNCHANGED <<effects, answers, workVars, budget>>

Next ==
    \/ \E w \in Workers, k \in Keys, p \in Fingerprints : Request(w, k, p)
    \/ \E w \in Workers : Step(w) \/ Crash(w)
    \/ Environment

Spec == Init /\ [][Next]_vars

-----------------------------------------------------------------------------
(* Until the record of the key has expired, however long the handlers run and *)
(* whatever fails.                                                            *)

\* One request at a time owns the key: neither a retry after a failure nor one
\* after the processing timeout starts a second execution beside the first.
SingleOwner ==
    \A v, w \in Workers :
        /\ pc[v] \in Owning /\ pc[w] \in Owning
        /\ job[v].key = job[w].key /\ job[v].key \notin lapsed
        => v = w

\* The handler behind the key has its effect at most once, also when the response
\* could not be stored.
SingleEffect == \A k \in Keys \ lapsed : effects[k] <= 1

\* Without a failing statement or a dead request no key is left in processing: its
\* record has an owner, which will mark it.
OwnedWhileProcessing ==
    faults = 0 /\ crashes = 0 =>
        \A k \in Keys \ lapsed :
            row[k] # NoRow /\ row[k].status = "processing" =>
                \E w \in Workers : pc[w] \in Owning /\ job[w].key = k /\ job[w].id = row[k].id

(* Also after records expire, are reclaimed and are deleted under their owners. *)

\* Nobody is answered with the response to another payload.
AnswersMatch == \A k \in Keys : \A a \in answers[k] : a[1] = a[2]
=============================================================================
