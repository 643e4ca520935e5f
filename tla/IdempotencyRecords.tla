------------------------- MODULE IdempotencyRecords -------------------------
(***************************************************************************)
(* The table idempotency_records (repository/idempotency_repo.go), its     *)
(* clock and its clean-up service.  Every operator about a key is one SQL  *)
(* statement; Idempotency and SystemOperationLock are its two users.       *)
(***************************************************************************)
EXTENDS Integers, FiniteSets

CONSTANTS
    Keys,           \* pairs of scope and key hash, which are unique
    Fingerprints,   \* what request_fingerprint tells apart
    Lease,          \* ProcessingTimeout
    TTL,            \* how long a record lives
    MaxTime,        \* bound of the clock
    NoRow           \* the key has no record

Statuses == {"processing", "succeeded", "failed"}

\* lockedUntil 0 is NULL: a lock that has always passed.  response: the fingerprint
\* of the request whose response is stored, if one is.
Record == [id : Nat, by : Fingerprints, status : Statuses, response : SUBSET Fingerprints,
           lockedUntil : Nat, expiresAt : Nat]

ASSUME DurationAssumption == Lease \in Nat \ {0} /\ TTL \in Nat \ {0} /\ MaxTime \in Nat
ASSUME NoRowAssumption == NoRow \notin Record

VARIABLES
    row,        \* the record of each key
    lastId,     \* the sequence of ids
    victims,    \* what the running DeleteExpired has selected: keys and ids
    lapsed,     \* history: the keys whose record has expired
    now

tableVars == <<row, lastId, victims, lapsed, now>>

TableType ==
    /\ row \in [Keys -> Record \cup {NoRow}]
    /\ lastId \in Nat
    /\ victims \subseteq Keys \X Nat
    /\ lapsed \subseteq Keys
    /\ now \in 0 .. MaxTime

TableInit ==
    /\ row = [k \in Keys |-> NoRow]
    /\ lastId = 0
    /\ victims = {}
    /\ lapsed = {}
    /\ now = 0

-----------------------------------------------------------------------------
HasRow(k, id) == row[k] # NoRow /\ row[k].id = id

\* The effect of a statement on one record; it may have expired when it is written.
Store(k, r) ==
    /\ row' = [row EXCEPT ![k] = r]
    /\ lapsed' = IF r.expiresAt <= now THEN lapsed \cup {k} ELSE lapsed

\* INSERT ... ON CONFLICT DO NOTHING, by a caller that looked at the clock at time at.
CreateProcessing(k, fingerprint, at) ==
    /\ row[k] = NoRow
    /\ Store(k, [id |-> lastId + 1, by |-> fingerprint, status |-> "processing", response |-> {},
                 lockedUntil |-> at + Lease, expiresAt |-> at + TTL])
    /\ lastId' = lastId + 1
    /\ UNCHANGED <<victims, now>>

\* (bug) TryReclaim without its condition on the status, and on the lock.
ReclaimAnyStatus(k, id, from, at) == HasRow(k, id) /\ row[k].lockedUntil <= at
ReclaimLocked(k, id, from, at)    == HasRow(k, id) /\ row[k].status = from

Reclaimable(k, id, from, at) ==
    /\ HasRow(k, id)
    /\ row[k].status = from /\ row[k].lockedUntil <= at

\* The fingerprint stays the one of the request that created the record.
TryReclaim(k, id, from, at) ==
    /\ Reclaimable(k, id, from, at)
    /\ Store(k, [row[k] EXCEPT !.status = "processing",
                               !.lockedUntil = at + Lease, !.expiresAt = at + TTL])
    /\ UNCHANGED <<lastId, victims, now>>

Extendable(k, id, fingerprint) ==
    HasRow(k, id) /\ row[k].status = "processing" /\ row[k].by = fingerprint

ExtendProcessingLock(k, id, fingerprint) ==
    /\ Extendable(k, id, fingerprint)
    /\ Store(k, [row[k] EXCEPT !.lockedUntil = now + Lease, !.expiresAt = now + TTL])
    /\ UNCHANGED <<lastId, victims, now>>

\* The updates by id, which have no other condition; a missing record is no error.
Update(k, id, r) ==
    /\ IF HasRow(k, id) THEN Store(k, r) ELSE UNCHANGED <<row, lapsed>>
    /\ UNCHANGED <<lastId, victims, now>>

MarkSucceeded(k, id, response, expiresAt) ==
    Update(k, id, [row[k] EXCEPT !.status = "succeeded", !.response = {response},
                                 !.lockedUntil = 0, !.expiresAt = expiresAt])

MarkFailedRetryable(k, id, lockedUntil, expiresAt) ==
    Update(k, id, [row[k] EXCEPT !.status = "failed",
                                 !.lockedUntil = lockedUntil, !.expiresAt = expiresAt])

\* DeleteExpired selects in its snapshot and deletes by id; what was reclaimed in
\* between, READ COMMITTED deletes all the same.
SelectExpired ==
    /\ victims = {}
    /\ victims' = {<<k, row[k].id>> : k \in {l \in Keys : row[l] # NoRow /\ row[l].expiresAt <= now}}
    /\ victims' # {}
    /\ UNCHANGED <<row, lastId, lapsed, now>>

DeleteVictims ==
    /\ victims # {}
    /\ row' = [k \in Keys |-> IF row[k] # NoRow /\ <<k, row[k].id>> \in victims THEN NoRow ELSE row[k]]
    /\ victims' = {}
    /\ UNCHANGED <<lastId, lapsed, now>>

Tick ==
    /\ now < MaxTime
    /\ now' = now + 1
    /\ lapsed' = lapsed \cup {k \in Keys : row[k] # NoRow /\ row[k].expiresAt <= now'}
    /\ UNCHANGED <<row, lastId, victims>>
=============================================================================
