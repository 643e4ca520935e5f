------------------------ MODULE UsageBillingProofs ------------------------
(* UsageBilling keeps its types, charges a claim once, keeps balances that *)
(* agree with the charges, and never holds a used-up balance for a good    *)
(* one without a reason.                                                   *)
EXTENDS UsageBilling, FiniteSetTheorems, TLAPS

-----------------------------------------------------------------------------
(* Types.                                                                  *)

\* A step to another place keeps the type of pc.
LEMMA Steps ==
  ASSUME pc \in [Requests -> Places], NEW r \in Requests, NEW place \in Places,
         pc' = [pc EXCEPT ![r] = place]
  PROVE  pc' \in [Requests -> Places]
  OBVIOUS

\* Faults are counted by a number.
LEMMA FaultsCount ==
  ASSUME faults \in Nat, Fault \/ Faultless
  PROVE  faults' \in Nat
  BY DEF Fault, Faultless

\* A deduction leaves a balance or nothing in the cache.
LEMMA DeductedType ==
  ASSUME cached \in Int \cup {None}, NEW a \in Int
  PROVE  Deducted(a) \in Int \cup {None}
  BY AmountAssumption DEF Deducted

\* A request is served or refused.
LEMMA VerdictType ==
  ASSUME NEW b
  PROVE  Verdict(b) \in {"done", "serve"}
  BY DEF Verdict

\* The types hold at first.
LEMMA TypeInit == Init => TypeOK
  <1> SUFFICES ASSUME Init PROVE TypeOK
    OBVIOUS
  <1> USE AmountAssumption, RequestAssumption DEF Init
  <1>1. pc \in [Requests -> Places]
    BY DEF Places, Quiet
  <1>2. queue \subseteq Write /\ logged \subseteq Keys
    OBVIOUS
  <1>3. /\ balance \in Int /\ cached \in Int \cup {None} /\ notices \in Nat
        /\ form \in Int \cup {None} /\ recharges \in Nat /\ faults \in Nat
    OBVIOUS
  <1>4. /\ dedup \in [Keys -> Fingerprints \cup {None}]
        /\ archive \in [Keys -> Fingerprints \cup {None}]
        /\ left \in [Requests -> Int \cup {None}] /\ charges \in [Keys -> Nat]
    OBVIOUS
  <1> QED BY <1>1, <1>2, <1>3, <1>4 DEF TypeOK

\* What a request does.
LEMMA TypeServe ==
  ASSUME TypeOK, NEW r \in Requests, Arrive(r) \/ NextTurn(r) \/ Serve(r)
  PROVE  TypeOK'
  <1>k. /\ Key[r] \in Keys /\ Fingerprint[r] \in Fingerprints /\ Cost[Fingerprint[r]] \in Int
        /\ balance - Cost[Fingerprint[r]] \in Int
    BY RequestAssumption, AmountAssumption DEF TypeOK
  <1>q. ASSUME NEW kind \in {"set", "deduct"}, NEW a \in Int, Enqueue(kind, r, a)
        PROVE  queue' \subseteq Write
    <2>1. [kind |-> kind, by |-> r, amount |-> a] \in Write
      BY <1>q DEF Write
    <2> QED BY <2>1, <1>q DEF Enqueue, TypeOK
  <1>1. CASE Arrive(r)
    <2>1. PICK place \in {"load", "done", "serve"} : Goto(r, place)
      BY <1>1, VerdictType DEF Arrive
    <2>2. pc' \in [Requests -> Places]
      BY <2>1, Steps DEF Goto, Places, Quiet, TypeOK
    <2>3. faults' \in Nat
      BY <1>1, FaultsCount DEF Arrive, TypeOK
    <2> QED BY <1>1, <2>2, <2>3 DEF Arrive, TypeOK, tables, caches, others
  <1>2. CASE NextTurn(r)
    <2>1. pc' \in [Requests -> Places]
      BY <1>2, Steps DEF NextTurn, Goto, Places, Quiet, TypeOK
    <2> QED BY <1>2, <2>1 DEF NextTurn, TypeOK, tables, caches, others
  <1>3. CASE Load(r)
    <2>1. PICK place \in {"done", "serve"} : Goto(r, place)
      BY <1>3, VerdictType DEF Load
    <2>2. pc' \in [Requests -> Places]
      BY <2>1, Steps DEF Goto, Places, Quiet, TypeOK
    <2>3. faults' \in Nat
      BY <1>3, FaultsCount DEF Load, TypeOK
    <2>4. balance \in Int
      BY DEF TypeOK
    <2>5. Enqueue("set", r, balance) \/ UNCHANGED queue
      BY <1>3 DEF Load
    <2>6. queue' \subseteq Write
      BY <1>q, <2>4, <2>5 DEF TypeOK
    <2> QED BY <1>3, <2>2, <2>3, <2>6 DEF Load, TypeOK, tables, others
  <1>4. CASE Insert(r)
    <2>1. pc' \in [Requests -> Places]
      <3>1. PICK place \in {"look", "compare"} : Goto(r, place)
        BY <1>4 DEF Insert
      <3> QED BY <3>1, Steps DEF Goto, Places, InTransaction, TypeOK
    <2> QED BY <1>4, <2>1 DEF Insert, TypeOK, tables, caches, others
  <1>5. CASE Compare(r)
    <2>1. pc' \in [Requests -> Places]
      <3>1. PICK place \in {"log", "done"} : Goto(r, place)
        BY <1>5 DEF Compare
      <3> QED BY <3>1, Steps DEF Goto, Places, Quiet, TypeOK
    <2> QED BY <1>5, <2>1 DEF Compare, TypeOK, tables, caches, others
  <1>6. CASE Look(r)
    <2>1. pc' \in [Requests -> Places]
      <3>1. PICK place \in {"apply", "log", "done"} : Goto(r, place)
        BY <1>6 DEF Look, LookedUp
      <3> QED BY <3>1, Steps DEF Goto, Places, InTransaction, Quiet, TypeOK
    <2> QED BY <1>6, <2>1 DEF Look, TypeOK, tables, caches, others
  <1>7. CASE Apply(r)
    <2>1. pc' \in [Requests -> Places]
      <3>1. PICK place \in {"finalize", "done"} : Goto(r, place)
        BY <1>7 DEF Apply
      <3> QED BY <3>1, Steps DEF Goto, Places, Quiet, TypeOK
    <2>2. faults' \in Nat
      BY <1>7, FaultsCount DEF Apply, TypeOK
    <2>3. left' \in [Requests -> Int \cup {None}]
      BY <1>7, <1>k DEF Apply, TypeOK
    <2>4. dedup' \in [Keys -> Fingerprints \cup {None}]
      BY <1>7, <1>k DEF Apply, TypeOK
    <2>5. charges' \in [Keys -> Nat] /\ balance' \in Int
      BY <1>7, <1>k DEF Apply, TypeOK
    <2> QED BY <1>7, <2>1, <2>2, <2>3, <2>4, <2>5 DEF Apply, TypeOK, caches, others
  <1>8. CASE RollBack(r)
    <2>1. pc' \in [Requests -> Places]
      BY <1>8, Steps DEF RollBack, Goto, Places, Quiet, TypeOK
    <2>2. faults' \in Nat
      BY <1>8, FaultsCount DEF RollBack, TypeOK
    <2> QED BY <1>8, <2>1, <2>2 DEF RollBack, TypeOK, tables, caches, others
  <1>9. CASE Finalize(r)
    <2>1. pc' \in [Requests -> Places]
      BY <1>9, Steps DEF Finalize, Goto, Places, TypeOK
    <2>2. faults' \in Nat
      BY <1>9, FaultsCount DEF Finalize, Invalidate, TypeOK
    <2>3. left' \in [Requests -> Int \cup {None}]
      BY <1>9 DEF Finalize, TypeOK
    <2>4. queue' \subseteq Write
      <3>1. Enqueue("deduct", r, Cost[Fingerprint[r]]) \/ UNCHANGED queue
        BY <1>9 DEF Finalize
      <3> QED BY <3>1, <1>q, <1>k DEF TypeOK
    <2>5. cached' \in Int \cup {None}
      <3>1. cached' = None \/ cached' = cached \/ cached' = Deducted(Cost[Fingerprint[r]])
        BY <1>9 DEF Finalize, Invalidate
      <3> QED BY <3>1, <1>k, DeductedType DEF TypeOK
    <2> QED BY <1>9, <2>1, <2>2, <2>3, <2>4, <2>5 DEF Finalize, TypeOK, tables, others
  <1>10. CASE Log(r)
    <2>1. pc' \in [Requests -> Places]
      BY <1>10, Steps DEF Log, Goto, Places, Quiet, TypeOK
    <2>2. faults' \in Nat
      BY <1>10, FaultsCount DEF Log, TypeOK
    <2>3. logged' \subseteq Keys
      BY <1>10, <1>k DEF Log, TypeOK
    <2> QED BY <1>10, <2>1, <2>2, <2>3 DEF Log, TypeOK, caches, others
  <1> QED BY <1>1, <1>2, <1>3, <1>4, <1>5, <1>6, <1>7, <1>8, <1>9, <1>10 DEF Serve

\* The cache workers, the archiving and everything around the requests.
LEMMA TypeAround ==
  ASSUME TypeOK,
         \/ \E w \in queue : WriteCache(w)
         \/ \E k \in Keys : Archive(k)
         \/ Credit \/ Notice \/ OpenForm \/ SaveForm \/ Expire
         \/ \E s \in Servers : Die(s)
  PROVE  TypeOK'
  <1>1. ASSUME NEW w \in queue, WriteCache(w) PROVE TypeOK'
    <2>1. cached' \in Int \cup {None}
      <3>1. w.amount \in Int
        BY DEF TypeOK, Write
      <3>2. cached' = cached \/ cached' = w.amount \/ cached' = Deducted(w.amount)
        BY <1>1 DEF WriteCache
      <3> QED BY <3>1, <3>2, DeductedType DEF TypeOK
    <2>2. queue' \subseteq Write
      BY <1>1 DEF WriteCache, TypeOK
    <2>3. faults' \in Nat
      BY <1>1, FaultsCount DEF WriteCache, TypeOK
    <2> QED BY <1>1, <2>1, <2>2, <2>3 DEF WriteCache, TypeOK, tables, others
  <1>2. ASSUME NEW k \in Keys, Archive(k) PROVE TypeOK'
    <2>1. archive' \in [Keys -> Fingerprints \cup {None}]
      BY <1>2 DEF Archive, Archived, TypeOK
    <2>2. dedup' \in [Keys -> Fingerprints \cup {None}]
      BY <1>2 DEF Archive, TypeOK
    <2> QED BY <1>2, <2>1, <2>2 DEF Archive, TypeOK, caches, others
  <1>3. ASSUME Credit PROVE TypeOK'
    <2>1. balance' \in Int /\ notices' \in Nat /\ recharges' \in Nat
      BY <1>3, AmountAssumption DEF Credit, TypeOK
    <2> QED BY <1>3, <2>1 DEF Credit, TypeOK, caches
  <1>4. ASSUME Notice PROVE TypeOK'
    <2>1. notices' \in Nat /\ faults' \in Nat /\ cached' \in Int \cup {None}
      BY <1>4, FaultsCount DEF Notice, Invalidate, TypeOK
    <2> QED BY <1>4, <2>1 DEF Notice, TypeOK, tables
  <1>5. ASSUME OpenForm PROVE TypeOK'
    <2>1. form' \in Int \cup {None} /\ faults' \in Nat
      BY <1>5, FaultsCount DEF OpenForm, TypeOK
    <2> QED BY <1>5, <2>1 DEF OpenForm, TypeOK, tables, caches
  <1>6. ASSUME SaveForm PROVE TypeOK'
    <2>1. form' \in Int \cup {None} /\ balance' \in Int
      BY <1>6 DEF SaveForm, TypeOK
    <2> QED BY <1>6, <2>1 DEF SaveForm, TypeOK, caches
  <1>7. ASSUME Expire PROVE TypeOK'
    BY <1>7 DEF Expire, TypeOK, tables, others
  <1>8. ASSUME NEW s \in Servers, Die(s) PROVE TypeOK'
    <2>1. pc' \in [Requests -> Places]
      BY <1>8 DEF Die, Places, Quiet, TypeOK
    <2>2. left' \in [Requests -> Int \cup {None}]
      BY <1>8 DEF Die, TypeOK
    <2>3. queue' \subseteq Write /\ faults' \in Nat
      BY <1>8, FaultsCount DEF Die, TypeOK
    <2> QED BY <1>8, <2>1, <2>2, <2>3 DEF Die, TypeOK, tables, others
  <1> QED BY <1>1, <1>2, <1>3, <1>4, <1>5, <1>6, <1>7, <1>8

\* Every variable keeps its type: balances may become negative, claims carry
\* fingerprints, and a channel holds writes of the requests of its process.
THEOREM TypeCorrect == Spec => []TypeOK
  <1>1. TypeOK /\ [Next]_vars => TypeOK'
    <2> SUFFICES ASSUME TypeOK, [Next]_vars PROVE TypeOK'
      OBVIOUS
    <2>1. CASE Next
      BY <2>1, TypeServe, TypeAround DEF Next
    <2>2. CASE UNCHANGED vars
      BY <2>2 DEF vars, tables, caches, others, TypeOK
    <2> QED BY <2>1, <2>2
  <1> QED BY TypeInit, <1>1, PTL DEF Spec

-----------------------------------------------------------------------------
(* One charge per claim. Whoever has inserted a claim excludes all others  *)
(* that try it, and finds it in neither table when it goes on to charge.   *)

Holding == {"look", "apply"}
Exclusive ==
  \A r, s \in Requests :
    r # s /\ pc[r] \in Holding /\ pc[s] \in Holding => Key[r] # Key[s]
Unclaimed ==
  \A r \in Requests :
    /\ pc[r] \in Holding => dedup[Key[r]] = None
    /\ pc[r] = "apply" => archive[Key[r]] = None
Counted == \A k \in Keys : charges[k] = IF Claimed(k) THEN 1 ELSE 0
OnceInv == Exclusive /\ Unclaimed /\ Counted

\* A request that leaves the transaction or never enters it disturbs nothing.
LEMMA OnceByPlace ==
  ASSUME TypeOK, OnceInv, NEW r \in Requests, NEW place \in Places \ Holding,
         Goto(r, place), UNCHANGED <<dedup, archive, charges>>
  PROVE  OnceInv'
  <1>1. \A s \in Requests : pc'[s] = IF s = r THEN place ELSE pc[s]
    BY DEF Goto, TypeOK
  <1>2. \A s \in Requests : pc'[s] \in Holding => pc[s] \in Holding /\ pc'[s] = pc[s]
    BY <1>1
  <1>3. Exclusive'
    BY <1>2 DEF OnceInv, Exclusive
  <1>4. Unclaimed'
    <2> SUFFICES ASSUME NEW s \in Requests, pc'[s] \in Holding
                 PROVE  dedup[Key[s]] = None /\ (pc'[s] = "apply" => archive[Key[s]] = None)
      BY DEF Unclaimed, Holding
    <2> QED BY <1>2 DEF OnceInv, Unclaimed
  <1>5. Counted'
    BY DEF OnceInv, Counted, Claimed
  <1> QED BY <1>3, <1>4, <1>5 DEF OnceInv

\* What a request does keeps one charge to a claim.
LEMMA OnceServe ==
  ASSUME TypeOK, OnceInv, NEW r \in Requests, Arrive(r) \/ NextTurn(r) \/ Serve(r)
  PROVE  OnceInv'
  <1>k. Key[r] \in Keys /\ Fingerprint[r] \in Fingerprints /\ Fingerprint[r] # None
    BY RequestAssumption
  <1>p. {"load", "done", "serve", "compare", "finalize", "log"} \subseteq Places \ Holding
    BY DEF Places, Quiet, InTransaction, Holding
  <1>1. CASE Arrive(r)
    <2>1. PICK place \in {"load", "done", "serve"} : Goto(r, place)
      BY <1>1, VerdictType DEF Arrive
    <2> QED BY <1>1, <1>p, <2>1, OnceByPlace DEF Arrive, tables
  <1>2. CASE NextTurn(r)
    BY <1>2, <1>p, OnceByPlace DEF NextTurn, tables
  <1>3. CASE Load(r)
    <2>1. PICK place \in {"done", "serve"} : Goto(r, place)
      BY <1>3, VerdictType DEF Load
    <2> QED BY <1>3, <1>p, <2>1, OnceByPlace DEF Load, tables
  <1>4. CASE Insert(r)
    <2>1. CASE dedup[Key[r]] # None
      BY <1>4, <1>p, <2>1, OnceByPlace DEF Insert, tables
    <2>2. CASE dedup[Key[r]] = None
      <3>1. \A s \in Requests : pc'[s] = IF s = r THEN "look" ELSE pc[s]
        BY <1>4, <2>2 DEF Insert, Goto, TypeOK
      <3>2. \A s \in Requests \ {r} : pc[s] \in Holding => Key[s] # Key[r]
        BY <1>4 DEF Insert, Holding
      <3>3. Exclusive'
        BY <3>1, <3>2 DEF OnceInv, Exclusive
      <3>4. dedup' = dedup /\ archive' = archive /\ charges' = charges
        BY <1>4 DEF Insert, tables
      <3>5. Unclaimed'
        BY <3>1, <3>4, <2>2 DEF OnceInv, Unclaimed, Holding
      <3>6. Counted'
        BY <3>4 DEF OnceInv, Counted, Claimed
      <3> QED BY <3>3, <3>5, <3>6 DEF OnceInv
    <2> QED BY <2>1, <2>2
  <1>5. CASE Compare(r)
    <2>1. PICK place \in {"log", "done"} : Goto(r, place)
      BY <1>5 DEF Compare
    <2> QED BY <1>5, <1>p, <2>1, OnceByPlace DEF Compare, tables
  <1>6. CASE Look(r)
    <2>1. CASE archive[Key[r]] # None
      <3>1. PICK place \in {"log", "done"} : Goto(r, place)
        BY <1>6, <2>1 DEF Look, LookedUp
      <3> QED BY <1>6, <1>p, <3>1, OnceByPlace DEF Look, tables
    <2>2. CASE archive[Key[r]] = None
      <3>1. \A s \in Requests : pc'[s] = IF s = r THEN "apply" ELSE pc[s]
        BY <1>6, <2>2 DEF Look, LookedUp, Goto, TypeOK
      <3>2. pc[r] \in Holding
        BY <1>6 DEF Look, Holding
      <3>3. Exclusive'
        BY <3>1, <3>2 DEF OnceInv, Exclusive
      <3>4. dedup' = dedup /\ archive' = archive /\ charges' = charges
        BY <1>6 DEF Look, tables
      <3>5. Unclaimed'
        BY <3>1, <3>2, <3>4, <2>2 DEF OnceInv, Unclaimed, Holding
      <3>6. Counted'
        BY <3>4 DEF OnceInv, Counted, Claimed
      <3> QED BY <3>3, <3>5, <3>6 DEF OnceInv
    <2> QED BY <2>1, <2>2
  <1>7. CASE Apply(r)
    <2>1. PICK place \in {"finalize", "done"} : Goto(r, place)
      BY <1>7 DEF Apply
    <2>2. \A s \in Requests : pc'[s] = IF s = r THEN place ELSE pc[s]
      BY <2>1 DEF Goto, TypeOK
    <2>3. \A s \in Requests : pc'[s] \in Holding => /\ s # r /\ pc[s] \in Holding
                                                    /\ pc'[s] = pc[s] /\ Key[s] # Key[r]
      <3>1. pc[r] \in Holding
        BY <1>7 DEF Apply, Holding
      <3> QED BY <2>2, <3>1 DEF OnceInv, Exclusive, Holding
    <2>4. Exclusive'
      BY <2>3 DEF OnceInv, Exclusive
    <2>5. dedup' = [dedup EXCEPT ![Key[r]] = Fingerprint[r]] /\ archive' = archive
      BY <1>7 DEF Apply
    <2>6. Unclaimed'
      <3> SUFFICES ASSUME NEW s \in Requests, pc'[s] \in Holding
                   PROVE  dedup'[Key[s]] = None /\ (pc'[s] = "apply" => archive'[Key[s]] = None)
        BY DEF Unclaimed, Holding
      <3>1. Key[s] \in Keys /\ Key[s] # Key[r]
        BY <2>3, RequestAssumption
      <3>2. dedup'[Key[s]] = dedup[Key[s]]
        BY <2>5, <3>1 DEF TypeOK
      <3> QED BY <2>3, <2>5, <3>2 DEF OnceInv, Unclaimed
    <2>7. Counted'
      <3> SUFFICES ASSUME NEW k \in Keys
                   PROVE  charges'[k] = IF dedup'[k] # None \/ archive'[k] # None THEN 1 ELSE 0
        BY DEF Counted, Claimed
      <3>1. charges' = [charges EXCEPT ![Key[r]] = @ + 1]
        BY <1>7 DEF Apply
      <3>2. CASE k = Key[r]
        <4>1. dedup[k] = None /\ archive[k] = None
          BY <1>7, <3>2 DEF Apply, OnceInv, Unclaimed, Holding
        <4>2. charges[k] = 0
          BY <4>1 DEF OnceInv, Counted, Claimed
        <4>3. charges'[k] = 1 /\ dedup'[k] # None
          BY <4>2, <3>1, <3>2, <2>5, <1>k DEF TypeOK
        <4> QED BY <4>3
      <3>3. CASE k # Key[r]
        <4>1. charges'[k] = charges[k] /\ dedup'[k] = dedup[k]
          BY <3>1, <3>3, <2>5 DEF TypeOK
        <4> QED BY <4>1, <2>5 DEF OnceInv, Counted, Claimed
      <3> QED BY <3>2, <3>3
    <2> QED BY <2>4, <2>6, <2>7 DEF OnceInv
  <1>8. CASE RollBack(r)
    BY <1>8, <1>p, OnceByPlace DEF RollBack, tables
  <1>9. CASE Finalize(r)
    BY <1>9, <1>p, OnceByPlace DEF Finalize, tables
  <1>10. CASE Log(r)
    BY <1>10, <1>p, OnceByPlace DEF Log
  <1> QED BY <1>1, <1>2, <1>3, <1>4, <1>5, <1>6, <1>7, <1>8, <1>9, <1>10 DEF Serve

\* So does what happens around the requests, the archiving above all.
LEMMA OnceAround ==
  ASSUME TypeOK, OnceInv,
         \/ \E w \in queue : WriteCache(w)
         \/ \E k \in Keys : Archive(k)
         \/ Credit \/ Notice \/ OpenForm \/ SaveForm \/ Expire
         \/ \E s \in Servers : Die(s)
  PROVE  OnceInv'
  <1>1. ASSUME UNCHANGED <<dedup, archive, charges, pc>> PROVE OnceInv'
    BY <1>1 DEF OnceInv, Exclusive, Unclaimed, Counted, Claimed, Holding
  <1>2. ASSUME NEW w \in queue, WriteCache(w) PROVE OnceInv'
    BY <1>1, <1>2 DEF WriteCache, tables
  <1>3. ASSUME NEW k \in Keys, Archive(k) PROVE OnceInv'
    <2>1. /\ dedup[k] # None /\ charges' = charges /\ pc' = pc
          /\ dedup' = [dedup EXCEPT ![k] = None]
          /\ archive' = [archive EXCEPT ![k] = IF @ = None THEN dedup[k] ELSE @]
      BY <1>3 DEF Archive, Archived
    <2>2. Exclusive'
      BY <2>1 DEF OnceInv, Exclusive
    <2>3. Unclaimed'
      <3> SUFFICES ASSUME NEW r \in Requests, pc[r] \in Holding
                   PROVE  dedup'[Key[r]] = None /\ (pc[r] = "apply" => archive'[Key[r]] = None)
        BY <2>1 DEF Unclaimed, Holding
      <3>1. Key[r] \in Keys /\ Key[r] # k
        BY <2>1, RequestAssumption DEF OnceInv, Unclaimed
      <3> QED BY <2>1, <3>1 DEF OnceInv, Unclaimed, TypeOK
    <2>4. Counted'
      <3> SUFFICES ASSUME NEW j \in Keys
                   PROVE  charges[j] = IF dedup'[j] # None \/ archive'[j] # None THEN 1 ELSE 0
        BY <2>1 DEF Counted, Claimed
      <3>1. CASE j = k
        <4>1. charges[k] = 1
          BY <2>1, <3>1 DEF OnceInv, Counted, Claimed
        <4>2. archive'[k] # None
          BY <2>1 DEF TypeOK
        <4> QED BY <3>1, <4>1, <4>2
      <3>2. CASE j # k
        <4>1. dedup'[j] = dedup[j] /\ archive'[j] = archive[j]
          BY <2>1, <3>2 DEF TypeOK
        <4> QED BY <4>1 DEF OnceInv, Counted, Claimed
      <3> QED BY <3>1, <3>2
    <2> QED BY <2>2, <2>3, <2>4 DEF OnceInv
  <1>4. CASE Credit
    BY <1>1, <1>4 DEF Credit
  <1>5. CASE Notice
    BY <1>1, <1>5 DEF Notice, tables
  <1>6. CASE OpenForm
    BY <1>1, <1>6 DEF OpenForm, tables
  <1>7. CASE SaveForm
    BY <1>1, <1>7 DEF SaveForm
  <1>8. CASE Expire
    BY <1>1, <1>8 DEF Expire, tables
  <1>9. ASSUME NEW s \in Servers, Die(s) PROVE OnceInv'
    <2>1. UNCHANGED <<dedup, archive, charges>>
      BY <1>9 DEF Die, tables
    <2>2. \A r \in Requests : pc'[r] \in Holding => pc'[r] = pc[r]
      BY <1>9 DEF Die, Holding, Quiet
    <2>3. Exclusive'
      BY <2>2 DEF OnceInv, Exclusive
    <2>4. Unclaimed'
      <3> SUFFICES ASSUME NEW r \in Requests, pc'[r] \in Holding
                   PROVE  dedup[Key[r]] = None /\ (pc'[r] = "apply" => archive[Key[r]] = None)
        BY <2>1 DEF Unclaimed, Holding
      <3> QED BY <2>2 DEF OnceInv, Unclaimed
    <2>5. Counted'
      BY <2>1 DEF OnceInv, Counted, Claimed
    <2> QED BY <2>3, <2>4, <2>5 DEF OnceInv
  <1> QED BY <1>2, <1>3, <1>4, <1>5, <1>6, <1>7, <1>8, <1>9

\* No claim is ever charged twice: whoever tries it again, at the same time or
\* after the claim went to the archive, finds it or waits for its transaction.
THEOREM ClaimsAreChargedOnce == Spec => []ChargedOnce
  <1>1. Init => OnceInv
    BY DEF Init, OnceInv, Exclusive, Unclaimed, Counted, Claimed, Holding
  <1>2. TypeOK /\ OnceInv /\ [Next]_vars => OnceInv'
    <2> SUFFICES ASSUME TypeOK, OnceInv, [Next]_vars PROVE OnceInv'
      OBVIOUS
    <2>1. CASE Next
      BY <2>1, OnceServe, OnceAround DEF Next
    <2>2. CASE UNCHANGED vars
      BY <2>2 DEF vars, tables, OnceInv, Exclusive, Unclaimed, Counted, Claimed, Holding
    <2> QED BY <2>1, <2>2
  <1>3. OnceInv => ChargedOnce
    BY DEF OnceInv, Counted, ChargedOnce
  <1> QED BY <1>1, <1>2, <1>3, TypeCorrect, PTL DEF Spec

-----------------------------------------------------------------------------
(* A balance that is used up. The invariant is inductive as it stands: the *)
(* charge that uses the balance up clears the cache before it is forgotten,*)
(* and no deduction makes a cached balance good again.                     *)

\* Who has less than an exhausted balance is exhausted.
LEMMA LessIsExhausted ==
  ASSUME NEW b \in Int, NEW c \in Int, b <= c, Exhausted(c)
  PROVE  Exhausted(b)
  BY AmountAssumption DEF Exhausted

\* A deduction does not make a cached balance good.
LEMMA DeductedIsLess ==
  ASSUME TypeOK, NEW a \in Nat, cached' = Deducted(a),
         cached' # None, ~Exhausted(cached')
  PROVE  cached # None /\ ~Exhausted(cached)
  <1>1. cached # None /\ cached \in Int /\ cached' = cached - a
    BY DEF Deducted, TypeOK
  <1> QED BY <1>1, AmountAssumption DEF Exhausted

\* Nothing happens to the balance, the cache or who is finalizing.
LEMMA KnownIdle ==
  ASSUME ExhaustedIsKnown, UNCHANGED <<balance, cached, left>>,
         \A r \in Requests : pc[r] = "finalize" => pc'[r] = "finalize",
         excuses \subseteq excuses'
  PROVE  ExhaustedIsKnown'
  BY DEF ExhaustedIsKnown, Exhausted

\* The cache only loses, and nobody stops finalizing.
LEMMA KnownLess ==
  ASSUME TypeOK, ExhaustedIsKnown, NEW a \in Nat, cached' = Deducted(a),
         balance' = balance, excuses' = excuses,
         \A r \in Requests : pc[r] = "finalize" /\ Exhausted(left[r]) =>
                               pc'[r] = "finalize" /\ left'[r] = left[r]
  PROVE  ExhaustedIsKnown'
  <1> SUFFICES ASSUME Exhausted(balance'), cached' # None, ~Exhausted(cached'), excuses' = {}
               PROVE  \E r \in Requests : pc'[r] = "finalize" /\ Exhausted(left'[r])
    BY DEF ExhaustedIsKnown, Exhausted
  <1>1. cached # None /\ ~Exhausted(cached)
    BY DeductedIsLess
  <1>2. PICK r \in Requests : pc[r] = "finalize" /\ Exhausted(left[r])
    BY <1>1 DEF ExhaustedIsKnown
  <1>3. pc'[r] = "finalize" /\ left'[r] = left[r]
    BY <1>2
  <1> QED BY <1>2, <1>3 DEF Exhausted

\* What waits to be deducted is never negative.
Deductions == \A w \in queue : w.kind = "deduct" => w.amount \in Nat
KInv == TypeOK /\ Deductions /\ ExhaustedIsKnown

\* Only prices are queued to be deducted.
LEMMA DeductionsKept ==
  ASSUME TypeOK, Deductions, Next
  PROVE  Deductions'
  <1>1. ASSUME NEW r \in Requests, Serve(r)
        PROVE  Deductions'
    <2>k. Cost[Fingerprint[r]] \in Nat
      BY RequestAssumption, AmountAssumption
    <2>1. CASE Load(r)
      BY <2>1 DEF Load, Enqueue, Deductions
    <2>2. CASE Finalize(r)
      BY <2>2, <2>k DEF Finalize, Enqueue, Deductions
    <2>3. CASE Insert(r) \/ Compare(r) \/ Look(r) \/ Apply(r) \/ RollBack(r) \/ Log(r)
      BY <2>3 DEF Insert, Compare, Look, Apply, RollBack, Log, caches, Deductions
    <2> QED BY <1>1, <2>1, <2>2, <2>3 DEF Serve
  <1>2. ASSUME NEW r \in Requests, Arrive(r) \/ NextTurn(r)
        PROVE  Deductions'
    BY <1>2 DEF Arrive, NextTurn, caches, Deductions
  <1>3. ASSUME NEW w \in queue, WriteCache(w)
        PROVE  Deductions'
    BY <1>3 DEF WriteCache, Deductions
  <1>4. ASSUME NEW s \in Servers, Die(s)
        PROVE  Deductions'
    BY <1>4 DEF Die, Deductions
  <1>5. CASE Credit \/ Notice \/ OpenForm \/ SaveForm \/ Expire
    BY <1>5 DEF Credit, Notice, OpenForm, SaveForm, Expire, caches, Deductions
  <1>6. ASSUME NEW k \in Keys, Archive(k)
        PROVE  Deductions'
    BY <1>6 DEF Archive, caches, Deductions
  <1> QED BY <1>1, <1>2, <1>3, <1>4, <1>5, <1>6 DEF Next

\* What a request does to what is known.
LEMMA KnownServe ==
  ASSUME KInv, NEW r \in Requests, Arrive(r) \/ NextTurn(r) \/ Serve(r)
  PROVE  ExhaustedIsKnown'
  <1>t. TypeOK /\ ExhaustedIsKnown /\ Deductions
    BY DEF KInv
  <1>k. Cost[Fingerprint[r]] \in Nat \ {0}
    BY RequestAssumption, AmountAssumption
  <1>m. ASSUME NEW place, Goto(r, place), pc[r] # "finalize"
        PROVE  \A s \in Requests : pc[s] = "finalize" => pc'[s] = "finalize"
    BY <1>m DEF Goto, TypeOK
  <1>1. CASE Arrive(r)
    <2>1. PICK place : Goto(r, place)
      BY <1>1 DEF Arrive
    <2> QED BY <1>1, <1>t, <2>1, <1>m, KnownIdle DEF Arrive, tables, caches
  <1>2. CASE NextTurn(r)
    BY <1>2, <1>t, <1>m, KnownIdle DEF NextTurn, tables, caches
  <1>3. CASE Load(r)
    <2>1. PICK place : Goto(r, place)
      BY <1>3 DEF Load
    <2> QED BY <1>3, <1>t, <2>1, <1>m, KnownIdle DEF Load, tables
  <1>4. CASE Insert(r) \/ Compare(r) \/ Look(r)
    <2>1. PICK place : Goto(r, place)
      BY <1>4 DEF Insert, Compare, Look
    <2> QED BY <1>4, <1>t, <2>1, <1>m, KnownIdle DEF Insert, Compare, Look, tables, caches
  <1>5. CASE Apply(r)
    <2>1. CASE Excuse("replyLost")
      BY <2>1 DEF Excuse, ExhaustedIsKnown
    <2>2. CASE /\ Goto(r, "finalize") /\ left' = [left EXCEPT ![r] = balance - Cost[Fingerprint[r]]]
               /\ balance' = balance - Cost[Fingerprint[r]]
      <3>1. pc'[r] = "finalize" /\ left'[r] = balance'
        BY <2>2, <1>t DEF Goto, TypeOK
      <3> QED BY <3>1 DEF ExhaustedIsKnown, Exhausted
    <2> QED BY <1>5, <2>1, <2>2 DEF Apply
  <1>6. CASE RollBack(r)
    BY <1>6, <1>t, <1>m, KnownIdle DEF RollBack, InTransaction, tables, caches
  <1>7. CASE Finalize(r)
    <2>1. /\ balance' = balance /\ pc[r] = "finalize"
          /\ \A s \in Requests \ {r} : pc'[s] = pc[s] /\ left'[s] = left[s]
      BY <1>7, <1>t DEF Finalize, Goto, TypeOK, tables
    <2>2. CASE MustInvalidate(left[r])
      <3>1. Invalidate
        BY <1>7, <2>2 DEF Finalize
      <3>2. CASE cached' = None
        BY <3>2 DEF ExhaustedIsKnown
      <3>3. CASE Excuse("notInvalidated")
        BY <3>3 DEF Excuse, ExhaustedIsKnown
      <3> QED BY <3>1, <3>2, <3>3 DEF Invalidate
    <2>3. CASE ~MustInvalidate(left[r])
      <3>1. ~Exhausted(left[r]) /\ excuses' = excuses
        BY <1>7, <2>3 DEF Finalize, MustInvalidate
      <3>2. \A s \in Requests : pc[s] = "finalize" /\ Exhausted(left[s]) =>
                                   pc'[s] = "finalize" /\ left'[s] = left[s]
        BY <3>1, <2>1
      <3>3. CASE cached' = cached
        BY <3>1, <3>2, <3>3, <2>1, <1>t DEF ExhaustedIsKnown, Exhausted
      <3>4. CASE cached' = Deducted(Cost[Fingerprint[r]])
        BY <3>1, <3>2, <3>4, <2>1, <1>t, <1>k, KnownLess
      <3> QED BY <1>7, <2>3, <3>3, <3>4 DEF Finalize
    <2> QED BY <2>2, <2>3
  <1>8. CASE Log(r)
    BY <1>8, <1>t, <1>m, KnownIdle DEF Log, caches
  <1> QED BY <1>1, <1>2, <1>3, <1>4, <1>5, <1>6, <1>7, <1>8 DEF Serve

\* What happens around the requests.
LEMMA KnownAround ==
  ASSUME KInv,
         \/ \E w \in queue : WriteCache(w)
         \/ \E k \in Keys : Archive(k)
         \/ Credit \/ Notice \/ OpenForm \/ SaveForm \/ Expire
         \/ \E s \in Servers : Die(s)
  PROVE  ExhaustedIsKnown'
  <1>t. TypeOK /\ ExhaustedIsKnown /\ Deductions
    BY DEF KInv
  <1>1. ASSUME NEW w \in queue, WriteCache(w)
        PROVE  ExhaustedIsKnown'
    <2>u. UNCHANGED <<balance, pc, left>> /\ w \in Write
      BY <1>1, <1>t DEF WriteCache, tables, TypeOK
    <2>1. CASE cached' = cached /\ excuses' = excuses
      BY <2>1, <2>u, <1>t, KnownIdle
    <2>2. CASE w.kind = "deduct" /\ cached' = Deducted(w.amount) /\ excuses' = excuses
      BY <2>2, <2>u, <1>t, KnownLess DEF Deductions
    <2>3. CASE /\ cached' = w.amount
               /\ IF ~Exhausted(w.amount) /\ Exhausted(balance)
                  THEN Excuse("lateSet") ELSE UNCHANGED excuses
      BY <2>3, <2>u DEF ExhaustedIsKnown, Excuse, Exhausted
    <2> QED BY <1>1, <2>u, <2>1, <2>2, <2>3 DEF WriteCache, Write
  <1>2. ASSUME NEW k \in Keys, Archive(k)
        PROVE  ExhaustedIsKnown'
    BY <1>2, <1>t, KnownIdle DEF Archive, caches
  <1>3. CASE Credit
    <2>1. balance \in Int /\ balance' \in Int /\ balance <= balance'
      BY <1>3, <1>t, AmountAssumption DEF Credit, TypeOK
    <2>2. Exhausted(balance') => Exhausted(balance)
      BY <2>1, LessIsExhausted
    <2> QED BY <1>3, <1>t, <2>2 DEF Credit, caches, ExhaustedIsKnown, Exhausted
  <1>4. CASE Notice
    <2>1. CASE cached' = None
      BY <2>1 DEF ExhaustedIsKnown
    <2>2. CASE Excuse("notInvalidated")
      BY <2>2 DEF Excuse, ExhaustedIsKnown
    <2> QED BY <1>4, <2>1, <2>2 DEF Notice, Invalidate
  <1>5. CASE OpenForm
    BY <1>5, <1>t, KnownIdle DEF OpenForm, tables, caches
  <1>6. CASE SaveForm
    <2>1. CASE form = balance
      BY <1>6, <2>1, <1>t, KnownIdle DEF SaveForm, caches
    <2>2. CASE Excuse("overwritten")
      BY <2>2 DEF Excuse, ExhaustedIsKnown
    <2> QED BY <1>6, <2>1, <2>2 DEF SaveForm
  <1>7. CASE Expire
    BY <1>7 DEF Expire, ExhaustedIsKnown
  <1>8. ASSUME NEW s \in Servers, Die(s)
        PROVE  ExhaustedIsKnown'
    <2>1. CASE Excuse("died")
      BY <2>1 DEF Excuse, ExhaustedIsKnown
    <2>2. CASE /\ \A r \in Requests : Host[r] = s => pc[r] # "finalize"
               /\ UNCHANGED excuses
      <3>1. \A r \in Requests : pc[r] = "finalize" => pc'[r] = pc[r] /\ left'[r] = left[r]
        BY <1>8, <2>2, <1>t DEF Die, TypeOK
      <3> QED BY <1>8, <2>2, <1>t, <3>1 DEF Die, tables, ExhaustedIsKnown, Exhausted
    <2> QED BY <1>8, <2>1, <2>2 DEF Die
  <1> QED BY <1>1, <1>2, <1>3, <1>4, <1>5, <1>6, <1>7, <1>8

\* A used-up balance is in the cache, or the request that used it up is about
\* to clear the cache, or something happened that the code cannot prevent.
THEOREM ExhaustionIsKnown == Spec => []ExhaustedIsKnown
  <1>1. Init => KInv
    <2> SUFFICES ASSUME Init PROVE KInv
      OBVIOUS
    <2>1. Deductions
      BY DEF Init, Deductions
    <2>2. ExhaustedIsKnown
      BY DEF Init, ExhaustedIsKnown
    <2> QED BY <2>1, <2>2, TypeInit DEF KInv
  <1>2. KInv /\ [Next]_vars => KInv'
    <2> SUFFICES ASSUME KInv, [Next]_vars PROVE KInv'
      OBVIOUS
    <2>1. CASE Next
      <3>1. TypeOK' /\ Deductions'
        BY <2>1, TypeServe, TypeAround, DeductionsKept DEF KInv, Next
      <3>2. ExhaustedIsKnown'
        BY <2>1, KnownServe, KnownAround DEF Next
      <3> QED BY <3>1, <3>2 DEF KInv
    <2>2. CASE UNCHANGED vars
      BY <2>2 DEF KInv, TypeOK, Deductions, ExhaustedIsKnown, Exhausted, Write,
                  vars, tables, caches, others
    <2> QED BY <2>1, <2>2
  <1>3. KInv => ExhaustedIsKnown
    BY DEF KInv
  <1> QED BY <1>1, <1>2, <1>3, PTL DEF Spec
-----------------------------------------------------------------------------
(* Sums. The fold that the model sums prices with takes them in an order of *)
(* its own; that the order does not matter is shown on a smallest set for   *)
(* which it would.                                                          *)

\* g is the sum of f over every subset of S, taken as MapThenSumSet takes it.
Some(s) == CHOOSE x \in s : TRUE
IsSum(f, g, S) ==
  g = [s \in SUBSET S |-> IF s = {} THEN 0 ELSE f[Some(s)] + g[s \ {Some(s)}]]
Sums(f, S) == CHOOSE g : IsSum(f, g, S)
Total(f, S) == Sums(f, S)[S]

\* A set that is not empty has the member that is taken first.
LEMMA SomeIn == ASSUME NEW s, s # {} PROVE Some(s) \in s
  BY DEF Some

\* Of the subsets of a finite set that have some property one is smallest.
LEMMA Smallest ==
    ASSUME NEW U, IsFiniteSet(U), NEW T \in SUBSET SUBSET U, T # {}
    PROVE  \E s \in T : \A t \in T : t \subseteq s => t = s
<1>1. IsWellFoundedOn(StrictSubsetOrdering(U), SUBSET U)
  BY FS_StrictSubsetOrderingWellFounded, FS_FiniteSubsetsOfFinite
<1>2. PICK s \in T : \A t \in T : <<t, s>> \notin StrictSubsetOrdering(U)
  BY <1>1, WFMin
<1>3. \A t \in T : t \subseteq s => t = s
  BY <1>2 DEF StrictSubsetOrdering
<1> QED
  BY <1>3

\* What a sum says of each subset.
LEMMA IsSumAt ==
    ASSUME NEW f, NEW g, NEW S, IsSum(f, g, S), NEW s \in SUBSET S
    PROVE  g[s] = IF s = {} THEN 0 ELSE f[Some(s)] + g[s \ {Some(s)}]
<1> DEFINE h == [t \in SUBSET S |-> IF t = {} THEN 0 ELSE f[Some(t)] + g[t \ {Some(t)}]]
<1>1. g = h
  BY DEF IsSum
<1>2. h[s] = IF s = {} THEN 0 ELSE f[Some(s)] + g[s \ {Some(s)}]
  OBVIOUS
<1> HIDE DEF h
<1> QED
  BY <1>1, <1>2

\* Two sums agree where both are defined.
LEMMA SumsAgree ==
    ASSUME NEW f, NEW g, NEW h, NEW S, NEW R, IsSum(f, g, S), IsSum(f, h, R),
           NEW s, s \subseteq S, s \subseteq R, IsFiniteSet(s)
    PROVE  g[s] = h[s]
<1> DEFINE T == {t \in SUBSET s : g[t] # h[t]}
<1> SUFFICES ASSUME T # {} PROVE FALSE
  OBVIOUS
<1>1. PICK t \in T : \A u \in T : u \subseteq t => u = t
  <2>1. T \in SUBSET SUBSET s
    OBVIOUS
  <2> HIDE DEF T
  <2> QED
    BY <2>1, Smallest
<1>2. t \in SUBSET S /\ t \in SUBSET R /\ t \in SUBSET s /\ g[t] # h[t]
  OBVIOUS
<1>3. /\ g[t] = IF t = {} THEN 0 ELSE f[Some(t)] + g[t \ {Some(t)}]
      /\ h[t] = IF t = {} THEN 0 ELSE f[Some(t)] + h[t \ {Some(t)}]
  BY <1>2, IsSumAt
<1>4. t # {}
  BY <1>2, <1>3
<1>5. t \ {Some(t)} \subseteq t /\ t \ {Some(t)} # t
  BY <1>4, SomeIn
<1>6. g[t \ {Some(t)}] = h[t \ {Some(t)}]
  BY <1>1, <1>2, <1>5
<1> QED
  BY <1>2, <1>3, <1>4, <1>6

\* Every finite set has a sum.
LEMMA SumExists ==
    ASSUME NEW f, NEW S, IsFiniteSet(S)
    PROVE  IsSum(f, Sums(f, S), S)
<1> DEFINE T == {s \in SUBSET S : ~ \E g : IsSum(f, g, s)}
<1>0. SUFFICES ASSUME T # {} PROVE FALSE
  BY DEF Sums
<1>1. PICK s \in T : \A u \in T : u \subseteq s => u = s
  <2>1. T \in SUBSET SUBSET S
    OBVIOUS
  <2> HIDE DEF T
  <2> QED
    BY <1>0, <2>1, Smallest
<1>2. s \subseteq S /\ IsFiniteSet(s) /\ ~ \E g : IsSum(f, g, s)
  BY FS_Subset
<1>3. \A u : u \subseteq s /\ u # s => IsSum(f, Sums(f, u), u)
  BY <1>1, <1>2 DEF Sums
<1> DEFINE Rest(t) == t \ {Some(t)}
           g == [t \in SUBSET s |-> IF t = {} THEN 0 ELSE f[Some(t)] + Total(f, Rest(t))]
<1>4. ASSUME NEW t \in SUBSET s, t # {}
      PROVE  g[Rest(t)] = Total(f, Rest(t))
  <2> DEFINE r == Rest(t)
  <2>1. r \subseteq s /\ r # s /\ IsFiniteSet(r)
    BY <1>2, <1>4, SomeIn, FS_Subset
  <2>2. IsSum(f, Sums(f, r), r)
    BY <1>3, <2>1
  <2>3. Total(f, r) = IF r = {} THEN 0 ELSE f[Some(r)] + Sums(f, r)[Rest(r)]
    <3> HIDE DEF r
    <3> QED
      BY <2>2, IsSumAt DEF Total
  <2>4. CASE r = {}
    BY <2>1, <2>3, <2>4
  <2>5. CASE r # {}
    <3>1. Rest(r) \subseteq r /\ Rest(r) # s /\ IsFiniteSet(Rest(r)) /\ Rest(r) \subseteq s
      BY <2>1, FS_Subset
    <3>2. IsSum(f, Sums(f, Rest(r)), Rest(r))
      BY <1>3, <3>1
    <3>3. Sums(f, r)[Rest(r)] = Total(f, Rest(r))
      <4> HIDE DEF r, Rest
      <4> QED
        BY <2>2, <3>1, <3>2, SumsAgree DEF Total
    <3>4. g[r] = f[Some(r)] + Total(f, Rest(r))
      BY <2>1, <2>5
    <3> HIDE DEF g, r, Rest
    <3> QED
      BY <2>3, <2>5, <3>3, <3>4 DEF r
  <2> QED
    BY <2>4, <2>5
<1>5. g = [t \in SUBSET s |-> IF t = {} THEN 0 ELSE f[Some(t)] + g[t \ {Some(t)}]]
  <2> DEFINE h == [t \in SUBSET s |-> IF t = {} THEN 0 ELSE f[Some(t)] + g[t \ {Some(t)}]]
  <2>1. ASSUME NEW t \in SUBSET s PROVE g[t] = h[t]
    <3>1. g[t] = IF t = {} THEN 0 ELSE f[Some(t)] + Total(f, Rest(t))
      OBVIOUS
    <3>2. h[t] = IF t = {} THEN 0 ELSE f[Some(t)] + g[Rest(t)]
      OBVIOUS
    <3>3. t # {} => g[Rest(t)] = Total(f, Rest(t))
      BY <1>4
    <3> HIDE DEF g, h, Rest
    <3> QED
      BY <3>1, <3>2, <3>3
  <2> QED
    BY <2>1
<1> QED
  BY <1>2, <1>5 DEF IsSum

\* The sum of a set is its chosen member's value and the sum of the others.
LEMMA TotalStep ==
    ASSUME NEW f, NEW S, IsFiniteSet(S)
    PROVE  Total(f, S) = IF S = {} THEN 0 ELSE f[Some(S)] + Total(f, S \ {Some(S)})
<1> DEFINE R == S \ {Some(S)}
<1>1. IsFiniteSet(R) /\ R \subseteq S
  BY FS_Subset
<1>2. IsSum(f, Sums(f, S), S) /\ IsSum(f, Sums(f, R), R)
  BY <1>1, SumExists
<1>3. Sums(f, S)[R] = Total(f, R)
  <2> HIDE DEF R
  <2> QED
    BY <1>1, <1>2, SumsAgree DEF Total
<1>4. Total(f, S) = IF S = {} THEN 0 ELSE f[Some(S)] + Sums(f, S)[R]
  BY <1>2, IsSumAt DEF Total
<1> HIDE DEF R
<1> QED
  BY <1>3, <1>4 DEF R

\* Sums of integers are integers.
LEMMA TotalType ==
    ASSUME NEW S, IsFiniteSet(S), NEW f, \A x \in S : f[x] \in Int
    PROVE  Total(f, S) \in Int
<1> DEFINE T == {s \in SUBSET S : Total(f, s) \notin Int}
<1> SUFFICES ASSUME T # {} PROVE FALSE
  OBVIOUS
<1>1. PICK s \in T : \A u \in T : u \subseteq s => u = s
  <2>1. T \in SUBSET SUBSET S
    OBVIOUS
  <2> HIDE DEF T
  <2> QED
    BY <2>1, Smallest
<1>2. s \subseteq S /\ IsFiniteSet(s) /\ Total(f, s) \notin Int
  BY FS_Subset
<1>3. Total(f, s) = IF s = {} THEN 0 ELSE f[Some(s)] + Total(f, s \ {Some(s)})
  BY <1>2, TotalStep
<1>4. s # {}
  BY <1>2, <1>3
<1>5. Some(s) \in s /\ f[Some(s)] \in Int
  BY <1>2, <1>4, SomeIn
<1>6. s \ {Some(s)} \subseteq s /\ s \ {Some(s)} # s
  BY <1>5
<1>7. Total(f, s \ {Some(s)}) \in Int
  BY <1>1, <1>2, <1>6
<1> QED
  BY <1>2, <1>3, <1>4, <1>5, <1>7

\* The order does not matter: any new member adds its own value.
LEMMA TotalAdd ==
    ASSUME NEW S, IsFiniteSet(S), NEW x, x \notin S,
           NEW f, \A y \in S \cup {x} : f[y] \in Int
    PROVE  Total(f, S \cup {x}) = f[x] + Total(f, S)
<1> DEFINE T == {s \in SUBSET S : \E y \in S \cup {x} :
                   y \notin s /\ Total(f, s \cup {y}) # f[y] + Total(f, s)}
<1>0. SUFFICES ASSUME T # {} PROVE FALSE
  OBVIOUS
<1>1. PICK s \in T : \A u \in T : u \subseteq s => u = s
  <2>1. T \in SUBSET SUBSET S
    OBVIOUS
  <2> HIDE DEF T
  <2> QED
    BY <1>0, <2>1, Smallest
<1>2. s \subseteq S /\ IsFiniteSet(s)
  BY FS_Subset
<1>3. PICK y \in S \cup {x} : y \notin s /\ Total(f, s \cup {y}) # f[y] + Total(f, s)
  OBVIOUS
<1>4. \A u : u \subseteq s /\ u # s =>
        \A z \in S \cup {x} : z \notin u => Total(f, u \cup {z}) = f[z] + Total(f, u)
  BY <1>1, <1>2
<1> HIDE DEF T
<1> DEFINE A == s \cup {y}  z == Some(A)  B == A \ {z}
<1>5. IsFiniteSet(A) /\ A # {} /\ z \in A
  BY <1>2, SomeIn, FS_AddElement
<1>6. Total(f, A) = f[z] + Total(f, B)
  BY <1>5, TotalStep
<1>7. z # y
  <2>1. z = y => B = s
    BY <1>3
  <2> HIDE DEF A, B, z
  <2> QED
    BY <1>3, <1>6, <2>1 DEF A
<1> DEFINE C == s \ {z}
<1>8. /\ z \in s /\ C \subseteq s /\ C # s /\ y \notin C /\ z \notin C
      /\ B = C \cup {y} /\ s = C \cup {z}
  <2> HIDE DEF z
  <2> QED
    BY <1>3, <1>5, <1>7
<1>9. /\ Total(f, C \cup {y}) = f[y] + Total(f, C)
      /\ Total(f, C \cup {z}) = f[z] + Total(f, C)
  <2> HIDE DEF C, z
  <2> QED
    BY <1>2, <1>4, <1>8
<1>10. Total(f, C) \in Int /\ f[y] \in Int /\ f[z] \in Int
  <2>1. IsFiniteSet(C) /\ \A w \in C : f[w] \in Int
    BY <1>2, FS_Subset
  <2> HIDE DEF C, z
  <2> QED
    BY <1>2, <1>8, <2>1, TotalType
<1> HIDE DEF A, B, C, z
<1>11. Total(f, B) = f[y] + Total(f, C) /\ Total(f, s) = f[z] + Total(f, C)
  BY <1>8, <1>9
<1>12. Total(f, A) = f[y] + Total(f, s)
  BY <1>6, <1>10, <1>11
<1> QED
  BY <1>3, <1>12 DEF A

\* The sum depends only on the values of its members.
LEMMA TotalSame ==
    ASSUME NEW S, IsFiniteSet(S), NEW f, NEW g, \A x \in S : f[x] = g[x]
    PROVE  Total(f, S) = Total(g, S)
<1> DEFINE T == {s \in SUBSET S : Total(f, s) # Total(g, s)}
<1> SUFFICES ASSUME T # {} PROVE FALSE
  OBVIOUS
<1>1. PICK s \in T : \A u \in T : u \subseteq s => u = s
  <2>1. T \in SUBSET SUBSET S
    OBVIOUS
  <2> HIDE DEF T
  <2> QED
    BY <2>1, Smallest
<1>2. s \subseteq S /\ IsFiniteSet(s) /\ Total(f, s) # Total(g, s)
  BY FS_Subset
<1>3. /\ Total(f, s) = IF s = {} THEN 0 ELSE f[Some(s)] + Total(f, s \ {Some(s)})
      /\ Total(g, s) = IF s = {} THEN 0 ELSE g[Some(s)] + Total(g, s \ {Some(s)})
  BY <1>2, TotalStep
<1>4. s # {}
  BY <1>2, <1>3
<1>5. Some(s) \in s /\ f[Some(s)] = g[Some(s)]
  BY <1>2, <1>4, SomeIn
<1>6. s \ {Some(s)} \subseteq s /\ s \ {Some(s)} # s
  BY <1>5
<1>7. Total(f, s \ {Some(s)}) = Total(g, s \ {Some(s)})
  BY <1>1, <1>2, <1>6
<1> QED
  BY <1>2, <1>3, <1>4, <1>5, <1>7

\* What the keys cost, and the sum the model takes as one of these.
Prices == [k \in Keys |-> Price(k)]
Owing == {k \in Keys : Claimed(k)}

\* The sum that BalanceIsExact takes is the total of the prices.
LEMMA SumIsTotal ==
    ASSUME IsFiniteSet(Owing)
    PROVE  MapThenSumSet(Price, Owing) = Total(Prices, Owing)
<1> DEFINE Rule(g) == g = [s \in SUBSET Owing |->
                             IF s = {} THEN 0 ELSE Price(Some(s)) + g[s \ {Some(s)}]]
           sums == CHOOSE g : Rule(g)
<1>1. MapThenSumSet(Price, Owing) = sums[Owing]
  BY DEF MapThenSumSet, MapThenFoldSet, Some
<1>2. ASSUME NEW g PROVE Rule(g) <=> IsSum(Prices, g, Owing)
  <2>1. \A s \in SUBSET Owing : s # {} => Prices[Some(s)] = Price(Some(s))
    BY SomeIn DEF Prices, Owing
  <2>2. [s \in SUBSET Owing |-> IF s = {} THEN 0 ELSE Price(Some(s)) + g[s \ {Some(s)}]]
          = [s \in SUBSET Owing |->
               IF s = {} THEN 0 ELSE Prices[Some(s)] + g[s \ {Some(s)}]]
    BY <2>1
  <2> QED
    BY <2>2 DEF IsSum
<1>3. Rule(sums)
  BY <1>2, SumExists
<1>4. IsSum(Prices, sums, Owing) /\ IsSum(Prices, Sums(Prices, Owing), Owing)
  BY <1>2, <1>3, SumExists
<1> HIDE DEF sums
<1> QED
  BY <1>1, <1>4, SumsAgree DEF Total

-----------------------------------------------------------------------------
(* The books. A charge puts its claim into one table and takes its price   *)
(* from the balance in one transaction; the archive only moves it.         *)

Exact == balance = Deposit + recharges * Recharge - Total(Prices, Owing)
\* Who logs has found or made the claim.
Settled == {"finalize", "log"}
BooksInv ==
  /\ IsFiniteSet(Owing)
  /\ \A k \in Keys : dedup[k] = None \/ archive[k] = None
  /\ "overwritten" \in excuses \/ Exact
  /\ \A k \in logged : Claimed(k)
  /\ \A r \in Requests : pc[r] \in Settled => Claimed(Key[r])

\* Nothing happens to the money and the claims, and only claims are logged.
LEMMA BooksIdle ==
    ASSUME BooksInv, UNCHANGED <<balance, dedup, archive, recharges>>, excuses \subseteq excuses',
           logged' = logged \/ \E r \in Requests : pc[r] \in Settled
                                                   /\ logged' = logged \cup {Key[r]},
           \A r \in Requests : pc'[r] \in Settled => pc[r] \in Settled \/ Claimed(Key[r])
    PROVE  BooksInv'
<1>1. Prices' = Prices /\ Owing' = Owing /\ \A k : Claimed(k)' = Claimed(k)
  BY DEF Prices, Price, Owing, Claimed
<1>2. \A k \in logged' : Claimed(k)'
  BY <1>1 DEF BooksInv
<1>3. \A r \in Requests : pc'[r] \in Settled => Claimed(Key[r])'
  BY <1>1 DEF BooksInv
<1>4. ("overwritten" \in excuses \/ Exact)'
  BY <1>1 DEF BooksInv, Exact
<1> QED
  BY <1>1, <1>2, <1>3, <1>4 DEF BooksInv

\* A charge: one more claim, and its price less.
LEMMA BooksApply ==
    ASSUME TypeOK, OnceInv, BooksInv, NEW r \in Requests, Apply(r)
    PROVE  BooksInv'
<1> DEFINE k == Key[r]  price == Cost[Fingerprint[r]]
<1>0. /\ k \in Keys /\ Fingerprint[r] \in Fingerprints /\ Fingerprint[r] # None
      /\ price \in Int
  BY RequestAssumption, AmountAssumption
<1>1. dedup[k] = None /\ archive[k] = None
  BY DEF OnceInv, Unclaimed, Holding, Apply
<1>2. /\ dedup' = [dedup EXCEPT ![k] = Fingerprint[r]] /\ archive' = archive
      /\ balance' = balance - price /\ logged' = logged /\ recharges' = recharges
      /\ excuses \subseteq excuses' /\ \E place : Goto(r, place)
  BY DEF Apply, others, Excuse
<1>3. /\ dedup'[k] = Fingerprint[r] /\ \A j \in Keys \ {k} : dedup'[j] = dedup[j]
  BY <1>0, <1>2 DEF TypeOK
<1>4. k \notin Owing /\ Owing' = Owing \cup {k} /\ IsFiniteSet(Owing')
  <2>1. k \notin Owing
    BY <1>1 DEF Owing, Claimed
  <2>2. Owing' = Owing \cup {k}
    BY <1>0, <1>2, <1>3 DEF Owing, Claimed
  <2> QED
    BY <2>1, <2>2, FS_AddElement DEF BooksInv
<1>5. Prices'[k] = price /\ \A j \in Owing : Prices'[j] = Prices[j]
  BY <1>0, <1>1, <1>2, <1>3 DEF Prices, Price, Owing, Claimed
<1>6. \A j \in Owing : Prices[j] \in Int
  BY AmountAssumption DEF Prices, Price, Owing, Claimed, TypeOK
<1>7. Total(Prices', Owing') = price + Total(Prices', Owing)
  <2>1. \A j \in Owing \cup {k} : Prices'[j] \in Int
    BY <1>0, <1>5, <1>6
  <2> HIDE DEF k, price
  <2> QED
    BY <1>4, <1>5, <2>1, TotalAdd DEF BooksInv
<1>8. Total(Prices', Owing) = Total(Prices, Owing) /\ Total(Prices, Owing) \in Int
  BY <1>5, <1>6, TotalSame, TotalType DEF BooksInv
<1>9. Exact => Exact'
  <2>1. recharges * Recharge \in Int /\ Deposit \in Int /\ balance \in Int
    BY AmountAssumption DEF TypeOK
  <2> HIDE DEF price
  <2> QED
    BY <1>0, <1>2, <1>7, <1>8, <2>1 DEF Exact
<1>10. \A j \in Keys : Claimed(j) => Claimed(j)'
  BY <1>0, <1>1, <1>2, <1>3 DEF Claimed
<1>11. \A j \in Keys : dedup'[j] = None \/ archive'[j] = None
  BY <1>1, <1>2, <1>3 DEF BooksInv
<1>12. \A s \in Requests : pc'[s] \in Settled => Claimed(Key[s])'
  <2>1. \A s \in Requests \ {r} : pc'[s] = pc[s]
    BY <1>2 DEF Goto, TypeOK
  <2>2. Claimed(k)'
    BY <1>0, <1>3 DEF Claimed
  <2> QED
    BY <1>10, <2>1, <2>2, RequestAssumption DEF BooksInv
<1>13. \A j \in logged' : Claimed(j)'
  BY <1>2, <1>10 DEF BooksInv, TypeOK
<1> QED
  BY <1>2, <1>4, <1>9, <1>11, <1>12, <1>13 DEF BooksInv

\* Everything else a request does.
LEMMA BooksServe ==
    ASSUME TypeOK, OnceInv, BooksInv, NEW r \in Requests, Arrive(r) \/ NextTurn(r) \/ Serve(r)
    PROVE  BooksInv'
<1>1. CASE Apply(r)
  BY <1>1, BooksApply
<1>2. ASSUME NEW place, Goto(r, place), place \in Settled => pc[r] \in Settled \/ Claimed(Key[r])
      PROVE  \A s \in Requests : pc'[s] \in Settled => pc[s] \in Settled \/ Claimed(Key[s])
  BY <1>2 DEF Goto, TypeOK
<1>3. CASE Arrive(r)
  <2>1. PICK place \in {"load", "done", "serve"} : Goto(r, place)
    BY <1>3, VerdictType DEF Arrive
  <2> QED
    BY <1>2, <1>3, <2>1, BooksIdle DEF Arrive, tables, others, Settled
<1>4. CASE NextTurn(r)
  BY <1>2, <1>4, BooksIdle DEF NextTurn, tables, others, Settled
<1>5. CASE Load(r)
  <2>1. PICK place \in {"done", "serve"} : Goto(r, place)
    BY <1>5, VerdictType DEF Load
  <2> QED
    BY <1>2, <1>5, <2>1, BooksIdle DEF Load, tables, others, Settled
<1>6. CASE Insert(r)
  <2>1. PICK place \in {"look", "compare"} : Goto(r, place)
    BY <1>6 DEF Insert
  <2> QED
    BY <1>2, <1>6, <2>1, BooksIdle DEF Insert, tables, others, Settled
<1>7. CASE Compare(r)
  <2>1. dedup[Key[r]] = Fingerprint[r] => Claimed(Key[r])
    BY RequestAssumption DEF Claimed
  <2>2. PICK place : Goto(r, place) /\ (place \in Settled => Claimed(Key[r]))
    BY <1>7, <2>1 DEF Compare, Settled
  <2> QED
    BY <1>2, <1>7, <2>2, BooksIdle DEF Compare, tables, others
<1>8. CASE Look(r)
  <2>1. archive[Key[r]] # None => Claimed(Key[r])
    BY DEF Claimed
  <2>2. PICK place : Goto(r, place) /\ (place \in Settled => Claimed(Key[r]))
    BY <1>8, <2>1 DEF Look, LookedUp, Settled
  <2> QED
    BY <1>2, <1>8, <2>2, BooksIdle DEF Look, tables, others
<1>9. CASE RollBack(r)
  BY <1>2, <1>9, BooksIdle DEF RollBack, tables, others, Settled
<1>10. CASE Finalize(r)
  <2>1. pc[r] \in Settled
    BY <1>10 DEF Finalize, Settled
  <2>2. excuses \subseteq excuses'
    BY <1>10 DEF Finalize, Invalidate, Excuse
  <2> QED
    BY <1>2, <1>10, <2>1, <2>2, BooksIdle DEF Finalize, tables, others
<1>11. CASE Log(r)
  <2>1. pc[r] \in Settled
    BY <1>11 DEF Log, Settled
  <2> QED
    BY <1>2, <1>11, <2>1, BooksIdle DEF Log, others
<1> QED
  BY <1>1, <1>3, <1>4, <1>5, <1>6, <1>7, <1>8, <1>9, <1>10, <1>11 DEF Serve

\* A claim that moves to the archive keeps its price.
LEMMA BooksArchive ==
    ASSUME TypeOK, BooksInv, NEW k \in Keys, Archive(k)
    PROVE  BooksInv'
<1>1. /\ dedup[k] # None /\ archive[k] = None
      /\ dedup' = [dedup EXCEPT ![k] = None] /\ archive' = [archive EXCEPT ![k] = dedup[k]]
      /\ UNCHANGED <<balance, logged, recharges, pc, excuses>>
  BY DEF BooksInv, Archive, Archived, others
<1>2. /\ dedup'[k] = None /\ archive'[k] = dedup[k]
      /\ \A j \in Keys \ {k} : dedup'[j] = dedup[j] /\ archive'[j] = archive[j]
  BY <1>1 DEF TypeOK
<1>3. \A j \in Keys : Claimed(j)' = Claimed(j) /\ Price(j)' = Price(j)
  BY <1>1, <1>2 DEF Claimed, Price
<1>4. Owing' = Owing /\ Prices' = Prices
  BY <1>3 DEF Owing, Prices
<1>5. \A j \in Keys : dedup'[j] = None \/ archive'[j] = None
  BY <1>2 DEF BooksInv
<1>6. ("overwritten" \in excuses \/ Exact)'
  BY <1>1, <1>4 DEF BooksInv, Exact
<1>7. /\ \A j \in logged' : Claimed(j)'
      /\ \A r \in Requests : pc'[r] \in Settled => Claimed(Key[r])'
  BY <1>1, <1>3, RequestAssumption DEF BooksInv, TypeOK
<1> QED
  BY <1>4, <1>5, <1>6, <1>7 DEF BooksInv

\* What happens around the requests.
LEMMA BooksAround ==
    ASSUME TypeOK, BooksInv,
           \/ \E w \in queue : WriteCache(w)
           \/ \E k \in Keys : Archive(k)
           \/ Credit \/ Notice \/ OpenForm \/ SaveForm \/ Expire
           \/ \E s \in Servers : Die(s)
    PROVE  BooksInv'
<1>1. ASSUME NEW w \in queue, WriteCache(w) PROVE BooksInv'
  BY <1>1, BooksIdle DEF WriteCache, Excuse, tables, others
<1>2. ASSUME NEW k \in Keys, Archive(k) PROVE BooksInv'
  BY <1>2, BooksArchive
<1>3. CASE Credit
  <2>1. Prices' = Prices /\ Owing' = Owing /\ \A k : Claimed(k)' = Claimed(k)
    BY <1>3 DEF Credit, Prices, Price, Owing, Claimed
  <2>2. /\ balance' = balance + Recharge /\ recharges' = recharges + 1
        /\ UNCHANGED <<dedup, archive, logged, pc, excuses>>
    BY <1>3 DEF Credit
  <2>3. Exact => Exact'
    <3>1. /\ Recharge \in Int /\ recharges \in Int /\ Deposit \in Int
          /\ (recharges + 1) * Recharge = recharges * Recharge + Recharge
          /\ recharges * Recharge \in Int
      BY AmountAssumption DEF TypeOK
    <3>2. Total(Prices, Owing) \in Int
      <4>1. \A j \in Owing : Prices[j] \in Int
        BY AmountAssumption DEF Prices, Price, Owing, Claimed, TypeOK
      <4> QED
        BY <4>1, TotalType DEF BooksInv
    <3> QED
      BY <2>1, <2>2, <3>1, <3>2 DEF Exact
  <2> QED
    BY <2>1, <2>2, <2>3 DEF BooksInv
<1>4. CASE Notice
  BY <1>4, BooksIdle DEF Notice, Invalidate, Excuse, tables
<1>5. CASE OpenForm
  BY <1>5, BooksIdle DEF OpenForm, tables
<1>6. CASE SaveForm
  <2>1. CASE form = balance
    BY <1>6, <2>1, BooksIdle DEF SaveForm
  <2>2. CASE Excuse("overwritten")
    <3>1. Prices' = Prices /\ Owing' = Owing /\ \A k : Claimed(k)' = Claimed(k)
      BY <1>6 DEF SaveForm, Prices, Price, Owing, Claimed
    <3>2. "overwritten" \in excuses' /\ UNCHANGED <<dedup, archive, logged, pc>>
      BY <1>6, <2>2 DEF SaveForm, Excuse
    <3> QED
      BY <3>1, <3>2 DEF BooksInv
  <2> QED
    BY <1>6, <2>1, <2>2 DEF SaveForm
<1>7. CASE Expire
  BY <1>7, BooksIdle DEF Expire, tables, others
<1>8. ASSUME NEW s \in Servers, Die(s) PROVE BooksInv'
  <2>1. \A r \in Requests : pc'[r] \in Settled => pc[r] \in Settled
    BY <1>8 DEF Die, Settled
  <2> QED
    BY <1>8, <2>1, BooksIdle DEF Die, Excuse, tables, others
<1> QED
  BY <1>1, <1>2, <1>3, <1>4, <1>5, <1>6, <1>7, <1>8

\* The money adds up: whatever requests, retries, recharges, archiving, deaths and lost
\* replies there are, the balance is what was paid in less the price of every claim, unless
\* a save has overwritten it; and nothing is logged that was not charged.
THEOREM TheBooksAgree == Spec => []BooksAgree
<1>1. Init => BooksInv /\ OnceInv
  <2> SUFFICES ASSUME Init PROVE BooksInv /\ OnceInv
    OBVIOUS
  <2>1. Owing = {}
    BY DEF Init, Owing, Claimed
  <2>2. IsFiniteSet(Owing) /\ Total(Prices, Owing) = 0
    BY <2>1, FS_EmptySet, TotalStep
  <2>3. Exact
    BY <2>2, AmountAssumption DEF Init, Exact
  <2>4. OnceInv
    BY DEF Init, OnceInv, Exclusive, Unclaimed, Counted, Claimed, Holding
  <2> QED
    BY <2>2, <2>3, <2>4 DEF Init, BooksInv, Settled
<1>2. TypeOK /\ (BooksInv /\ OnceInv) /\ [Next]_vars => (BooksInv /\ OnceInv)'
  <2> SUFFICES ASSUME TypeOK, BooksInv, OnceInv, [Next]_vars PROVE BooksInv' /\ OnceInv'
    OBVIOUS
  <2>1. CASE Next
    BY <2>1, OnceServe, OnceAround, BooksServe, BooksAround DEF Next
  <2>2. CASE UNCHANGED vars
    <3>1. OnceInv'
      BY <2>2 DEF vars, tables, OnceInv, Exclusive, Unclaimed, Counted, Claimed, Holding
    <3>2. BooksInv'
      BY <2>2, BooksIdle DEF vars, tables, others
    <3> QED
      BY <3>1, <3>2
  <2> QED
    BY <2>1, <2>2
<1>3. BooksInv => BooksAgree
  BY SumIsTotal DEF BooksInv, BooksAgree, BalanceIsExact, Exact, Owing
<1> QED
  BY <1>1, <1>2, <1>3, TypeCorrect, PTL DEF Spec
=============================================================================
