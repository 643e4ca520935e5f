------------------------------ MODULE PaidOrder ------------------------------
(***************************************************************************)
(* What the payment service promises about an order for balance, however   *)
(* many handlers work on it: nothing before the money is there, the credit *)
(* once, the inviter's rebate settled once and after the credit, and no    *)
(* completion without them.  A code that is handed out may pay the inviter *)
(* a rebate of its own.                                                    *)
(***************************************************************************)
EXTENDS Naturals

CONSTANT Orders

VARIABLES
    paid,       \* orders the provider holds an accepted payment for
    credit,     \* how often each order was credited
    settled,    \* orders whose rebate is settled
    rebate,     \* how often a rebate was accrued for each order
    done        \* orders reported as completed

vars == <<paid, credit, settled, rebate, done>>

Init ==
    /\ paid = {} /\ settled = {} /\ done = {}
    /\ credit = [o \in Orders |-> 0]
    /\ rebate = [o \in Orders |-> 0]

Pay(o) ==
    /\ o \notin paid
    /\ paid' = paid \cup {o}
    /\ UNCHANGED <<credit, settled, rebate, done>>

Credit(o) ==
    /\ o \in paid /\ credit[o] = 0
    /\ credit' = [credit EXCEPT ![o] = 1]
    /\ UNCHANGED <<paid, settled, rebate, done>>

\* The user redeems the code of the order instead of the service.
HandOut(o) ==
    /\ o \in paid /\ credit[o] = 0
    /\ credit' = [credit EXCEPT ![o] = 1]
    /\ rebate' \in {rebate, [rebate EXCEPT ![o] = @ + 1]}
    /\ UNCHANGED <<paid, settled, done>>

Settle(o) ==
    /\ credit[o] = 1 /\ o \notin settled
    /\ settled' = settled \cup {o}
    /\ rebate' = [rebate EXCEPT ![o] = @ + 1]
    /\ UNCHANGED <<paid, credit, done>>

Finish(o) ==
    /\ o \in settled /\ o \notin done
    /\ done' = done \cup {o}
    /\ UNCHANGED <<paid, credit, settled, rebate>>

Next == \E o \in Orders : Pay(o) \/ Credit(o) \/ HandOut(o) \/ Settle(o) \/ Finish(o)

Spec == Init /\ [][Next]_vars
=============================================================================
