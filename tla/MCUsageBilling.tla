-------------------------- MODULE MCUsageBilling --------------------------
(* Instances of UsageBilling for TLC: a claim that is tried twice on two   *)
(* servers, the second time by a turn of a WebSocket, and another claim.    *)
EXTENDS UsageBilling

CONSTANTS r1, r2, r3, k1, k2, p1, p2, s1, s2

MCRequests == {r1, r2, r3}
MCLaterTurns == {r2}
MCKeys     == {k1, k2}
MCFingerprints == {p1, p2}
MCKey      == [r \in MCRequests |-> IF r = r3 THEN k2 ELSE k1]
MCFingerprint == [r \in MCRequests |-> IF r = r3 THEN p2 ELSE p1]
MCCost     == [p \in MCFingerprints |-> IF p = p1 THEN 1 ELSE 2]
MCServers  == {s1, s2}
MCHost     == [r \in MCRequests |-> IF r = r2 THEN s2 ELSE s1]
=============================================================================
