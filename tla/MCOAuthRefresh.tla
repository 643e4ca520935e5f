-------------------------- MODULE MCOAuthRefresh --------------------------
(* Instances of OAuthRefresh for TLC: a background cycle and a request on  *)
(* one server, another cycle or request on a second one.                   *)
EXTENDS OAuthRefresh

CONSTANTS c1, c2, r1, s1, s2

MCWorkers == {c1, c2, r1}
MCCycles  == {c1, c2}
MCServers == {s1, s2}
MCHost    == [w \in MCWorkers |-> IF w = c2 THEN s2 ELSE s1]
=============================================================================
