---------------------------- MODULE MCBridgeRelay ----------------------------
(* Model values for the run of BridgeRelay: two requests of one client and one of another. *)
EXTENDS BridgeRelay, TLC

CONSTANTS r1, r2, r3, c1, c2

ThreeRequests == {r1, r2, r3}
TwoClients == {c1, c2}
Whose(r) == IF r = r3 THEN c2 ELSE c1
=============================================================================
