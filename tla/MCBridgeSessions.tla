-------------------------- MODULE MCBridgeSessions --------------------------
(* Small instances of BridgeSessions for TLC. *)
EXTENDS BridgeSessions, TLC

CONSTANTS s1, s2, board, sheet, tab

TwoSessions == {s1, s2}
TwoNames == {board, sheet}
OneClient == {tab}
Own == [s \in {s1, s2} |-> IF s = s1 THEN board ELSE sheet]
=============================================================================
