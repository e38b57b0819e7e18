--------------------------- MODULE MCWasmTransport ---------------------------
(* Model values for the run of WasmTransport. *)
EXTENDS WasmTransport, TLC

CONSTANTS r1, r2, r3

ThreeRequests == {r1, r2, r3}
Both == BOOLEAN
=============================================================================
