------------------------- MODULE MCNngIpcTransport -------------------------
(* Model values and symmetry for the runs of NngIpcTransport. *)
EXTENDS NngIpcTransport, TLC

CONSTANTS r1, r2, r3, c1, c2

Req2 == {r1, r2}
Req3 == {r1, r2, r3}
Conn2 == {c1, c2}
Symmetry == Permutations(Req) \union Permutations(Conn)
=============================================================================
