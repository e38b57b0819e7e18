-------------------------- MODULE MCCommitProtocol --------------------------
(* Model values and merge keys for the runs of CommitProtocol. *)
EXTENDS CommitProtocol, TLC

CONSTANTS o1, o2, o3, p, q

Op3 == {o1, o2, o3}
OneCaller == {p}
TwoCallers == {p, q}
\* o1 and o3 may be merged, o2 between them may not.
Keys(o) == IF o = o2 THEN "update" ELSE "create"
Ordinary == {[hasId |-> TRUE, strict |-> TRUE, disciplined |-> TRUE]}
Others == {[hasId |-> TRUE, strict |-> FALSE, disciplined |-> FALSE],
           [hasId |-> FALSE, strict |-> TRUE, disciplined |-> FALSE]}
CallerSymmetry == Permutations(Caller)
=============================================================================
