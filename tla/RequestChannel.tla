--------------------------- MODULE RequestChannel ---------------------------
(***************************************************************************)
(* What a serialising Transport promises its callers (transport/types.ts   *)
(* and the header of nng-ipc.ts): requests are answered in the order they   *)
(* were sent, each promise settles at most once, a closed transport leaves  *)
(* none pending and takes none.  How the bytes travel is not visible here.  *)
(***************************************************************************)
EXTENDS Sequences

CONSTANT Req       \* the calls of send(), each made at most once

VARIABLES pending, \* unsettled requests, oldest first
          outcome, \* what became of each promise
          open     \* FALSE once the transport is closed for good

vars == <<pending, outcome, open>>

Outcome == {"unsent", "pending", "resolved", "rejected"}

Init == /\ pending = <<>>
        /\ outcome = [r \in Req |-> "unsent"]
        /\ open \in BOOLEAN

Submit(r) == /\ open /\ outcome[r] = "unsent"
             /\ pending' = Append(pending, r)
             /\ outcome' = [outcome EXCEPT ![r] = "pending"]
             /\ UNCHANGED open

Refuse(r) == /\ ~open /\ outcome[r] = "unsent"
             /\ outcome' = [outcome EXCEPT ![r] = "rejected"]
             /\ UNCHANGED <<pending, open>>

\* Only the oldest request can be answered or fail on its own.
Settle(o) == /\ pending # <<>>
             /\ outcome' = [outcome EXCEPT ![Head(pending)] = o]
             /\ pending' = Tail(pending)
             /\ UNCHANGED open

Ended(out) == [r \in Req |-> IF out[r] = "pending" THEN "rejected" ELSE out[r]]

\* Closing rejects what is pending, also when it happens while a request is taken or the
\* oldest one settles.
Shut == /\ open
        /\ open' = FALSE
        /\ pending' = <<>>
        /\ \/ outcome' = Ended(outcome)
           \/ \E r \in Req : outcome[r] = "unsent" /\ outcome' = Ended([outcome EXCEPT ![r] = "pending"])
           \/ \E o \in {"resolved", "rejected"} :
                pending # <<>> /\ outcome' = Ended([outcome EXCEPT ![Head(pending)] = o])

Next == \/ \E r \in Req : Submit(r) \/ Refuse(r)
        \/ \E o \in {"resolved", "rejected"} : Settle(o)
        \/ Shut

Spec == Init /\ [][Next]_vars
=============================================================================
