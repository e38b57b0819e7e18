-------------------------- MODULE MCCommandService --------------------------
(* Model values for the runs of CommandService. *)
EXTENDS CommandService, TLC

CONSTANTS t1, t2, u1, u2, pad, via, here

Tx2 == {t1, t2}
Undoer2 == {u1, u2}
Item2 == {pad, via}
Value1 == {here}
Modes == {[alone |-> TRUE, items |-> {pad, via}, undoers |-> {u1}],
          [alone |-> TRUE, items |-> {pad}, undoers |-> {u1, u2}],
          [alone |-> FALSE, items |-> {pad}, undoers |-> {u1, u2}]}
=============================================================================
