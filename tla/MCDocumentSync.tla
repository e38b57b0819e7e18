--------------------------- MODULE MCDocumentSync ---------------------------
(* Small instances of DocumentSync for TLC. *)
EXTENDS DocumentSync

CONSTANTS a, b, e1, e2, r1, r2

TwoItems == {a, b}
TwoEdits == {e1, e2}
TwoReaders == {r1, r2}

Max(revs, reads, readFails, losses) ==
  [revs |-> revs, reads |-> reads, readFails |-> readFails, losses |-> losses]
Calm == [ids |-> {a, b}, edits |-> {e1}, readers |-> {r1}, max |-> Max(4, 2, 1, 1),
         incremental |-> TRUE, eventRevision |-> FALSE, overlap |-> FALSE, rejects |-> TRUE,
         reborn |-> FALSE, foreignDeletes |-> TRUE]
Overlapping == [Calm EXCEPT !.edits = {e1, e2}, !.max = Max(4, 1, 0, 0), !.overlap = TRUE,
                            !.rejects = FALSE, !.foreignDeletes = FALSE]
Failing == [Calm EXCEPT !.ids = {a}, !.readers = {r1, r2}, !.max = Max(3, 2, 1, 0),
                        !.overlap = TRUE, !.eventRevision = TRUE]
Modes == {Calm, Overlapping, Failing}
=============================================================================
