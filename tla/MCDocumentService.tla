------------------------- MODULE MCDocumentService -------------------------
(* Small instances of DocumentService for TLC. *)
EXTENDS DocumentService

Nothing == [k \in Bounded |-> 0]
Events == [relay |-> TRUE,
           max |-> [Nothing EXCEPT !.revs = 4, !.commits = 2, !.commands = 1, !.foreignSaves = 1]]
Losses == [relay |-> TRUE, max |-> [Nothing EXCEPT !.revs = 4, !.foreignSaves = 1, !.losses = 2]]
Polled == [relay |-> FALSE, max |-> [Nothing EXCEPT !.revs = 4, !.foreignSaves = 1]]
Mixed == [relay |-> TRUE,
          max |-> [Nothing EXCEPT !.revs = 3, !.commits = 1, !.commands = 1, !.saves = 1,
                                  !.losses = 1, !.drops = 1, !.fails = 1]]
Modes == {Events, Losses, Polled, Mixed}
=============================================================================
