----------------------------- MODULE DocumentSync -----------------------------
(***************************************************************************)
(* packages/client/src/store/document-sync.ts with the store it fills       *)
(* (item-store.ts), the inverse patches of undo.ts and                      *)
(* Document.getItemsSince: optimistic edits, and re-reads of the document   *)
(* in full, by revision or by the ids an event names.                       *)
(*                                                                         *)
(* The version of an item is the revision that wrote it, Gone when there is *)
(* no such item, or the edit that shows it optimistically.  Edits are       *)
(* one-shot commits of one item; children of items are left out.  KiCad     *)
(* answers one request at a time, in order; events come beside the answers. *)
(***************************************************************************)
EXTENDS Integers, Sequences, FiniteSets

CONSTANTS
  Id, Edit, Reader,
  MaxRev,  \* bound: revisions of the document
  Mode     \* the kinds of behaviour looked at, see `mode`

ASSUME SyncAssumption ==
  /\ MaxRev \in Nat \ {0}
  /\ Edit \intersect Reader = {} /\ Edit \intersect Nat = {} /\ "none" \notin Edit \union Reader
  /\ \A m \in Mode :
       /\ m.ids \subseteq Id /\ m.edits \subseteq Edit /\ m.readers \subseteq Reader
       /\ {m.incremental, m.eventRevision, m.overlap, m.rejects, m.reborn, m.foreignDeletes} \subseteq BOOLEAN
       /\ m.max \in [{"revs", "reads", "readFails", "losses"} -> Nat] /\ m.max.revs \in 1..MaxRev

VARIABLES
  mode,                   \* never changes: the items, edits and readers that take
    \* part and how often things may happen; the server implements since_revision
    \* (incremental); callers of syncIds pass the event's revision (eventRevision);
    \* edits overlap with re-reads and each other (overlap); KiCad may reject an
    \* edit (rejects); a deleted id may come back, by an undo, while new ids are
    \* fresh (reborn); other clients delete items (foreignDeletes)
  docRev, doc, changedAt, \* KiCad: revision, version of each item, and when it last changed
  events,                 \* the DocumentChanged events not handled yet
  wire, answer,           \* who waits for KiCad, in order; the answer to the first one
  store, rev, loaded, loading,
  pending,                \* inverse patches: a version by kind and item
  edit, reader,
  count

kicad == <<docRev, doc, changedAt>>
sync == <<store, rev, loaded, loading, pending>>
vars == <<mode, kicad, events, wire, answer, sync, edit, reader, count>>

Gone == 0
NoAnswer == [from |-> "none"]
Kind == {"create", "update", "delete"}
NewEdit == [at |-> "new", kind |-> "none", id |-> "none"]
Idle == [at |-> "idle", since |-> 0, counts |-> 0, expected |-> 0, tries |-> 0, ids |-> {}, eventRev |-> 0]
Once(k) == count[k] < mode.max[k] /\ count' = [count EXCEPT ![k] = @ + 1]

Present == {i \in Id : doc[i] # Gone}
InFlight == {e \in Edit : edit[e].at = "sent"}
Busy == {r \in Reader : reader[r].at # "idle"}
Version == 0..MaxRev \union Edit

TypeOK ==
  /\ mode \in Mode
  /\ docRev \in 1..MaxRev /\ changedAt \in [Id -> 0..docRev]
  /\ \A i \in Id : doc[i] \in {Gone, changedAt[i]}
  /\ \A i \in Id : store[i] \in Version
  /\ rev \in 0..docRev /\ loaded \in BOOLEAN /\ loading \in BOOLEAN
  /\ DOMAIN pending \subseteq Kind \X Id
  /\ \A i \in DOMAIN wire, j \in DOMAIN wire : wire[i] = wire[j] => i = j
  /\ loading <=> \E r \in Reader : reader[r].at = "load"
  /\ \A r \in Reader : /\ reader[r].at \in {"idle", "counts", "since", "full", "load", "joined", "ids"}
                       /\ reader[r].tries \in 0..1

Init ==
  /\ mode \in Mode
  /\ docRev = 1 /\ \E S \in SUBSET mode.ids : /\ doc = [i \in Id |-> IF i \in S THEN 1 ELSE Gone]
                                              /\ changedAt = doc
  /\ events = <<>> /\ wire = <<>> /\ answer = NoAnswer
  /\ store = [i \in Id |-> Gone] /\ rev = 0 /\ loaded = FALSE /\ loading = FALSE
  /\ pending = <<>>
  /\ edit = [e \in Edit |-> NewEdit] /\ reader = [r \in Reader |-> Idle]
  /\ count = [k \in DOMAIN mode.max |-> 0]

-----------------------------------------------------------------------------
(* KiCad: the document, its events, and answers in order. *)

Fresh(i) == mode.reborn \/ (changedAt[i] = 0 /\ \A e \in InFlight : edit[e].id # i)
Room == docRev + Cardinality(InFlight) < mode.max.revs   \* bound
Write(i, gone) ==
  /\ docRev' = docRev + 1
  /\ doc' = [doc EXCEPT ![i] = IF gone THEN Gone ELSE docRev + 1]
  /\ changedAt' = [changedAt EXCEPT ![i] = docRev + 1]

ForeignChange ==
  /\ \E i \in mode.ids, gone \in BOOLEAN :
       /\ IF gone THEN doc[i] # Gone /\ mode.foreignDeletes ELSE doc[i] # Gone \/ Fresh(i)
       /\ Room /\ Write(i, gone)
       /\ events' = Append(events, [id |-> i, gone |-> gone, rev |-> docRev + 1])
  /\ UNCHANGED <<mode, wire, answer, sync, edit, reader, count>>
LoseEvent ==
  /\ events # <<>> /\ Once("losses") /\ events' = Tail(events)
  /\ UNCHANGED <<mode, kicad, wire, answer, sync, edit, reader>>

Items(S) == [i \in S |-> doc[i]]
Answers(w, ok, items, gone) ==
  answer' = [from |-> w, ok |-> ok, rev |-> docRev, items |-> items, gone |-> gone]

ServeEdit(e) ==
  LET i == edit[e].id IN
  \/ /\ doc[i] # Gone \/ edit[e].kind = "create"
     /\ Write(i, edit[e].kind = "delete")
     /\ Answers(e, TRUE, [j \in {i} |-> doc'[j]], {})
  \/ /\ mode.rejects \/ (doc[i] = Gone /\ edit[e].kind # "create")
     /\ Answers(e, FALSE, <<>>, {}) /\ UNCHANGED kicad

\* KiCad answers a since request with the delta, or with everything.
ServeRead(r) ==
  LET changed == {i \in Id : changedAt[i] > reader[r].since} IN
  /\ \/ reader[r].at = "ids" /\ Answers(r, TRUE, Items(reader[r].ids \intersect Present), {})
     \/ /\ reader[r].at = "since"
        /\ Answers(r, TRUE, Items(changed \intersect Present), changed \ Present)
     \/ reader[r].at # "ids" /\ Answers(r, TRUE, Items(Present), {})
  /\ UNCHANGED <<kicad, count>>
FailRead(r) == Once("readFails") /\ Answers(r, FALSE, <<>>, {}) /\ UNCHANGED kicad

Serve ==
  /\ wire # <<>> /\ answer = NoAnswer
  /\ IF Head(wire) \in Edit THEN ServeEdit(Head(wire)) /\ UNCHANGED count
     ELSE ServeRead(Head(wire)) \/ FailRead(Head(wire))
  /\ UNCHANGED <<mode, events, wire, sync, edit, reader>>

Answered(w) == wire # <<>> /\ Head(wire) = w /\ answer # NoAnswer /\ answer' = NoAnswer
Done == wire' = Tail(wire)
AsksAgain(w) == wire' = Append(Tail(wire), w)

-----------------------------------------------------------------------------
(* Edits: onChange with the phases optimistic, applied and failed. *)

Remember(k, v) == pending' = [x \in DOMAIN pending \union {k} |-> IF x = k THEN v ELSE pending[x]]

StartEdit(e) ==
  /\ edit[e].at = "new" /\ Room
  /\ ~mode.overlap => InFlight = {} /\ Busy = {}
  /\ \E k \in Kind, i \in mode.ids :
       /\ IF k = "create" THEN store[i] = Gone /\ Fresh(i) ELSE store[i] # Gone
       /\ edit' = [edit EXCEPT ![e] = [at |-> "sent", kind |-> k, id |-> i]]
       /\ IF loaded
          THEN /\ Remember(<<k, i>>, store[i])
               /\ store' = [store EXCEPT ![i] = IF k = "delete" THEN Gone ELSE e]
          ELSE UNCHANGED <<pending, store>>
  /\ wire' = Append(wire, e)
  /\ UNCHANGED <<mode, kicad, events, answer, rev, loaded, loading, reader, count>>

Key(e) == <<edit[e].kind, edit[e].id>>
Forget(e) == pending' = [k \in DOMAIN pending \ {Key(e)} |-> pending[k]]
RolledBack(e) ==
  IF Key(e) \in DOMAIN pending THEN [store EXCEPT ![edit[e].id] = pending[Key(e)]] ELSE store
AppliedAsSent(e) == store   \* mutation: the canonical items are not taken
Applied(e) == [store EXCEPT ![edit[e].id] = answer.items[edit[e].id]]

EditAnswered(e) ==
  /\ Answered(e) /\ Done
  /\ edit' = [edit EXCEPT ![e].at = "done"]
  /\ IF loaded
     THEN /\ Forget(e)
          /\ store' = IF answer.ok THEN Applied(e) ELSE RolledBack(e)
     ELSE UNCHANGED <<pending, store>>
  /\ UNCHANGED <<mode, kicad, events, rev, loaded, loading, reader, count>>

-----------------------------------------------------------------------------
(* Re-reads: load, refresh, syncSince and syncIds. *)

SetRevision(r) == rev' = IF r > rev THEN r ELSE rev
ReplaceAll == store' = [i \in Id |-> IF i \in DOMAIN answer.items THEN answer.items[i] ELSE Gone]
Merge(removed) ==
  store' = [i \in Id |-> IF i \in DOMAIN answer.items THEN answer.items[i]
                         ELSE IF i \in removed THEN Gone ELSE store[i]]

MayRead == ~mode.overlap => InFlight = {}
Becomes(r, state) == reader' = [reader EXCEPT ![r] = state]
Ends(r) == reader' = [reader EXCEPT ![r] = Idle]
Asks(r) == wire' = Append(wire, r)

\* refresh(), for a caller that passes eventRev on to setRevision afterwards.
Refresh(r, eventRev) ==
  IF loading THEN /\ Becomes(r, [reader[r] EXCEPT !.at = "joined", !.eventRev = eventRev])
                  /\ UNCHANGED <<wire, loading>>
  ELSE IF loaded /\ rev # 0 /\ mode.incremental
       THEN /\ Becomes(r, [reader[r] EXCEPT !.at = "counts", !.since = rev, !.eventRev = eventRev])
            /\ Asks(r) /\ UNCHANGED loading
       ELSE /\ Becomes(r, [reader[r] EXCEPT !.at = "load", !.eventRev = eventRev])
            /\ Asks(r) /\ loading' = TRUE

StartRefresh(r) ==
  /\ reader[r].at = "idle" /\ Once("reads") /\ MayRead
  /\ Refresh(r, 0)
  /\ UNCHANGED <<mode, kicad, events, answer, store, rev, loaded, pending, edit>>

\* An event is handled: a deletion at once, anything else by GetItemsById.
HandleEvent(r) ==
  /\ events # <<>> /\ reader[r].at = "idle" /\ MayRead
  /\ LET e == Head(events)
         eventRev == IF mode.eventRevision THEN e.rev ELSE 0
     IN \/ ~loaded /\ Refresh(r, eventRev) /\ UNCHANGED <<store, rev>>
        \/ /\ loaded /\ e.gone
           /\ store' = [store EXCEPT ![e.id] = Gone] /\ SetRevision(eventRev)
           /\ UNCHANGED <<wire, loading, reader>>
        \/ /\ loaded /\ ~e.gone
           /\ Becomes(r, [reader[r] EXCEPT !.at = "ids", !.ids = {e.id}, !.eventRev = eventRev])
           /\ Asks(r) /\ UNCHANGED <<store, rev, loading>>
  /\ events' = Tail(events)
  /\ UNCHANGED <<mode, kicad, answer, loaded, pending, edit, count>>

IdsAnswered(r) ==
  /\ reader[r].at = "ids" /\ Answered(r) /\ Done /\ Ends(r)
  /\ IF answer.ok THEN Merge(reader[r].ids) /\ SetRevision(reader[r].eventRev)
     ELSE UNCHANGED <<store, rev>>
  /\ UNCHANGED <<mode, kicad, events, loaded, loading, pending, edit, count>>

\* getItemsSince: the counts, then the delta, decided against those counts.
CountsAnswered(r) ==
  /\ reader[r].at = "counts" /\ Answered(r)
  /\ IF answer.ok
     THEN /\ AsksAgain(r)
          /\ Becomes(r, [reader[r] EXCEPT !.at = "since", !.counts = answer.rev,
                                      !.expected = Cardinality(DOMAIN answer.items)])
     ELSE Done /\ Ends(r)
  /\ UNCHANGED <<mode, kicad, events, sync, edit, count>>

AnyMove(r) == FALSE   \* mutation: the two reads are not compared
Moved(r) == answer.rev # reader[r].counts
IsFull(r) == answer.gone = {} /\ Cardinality(DOMAIN answer.items) >= reader[r].expected

SinceAnswered(r) ==
  /\ reader[r].at = "since" /\ Answered(r)
  /\ \/ ~answer.ok /\ Done /\ Ends(r) /\ UNCHANGED <<store, rev>>
     \/ /\ answer.ok /\ Moved(r) /\ AsksAgain(r) /\ UNCHANGED <<store, rev>>
        /\ IF reader[r].tries = 0 THEN Becomes(r, [reader[r] EXCEPT !.at = "counts", !.tries = 1])
           ELSE Becomes(r, [reader[r] EXCEPT !.at = "full"])
     \/ /\ answer.ok /\ ~Moved(r) /\ Done /\ Ends(r)
        /\ IF answer.rev <= reader[r].since THEN UNCHANGED store
           ELSE IF IsFull(r) THEN ReplaceAll ELSE Merge(answer.gone)
        /\ SetRevision(IF answer.rev > reader[r].eventRev THEN answer.rev ELSE reader[r].eventRev)
  /\ UNCHANGED <<mode, kicad, events, loaded, loading, pending, edit, count>>

\* The full read that getItemsSince falls back to.
FullAnswered(r) ==
  /\ reader[r].at = "full" /\ Answered(r) /\ Done /\ Ends(r)
  /\ IF answer.ok
     THEN ReplaceAll /\ SetRevision(IF answer.rev > reader[r].eventRev THEN answer.rev ELSE reader[r].eventRev)
     ELSE UNCHANGED <<store, rev>>
  /\ UNCHANGED <<mode, kicad, events, loaded, loading, pending, edit, count>>

\* load() ends, and with it every call that joined it.
Together(r) == {q \in Reader : q = r \/ reader[q].at = "joined"}
LoadedOnly == loading' = ~answer.ok   \* mutation: a failed load stays the one in progress
LoadOver == loading' = FALSE
LoadAnswered(r) ==
  /\ reader[r].at = "load" /\ Answered(r) /\ Done /\ LoadOver
  /\ reader' = [q \in Reader |-> IF q \in Together(r) THEN Idle ELSE reader[q]]
  /\ IF answer.ok
     THEN /\ loaded' = TRUE /\ ReplaceAll
          /\ rev' = CHOOSE v \in {rev, answer.rev} \union {reader[q].eventRev : q \in Together(r)} :
                      \A w \in {rev, answer.rev} \union {reader[q].eventRev : q \in Together(r)} : v >= w
     ELSE UNCHANGED <<loaded, store, rev>>
  /\ UNCHANGED <<mode, kicad, events, pending, edit, count>>

ReadSteps(r) == \/ IdsAnswered(r) \/ CountsAnswered(r) \/ SinceAnswered(r)
                \/ FullAnswered(r) \/ LoadAnswered(r)

Next ==
  \/ ForeignChange \/ LoseEvent \/ Serve
  \/ \E e \in mode.edits : StartEdit(e) \/ EditAnswered(e)
  \/ \E r \in mode.readers : StartRefresh(r) \/ HandleEvent(r) \/ ReadSteps(r)

Spec == Init /\ [][Next]_vars

\* Requests are answered, which the transport guarantees.
Fairness ==
  /\ WF_vars(Serve)
  /\ \A e \in Edit : WF_vars(EditAnswered(e))
  /\ \A r \in Reader : WF_vars(ReadSteps(r))
LiveSpec == Spec /\ Fairness

-----------------------------------------------------------------------------
(* Properties. *)

\* Something about the item is still under way.
InFlux(i) ==
  \/ \E e \in InFlight : edit[e].id = i
  \/ \E n \in DOMAIN events : events[n].id = i
  \/ \E r \in Reader : i \in reader[r].ids

\* Edits and re-reads take turns, or else no edit fails and nobody deletes.
Orderly == mode.overlap => /\ ~mode.rejects /\ ~mode.foreignDeletes
                           /\ \A e \in Edit : edit[e].kind # "delete"

\* The store reflects the revision it claims (document-sync.ts:62): an item
\* unchanged since, and with nothing under way, is as the document has it.
ReflectsRevision ==
  \A i \in Id : Orderly /\ loaded /\ changedAt[i] <= rev /\ ~InFlux(i) => store[i] = doc[i]

\* No optimistic version outlives the request that shows it.
NoGhost == Orderly => \A i \in Id : store[i] \in Edit => store[i] \in InFlight

\* Every load, refresh and re-read returns, whatever fails: as there are only so
\* many of them, it is enough that none is under way again and again.
EveryReadEnds == []<>(Busy = {})
=============================================================================
