------------------------- MODULE DocumentSync_proofs -------------------------
(***************************************************************************)
(* Theorems about DocumentSync for any number of items, edits and readers.  *)
(*                                                                         *)
(* What they say of the store is about callers as the app has them: it does *)
(* not pass an event's revision to syncIds (KicadDocumentService.ts:539),   *)
(* and an id that another client deleted does not come back.  Types, and    *)
(* who waits for whom, are about any callers.                               *)
(***************************************************************************)
EXTENDS DocumentSync, FiniteSetTheorems, SequenceTheorems, WellFoundedInduction, TLAPS

AppCallers == \A m \in Mode : ~m.eventRevision /\ (m.reborn => ~m.foreignDeletes)

-----------------------------------------------------------------------------
(* The invariant. *)

\* A call of getItems or getItemsById is under way.
Asking == {"counts", "since", "full", "load", "ids"}
EventType == [id : Id, gone : BOOLEAN, rev : Nat]
EditType == [at : {"new", "sent", "done"}, kind : Kind \union {"none"}, id : Id \union {"none"}]
ReaderType == [at : {"idle", "joined"} \union Asking, since : Nat, counts : Nat, expected : Nat,
               tries : {0, 1}, ids : SUBSET Id, eventRev : {0}]

DocType ==
  /\ mode \in Mode /\ docRev \in Nat
  /\ changedAt \in [Id -> Nat] /\ doc \in [Id -> Nat]
  /\ \A i \in Id : changedAt[i] <= docRev /\ doc[i] \in {Gone, changedAt[i]}
SyncType ==
  /\ rev \in Nat /\ rev <= docRev /\ loaded \in BOOLEAN
  /\ store \in [Id -> Nat \union Edit]
  /\ edit \in [Edit -> EditType]
  /\ \A e \in InFlight : edit[e].kind \in Kind /\ edit[e].id \in Id
  /\ \A e \in Edit : edit[e].at = "new" => edit[e].kind = "none"
  /\ \A k \in DOMAIN pending : pending[k] \in Nat \union Edit
  /\ reader \in [Reader -> ReaderType]
  /\ \A r \in Reader : reader[r].since <= rev
SeqType == events \in Seq(EventType) /\ wire \in Seq(Edit \union Reader)
WireInv ==
  /\ \A j, k \in DOMAIN wire : wire[j] = wire[k] => j = k
  /\ \A k \in DOMAIN wire : wire[k] \in Edit => edit[wire[k]].at = "sent"
  /\ \A k \in DOMAIN wire : wire[k] \in Reader => reader[wire[k]].at \in Asking
  /\ answer # NoAnswer => wire # <<>>
Typed == DocType /\ SyncType /\ SeqType /\ WireInv

\* Edits and re-reads take turns.
TurnsInv == ~mode.overlap => /\ InFlight # {} => Busy = {}
                             /\ \A e, f \in InFlight : e = f

\* An id that came once and went does not come back (unless `reborn`).
Unserved(e) == ~(wire # <<>> /\ wire[1] = e /\ answer # NoAnswer)
Creates(e) == e \in InFlight /\ edit[e].kind = "create"
FreshInv == ~mode.reborn =>
  /\ \A e \in Edit : Creates(e) /\ Unserved(e) => changedAt[edit[e].id] = 0
  /\ \A e, f \in Edit : Creates(e) /\ Creates(f) /\ edit[e].id = edit[f].id => e = f
  /\ \A n \in DOMAIN events : events[n].gone => doc[events[n].id] = Gone /\ changedAt[events[n].id] # 0
EventInv == \A n \in DOMAIN events : events[n].gone => mode.foreignDeletes

\* What an answer says of an item that has not changed since.
Left(i) == changedAt[i] <= answer.rev /\ i \notin DOMAIN answer.items
Covers(r) ==
  /\ reader[r].at \in {"counts", "full", "load"} => \A i \in Id : Left(i) => doc[i] = Gone
  /\ reader[r].at = "ids" => \A i \in reader[r].ids : Left(i) => doc[i] = Gone
  /\ reader[r].at = "counts" /\ answer.rev = docRev => DOMAIN answer.items = Present
  /\ reader[r].at = "since" /\ ~Moved(r) =>
       \A i \in Id : Left(i) => IF IsFull(r) \/ i \in answer.gone THEN doc[i] = Gone
                                ELSE changedAt[i] <= reader[r].since
AnswerInv ==
  answer # NoAnswer =>
    /\ answer.ok \in BOOLEAN /\ answer.rev \in Nat /\ rev <= answer.rev /\ answer.rev <= docRev
    /\ answer.ok =>
         /\ DOMAIN answer.items \subseteq Id
         /\ \A i \in DOMAIN answer.items :
              answer.items[i] \in Nat /\ (changedAt[i] <= answer.rev => answer.items[i] = doc[i])
         /\ wire[1] \in Edit => edit[wire[1]].id \in DOMAIN answer.items
         /\ wire[1] \in Reader => Covers(wire[1])
CountInv ==
  \A r \in Reader : reader[r].at = "since" =>
    reader[r].counts <= docRev /\ (reader[r].counts = docRev => reader[r].expected = Cardinality(Present))

\* An update only meets an item that is there, or that is created before it.
Gentle == mode.overlap /\ Orderly
CreatedAt(k, i) == wire[k] \in Edit /\ edit[wire[k]].kind = "create" /\ edit[wire[k]].id = i
UpdatesMeet ==
  \A k \in DOMAIN wire : wire[k] \in Edit /\ edit[wire[k]].kind = "update" /\ doc[edit[wire[k]].id] = Gone
    => \E j \in DOMAIN wire : j < k /\ CreatedAt(j, edit[wire[k]].id)
ShownComes == \A i \in Id : store[i] # Gone /\ doc[i] = Gone => \E k \in DOMAIN wire : CreatedAt(k, i)
EditSucceeds == answer # NoAnswer /\ wire[1] \in Edit => answer.ok /\ doc[edit[wire[1]].id] # Gone
ItemsExist == answer # NoAnswer /\ answer.ok => \A i \in DOMAIN answer.items : doc[i] # Gone
GentleInv == Gentle => UpdatesMeet /\ ShownComes /\ EditSucceeds /\ ItemsExist

\* An edit that takes its turn can be rolled back.
PendingInv == ~mode.overlap /\ loaded => \A e \in InFlight :
  /\ Key(e) \in DOMAIN pending
  /\ pending[Key(e)] \in Nat
  /\ changedAt[edit[e].id] <= rev => pending[Key(e)] = doc[edit[e].id]

EditOn(i) == \E e \in InFlight : edit[e].id = i
Reflects == loaded /\ Orderly => \A i \in Id : changedAt[i] <= rev /\ ~EditOn(i) => store[i] = doc[i]
GhostInv ==
  /\ ~loaded => \A i \in Id : store[i] \in Nat
  /\ Orderly => \A i \in Id : store[i] \in Edit => store[i] \in InFlight /\ edit[store[i]].id = i

-----------------------------------------------------------------------------
(* The queue of requests. *)

LEMMA WireParts ==
  ASSUME SeqType
  PROVE  /\ DOMAIN wire = 1..Len(wire) /\ Len(wire) \in Nat
         /\ \A k \in DOMAIN wire : wire[k] \in Edit \union Reader
         /\ wire # <<>> => 1 \in DOMAIN wire /\ Head(wire) = wire[1]
<1>1. wire \in Seq(Edit \union Reader)
  BY DEF SeqType
<1>2. DOMAIN wire = 1..Len(wire) /\ Len(wire) \in Nat /\ \A k \in DOMAIN wire : wire[k] \in Edit \union Reader
  BY <1>1, LenProperties, ElementOfSeq
<1>3. wire # <<>> => Len(wire) # 0 /\ Head(wire) = wire[1]
  BY <1>1, EmptySeq, HeadTailProperties
<1> QED
  BY <1>2, <1>3

LEMMA WireGrows ==
  ASSUME SeqType, NEW w \in Edit \union Reader, wire' = Append(wire, w)
  PROVE  /\ wire' \in Seq(Edit \union Reader) /\ wire' # <<>>
         /\ \E n \in Nat : /\ DOMAIN wire = 1..n /\ DOMAIN wire' = 1..(n + 1)
                           /\ \A k \in 1..n : wire'[k] = wire[k]
                           /\ wire'[n + 1] = w
<1>1. wire \in Seq(Edit \union Reader)
  BY DEF SeqType
<1>2. PICK n \in Nat : n = Len(wire)
  BY <1>1, LenProperties
<1>3. Append(wire, w) \in Seq(Edit \union Reader) /\ Len(Append(wire, w)) = n + 1
      /\ (\A k \in 1..n : Append(wire, w)[k] = wire[k]) /\ Append(wire, w)[n + 1] = w
      /\ Append(wire, w) # <<>>
  BY <1>1, <1>2, AppendProperties
<1>4. DOMAIN wire = 1..n /\ DOMAIN Append(wire, w) = 1..(n + 1)
  BY <1>1, <1>2, <1>3, LenProperties
<1> QED
  BY <1>3, <1>4

LEMMA TailParts ==
  ASSUME SeqType, wire # <<>>
  PROVE  /\ Tail(wire) \in Seq(Edit \union Reader)
         /\ \E n \in Nat : /\ DOMAIN wire = 1..(n + 1) /\ DOMAIN Tail(wire) = 1..n /\ Len(Tail(wire)) = n
                           /\ \A k \in 1..n : Tail(wire)[k] = wire[k + 1]
<1>1. wire \in Seq(Edit \union Reader)
  BY DEF SeqType
<1>2. /\ Tail(wire) \in Seq(Edit \union Reader) /\ Len(Tail(wire)) = Len(wire) - 1
      /\ \A k \in 1..Len(Tail(wire)) : Tail(wire)[k] = wire[k + 1]
  BY <1>1, HeadTailProperties
<1>3. Len(wire) \in Nat /\ DOMAIN wire = 1..Len(wire) /\ Len(Tail(wire)) \in Nat
      /\ DOMAIN Tail(wire) = 1..Len(Tail(wire))
  BY <1>1, <1>2, LenProperties
<1>4. Len(wire) = Len(Tail(wire)) + 1
  BY <1>2, <1>3
<1> QED
  BY <1>2, <1>3, <1>4

LEMMA WireShrinks ==
  ASSUME SeqType, wire # <<>>, wire' = Tail(wire)
  PROVE  /\ wire' \in Seq(Edit \union Reader)
         /\ \E n \in Nat : /\ DOMAIN wire = 1..(n + 1) /\ DOMAIN wire' = 1..n
                           /\ \A k \in 1..n : wire'[k] = wire[k + 1]
BY TailParts

\* The request at the head is answered and asked again, in a new form.
LEMMA WireTurns ==
  ASSUME SeqType, wire # <<>>, NEW w \in Edit \union Reader, AsksAgain(w)
  PROVE  /\ wire' \in Seq(Edit \union Reader) /\ wire' # <<>>
         /\ \E n \in Nat : /\ DOMAIN wire = 1..(n + 1) /\ DOMAIN wire' = 1..(n + 1)
                           /\ \A k \in 1..n : wire'[k] = wire[k + 1]
                           /\ wire'[n + 1] = w
<1>1. PICK n \in Nat : /\ DOMAIN wire = 1..(n + 1) /\ DOMAIN Tail(wire) = 1..n /\ Len(Tail(wire)) = n
                       /\ \A k \in 1..n : Tail(wire)[k] = wire[k + 1]
  BY TailParts
<1>2. Tail(wire) \in Seq(Edit \union Reader)
  BY TailParts
<1>3. PICK t \in Seq(Edit \union Reader) : t = Tail(wire)
  BY <1>2
<1>4. Append(t, w) \in Seq(Edit \union Reader) /\ Len(Append(t, w)) = n + 1
      /\ (\A k \in 1..n : Append(t, w)[k] = t[k]) /\ Append(t, w)[n + 1] = w /\ Append(t, w) # <<>>
  BY <1>1, <1>3, AppendProperties
<1>5. DOMAIN Append(t, w) = 1..(n + 1)
  BY <1>4, LenProperties
<1>6. wire' = Append(t, w)
  BY <1>3 DEF AsksAgain
<1> QED
  BY <1>1, <1>3, <1>4, <1>5, <1>6

-----------------------------------------------------------------------------
(* What each step does. *)

\* A change of one item by KiCad.
LEMMA WriteParts ==
  ASSUME DocType, NEW i \in Id, NEW gone \in BOOLEAN, Write(i, gone), mode' = mode
  PROVE  /\ DocType' /\ docRev' = docRev + 1
         /\ changedAt'[i] = docRev + 1 /\ doc'[i] = (IF gone THEN Gone ELSE docRev + 1)
         /\ \A j \in Id \ {i} : doc'[j] = doc[j] /\ changedAt'[j] = changedAt[j]
BY DEF DocType, Write, Gone

\* The edit KiCad executes is one that was sent.
LEMMA ServesEdit ==
  ASSUME Typed, Serve, wire[1] \in Edit
  PROVE  ServeEdit(wire[1]) /\ edit[wire[1]].id \in Id /\ edit[wire[1]].kind \in Kind /\ wire[1] \in InFlight
<1>1. wire # <<>> /\ Head(wire) = wire[1] /\ 1 \in DOMAIN wire
  BY WireParts DEF Serve, Typed
<1>2. wire[1] \in InFlight
  BY <1>1 DEF Typed, WireInv, InFlight
<1> QED
  BY <1>1, <1>2 DEF Serve, Typed, SyncType

LEMMA ServesRead ==
  ASSUME Typed, Serve, wire[1] \notin Edit
  PROVE  /\ wire[1] \in Reader /\ reader[wire[1]].at \in Asking
         /\ ServeRead(wire[1]) \/ FailRead(wire[1])
         /\ UNCHANGED kicad
<1>1. wire # <<>> /\ Head(wire) = wire[1] /\ 1 \in DOMAIN wire
  BY WireParts DEF Serve, Typed
<1>2. wire[1] \in Reader
  BY <1>1, WireParts DEF Typed
<1> QED
  BY <1>1, <1>2 DEF Serve, ServeRead, FailRead, Typed, WireInv

LEMMA ServeKeeps ==
  ASSUME Serve
  PROVE  UNCHANGED <<mode, events, wire, sync, edit, reader>> /\ wire # <<>> /\ answer = NoAnswer
BY DEF Serve

\* Only KiCad changes the document, one item at a time.
LEMMA DocSteps ==
  ASSUME Typed, [Next]_vars
  PROVE  /\ mode' = mode
         /\ \/ UNCHANGED kicad
            \/ \E i \in Id, gone \in BOOLEAN :
                 /\ Write(i, gone)
                 /\ UNCHANGED <<wire, sync, edit, reader>>
<1>1. CASE ForeignChange
  <2>1. mode.ids \subseteq Id
    BY SyncAssumption DEF Typed, DocType
  <2> QED
    BY <1>1, <2>1 DEF ForeignChange
<1>2. CASE Serve
  <2>1. CASE wire[1] \in Edit
    <3>1. ServeEdit(wire[1]) /\ edit[wire[1]].id \in Id
      BY <1>2, <2>1, ServesEdit
    <3> QED
      BY <1>2, <3>1, ServeKeeps DEF ServeEdit
  <2>2. CASE wire[1] \notin Edit
    BY <1>2, <2>2, ServesRead, ServeKeeps
  <2> QED
    BY <2>1, <2>2
<1>3. CASE LoseEvent
  BY <1>3 DEF LoseEvent
<1>4. ASSUME NEW e \in mode.edits, StartEdit(e) \/ EditAnswered(e) PROVE UNCHANGED <<mode, kicad>>
  BY <1>4 DEF StartEdit, EditAnswered
<1>5. ASSUME NEW r \in mode.readers, StartRefresh(r) \/ HandleEvent(r) \/ ReadSteps(r) PROVE UNCHANGED <<mode, kicad>>
  BY <1>5 DEF StartRefresh, HandleEvent, ReadSteps, IdsAnswered, CountsAnswered, SinceAnswered,
              FullAnswered, LoadAnswered
<1>6. CASE UNCHANGED vars
  BY <1>6 DEF vars
<1> QED
  BY <1>1, <1>2, <1>3, <1>4, <1>5, <1>6 DEF Next

LEMMA DocTypeStep ==
  ASSUME Typed, [Next]_vars
  PROVE  DocType' /\ docRev <= docRev' /\ mode' = mode
<1>1. mode' = mode
  BY DocSteps
<1>2. CASE UNCHANGED kicad
  BY <1>1, <1>2 DEF kicad, Typed, DocType
<1>3. ASSUME NEW i \in Id, NEW gone \in BOOLEAN, Write(i, gone) PROVE DocType' /\ docRev <= docRev'
  BY <1>1, <1>3, WriteParts DEF Typed, DocType
<1> QED
  BY <1>1, <1>2, <1>3, DocSteps

LEMMA EventParts ==
  ASSUME SeqType, events # <<>>
  PROVE  /\ Head(events) = events[1] /\ Head(events) \in EventType /\ 1 \in DOMAIN events
         /\ Tail(events) \in Seq(EventType)
         /\ \A k \in DOMAIN Tail(events) : k + 1 \in DOMAIN events /\ Tail(events)[k] = events[k + 1]
<1>1. events \in Seq(EventType)
  BY DEF SeqType
<1>2. /\ Head(events) = events[1] /\ Head(events) \in EventType
      /\ Tail(events) \in Seq(EventType) /\ Len(Tail(events)) = Len(events) - 1
      /\ \A k \in 1..Len(Tail(events)) : Tail(events)[k] = events[k + 1]
  BY <1>1, HeadTailProperties
<1>3. Len(events) \in Nat /\ DOMAIN events = 1..Len(events) /\ Len(Tail(events)) \in Nat
      /\ DOMAIN Tail(events) = 1..Len(Tail(events)) /\ Len(events) # 0
  BY <1>1, <1>2, LenProperties, EmptySeq
<1> QED
  BY <1>2, <1>3

LEMMA Becoming ==
  ASSUME SyncType, NEW r \in Reader, NEW s \in ReaderType, Becomes(r, s)
  PROVE  /\ reader' \in [Reader -> ReaderType] /\ reader'[r] = s
         /\ \A q \in Reader \ {r} : reader'[q] = reader[q]
<1>1. reader \in [Reader -> ReaderType]
  BY DEF SyncType
<1> QED
  BY <1>1 DEF Becomes

\* A call that begins asks KiCad or joins the load under way; an event that names a
\* deleted item takes it out of the store at once.
Begins(r) ==
  /\ reader' \in [Reader -> ReaderType] /\ reader'[r].since <= rev
  /\ \A q \in Reader \ {r} : reader'[q] = reader[q]
  /\ \/ wire' = wire /\ reader'[r].at \notin Asking
     \/ wire' = Append(wire, r) /\ reader'[r].at \in Asking \ {"since"}

LEMMA RefreshParts ==
  ASSUME Typed, NEW r \in Reader, Refresh(r, 0)
  PROVE  Begins(r)
<1>0. SyncType /\ reader[r] \in ReaderType /\ reader[r].since <= rev /\ rev \in Nat
  BY DEF Typed, SyncType
<1>1. CASE loading
  <2>1. PICK s : s = [reader[r] EXCEPT !.at = "joined", !.eventRev = 0]
    OBVIOUS
  <2>2. s \in ReaderType /\ s.at = "joined" /\ s.since = reader[r].since
    BY <1>0, <2>1 DEF ReaderType, Asking
  <2>3. Becomes(r, s) /\ wire' = wire
    BY <1>1, <2>1 DEF Refresh
  <2> QED
    BY <1>0, <2>2, <2>3, Becoming DEF Begins, Asking
<1>2. CASE ~loading /\ (loaded /\ rev # 0 /\ mode.incremental)
  <2>1. PICK s : s = [reader[r] EXCEPT !.at = "counts", !.since = rev, !.eventRev = 0]
    OBVIOUS
  <2>2. s \in ReaderType /\ s.at = "counts" /\ s.since = rev
    BY <1>0, <2>1 DEF ReaderType, Asking
  <2>3. Becomes(r, s) /\ wire' = Append(wire, r)
    BY <1>2, <2>1 DEF Refresh, Asks
  <2> QED
    BY <1>0, <2>2, <2>3, Becoming DEF Begins, Asking
<1>3. CASE ~loading /\ ~(loaded /\ rev # 0 /\ mode.incremental)
  <2>1. PICK s : s = [reader[r] EXCEPT !.at = "load", !.eventRev = 0]
    OBVIOUS
  <2>2. s \in ReaderType /\ s.at = "load" /\ s.since = reader[r].since
    BY <1>0, <2>1 DEF ReaderType, Asking
  <2>3. Becomes(r, s) /\ wire' = Append(wire, r)
    BY <1>3, <2>1 DEF Refresh, Asks
  <2> QED
    BY <1>0, <2>2, <2>3, Becoming DEF Begins, Asking
<1> QED
  BY <1>1, <1>2, <1>3

LEMMA AskParts ==
  ASSUME Typed, AppCallers, NEW r \in mode.readers, StartRefresh(r) \/ HandleEvent(r)
  PROVE  /\ r \in Reader /\ reader[r].at = "idle" /\ MayRead /\ Begins(r)
         /\ UNCHANGED <<mode, kicad, answer, rev, loaded, pending, edit>>
         /\ events' = events \/ (events # <<>> /\ events' = Tail(events))
         /\ \/ store' = store
            \/ /\ loaded /\ events # <<>> /\ events[1].gone /\ events[1].id \in Id
               /\ store' = [store EXCEPT ![events[1].id] = Gone]
<1>0. /\ r \in Reader /\ reader[r] \in ReaderType /\ reader[r].since <= rev /\ rev \in Nat
      /\ reader \in [Reader -> ReaderType] /\ ~mode.eventRevision /\ SyncType
  BY SyncAssumption DEF Typed, DocType, SyncType, AppCallers
<1>2. CASE StartRefresh(r)
  <2>1. Refresh(r, 0) /\ reader[r].at = "idle" /\ MayRead
        /\ UNCHANGED <<mode, kicad, events, answer, store, rev, loaded, pending, edit>>
    BY <1>2 DEF StartRefresh
  <2> QED
    BY <1>0, <2>1, RefreshParts
<1>3. CASE HandleEvent(r)
  <2>1. /\ events # <<>> /\ reader[r].at = "idle" /\ MayRead /\ events' = Tail(events)
        /\ UNCHANGED <<mode, kicad, answer, loaded, pending, edit>>
    BY <1>3 DEF HandleEvent
  <2>2. PICK ev \in EventType : ev = Head(events) /\ ev = events[1]
    BY <2>1, EventParts DEF Typed
  <2>3. CASE Refresh(r, 0) /\ UNCHANGED <<store, rev>>
    BY <1>0, <2>1, <2>3, RefreshParts
  <2>4. CASE /\ loaded /\ ev.gone
             /\ store' = [store EXCEPT ![ev.id] = Gone] /\ SetRevision(0)
             /\ UNCHANGED <<wire, loading, reader>>
    <3>1. rev' = rev
      BY <1>0, <2>4 DEF SetRevision
    <3>2. Begins(r)
      BY <1>0, <2>1, <2>4 DEF Begins, Asking
    <3>3. ev.id \in Id
      BY DEF EventType
    <3> QED
      BY <1>0, <2>1, <2>2, <2>4, <3>1, <3>2, <3>3
  <2>5. CASE /\ Becomes(r, [reader[r] EXCEPT !.at = "ids", !.ids = {ev.id}, !.eventRev = 0])
             /\ Asks(r) /\ UNCHANGED <<store, rev, loading>>
    <3>1. PICK s : s = [reader[r] EXCEPT !.at = "ids", !.ids = {ev.id}, !.eventRev = 0]
      OBVIOUS
    <3>2. s \in ReaderType /\ s.at = "ids" /\ s.since = reader[r].since
      BY <1>0, <3>1 DEF ReaderType, Asking, EventType
    <3>3. Becomes(r, s) /\ wire' = Append(wire, r)
      BY <2>5, <3>1 DEF Asks
    <3>4. Begins(r)
      BY <1>0, <3>2, <3>3, Becoming DEF Begins, Asking
    <3> QED
      BY <1>0, <2>1, <2>5, <3>4
  <2> QED
    BY <1>0, <1>3, <2>2, <2>3, <2>4, <2>5 DEF HandleEvent
<1> QED
  BY <1>2, <1>3

LEMMA FiniteItems ==
  ASSUME IsFiniteSet(Id), NEW S \in SUBSET Id
  PROVE  IsFiniteSet(S) /\ Cardinality(S) \in Nat
BY FS_Subset, FS_CardinalityType

\* The answer meets the call that asked; it ends, or asks again.
LEMMA ReadParts ==
  ASSUME IsFiniteSet(Id), Typed, AppCallers, AnswerInv, NEW r \in mode.readers, ReadSteps(r)
  PROVE  /\ r \in Reader /\ wire # <<>> /\ wire[1] = r /\ answer # NoAnswer /\ answer' = NoAnswer
         /\ reader[r].at \in Asking
         /\ UNCHANGED <<mode, kicad, events, pending, edit>>
         /\ \/ wire' = Tail(wire) /\ reader'[r] = Idle
            \/ AsksAgain(r) /\ reader'[r].at \in Asking /\ rev' = rev
         /\ \A q \in Reader \ {r} : reader'[q] = reader[q] \/ (reader[q].at = "joined" /\ reader'[q] = Idle)
         /\ reader' \in [Reader -> ReaderType] /\ reader'[r].since <= rev
         /\ rev' \in {rev, answer.rev}
<1>0. /\ SyncType /\ r \in Reader /\ reader[r] \in ReaderType /\ reader[r].since <= rev /\ rev \in Nat
      /\ reader \in [Reader -> ReaderType] /\ Idle \in ReaderType /\ Idle.since = 0
      /\ \A q \in Reader : reader[q].eventRev = 0
  BY SyncAssumption DEF Typed, DocType, SyncType, AppCallers, ReaderType, Idle, Asking
<1>1. /\ Answered(r) /\ reader[r].at \in Asking
      /\ UNCHANGED <<mode, kicad, events, pending, edit>>
  <2>1. CASE IdsAnswered(r)
    BY <2>1 DEF IdsAnswered, Asking
  <2>2. CASE CountsAnswered(r)
    BY <2>2 DEF CountsAnswered, Asking, sync
  <2>3. CASE SinceAnswered(r)
    BY <2>3 DEF SinceAnswered, Asking
  <2>4. CASE FullAnswered(r)
    BY <2>4 DEF FullAnswered, Asking
  <2>5. CASE LoadAnswered(r)
    BY <2>5 DEF LoadAnswered, Asking
  <2> QED
    BY <2>1, <2>2, <2>3, <2>4, <2>5 DEF ReadSteps
<1>2. wire # <<>> /\ wire[1] = r /\ answer # NoAnswer /\ answer' = NoAnswer
  BY <1>1, WireParts DEF Answered, Typed
<1>3. /\ answer.ok \in BOOLEAN /\ answer.rev \in Nat /\ rev <= answer.rev
      /\ answer.ok => DOMAIN answer.items \subseteq Id
  BY <1>2 DEF AnswerInv
<1>4. /\ Ends(r) => /\ reader'[r] = Idle /\ reader' \in [Reader -> ReaderType]
                    /\ \A q \in Reader \ {r} : reader'[q] = reader[q]
  BY <1>0 DEF Ends
<1>5. CASE IdsAnswered(r)
  <2>1. rev' = rev
    BY <1>0, <1>5 DEF IdsAnswered, SetRevision
  <2> QED
    BY <1>0, <1>1, <1>2, <1>4, <1>5, <2>1 DEF IdsAnswered, Done
<1>6. CASE CountsAnswered(r)
  <2>1. CASE answer.ok
    <3>1. PICK n \in Nat : n = Cardinality(DOMAIN answer.items)
      BY <1>3, <2>1, FiniteItems
    <3>2. PICK s : s = [reader[r] EXCEPT !.at = "since", !.counts = answer.rev, !.expected = n]
      OBVIOUS
    <3>3. s \in ReaderType /\ s.at \in Asking /\ s.since = reader[r].since
      BY <1>0, <1>3, <3>2 DEF ReaderType, Asking
    <3>4. AsksAgain(r) /\ rev' = rev /\ Becomes(r, s)
      BY <1>6, <2>1, <3>1, <3>2 DEF CountsAnswered, sync
    <3>5. /\ reader' \in [Reader -> ReaderType] /\ reader'[r] = s
          /\ \A q \in Reader \ {r} : reader'[q] = reader[q]
      BY <1>0, <3>3, <3>4, Becoming
    <3> QED
      BY <1>0, <1>1, <1>2, <3>3, <3>4, <3>5
  <2>2. CASE ~answer.ok
    BY <1>0, <1>1, <1>2, <1>4, <1>6, <2>2 DEF CountsAnswered, Done, sync
  <2> QED
    BY <2>1, <2>2
<1>7. CASE SinceAnswered(r)
  <2>1. CASE ~answer.ok /\ Done /\ Ends(r) /\ UNCHANGED <<store, rev>>
    BY <1>0, <1>1, <1>2, <1>4, <2>1 DEF Done
  <2>2. CASE /\ answer.ok /\ Moved(r) /\ AsksAgain(r) /\ UNCHANGED <<store, rev>>
             /\ IF reader[r].tries = 0 THEN Becomes(r, [reader[r] EXCEPT !.at = "counts", !.tries = 1])
                ELSE Becomes(r, [reader[r] EXCEPT !.at = "full"])
    <3>1. PICK s : s = IF reader[r].tries = 0 THEN [reader[r] EXCEPT !.at = "counts", !.tries = 1]
                       ELSE [reader[r] EXCEPT !.at = "full"]
      OBVIOUS
    <3>2. s \in ReaderType /\ s.at \in Asking /\ s.since = reader[r].since
      BY <1>0, <3>1 DEF ReaderType, Asking
    <3>3. Becomes(r, s) /\ AsksAgain(r) /\ rev' = rev
      BY <2>2, <3>1
    <3>4. /\ reader' \in [Reader -> ReaderType] /\ reader'[r] = s
          /\ \A q \in Reader \ {r} : reader'[q] = reader[q]
      BY <1>0, <3>2, <3>3, Becoming
    <3> QED
      BY <1>0, <1>1, <1>2, <3>2, <3>3, <3>4
  <2>3. CASE /\ Done /\ Ends(r)
             /\ SetRevision(IF answer.rev > reader[r].eventRev THEN answer.rev ELSE reader[r].eventRev)
    <3>1. rev' \in {rev, answer.rev}
      BY <1>0, <1>3, <2>3 DEF SetRevision
    <3> QED
      BY <1>0, <1>1, <1>2, <1>4, <2>3, <3>1 DEF Done
  <2> QED
    BY <1>7, <2>1, <2>2, <2>3 DEF SinceAnswered
<1>8. CASE FullAnswered(r)
  <2>1. rev' \in {rev, answer.rev}
    BY <1>0, <1>3, <1>8 DEF FullAnswered, SetRevision
  <2> QED
    BY <1>0, <1>1, <1>2, <1>4, <1>8, <2>1 DEF FullAnswered, Done
<1>9. CASE LoadAnswered(r)
  <2>1. rev' \in {rev, answer.rev}
    <3>1. CASE ~answer.ok
      BY <1>9, <3>1 DEF LoadAnswered
    <3>2. CASE answer.ok
      <4>1. PICK V : V = {rev, answer.rev} \union {reader[q].eventRev : q \in Together(r)}
        OBVIOUS
      <4>2. V \subseteq {rev, answer.rev, 0} /\ answer.rev \in V
        BY <1>0, <4>1 DEF Together
      <4>3. rev' = CHOOSE v \in V : \A w \in V : v >= w
        BY <1>9, <3>2, <4>1 DEF LoadAnswered
      <4>4. \A w \in V : answer.rev >= w
        BY <1>0, <1>3, <4>2
      <4>5. rev' \in V /\ \A w \in V : rev' >= w
        BY <4>2, <4>3, <4>4
      <4>6. rev' = answer.rev
        BY <1>0, <1>3, <4>2, <4>4, <4>5
      <4> QED
        BY <4>6
    <3> QED
      BY <1>3, <3>1, <3>2
  <2>2. reader' = [q \in Reader |-> IF q \in Together(r) THEN Idle ELSE reader[q]]
    BY <1>9 DEF LoadAnswered
  <2>3. reader'[r] = Idle /\ reader' \in [Reader -> ReaderType]
    BY <1>0, <2>2 DEF Together
  <2>4. \A q \in Reader \ {r} : reader'[q] = reader[q] \/ (reader[q].at = "joined" /\ reader'[q] = Idle)
    BY <1>0, <2>2 DEF Together
  <2> QED
    BY <1>0, <1>1, <1>2, <1>9, <2>1, <2>3, <2>4 DEF LoadAnswered, Done
<1> QED
  BY <1>5, <1>6, <1>7, <1>8, <1>9 DEF ReadSteps

\* What a read leaves in the store: what was there, what the answer has, or nothing.
LEMMA ReadFills ==
  ASSUME Typed, AnswerInv, NEW r \in mode.readers, ReadSteps(r), wire[1] = r, answer # NoAnswer
  PROVE  /\ store' \in [Id -> Nat \union Edit]
         /\ \A i \in Id : \/ store'[i] = store[i]
                          \/ store'[i] = Gone
                          \/ answer.ok /\ i \in DOMAIN answer.items /\ store'[i] = answer.items[i]
         /\ loaded' \in BOOLEAN /\ (loaded => loaded')
<1>0. store \in [Id -> Nat \union Edit] /\ loaded \in BOOLEAN /\ Gone \in Nat
  BY DEF Typed, SyncType, Gone
<1>1. answer.ok => \A i \in DOMAIN answer.items : answer.items[i] \in Nat
  BY DEF AnswerInv
<1>2. ASSUME NEW removed, answer.ok, Merge(removed) \/ ReplaceAll
      PROVE  /\ store' \in [Id -> Nat \union Edit]
             /\ \A i \in Id : \/ store'[i] = store[i] \/ store'[i] = Gone
                              \/ i \in DOMAIN answer.items /\ store'[i] = answer.items[i]
  <2>1. CASE Merge(removed)
    BY <1>0, <1>1, <1>2, <2>1 DEF Merge
  <2>2. CASE ReplaceAll
    BY <1>0, <1>1, <1>2, <2>2 DEF ReplaceAll
  <2> QED
    BY <1>2, <2>1, <2>2
<1>3. CASE IdsAnswered(r)
  <2>1. loaded' = loaded /\ (store' = store \/ (answer.ok /\ Merge(reader[r].ids)))
    BY <1>3 DEF IdsAnswered
  <2> QED
    BY <1>0, <1>2, <2>1
<1>4. CASE CountsAnswered(r)
  BY <1>0, <1>4 DEF CountsAnswered, sync
<1>5. CASE SinceAnswered(r)
  <2>1. loaded' = loaded /\ (store' = store \/ (answer.ok /\ (ReplaceAll \/ Merge(answer.gone))))
    BY <1>5 DEF SinceAnswered
  <2> QED
    BY <1>0, <1>2, <2>1
<1>6. CASE FullAnswered(r)
  <2>1. loaded' = loaded /\ (store' = store \/ (answer.ok /\ ReplaceAll))
    BY <1>6 DEF FullAnswered
  <2> QED
    BY <1>0, <1>2, <2>1
<1>7. CASE LoadAnswered(r)
  <2>1. CASE answer.ok
    BY <1>0, <1>2, <1>7, <2>1 DEF LoadAnswered
  <2>2. CASE ~answer.ok
    BY <1>0, <1>7, <2>2 DEF LoadAnswered
  <2> QED
    BY <2>1, <2>2
<1> QED
  BY <1>3, <1>4, <1>5, <1>6, <1>7 DEF ReadSteps

\* What an edit does when it starts, and when it is answered.
Shows(e, k, i) ==
  /\ k = "create" => store[i] = Gone /\ Fresh(i)
  /\ k # "create" => store[i] # Gone
  /\ edit' \in [Edit -> EditType] /\ edit'[e] = [at |-> "sent", kind |-> k, id |-> i]
  /\ \A f \in Edit \ {e} : edit'[f] = edit[f]
  /\ loaded => Remember(<<k, i>>, store[i]) /\ store' = [store EXCEPT ![i] = IF k = "delete" THEN Gone ELSE e]
  /\ ~loaded => UNCHANGED <<pending, store>>

LEMMA StartParts ==
  ASSUME Typed, NEW e \in mode.edits, StartEdit(e)
  PROVE  /\ e \in Edit /\ edit[e].at = "new" /\ wire' = Append(wire, e)
         /\ ~mode.overlap => InFlight = {} /\ Busy = {}
         /\ UNCHANGED <<mode, kicad, events, answer, rev, loaded, reader>>
         /\ \E k \in Kind, i \in Id : Shows(e, k, i)
<1>1. e \in Edit /\ mode.ids \subseteq Id /\ edit \in [Edit -> EditType]
  BY SyncAssumption DEF Typed, DocType, SyncType
<1>2. /\ edit[e].at = "new" /\ wire' = Append(wire, e)
      /\ ~mode.overlap => InFlight = {} /\ Busy = {}
      /\ UNCHANGED <<mode, kicad, events, answer, rev, loaded, reader>>
  BY DEF StartEdit
<1>3. PICK k \in Kind, i \in Id :
        /\ IF k = "create" THEN store[i] = Gone /\ Fresh(i) ELSE store[i] # Gone
        /\ edit' = [edit EXCEPT ![e] = [at |-> "sent", kind |-> k, id |-> i]]
        /\ IF loaded THEN /\ Remember(<<k, i>>, store[i])
                          /\ store' = [store EXCEPT ![i] = IF k = "delete" THEN Gone ELSE e]
           ELSE UNCHANGED <<pending, store>>
  BY <1>1 DEF StartEdit
<1>4. PICK s : s = [at |-> "sent", kind |-> k, id |-> i]
  OBVIOUS
<1>5. s \in EditType
  BY <1>4 DEF EditType
<1>6. edit' = [edit EXCEPT ![e] = s]
  BY <1>3, <1>4
<1>7. edit' \in [Edit -> EditType] /\ edit'[e] = s /\ \A f \in Edit \ {e} : edit'[f] = edit[f]
  BY <1>1, <1>5, <1>6
<1>8. Shows(e, k, i)
  BY <1>3, <1>4, <1>7 DEF Shows
<1> QED
  BY <1>1, <1>2, <1>8

LEMMA EndParts ==
  ASSUME Typed, NEW e \in mode.edits, EditAnswered(e)
  PROVE  /\ e \in InFlight /\ edit[e].id \in Id /\ wire # <<>> /\ wire[1] = e
         /\ answer # NoAnswer /\ answer' = NoAnswer /\ wire' = Tail(wire)
         /\ UNCHANGED <<mode, kicad, events, rev, loaded, reader>>
         /\ edit' \in [Edit -> EditType] /\ edit'[e].at = "done"
         /\ \A f \in Edit \ {e} : edit'[f] = edit[f]
         /\ edit'[e].kind = edit[e].kind
         /\ loaded => Forget(e) /\ store' = IF answer.ok THEN Applied(e) ELSE RolledBack(e)
         /\ ~loaded => UNCHANGED <<pending, store>>
<1>1. e \in Edit /\ edit \in [Edit -> EditType]
  BY SyncAssumption DEF Typed, DocType, SyncType
<1>2. /\ wire # <<>> /\ Head(wire) = e /\ answer # NoAnswer /\ answer' = NoAnswer /\ wire' = Tail(wire)
      /\ UNCHANGED <<mode, kicad, events, rev, loaded, reader>>
      /\ loaded => Forget(e) /\ store' = IF answer.ok THEN Applied(e) ELSE RolledBack(e)
      /\ ~loaded => UNCHANGED <<pending, store>>
  BY DEF EditAnswered, Answered, Done
<1>3. wire[1] = e /\ 1 \in DOMAIN wire
  BY <1>2, WireParts DEF Typed
<1>4. e \in InFlight /\ edit[e].id \in Id
  BY <1>1, <1>3 DEF Typed, WireInv, InFlight, SyncType
<1>5. edit' = [edit EXCEPT ![e].at = "done"]
  BY DEF EditAnswered
<1>6. PICK s : s = [edit[e] EXCEPT !.at = "done"]
  OBVIOUS
<1>7. s \in EditType /\ s.at = "done" /\ s.kind = edit[e].kind
  BY <1>1, <1>6 DEF EditType
<1>8. edit' = [edit EXCEPT ![e] = s]
  BY <1>1, <1>5, <1>6
<1>9. edit' \in [Edit -> EditType] /\ edit'[e] = s /\ \A f \in Edit \ {e} : edit'[f] = edit[f]
  BY <1>1, <1>7, <1>8
<1> QED
  BY <1>1, <1>2, <1>3, <1>4, <1>7, <1>9

-----------------------------------------------------------------------------
(* Types, and the queue. *)

LEMMA SyncTypeStep ==
  ASSUME IsFiniteSet(Id), Typed, AppCallers, AnswerInv, [Next]_vars
  PROVE  SyncType'
<1>0. DocType' /\ docRev <= docRev' /\ docRev \in Nat /\ docRev' \in Nat
  BY DocTypeStep DEF Typed, DocType
<1>1. ASSUME UNCHANGED <<sync, edit, reader>> PROVE SyncType'
  BY <1>0, <1>1 DEF Typed, SyncType, InFlight, sync
<1>2. ASSUME NEW e \in mode.edits, StartEdit(e) PROVE SyncType'
  <2>1. /\ e \in Edit /\ UNCHANGED <<mode, kicad, events, answer, rev, loaded, reader>>
    BY <1>2, StartParts
  <2>0. PICK k \in Kind, i \in Id : Shows(e, k, i)
    BY <1>2, StartParts
  <2>2. /\ edit' \in [Edit -> EditType] /\ edit'[e] = [at |-> "sent", kind |-> k, id |-> i]
        /\ \A f \in Edit \ {e} : edit'[f] = edit[f]
        /\ loaded => /\ Remember(<<k, i>>, store[i])
                     /\ store' = [store EXCEPT ![i] = IF k = "delete" THEN Gone ELSE e]
        /\ ~loaded => UNCHANGED <<pending, store>>
    BY <2>0 DEF Shows
  <2>3. store' \in [Id -> Nat \union Edit] /\ \A x \in DOMAIN pending' : pending'[x] \in Nat \union Edit
    <3>1. store \in [Id -> Nat \union Edit] /\ Gone \in Nat /\ \A x \in DOMAIN pending : pending[x] \in Nat \union Edit
      BY DEF Typed, SyncType, Gone
    <3> QED
      BY <2>1, <2>2, <3>1 DEF Remember
  <2>4. \A f \in InFlight' : edit'[f].kind \in Kind /\ edit'[f].id \in Id
    BY <2>2 DEF Typed, SyncType, InFlight
  <2>5. \A f \in Edit : edit'[f].at = "new" => edit'[f].kind = "none"
    BY <2>2 DEF Typed, SyncType
  <2> QED
    BY <1>0, <2>1, <2>2, <2>3, <2>4, <2>5 DEF Typed, SyncType, kicad
<1>3. ASSUME NEW e \in mode.edits, EditAnswered(e) PROVE SyncType'
  <2>1. /\ e \in InFlight /\ edit[e].id \in Id /\ wire[1] = e /\ answer # NoAnswer
        /\ UNCHANGED <<mode, kicad, events, rev, loaded, reader>>
        /\ edit' \in [Edit -> EditType] /\ edit'[e].at = "done" /\ \A f \in Edit \ {e} : edit'[f] = edit[f]
        /\ loaded => Forget(e) /\ store' = IF answer.ok THEN Applied(e) ELSE RolledBack(e)
        /\ ~loaded => UNCHANGED <<pending, store>>
    BY <1>3, EndParts
  <2>2. e \in Edit
    BY <2>1 DEF InFlight
  <2>3. store \in [Id -> Nat \union Edit] /\ \A x \in DOMAIN pending : pending[x] \in Nat \union Edit
    BY DEF Typed, SyncType
  <2>4. store' \in [Id -> Nat \union Edit]
    <3>1. CASE loaded /\ answer.ok
      <4>1. answer.items[edit[e].id] \in Nat
        BY <2>1, <2>2, <3>1 DEF AnswerInv
      <4> QED
        BY <2>1, <2>3, <3>1, <4>1 DEF Applied
    <3>2. CASE loaded /\ ~answer.ok
      BY <2>1, <2>3, <3>2 DEF RolledBack
    <3>3. CASE ~loaded
      BY <2>1, <2>3, <3>3
    <3> QED
      BY <3>1, <3>2, <3>3
  <2>5. \A x \in DOMAIN pending' : pending'[x] \in Nat \union Edit
    BY <2>1, <2>3 DEF Forget
  <2>6. \A f \in InFlight' : edit'[f].kind \in Kind /\ edit'[f].id \in Id
    BY <2>1 DEF Typed, SyncType, InFlight
  <2>7. \A f \in Edit : edit'[f].at = "new" => edit'[f].kind = "none"
    BY <2>1 DEF Typed, SyncType
  <2> QED
    BY <1>0, <2>1, <2>4, <2>5, <2>6, <2>7 DEF Typed, SyncType, kicad
<1>4. ASSUME NEW r \in mode.readers, StartRefresh(r) \/ HandleEvent(r) PROVE SyncType'
  <2>1. /\ r \in Reader /\ Begins(r)
        /\ UNCHANGED <<mode, kicad, answer, rev, loaded, pending, edit>>
        /\ \/ store' = store
           \/ events[1].id \in Id /\ store' = [store EXCEPT ![events[1].id] = Gone]
    BY <1>4, AskParts
  <2>2. store' \in [Id -> Nat \union Edit]
    BY <2>1 DEF Typed, SyncType, Gone
  <2>3. reader' \in [Reader -> ReaderType] /\ \A q \in Reader : reader'[q].since <= rev
    BY <2>1 DEF Begins, Typed, SyncType
  <2> QED
    BY <1>0, <2>1, <2>2, <2>3 DEF Typed, SyncType, InFlight, kicad
<1>5. ASSUME NEW r \in mode.readers, ReadSteps(r) PROVE SyncType'
  <2>1. /\ r \in Reader /\ wire # <<>> /\ wire[1] = r /\ answer # NoAnswer
        /\ UNCHANGED <<mode, kicad, events, pending, edit>>
        /\ \A q \in Reader \ {r} : reader'[q] = reader[q] \/ reader'[q] = Idle
        /\ reader' \in [Reader -> ReaderType] /\ reader'[r].since <= rev
        /\ rev' \in {rev, answer.rev}
    BY <1>5, ReadParts
  <2>2. store' \in [Id -> Nat \union Edit] /\ loaded' \in BOOLEAN
    BY <1>5, <2>1, ReadFills
  <2>3. rev \in Nat /\ rev <= rev' /\ rev' \in Nat /\ rev' <= docRev
    BY <2>1 DEF Typed, SyncType, AnswerInv
  <2>4. \A q \in Reader : reader'[q].since <= rev'
    <3>1. \A q \in Reader : reader'[q].since <= rev
      BY <2>1, <2>3 DEF Typed, SyncType, Idle
    <3>2. \A q \in Reader : reader'[q].since \in Nat
      BY <2>1 DEF ReaderType
    <3> QED
      BY <2>3, <3>1, <3>2
  <2> QED
    BY <2>1, <2>2, <2>3, <2>4 DEF Typed, SyncType, InFlight, kicad
<1>6. ForeignChange \/ LoseEvent \/ Serve \/ UNCHANGED vars => UNCHANGED <<sync, edit, reader>>
  BY DEF ForeignChange, LoseEvent, Serve, vars, sync
<1> QED
  BY <1>1, <1>2, <1>3, <1>4, <1>5, <1>6 DEF Next

LEMMA SeqTypeStep ==
  ASSUME IsFiniteSet(Id), Typed, AppCallers, AnswerInv, [Next]_vars
  PROVE  SeqType'
<1>0. events \in Seq(EventType) /\ wire \in Seq(Edit \union Reader) /\ SeqType
  BY DEF Typed, SeqType
<1>1. events # <<>> => Tail(events) \in Seq(EventType)
  BY <1>0, EventParts
<1>2. CASE ForeignChange
  <2>1. PICK i \in mode.ids, gone \in BOOLEAN :
           events' = Append(events, [id |-> i, gone |-> gone, rev |-> docRev + 1])
    BY <1>2 DEF ForeignChange
  <2>2. mode.ids \subseteq Id /\ docRev + 1 \in Nat
    BY SyncAssumption DEF Typed, DocType
  <2>3. [id |-> i, gone |-> gone, rev |-> docRev + 1] \in EventType
    BY <2>1, <2>2 DEF EventType
  <2>4. events' \in Seq(EventType)
    BY <1>0, <2>1, <2>3, AppendProperties
  <2> QED
    BY <1>0, <1>2, <2>4 DEF ForeignChange, SeqType
<1>3. CASE LoseEvent
  BY <1>0, <1>1, <1>3 DEF LoseEvent, SeqType
<1>4. CASE Serve
  BY <1>0, <1>4 DEF Serve, SeqType
<1>5. ASSUME NEW e \in mode.edits, StartEdit(e) PROVE SeqType'
  <2>1. e \in Edit /\ wire' = Append(wire, e) /\ events' = events
    BY <1>5, StartParts
  <2> QED
    BY <1>0, <2>1, WireGrows DEF SeqType
<1>6. ASSUME NEW e \in mode.edits, EditAnswered(e) PROVE SeqType'
  <2>1. wire # <<>> /\ wire' = Tail(wire) /\ events' = events
    BY <1>6, EndParts
  <2> QED
    BY <1>0, <2>1, WireShrinks DEF SeqType
<1>7. ASSUME NEW r \in mode.readers, StartRefresh(r) \/ HandleEvent(r) PROVE SeqType'
  <2>1. /\ r \in Reader /\ Begins(r) /\ (events' = events \/ (events # <<>> /\ events' = Tail(events)))
    BY <1>7, AskParts
  <2>2. wire' = wire \/ wire' = Append(wire, r)
    BY <2>1 DEF Begins
  <2>3. wire' \in Seq(Edit \union Reader)
    BY <1>0, <2>1, <2>2, WireGrows
  <2> QED
    BY <1>0, <1>1, <2>1, <2>3 DEF SeqType
<1>8. ASSUME NEW r \in mode.readers, ReadSteps(r) PROVE SeqType'
  <2>1. /\ r \in Reader /\ wire # <<>> /\ events' = events /\ (wire' = Tail(wire) \/ AsksAgain(r))
    BY <1>8, ReadParts
  <2>2. wire' \in Seq(Edit \union Reader)
    BY <1>0, <2>1, WireShrinks, WireTurns
  <2> QED
    BY <1>0, <2>1, <2>2 DEF SeqType
<1>9. CASE UNCHANGED vars
  BY <1>0, <1>9 DEF vars, SeqType
<1> QED
  BY <1>2, <1>3, <1>4, <1>5, <1>6, <1>7, <1>8, <1>9 DEF Next

\* While an answer waits, what is asked besides does not come first.
LEMMA FirstStays ==
  ASSUME Typed, NEW w \in Edit \union Reader, wire' = wire \/ wire' = Append(wire, w), answer # NoAnswer
  PROVE  wire # <<>> /\ wire' # <<>> /\ wire'[1] = wire[1] /\ 1 \in DOMAIN wire
<1>1. SeqType /\ wire # <<>> /\ 1 \in DOMAIN wire
  BY WireParts DEF Typed, WireInv
<1>2. CASE wire' = Append(wire, w)
  <2>1. PICK n \in Nat : DOMAIN wire = 1..n /\ \A k \in 1..n : wire'[k] = wire[k]
    BY <1>1, <1>2, WireGrows
  <2>2. wire' # <<>>
    BY <1>1, <1>2, WireGrows
  <2> QED
    BY <1>1, <2>1, <2>2
<1> QED
  BY <1>1, <1>2

\* Who has not asked yet is not in the queue.
LEMMA NotYet ==
  ASSUME Typed, NEW k \in DOMAIN wire
  PROVE  /\ \A e \in Edit : edit[e].at = "new" => wire[k] # e
         /\ \A r \in Reader : reader[r].at = "idle" => wire[k] # r
         /\ wire[k] \in Edit => wire[k] \in InFlight /\ wire[k] \notin Reader
BY SyncAssumption DEF Typed, WireInv, Asking, InFlight

\* A request joins the queue at its end, or the first one leaves it or asks again.
LEMMA WireJoins ==
  ASSUME SeqType, WireInv, NEW w \in Edit \union Reader, wire' = Append(wire, w),
         \A k \in DOMAIN wire : wire[k] # w,
         \A e \in Edit \ {w} : edit'[e] = edit[e], \A r \in Reader \ {w} : reader'[r] = reader[r],
         w \in Edit => edit'[w].at = "sent", w \in Reader => reader'[w].at \in Asking
  PROVE  WireInv'
<1>1. PICK n \in Nat : /\ DOMAIN wire = 1..n /\ DOMAIN wire' = 1..(n + 1)
                       /\ \A k \in 1..n : wire'[k] = wire[k]
                       /\ wire'[n + 1] = w
  BY WireGrows
<1>2. wire' # <<>>
  BY WireGrows
<1>3. \A k \in DOMAIN wire' : k \in 1..n \/ k = n + 1
  BY <1>1
<1>4. \A j, k \in DOMAIN wire' : wire'[j] = wire'[k] => j = k
  BY <1>1, <1>3 DEF WireInv
<1>5. \A k \in DOMAIN wire' : wire'[k] \in Edit => edit'[wire'[k]].at = "sent"
  BY <1>1, <1>3 DEF WireInv
<1>6. \A k \in DOMAIN wire' : wire'[k] \in Reader => reader'[wire'[k]].at \in Asking
  BY <1>1, <1>3 DEF WireInv
<1> QED
  BY <1>2, <1>4, <1>5, <1>6 DEF WireInv

LEMMA WireLeaves ==
  ASSUME SeqType, WireInv, wire # <<>>, NEW w \in Edit \union Reader, wire[1] = w, answer' = NoAnswer,
         \A e \in Edit \ {w} : edit'[e] = edit[e],
         \A r \in Reader \ {w} : reader'[r] = reader[r] \/ reader[r].at \notin Asking,
         \/ wire' = Tail(wire)
         \/ AsksAgain(w) /\ (w \in Edit => edit'[w].at = "sent") /\ (w \in Reader => reader'[w].at \in Asking)
  PROVE  WireInv'
<1>1. PICK n \in Nat : /\ DOMAIN wire = 1..(n + 1) /\ \A k \in 1..n : wire'[k] = wire[k + 1]
                       /\ \/ DOMAIN wire' = 1..n
                          \/ /\ DOMAIN wire' = 1..(n + 1) /\ wire'[n + 1] = w
                             /\ w \in Edit => edit'[w].at = "sent"
                             /\ w \in Reader => reader'[w].at \in Asking
  BY WireShrinks, WireTurns
<1>2. \A k \in 1..n : k + 1 \in DOMAIN wire /\ wire[k + 1] # w
  <2>1. \A k \in 1..n : k + 1 \in DOMAIN wire /\ k + 1 # 1 /\ 1 \in DOMAIN wire
    BY <1>1
  <2> QED
    BY <2>1 DEF WireInv
<1>3. \A k \in DOMAIN wire' : k \in 1..n \/ (k = n + 1 /\ wire'[k] = w)
  BY <1>1
<1>4. \A j, k \in DOMAIN wire' : wire'[j] = wire'[k] => j = k
  <2>1. \A j, k \in 1..n : wire'[j] = wire'[k] => j = k
    <3>1. ASSUME NEW j \in 1..n, NEW k \in 1..n, wire[j + 1] = wire[k + 1] PROVE j = k
      <4>1. PICK a \in DOMAIN wire, b \in DOMAIN wire : a = j + 1 /\ b = k + 1
        BY <1>2
      <4>2. a = b
        BY <3>1, <4>1 DEF WireInv
      <4> QED
        BY <4>1, <4>2
    <3> QED
      BY <1>1, <3>1
  <2>2. \A k \in 1..n : wire'[k] # w
    BY <1>1, <1>2
  <2> QED
    BY <1>3, <2>1, <2>2
<1>5. \A k \in DOMAIN wire' : wire'[k] \in Edit => edit'[wire'[k]].at = "sent"
  <2>1. \A k \in 1..n : wire[k + 1] \in Edit => edit[wire[k + 1]].at = "sent"
    BY <1>2 DEF WireInv
  <2>2. \A k \in 1..n : wire[k + 1] \in Edit => edit'[wire[k + 1]] = edit[wire[k + 1]]
    BY <1>2
  <2>3. \A k \in 1..n : wire'[k] \in Edit => edit'[wire'[k]].at = "sent"
    BY <1>1, <2>1, <2>2
  <2> QED
    BY <1>1, <1>3, <2>3
<1>6. \A k \in DOMAIN wire' : wire'[k] \in Reader => reader'[wire'[k]].at \in Asking
  <2>1. \A k \in 1..n : wire[k + 1] \in Reader => reader[wire[k + 1]].at \in Asking
    BY <1>2 DEF WireInv
  <2>2. \A k \in 1..n : wire[k + 1] \in Reader => reader'[wire[k + 1]] = reader[wire[k + 1]]
    BY <1>2, <2>1
  <2>3. \A k \in 1..n : wire'[k] \in Reader => reader'[wire'[k]].at \in Asking
    BY <1>1, <2>1, <2>2
  <2> QED
    BY <1>1, <1>3, <2>3
<1> QED
  BY <1>4, <1>5, <1>6 DEF WireInv

LEMMA WireInvStep ==
  ASSUME IsFiniteSet(Id), Typed, AppCallers, AnswerInv, [Next]_vars
  PROVE  WireInv'
<1>0. SeqType /\ WireInv /\ Edit \intersect Reader = {} /\ \A k \in DOMAIN wire : wire[k] \in Edit \union Reader
  BY SyncAssumption, WireParts DEF Typed
<1>1. ASSUME UNCHANGED <<wire, edit, reader>>, answer' = answer \/ wire # <<>> PROVE WireInv'
  BY <1>0, <1>1 DEF WireInv
<1>2. ForeignChange \/ LoseEvent \/ Serve \/ UNCHANGED vars =>
        UNCHANGED <<wire, edit, reader>> /\ (answer' = answer \/ wire # <<>>)
  BY DEF ForeignChange, LoseEvent, Serve, vars
<1>3. ASSUME NEW e \in mode.edits, StartEdit(e) PROVE WireInv'
  <2>1. /\ e \in Edit /\ edit[e].at = "new" /\ wire' = Append(wire, e) /\ reader' = reader
        /\ \E k \in Kind, i \in Id : Shows(e, k, i)
    BY <1>3, StartParts
  <2>2. edit'[e].at = "sent" /\ \A f \in Edit \ {e} : edit'[f] = edit[f]
    BY <2>1 DEF Shows
  <2>3. \A k \in DOMAIN wire : wire[k] # e
    BY <2>1, NotYet
  <2> QED
    BY <1>0, <2>1, <2>2, <2>3, WireJoins
<1>4. ASSUME NEW e \in mode.edits, EditAnswered(e) PROVE WireInv'
  <2>1. /\ e \in Edit /\ wire # <<>> /\ wire[1] = e /\ answer' = NoAnswer /\ wire' = Tail(wire) /\ reader' = reader
        /\ \A f \in Edit \ {e} : edit'[f] = edit[f]
    BY <1>4, EndParts DEF InFlight
  <2> QED
    BY <1>0, <2>1, WireLeaves
<1>5. ASSUME NEW r \in mode.readers, StartRefresh(r) \/ HandleEvent(r) PROVE WireInv'
  <2>1. r \in Reader /\ reader[r].at = "idle" /\ Begins(r) /\ UNCHANGED <<answer, edit>>
    BY <1>5, AskParts
  <2>2. \A k \in DOMAIN wire : wire[k] # r
    BY <2>1, NotYet
  <2>3. CASE wire' = wire
    BY <1>0, <2>1, <2>2, <2>3 DEF WireInv, Begins
  <2>4. CASE wire' = Append(wire, r) /\ reader'[r].at \in Asking
    BY <1>0, <2>1, <2>2, <2>4, WireJoins DEF Begins
  <2> QED
    BY <2>1, <2>3, <2>4 DEF Begins
<1>6. ASSUME NEW r \in mode.readers, ReadSteps(r) PROVE WireInv'
  <2>1. /\ r \in Reader /\ wire # <<>> /\ wire[1] = r /\ answer' = NoAnswer /\ edit' = edit
        /\ \/ wire' = Tail(wire)
           \/ AsksAgain(r) /\ reader'[r].at \in Asking
        /\ \A q \in Reader \ {r} : reader'[q] = reader[q] \/ reader[q].at = "joined"
    BY <1>6, ReadParts
  <2>2. r \notin Edit /\ "joined" \notin Asking
    BY <1>0, <2>1 DEF Asking
  <2> QED
    BY <1>0, <2>1, <2>2, WireLeaves
<1> QED
  BY <1>1, <1>2, <1>3, <1>4, <1>5, <1>6 DEF Next

LEMMA TypedStep ==
  ASSUME IsFiniteSet(Id), Typed, AppCallers, AnswerInv, [Next]_vars
  PROVE  Typed'
BY DocTypeStep, SyncTypeStep, SeqTypeStep, WireInvStep DEF Typed

-----------------------------------------------------------------------------
(* Turns, and fresh ids. *)

LEMMA TurnsInvStep ==
  ASSUME IsFiniteSet(Id), Typed, AppCallers, AnswerInv, TurnsInv, [Next]_vars
  PROVE  TurnsInv'
<1>1. ASSUME UNCHANGED <<mode, edit, reader>> PROVE TurnsInv'
  BY <1>1 DEF TurnsInv, InFlight, Busy
<1>2. ForeignChange \/ LoseEvent \/ Serve \/ UNCHANGED vars => UNCHANGED <<mode, edit, reader>>
  BY DEF ForeignChange, LoseEvent, Serve, vars
<1>3. ASSUME NEW e \in mode.edits, StartEdit(e) PROVE TurnsInv'
  <2>1. /\ e \in Edit /\ (~mode.overlap => InFlight = {} /\ Busy = {}) /\ reader' = reader /\ mode' = mode
        /\ \E k \in Kind, i \in Id : Shows(e, k, i)
    BY <1>3, StartParts
  <2>2. \A f \in Edit \ {e} : edit'[f] = edit[f]
    BY <2>1 DEF Shows
  <2> QED
    BY <2>1, <2>2 DEF TurnsInv, InFlight, Busy
<1>4. ASSUME NEW e \in mode.edits, EditAnswered(e) PROVE TurnsInv'
  <2>1. /\ e \in InFlight /\ reader' = reader /\ mode' = mode /\ edit'[e].at = "done"
        /\ \A f \in Edit \ {e} : edit'[f] = edit[f]
    BY <1>4, EndParts
  <2> QED
    BY <2>1 DEF TurnsInv, InFlight, Busy
<1>5. ASSUME NEW r \in mode.readers, StartRefresh(r) \/ HandleEvent(r) PROVE TurnsInv'
  <2>1. MayRead /\ UNCHANGED <<mode, edit>>
    BY <1>5, AskParts
  <2> QED
    BY <2>1 DEF TurnsInv, InFlight, MayRead
<1>6. ASSUME NEW r \in mode.readers, ReadSteps(r) PROVE TurnsInv'
  <2>1. r \in Reader /\ reader[r].at \in Asking /\ UNCHANGED <<mode, edit>>
    BY <1>6, ReadParts
  <2>2. r \in Busy
    BY <2>1 DEF Busy, Asking
  <2> QED
    BY <2>1, <2>2 DEF TurnsInv, InFlight
<1> QED
  BY <1>1, <1>2, <1>3, <1>4, <1>5, <1>6 DEF Next

\* A new event names an item deleted just now, or one that is there.
LEMMA ForeignParts ==
  ASSUME Typed, ForeignChange
  PROVE  /\ UNCHANGED <<mode, wire, answer, sync, edit, reader>>
         /\ \E i \in Id, gone \in BOOLEAN :
              /\ Write(i, gone) /\ (gone => doc[i] # Gone /\ mode.foreignDeletes)
              /\ (~gone => doc[i] # Gone \/ Fresh(i))
              /\ \A n \in DOMAIN events' : \/ n \in DOMAIN events /\ events'[n] = events[n]
                                           \/ events'[n] = [id |-> i, gone |-> gone, rev |-> docRev + 1]
<1>1. events \in Seq(EventType) /\ mode.ids \subseteq Id /\ docRev + 1 \in Nat
  BY SyncAssumption DEF Typed, SeqType, DocType
<1>2. PICK i \in mode.ids, gone \in BOOLEAN :
        /\ IF gone THEN doc[i] # Gone /\ mode.foreignDeletes ELSE doc[i] # Gone \/ Fresh(i)
        /\ Write(i, gone)
        /\ events' = Append(events, [id |-> i, gone |-> gone, rev |-> docRev + 1])
  BY DEF ForeignChange
<1>3. PICK ev : ev = [id |-> i, gone |-> gone, rev |-> docRev + 1]
  OBVIOUS
<1>4. ev \in EventType
  BY <1>1, <1>3 DEF EventType
<1>5. \A n \in DOMAIN events' : (n \in DOMAIN events /\ events'[n] = events[n]) \/ events'[n] = ev
  <2>1. events' = Append(events, ev)
    BY <1>2, <1>3
  <2>2. /\ Append(events, ev) \in Seq(EventType) /\ Len(Append(events, ev)) = Len(events) + 1
        /\ \A n \in 1..Len(events) : Append(events, ev)[n] = events[n]
        /\ Append(events, ev)[Len(events) + 1] = ev
    BY <1>1, <1>4, AppendProperties
  <2>3. Len(events) \in Nat /\ DOMAIN events = 1..Len(events)
        /\ DOMAIN Append(events, ev) = 1..(Len(events) + 1)
    BY <1>1, <2>2, LenProperties
  <2> QED
    BY <2>1, <2>2, <2>3
<1> QED
  BY <1>1, <1>2, <1>3, <1>5 DEF ForeignChange

\* Every other step only takes events away.
LEMMA EventsShrink ==
  ASSUME IsFiniteSet(Id), Typed, AppCallers, AnswerInv, [Next]_vars, ~ForeignChange
  PROVE  \A n \in DOMAIN events' : \E m \in DOMAIN events : events'[n] = events[m]
<1>1. events # <<>> /\ events' = Tail(events) =>
        \A n \in DOMAIN events' : \E m \in DOMAIN events : events'[n] = events[m]
  BY EventParts DEF Typed
<1>2. LoseEvent => events # <<>> /\ events' = Tail(events)
  BY DEF LoseEvent
<1>3. Serve \/ UNCHANGED vars => events' = events
  BY DEF Serve, vars
<1>4. ASSUME NEW e \in mode.edits, StartEdit(e) \/ EditAnswered(e) PROVE events' = events
  BY <1>4 DEF StartEdit, EditAnswered
<1>5. ASSUME NEW r \in mode.readers, StartRefresh(r) \/ HandleEvent(r)
      PROVE  events' = events \/ (events # <<>> /\ events' = Tail(events))
  BY <1>5, AskParts
<1>6. ASSUME NEW r \in mode.readers, ReadSteps(r) PROVE events' = events
  BY <1>6, ReadParts
<1> QED
  BY <1>1, <1>2, <1>3, <1>4, <1>5, <1>6 DEF Next

LEMMA EventInvStep ==
  ASSUME IsFiniteSet(Id), Typed, AppCallers, AnswerInv, EventInv, [Next]_vars
  PROVE  EventInv'
<1>1. mode' = mode
  BY DocSteps
<1>2. CASE ForeignChange
  BY <1>2, ForeignParts DEF EventInv
<1>3. CASE ~ForeignChange
  BY <1>1, <1>3, EventsShrink DEF EventInv
<1> QED
  BY <1>2, <1>3

\* KiCad's change of one item leaves the fresh ids fresh.
LEMMA FreshWrite ==
  ASSUME Typed, FreshInv, NEW i \in Id, NEW gone \in BOOLEAN, Write(i, gone),
         UNCHANGED <<mode, edit>>, ~mode.reborn,
         \A e \in Edit : Creates(e) /\ Unserved(e)' => Unserved(e) /\ edit[e].id # i,
         \A n \in DOMAIN events : events[n].gone => events[n].id # i,
         \A n \in DOMAIN events' : \/ n \in DOMAIN events /\ events'[n] = events[n]
                                   \/ gone /\ events'[n].id = i
                                   \/ ~events'[n].gone
  PROVE  FreshInv'
<1>1. \A e \in Edit : Creates(e)' <=> Creates(e)
  BY DEF Creates, InFlight
<1>2. DocType /\ SyncType /\ SeqType /\ docRev \in Nat
  BY DEF Typed, DocType
<1>3. /\ changedAt'[i] = docRev + 1 /\ doc'[i] = (IF gone THEN Gone ELSE docRev + 1)
      /\ \A j \in Id \ {i} : doc'[j] = doc[j] /\ changedAt'[j] = changedAt[j]
  BY <1>2, WriteParts
<1>4. \A n \in DOMAIN events : events[n] \in EventType
  BY <1>2, ElementOfSeq, LenProperties DEF SeqType
<1>5. \A e \in Edit : Creates(e)' /\ Unserved(e)' => changedAt'[edit'[e].id] = 0
  BY <1>1, <1>2, <1>3 DEF FreshInv, Creates, SyncType
<1>6. \A e, f \in Edit : Creates(e)' /\ Creates(f)' /\ edit'[e].id = edit'[f].id => e = f
  BY <1>1 DEF FreshInv
<1>7. \A n \in DOMAIN events' : events'[n].gone => doc'[events'[n].id] = Gone /\ changedAt'[events'[n].id] # 0
  <2>1. ASSUME NEW n \in DOMAIN events, events[n].gone
        PROVE  doc'[events[n].id] = Gone /\ changedAt'[events[n].id] # 0
    BY <1>3, <1>4, <2>1 DEF FreshInv, EventType
  <2>2. docRev + 1 # 0
    BY <1>2
  <2> QED
    BY <1>3, <2>1, <2>2
<1> QED
  BY <1>5, <1>6, <1>7 DEF FreshInv

\* A step that leaves the document alone and starts no edit.
LEMMA FreshKept ==
  ASSUME FreshInv, UNCHANGED <<mode, kicad>>,
         \A e \in Edit : Creates(e)' => Creates(e) /\ edit'[e].id = edit[e].id,
         \A e \in Edit : Creates(e)' /\ Unserved(e)' => Unserved(e),
         \A n \in DOMAIN events' : \E m \in DOMAIN events : events'[n] = events[m]
  PROVE  FreshInv'
<1>1. SUFFICES ASSUME ~mode.reborn
               PROVE  /\ \A e \in Edit : Creates(e)' /\ Unserved(e)' => changedAt[edit'[e].id] = 0
                      /\ \A e, f \in Edit : Creates(e)' /\ Creates(f)' /\ edit'[e].id = edit'[f].id => e = f
                      /\ \A n \in DOMAIN events' : events'[n].gone => doc[events'[n].id] = Gone /\ changedAt[events'[n].id] # 0
  BY DEF FreshInv, kicad
<1> QED
  BY <1>1 DEF FreshInv

LEMMA FreshInvStep ==
  ASSUME IsFiniteSet(Id), Typed, AppCallers, AnswerInv, FreshInv, [Next]_vars
  PROVE  FreshInv'
<1>0. /\ DocType /\ SyncType /\ SeqType /\ docRev \in Nat /\ edit \in [Edit -> EditType]
      /\ \A i \in Id : doc[i] # Gone => changedAt[i] # 0
      /\ \A e \in InFlight : edit[e].id \in Id
      /\ \A n \in DOMAIN events : events[n].id \in Id
  <2>1. \A n \in DOMAIN events : events[n] \in EventType
    BY ElementOfSeq, LenProperties DEF Typed, SeqType
  <2> QED
    BY <2>1 DEF Typed, DocType, SyncType, EventType, Gone
<1>1. CASE ForeignChange
  <2>1. UNCHANGED <<mode, wire, answer, sync, edit, reader>>
    BY <1>1, ForeignParts
  <2>2. PICK i \in Id, gone \in BOOLEAN :
          /\ Write(i, gone) /\ (gone => doc[i] # Gone /\ mode.foreignDeletes)
          /\ (~gone => doc[i] # Gone \/ Fresh(i))
          /\ \A n \in DOMAIN events' : \/ n \in DOMAIN events /\ events'[n] = events[n]
                                       \/ events'[n] = [id |-> i, gone |-> gone, rev |-> docRev + 1]
    BY <1>1, ForeignParts
  <2>3. SUFFICES ASSUME ~mode.reborn PROVE FreshInv'
    BY <2>1 DEF FreshInv
  <2>4. doc[i] # Gone \/ (changedAt[i] = 0 /\ \A e \in InFlight : edit[e].id # i)
    BY <2>2, <2>3 DEF Fresh
  <2>5. \A e \in Edit : Creates(e) /\ Unserved(e)' => Unserved(e) /\ edit[e].id # i
    BY <1>0, <2>1, <2>3, <2>4 DEF FreshInv, Creates, Unserved
  <2>6. \A n \in DOMAIN events : events[n].gone => events[n].id # i
    BY <2>3, <2>4 DEF FreshInv
  <2>7. \A n \in DOMAIN events' : \/ n \in DOMAIN events /\ events'[n] = events[n]
                                  \/ gone /\ events'[n].id = i
                                  \/ ~events'[n].gone
    BY <2>2
  <2> QED
    BY <2>1, <2>2, <2>3, <2>5, <2>6, <2>7, FreshWrite
<1>2. CASE Serve
  <2>1. UNCHANGED <<mode, events, wire, sync, edit, reader>> /\ wire # <<>> /\ answer = NoAnswer
    BY <1>2, ServeKeeps
  <2>2. CASE UNCHANGED kicad
    BY <2>1, <2>2, FreshKept DEF Creates, InFlight, Unserved
  <2>3. CASE wire[1] \in Edit /\ ~UNCHANGED kicad
    <3>1. PICK e \in Edit : e = wire[1]
      BY <2>3
    <3>2. ServeEdit(e) /\ edit[e].id \in Id /\ edit[e].kind \in Kind /\ e \in InFlight
      BY <1>2, <2>3, <3>1, ServesEdit
    <3>3. PICK i \in Id, gone \in BOOLEAN : i = edit[e].id /\ gone = (edit[e].kind = "delete")
      BY <3>2
    <3>4. Write(i, gone) /\ (doc[i] # Gone \/ edit[e].kind = "create") /\ answer'.from = e
      BY <2>3, <3>2, <3>3 DEF ServeEdit, Answers
    <3>5. SUFFICES ASSUME ~mode.reborn PROVE FreshInv'
      BY <2>1 DEF FreshInv
    <3>6. doc[i] # Gone \/ changedAt[i] = 0
      BY <2>1, <3>2, <3>3, <3>4, <3>5 DEF FreshInv, Creates, Unserved
    <3>7. ~Unserved(e)'
      BY SyncAssumption, <2>1, <3>1, <3>4 DEF Unserved, NoAnswer
    <3>8. \A f \in Edit : Creates(f) /\ Unserved(f)' => Unserved(f) /\ edit[f].id # i
      <4>1. SUFFICES ASSUME NEW f \in Edit, Creates(f), Unserved(f)' PROVE Unserved(f) /\ edit[f].id # i
        OBVIOUS
      <4>2. Unserved(f) /\ f # e
        BY <2>1, <3>7, <4>1 DEF Unserved
      <4>3. CASE doc[i] # Gone
        BY <1>0, <3>5, <4>1, <4>2, <4>3 DEF FreshInv
      <4>4. CASE edit[e].kind = "create"
        BY <3>2, <3>3, <3>5, <4>1, <4>2, <4>4 DEF FreshInv, Creates
      <4> QED
        BY <3>4, <4>2, <4>3, <4>4
    <3>9. \A n \in DOMAIN events : events[n].gone => events[n].id # i
      BY <3>5, <3>6 DEF FreshInv
    <3> QED
      BY <2>1, <3>4, <3>5, <3>8, <3>9, FreshWrite
  <2>4. CASE wire[1] \notin Edit
    BY <1>2, <2>2, <2>4, ServesRead
  <2> QED
    BY <2>2, <2>3, <2>4
<1>3. ASSUME NEW e \in mode.edits, StartEdit(e) PROVE FreshInv'
  <2>1. /\ e \in Edit /\ edit[e].at = "new" /\ wire' = Append(wire, e)
        /\ UNCHANGED <<mode, kicad, events, answer, rev, loaded, reader>>
    BY <1>3, StartParts
  <2>2. PICK k \in Kind, i \in Id : Shows(e, k, i)
    BY <1>3, StartParts
  <2>3. /\ k = "create" => Fresh(i)
        /\ edit'[e].at = "sent" /\ edit'[e].kind = k /\ edit'[e].id = i /\ \A f \in Edit \ {e} : edit'[f] = edit[f]
    BY <2>2 DEF Shows
  <2>4. SUFFICES ASSUME ~mode.reborn PROVE FreshInv'
    BY <2>1 DEF FreshInv
  <2>5. k = "create" => changedAt[i] = 0 /\ \A f \in InFlight : edit[f].id # i
    BY <2>3, <2>4 DEF Fresh
  <2>6. \A f \in Edit \ {e} : (Creates(f)' <=> Creates(f)) /\ (Unserved(f)' => Unserved(f))
    <3>1. answer # NoAnswer => wire' # <<>> /\ wire'[1] = wire[1]
      BY <2>1, FirstStays
    <3> QED
      BY <2>1, <2>3, <3>1 DEF Creates, InFlight, Unserved
  <2>7. Creates(e)' => k = "create"
    BY <2>3 DEF Creates
  <2>8. \A f \in Edit : Creates(f)' /\ Unserved(f)' => changedAt'[edit'[f].id] = 0
    BY <2>1, <2>3, <2>4, <2>5, <2>6, <2>7 DEF FreshInv, kicad
  <2>9. \A f, g \in Edit : Creates(f)' /\ Creates(g)' /\ edit'[f].id = edit'[g].id => f = g
    BY <2>3, <2>4, <2>5, <2>6, <2>7 DEF FreshInv, Creates
  <2>10. \A n \in DOMAIN events' : events'[n].gone => doc'[events'[n].id] = Gone /\ changedAt'[events'[n].id] # 0
    BY <2>1, <2>4 DEF FreshInv, kicad
  <2> QED
    BY <2>8, <2>9, <2>10 DEF FreshInv
<1>4. ASSUME NEW e \in mode.edits, EditAnswered(e) PROVE FreshInv'
  <2>1. /\ e \in InFlight /\ wire[1] = e /\ UNCHANGED <<mode, kicad, events>>
        /\ edit'[e].at = "done" /\ \A f \in Edit \ {e} : edit'[f] = edit[f]
    BY <1>4, EndParts
  <2>2. \A f \in Edit : Creates(f)' => f # e /\ Creates(f) /\ edit'[f].id = edit[f].id
    BY <2>1 DEF Creates, InFlight
  <2> QED
    BY <2>1, <2>2, FreshKept DEF Unserved
<1>5. ASSUME NEW r \in mode.readers, StartRefresh(r) \/ HandleEvent(r) PROVE FreshInv'
  <2>1. r \in Reader /\ Begins(r) /\ UNCHANGED <<mode, kicad, answer, edit>>
    BY <1>5, AskParts
  <2>2. \A f \in Edit : Creates(f)' => Creates(f) /\ edit'[f].id = edit[f].id
    BY <2>1 DEF Creates, InFlight
  <2>3. answer # NoAnswer => wire' # <<>> /\ wire'[1] = wire[1]
    BY <2>1, FirstStays DEF Begins
  <2>4. \A f \in Edit : Unserved(f)' => Unserved(f)
    BY <2>1, <2>3 DEF Unserved
  <2>5. events' = events \/ (events # <<>> /\ events' = Tail(events))
    BY <1>5, AskParts
  <2>6. \A n \in DOMAIN events' : \E m \in DOMAIN events : events'[n] = events[m]
    BY <2>5, EventParts DEF Typed
  <2> QED
    BY <2>1, <2>2, <2>4, <2>6, FreshKept
<1>6. ASSUME NEW r \in mode.readers, ReadSteps(r) PROVE FreshInv'
  <2>1. r \in Reader /\ wire[1] = r /\ UNCHANGED <<mode, kicad, events, edit>>
    BY <1>6, ReadParts
  <2>2. \A f \in Edit : Unserved(f)
    BY SyncAssumption, <2>1 DEF Unserved
  <2> QED
    BY <2>1, <2>2, FreshKept DEF Creates, InFlight
<1>7. CASE LoseEvent
  <2>1. UNCHANGED <<mode, kicad, wire, answer, edit>>
    BY <1>7 DEF LoseEvent
  <2>2. \A n \in DOMAIN events' : \E m \in DOMAIN events : events'[n] = events[m]
    BY <1>7, EventParts DEF LoseEvent, Typed
  <2> QED
    BY <2>1, <2>2, FreshKept DEF Creates, InFlight, Unserved
<1>8. CASE UNCHANGED vars
  BY <1>8, FreshKept DEF vars, Creates, InFlight, Unserved
<1> QED
  BY <1>1, <1>2, <1>3, <1>4, <1>5, <1>6, <1>7, <1>8 DEF Next

-----------------------------------------------------------------------------
(* Answers. *)

\* An answer that waits says the same while nothing it is about moves.
LEMMA AnswerKept ==
  ASSUME AnswerInv, answer' = answer, rev' = rev, UNCHANGED kicad,
         answer # NoAnswer =>
           /\ wire'[1] = wire[1]
           /\ wire[1] \in Edit => edit'[wire[1]].id = edit[wire[1]].id
           /\ wire[1] \in Reader => reader'[wire[1]] = reader[wire[1]]
  PROVE  AnswerInv'
<1>1. \A i : Left(i)' <=> Left(i)
  BY DEF Left, kicad
<1>2. Present' = Present
  BY DEF Present, kicad
<1>3. answer # NoAnswer /\ wire[1] \in Reader /\ Covers(wire[1]) => Covers(wire[1])'
  <2>1. SUFFICES ASSUME NEW r \in Reader, Covers(r), reader'[r] = reader[r] PROVE Covers(r)'
    OBVIOUS
  <2>2. (Moved(r)' <=> Moved(r)) /\ (IsFull(r)' <=> IsFull(r))
    BY <2>1 DEF Moved, IsFull
  <2> QED
    BY <1>1, <1>2, <2>1, <2>2 DEF Covers, kicad
<1> QED
  BY <1>3 DEF AnswerInv, kicad

\* An answer that waits says nothing of an item that changes meanwhile.
LEMMA AnswerWrite ==
  ASSUME Typed, AnswerInv, NEW i \in Id, NEW gone \in BOOLEAN, Write(i, gone),
         UNCHANGED <<mode, wire, answer, sync, edit, reader>>
  PROVE  AnswerInv'
<1>1. SUFFICES ASSUME answer # NoAnswer PROVE AnswerInv'
  BY DEF AnswerInv
<1>2. DocType /\ docRev \in Nat /\ answer.rev \in Nat /\ answer.rev <= docRev
  BY <1>1 DEF Typed, DocType, AnswerInv
<1>3. /\ changedAt'[i] = docRev + 1 /\ docRev' = docRev + 1
      /\ \A j \in Id \ {i} : doc'[j] = doc[j] /\ changedAt'[j] = changedAt[j]
  BY <1>2, WriteParts DEF Write
<1>4. \A j \in Id : Left(j)' => Left(j) /\ j # i
  BY <1>2, <1>3 DEF Left
<1>5. answer.ok /\ wire[1] \in Reader => Covers(wire[1])'
  <2>1. SUFFICES ASSUME NEW r \in Reader, Covers(r) PROVE Covers(r)'
    BY <1>1 DEF AnswerInv
  <2>2. (Moved(r)' <=> Moved(r)) /\ (IsFull(r)' <=> IsFull(r))
    BY DEF Moved, IsFull
  <2>3. answer.rev # docRev'
    BY <1>2, <1>3
  <2>4. \A j \in Id : Left(j)' => Left(j) /\ doc'[j] = doc[j] /\ changedAt'[j] = changedAt[j]
    BY <1>3, <1>4
  <2>5. reader[r].at = "ids" => reader[r].ids \subseteq Id
    BY DEF Typed, SyncType, ReaderType
  <2>6. reader[r].at \in {"counts", "full", "load"} => \A j \in Id : Left(j)' => doc'[j] = Gone
    BY <2>1, <2>4 DEF Covers
  <2>7. reader[r].at = "ids" => \A j \in reader[r].ids : Left(j)' => doc'[j] = Gone
    BY <2>1, <2>4, <2>5 DEF Covers
  <2>8. reader[r].at = "since" /\ ~Moved(r) =>
          \A j \in Id : Left(j)' => IF IsFull(r) \/ j \in answer.gone THEN doc'[j] = Gone
                                    ELSE changedAt'[j] <= reader[r].since
    BY <2>1, <2>4 DEF Covers
  <2> QED
    BY <2>2, <2>3, <2>6, <2>7, <2>8 DEF Covers
<1>6. answer.ok => \A j \in DOMAIN answer.items :
        answer.items[j] \in Nat /\ (changedAt'[j] <= answer.rev => answer.items[j] = doc'[j])
  <2>1. SUFFICES ASSUME answer.ok, NEW j \in DOMAIN answer.items
                 PROVE  answer.items[j] \in Nat /\ (changedAt'[j] <= answer.rev => answer.items[j] = doc'[j])
    OBVIOUS
  <2>2. j \in Id /\ answer.items[j] \in Nat /\ (changedAt[j] <= answer.rev => answer.items[j] = doc[j])
    BY <1>1, <2>1 DEF AnswerInv
  <2> QED
    BY <1>2, <1>3, <2>2
<1> QED
  BY <1>1, <1>2, <1>3, <1>5, <1>6 DEF AnswerInv, sync

\* KiCad answers as of the revision it has.
LEMMA AnswerFails ==
  ASSUME answer'.ok = FALSE, answer'.rev = docRev, docRev' = docRev, docRev \in Nat, rev' = rev, rev <= docRev
  PROVE  AnswerInv'
<1>1. answer'.ok \in BOOLEAN /\ ~answer'.ok
  OBVIOUS
<1>2. answer'.rev \in Nat /\ rev' <= answer'.rev /\ answer'.rev <= docRev'
  OBVIOUS
<1> QED
  BY <1>1, <1>2 DEF AnswerInv

LEMMA AnswerSays ==
  ASSUME answer'.ok = TRUE, answer'.rev = docRev, docRev' \in {docRev, docRev + 1}, docRev \in Nat,
         rev' = rev, rev <= docRev,
         DOMAIN answer'.items \subseteq Id,
         \A i \in DOMAIN answer'.items :
           answer'.items[i] \in Nat /\ (changedAt'[i] <= docRev => answer'.items[i] = doc'[i]),
         wire'[1] \in Edit => edit'[wire'[1]].id \in DOMAIN answer'.items,
         wire'[1] \in Reader => Covers(wire[1])'
  PROVE  AnswerInv'
<1>1. answer'.ok \in BOOLEAN /\ answer'.ok
  OBVIOUS
<1>2. answer'.rev \in Nat /\ rev' <= answer'.rev /\ answer'.rev <= docRev'
  OBVIOUS
<1> QED
  BY <1>1, <1>2 DEF AnswerInv

\* An edit that KiCad executes is answered with its item as of the next revision.
LEMMA AnswerEdit ==
  ASSUME Typed, Serve, wire[1] \in Edit
  PROVE  AnswerInv'
<1>1. PICK e \in Edit : e = wire[1]
  OBVIOUS
<1>2. ServeEdit(e) /\ edit[e].id \in Id
  BY <1>1, ServesEdit
<1>3. PICK i \in Id : i = edit[e].id
  BY <1>2
<1>4. UNCHANGED <<mode, events, wire, sync, edit, reader>>
  BY ServeKeeps
<1>5. DocType /\ docRev \in Nat /\ rev \in Nat /\ rev <= docRev
  BY DEF Typed, DocType, SyncType
<1>6. CASE /\ Write(i, edit[e].kind = "delete")
           /\ Answers(e, TRUE, [j \in {i} |-> doc'[j]], {})
  <2>1. PICK gone \in BOOLEAN : gone = (edit[e].kind = "delete")
    OBVIOUS
  <2>2. docRev' = docRev + 1 /\ changedAt'[i] = docRev + 1 /\ doc'[i] \in Nat
    <3>1. Write(i, gone) /\ mode' = mode
      BY <1>4, <1>6, <2>1
    <3> QED
      BY <1>5, <3>1, WriteParts DEF Gone
  <2>3. PICK items : items = [j \in {i} |-> doc'[j]]
    OBVIOUS
  <2>4. answer' = [from |-> e, ok |-> TRUE, rev |-> docRev, items |-> items, gone |-> {}]
    BY <1>6, <2>3 DEF Answers
  <2>5. answer'.ok = TRUE /\ answer'.rev = docRev /\ answer'.items = items
    BY <2>4
  <2>6. DOMAIN items = {i} /\ items[i] \in Nat
    BY <2>2, <2>3
  <2>7. wire'[1] \in Edit /\ wire'[1] \notin Reader /\ edit'[wire'[1]].id = i
    BY <1>1, <1>3, <1>4, SyncAssumption
  <2>8. rev' = rev
    BY <1>4 DEF sync
  <2>9. DOMAIN items \subseteq Id /\ \A j \in DOMAIN items : items[j] \in Nat /\ ~(changedAt'[j] <= docRev)
    BY <1>5, <2>2, <2>6
  <2> QED
    BY <1>5, <2>2, <2>5, <2>6, <2>7, <2>8, <2>9, AnswerSays
<1>7. CASE Answers(e, FALSE, <<>>, {}) /\ UNCHANGED kicad
  <2>1. answer'.ok = FALSE /\ answer'.rev = docRev /\ docRev' = docRev
    BY <1>7 DEF Answers, kicad
  <2>2. rev' = rev
    BY <1>4 DEF sync
  <2> QED
    BY <1>5, <2>1, <2>2, AnswerFails
<1> QED
  BY <1>2, <1>3, <1>6, <1>7 DEF ServeEdit

\* A delta with as many items as the counts promised, and no deletion, has every item.
LEMMA FullDelta ==
  ASSUME IsFiniteSet(Id), NEW S \in SUBSET Present, Cardinality(S) >= Cardinality(Present)
  PROVE  S = Present
<1>1. Present \subseteq Id
  BY DEF Present
<1>2. IsFiniteSet(Present) /\ Cardinality(Present) \in Nat /\ Cardinality(S) \in Nat
  BY <1>1, FiniteItems
<1> QED
  BY <1>2, FS_Subset

LEMMA AnswerRead ==
  ASSUME IsFiniteSet(Id), Typed, CountInv, Serve, wire[1] \notin Edit
  PROVE  AnswerInv'
<1>1. wire[1] \in Reader /\ UNCHANGED kicad
  BY ServesRead
<1>2. PICK r \in Reader : r = wire[1]
  BY <1>1
<1>3. UNCHANGED <<mode, events, wire, sync, edit, reader>>
  BY ServeKeeps
<1>4. /\ DocType /\ docRev \in Nat /\ rev \in Nat /\ rev <= docRev
      /\ reader[r].ids \subseteq Id /\ reader[r].since \in Nat
      /\ \A i \in Id : doc[i] \in Nat /\ changedAt[i] \in Nat
  BY DEF Typed, DocType, SyncType, ReaderType
<1>5. ASSUME NEW S \in SUBSET Present, NEW gone, answer' = [from |-> r, ok |-> TRUE, rev |-> docRev, items |-> Items(S), gone |-> gone],
             \A i \in Id \ S : doc[i] # Gone => reader[r].at \in {"ids", "since"},
             reader[r].at = "ids" => S = reader[r].ids \intersect Present,
             reader[r].at = "since" => \/ S = Present /\ gone = {}
                                       \/ \A i \in Id : changedAt[i] > reader[r].since <=> i \in S \union gone,
             gone \intersect Present = {}
      PROVE  AnswerInv'
  <2>1. PICK items : items = Items(S)
    OBVIOUS
  <2>2. DOMAIN items = S /\ \A i \in S : items[i] = doc[i]
    BY <2>1 DEF Items
  <2>3. answer'.ok = TRUE /\ answer'.rev = docRev /\ answer'.items = items /\ answer'.gone = gone
    BY <1>5, <2>1
  <2>4. S \subseteq Id
    BY DEF Present
  <2>5. \A i \in Id : Left(i)' <=> i \notin S
    BY <1>1, <1>4, <2>2, <2>3 DEF Left, DocType, kicad
  <2>6. Moved(r)' <=> docRev # reader[r].counts
    BY <1>3, <2>3 DEF Moved
  <2>7. reader[r].at = "since" /\ docRev = reader[r].counts => (IsFull(r)' => S = Present)
    <3>1. SUFFICES ASSUME reader[r].at = "since", docRev = reader[r].counts, IsFull(r)' PROVE S = Present
      OBVIOUS
    <3>2. reader[r].expected = Cardinality(Present)
      BY <3>1 DEF CountInv
    <3>3. Cardinality(S) >= Cardinality(Present)
      BY <1>3, <2>2, <2>3, <3>1, <3>2 DEF IsFull
    <3> QED
      BY <3>3, FullDelta
  <2>8. \A i \in Id : i \notin Present <=> doc[i] = Gone
    BY DEF Present
  <2>9. reader[r].at \in {"counts", "full", "load"} => \A i \in Id : Left(i)' => doc[i] = Gone
    BY <1>5, <2>5
  <2>10. reader[r].at = "ids" => \A i \in reader[r].ids : Left(i)' => doc[i] = Gone
    BY <1>4, <1>5, <2>5, <2>8
  <2>11. reader[r].at = "counts" => S = Present
    <3>1. reader[r].at = "counts" => \A i \in Present : i \in S
      BY <1>5, <2>8 DEF Present
    <3> QED
      BY <3>1
  <2>12. reader[r].at = "since" /\ docRev = reader[r].counts =>
           \A i \in Id : Left(i)' => IF IsFull(r)' \/ i \in gone THEN doc[i] = Gone ELSE changedAt[i] <= reader[r].since
    <3>1. SUFFICES ASSUME reader[r].at = "since", docRev = reader[r].counts, NEW i \in Id, i \notin S
                   PROVE  /\ IsFull(r)' \/ i \in gone => doc[i] = Gone
                          /\ ~IsFull(r)' /\ i \notin gone => changedAt[i] <= reader[r].since
      BY <2>5
    <3>2. IsFull(r)' => doc[i] = Gone
      BY <2>7, <2>8, <3>1
    <3>3. i \in gone => doc[i] = Gone
      BY <1>5, <2>8
    <3>4. ~IsFull(r)' /\ i \notin gone => changedAt[i] <= reader[r].since
      <4>1. CASE S = Present /\ gone = {}
        <5>1. Cardinality(S) >= reader[r].expected
          <6>1. reader[r].expected = Cardinality(Present) /\ Cardinality(Present) \in Nat
            BY <3>1, FiniteItems DEF CountInv, Present
          <6> QED
            BY <4>1, <6>1
        <5>2. IsFull(r)'
          BY <1>3, <2>2, <2>3, <4>1, <5>1 DEF IsFull
        <5> QED
          BY <5>2
      <4>2. CASE \A j \in Id : changedAt[j] > reader[r].since <=> j \in S \union gone
        BY <1>4, <3>1, <4>2
      <4> QED
        BY <1>5, <3>1, <4>1, <4>2
    <3> QED
      BY <3>2, <3>3, <3>4
  <2>13. Covers(r)'
    <3>1. doc' = doc /\ changedAt' = changedAt /\ docRev' = docRev /\ Present' = Present /\ reader' = reader
      BY <1>1, <1>3 DEF kicad, Present
    <3>2. reader[r].at \in {"counts", "full", "load"} => \A i \in Id : Left(i)' => doc'[i] = Gone
      BY <2>9, <3>1
    <3>3. reader[r].at = "ids" => \A i \in reader[r].ids : Left(i)' => doc'[i] = Gone
      BY <2>10, <3>1
    <3>4. reader[r].at = "counts" => DOMAIN answer'.items = Present'
      BY <2>2, <2>3, <2>11, <3>1
    <3>5. reader[r].at = "since" /\ ~Moved(r)' =>
            \A i \in Id : Left(i)' => IF IsFull(r)' \/ i \in answer'.gone THEN doc'[i] = Gone
                                      ELSE changedAt'[i] <= reader[r].since
      BY <2>3, <2>6, <2>12, <3>1
    <3> QED
      BY <3>1, <3>2, <3>3, <3>4, <3>5 DEF Covers
  <2>14. rev' = rev /\ docRev' = docRev /\ wire'[1] = r /\ r \notin Edit /\ doc' = doc
    BY <1>1, <1>2, <1>3, SyncAssumption DEF kicad, sync
  <2>15. Covers(wire[1])'
    BY <1>2, <1>3, <2>13, <2>14
  <2>16. \A i \in DOMAIN items : items[i] \in Nat /\ items[i] = doc'[i]
    BY <1>4, <2>2, <2>4, <2>14
  <2> QED
    BY <1>4, <2>2, <2>3, <2>4, <2>14, <2>15, <2>16, AnswerSays
<1>6. CASE FailRead(r)
  <2>1. answer'.ok = FALSE /\ answer'.rev = docRev /\ docRev' = docRev /\ rev' = rev
    BY <1>1, <1>3, <1>6 DEF Answers, FailRead, sync, kicad
  <2> QED
    BY <1>4, <2>1, AnswerFails
<1>7. CASE reader[r].at = "ids" /\ Answers(r, TRUE, Items(reader[r].ids \intersect Present), {})
  BY <1>5, <1>7 DEF Answers
<1>8. CASE /\ reader[r].at = "since"
           /\ LET changed == {i \in Id : changedAt[i] > reader[r].since}
              IN  Answers(r, TRUE, Items(changed \intersect Present), changed \ Present)
  <2>1. PICK changed : changed = {i \in Id : changedAt[i] > reader[r].since}
    OBVIOUS
  <2>2. answer' = [from |-> r, ok |-> TRUE, rev |-> docRev, items |-> Items(changed \intersect Present),
                   gone |-> changed \ Present]
    BY <1>8, <2>1 DEF Answers
  <2>3. \A i \in Id : changedAt[i] > reader[r].since <=> i \in (changed \intersect Present) \union (changed \ Present)
    BY <2>1
  <2> QED
    BY <1>5, <1>8, <2>2, <2>3
<1>9. CASE reader[r].at # "ids" /\ Answers(r, TRUE, Items(Present), {})
  <2>1. \A i \in Id \ Present : doc[i] = Gone
    BY DEF Present
  <2> QED
    BY <1>5, <1>9, <2>1 DEF Answers
<1> QED
  BY <1>2, <1>6, <1>7, <1>8, <1>9, ServesRead DEF ServeRead

LEMMA AnswerInvStep ==
  ASSUME IsFiniteSet(Id), Typed, AppCallers, AnswerInv, CountInv, [Next]_vars
  PROVE  AnswerInv'
<1>1. CASE ForeignChange
  BY <1>1, ForeignParts, AnswerWrite
<1>2. CASE Serve
  BY <1>2, AnswerEdit, AnswerRead
<1>3. CASE LoseEvent \/ UNCHANGED vars
  BY <1>3, AnswerKept DEF LoseEvent, vars, sync, kicad
<1>4. ASSUME NEW e \in mode.edits, StartEdit(e) PROVE AnswerInv'
  <2>1. /\ e \in Edit /\ edit[e].at = "new" /\ wire' = Append(wire, e)
        /\ UNCHANGED <<mode, kicad, events, answer, rev, loaded, reader>>
    BY <1>4, StartParts
  <2>2. \A f \in Edit \ {e} : edit'[f] = edit[f]
    BY <1>4, StartParts DEF Shows
  <2>3. answer # NoAnswer => wire'[1] = wire[1] /\ wire[1] # e
    BY <2>1, FirstStays, NotYet
  <2> QED
    BY <2>1, <2>2, <2>3, AnswerKept
<1>5. ASSUME NEW e \in mode.edits, EditAnswered(e) PROVE AnswerInv'
  BY <1>5, EndParts DEF AnswerInv
<1>6. ASSUME NEW r \in mode.readers, StartRefresh(r) \/ HandleEvent(r) PROVE AnswerInv'
  <2>1. r \in Reader /\ reader[r].at = "idle" /\ Begins(r) /\ UNCHANGED <<mode, kicad, answer, rev, edit>>
    BY <1>6, AskParts
  <2>2. answer # NoAnswer => wire'[1] = wire[1] /\ wire[1] # r
    BY <2>1, FirstStays, NotYet DEF Begins
  <2> QED
    BY <2>1, <2>2, AnswerKept DEF Begins
<1>7. ASSUME NEW r \in mode.readers, ReadSteps(r) PROVE AnswerInv'
  BY <1>7, ReadParts DEF AnswerInv
<1> QED
  BY <1>1, <1>2, <1>3, <1>4, <1>5, <1>6, <1>7 DEF Next

\* The counts are those of the revision they were read at.
LEMMA CountInvStep ==
  ASSUME IsFiniteSet(Id), Typed, AppCallers, AnswerInv, CountInv, [Next]_vars
  PROVE  CountInv'
<1>0. docRev \in Nat /\ DocType /\ \A r \in Reader : reader[r].counts \in Nat
  BY DEF Typed, DocType, SyncType, ReaderType
<1>1. ASSUME reader' = reader PROVE CountInv'
  <2>1. CASE UNCHANGED kicad
    BY <1>1, <2>1 DEF CountInv, Present, kicad
  <2>2. ASSUME NEW i \in Id, NEW gone \in BOOLEAN, Write(i, gone) PROVE CountInv'
    <3>1. docRev' = docRev + 1
      BY <2>2 DEF Write
    <3> QED
      BY <1>0, <1>1, <3>1 DEF CountInv
  <2> QED
    BY <2>1, <2>2, DocSteps
<1>2. ForeignChange \/ LoseEvent \/ Serve \/ UNCHANGED vars => reader' = reader
  BY DEF ForeignChange, LoseEvent, Serve, vars
<1>3. ASSUME NEW e \in mode.edits, StartEdit(e) \/ EditAnswered(e) PROVE reader' = reader
  BY <1>3 DEF StartEdit, EditAnswered
<1>4. ASSUME NEW r \in Reader, UNCHANGED kicad,
             reader'[r].at = "since" => reader'[r].counts <= docRev /\ (reader'[r].counts = docRev => reader'[r].expected = Cardinality(Present)),
             \A q \in Reader \ {r} : reader'[q] = reader[q] \/ reader'[q].at = "idle"
      PROVE  CountInv'
  <2>1. docRev' = docRev /\ Present' = Present
    BY <1>4 DEF Present, kicad
  <2> QED
    BY <1>4, <2>1 DEF CountInv
<1>5. ASSUME NEW r \in mode.readers, StartRefresh(r) \/ HandleEvent(r) PROVE CountInv'
  <2>1. /\ r \in Reader /\ Begins(r) /\ UNCHANGED <<mode, kicad>> /\ reader[r].at = "idle"
    BY <1>5, AskParts
  <2>2. reader'[r].at # "since" /\ \A q \in Reader \ {r} : reader'[q] = reader[q]
    BY <2>1 DEF Begins, Asking
  <2> QED
    BY <1>4, <2>1, <2>2
<1>6. ASSUME NEW r \in mode.readers, ReadSteps(r) PROVE CountInv'
  <2>1. /\ r \in Reader /\ wire[1] = r /\ answer # NoAnswer
        /\ UNCHANGED <<mode, kicad, events, pending, edit>>
        /\ \A q \in Reader \ {r} : reader'[q] = reader[q] \/ reader'[q] = Idle
    BY <1>6, ReadParts
  <2>2. SyncType /\ Idle.at = "idle" /\ reader \in [Reader -> ReaderType] /\ reader[r] \in ReaderType
    BY <2>1 DEF Typed, SyncType, Idle
  <2>3. \A q \in Reader \ {r} : reader'[q] = reader[q] \/ reader'[q].at = "idle"
    BY <2>1, <2>2
  <2>4. reader'[r].at = "since" => reader'[r].counts <= docRev /\ (reader'[r].counts = docRev => reader'[r].expected = Cardinality(Present))
    <3>1. Ends(r) => reader'[r].at # "since"
      BY <2>1, <2>2 DEF Ends
    <3>2. CASE CountsAnswered(r) /\ answer.ok
      <4>1. PICK n, v : n = Cardinality(DOMAIN answer.items) /\ v = answer.rev
        OBVIOUS
      <4>2. PICK s : s = [reader[r] EXCEPT !.at = "since", !.counts = v, !.expected = n]
        OBVIOUS
      <4>3. Becomes(r, s)
        BY <3>2, <4>1, <4>2 DEF CountsAnswered
      <4>4. reader'[r] = s
        BY <2>1, <2>2, <4>3 DEF Becomes
      <4>5. s.counts = v /\ s.expected = n
        BY <2>2, <4>2 DEF ReaderType
      <4>6. v <= docRev /\ (v = docRev => n = Cardinality(Present))
        BY <2>1, <3>2, <4>1 DEF AnswerInv, Covers, CountsAnswered
      <4> QED
        BY <4>4, <4>5, <4>6
    <3>3. CASE CountsAnswered(r) /\ ~answer.ok
      BY <3>1, <3>3 DEF CountsAnswered
    <3>4. CASE SinceAnswered(r)
      <4>1. CASE Ends(r)
        BY <3>1, <4>1
      <4>2. CASE IF reader[r].tries = 0 THEN Becomes(r, [reader[r] EXCEPT !.at = "counts", !.tries = 1])
                 ELSE Becomes(r, [reader[r] EXCEPT !.at = "full"])
        <5>1. PICK s : s = IF reader[r].tries = 0 THEN [reader[r] EXCEPT !.at = "counts", !.tries = 1]
                           ELSE [reader[r] EXCEPT !.at = "full"]
          OBVIOUS
        <5>2. Becomes(r, s)
          BY <4>2, <5>1
        <5>3. reader'[r] = s
          BY <2>1, <2>2, <5>2 DEF Becomes
        <5>4. s.at # "since"
          BY <2>2, <5>1 DEF ReaderType
        <5> QED
          BY <5>3, <5>4
      <4> QED
        BY <3>4, <4>1, <4>2 DEF SinceAnswered
    <3>5. CASE IdsAnswered(r) \/ FullAnswered(r)
      BY <3>1, <3>5 DEF IdsAnswered, FullAnswered
    <3>6. CASE LoadAnswered(r)
      <4>1. reader'[r] = Idle
        BY <2>1, <3>6 DEF LoadAnswered, Together
      <4> QED
        BY <2>2, <4>1
    <3> QED
      BY <1>6, <3>2, <3>3, <3>4, <3>5, <3>6 DEF ReadSteps
  <2> QED
    BY <1>4, <2>1, <2>3, <2>4
<1> QED
  BY <1>1, <1>2, <1>3, <1>5, <1>6 DEF Next

-----------------------------------------------------------------------------
(* Edits that overlap, where none of them fails. *)

LEMMA OrderlyStep ==
  ASSUME IsFiniteSet(Id), Typed, AppCallers, AnswerInv, [Next]_vars, Orderly'
  PROVE  Orderly
<1>1. mode' = mode
  BY DocSteps
<1>2. \A e \in Edit : edit[e].kind = "delete" => edit'[e].kind = "delete"
  <2>1. ASSUME NEW e \in mode.edits, StartEdit(e) PROVE \A f \in Edit : edit[f].kind = "delete" => edit'[f].kind = "delete"
    <3>1. e \in Edit /\ edit[e].at = "new" /\ \A f \in Edit \ {e} : edit'[f] = edit[f]
      BY <2>1, StartParts DEF Shows
    <3> QED
      BY <3>1 DEF Typed, SyncType
  <2>2. ASSUME NEW e \in mode.edits, EditAnswered(e) PROVE \A f \in Edit : edit[f].kind = "delete" => edit'[f].kind = "delete"
    BY <2>2, EndParts
  <2>3. ASSUME NEW r \in mode.readers, StartRefresh(r) \/ HandleEvent(r) PROVE edit' = edit
    BY <2>3, AskParts
  <2>4. ASSUME NEW r \in mode.readers, ReadSteps(r) PROVE edit' = edit
    BY <2>4, ReadParts
  <2>5. ForeignChange \/ LoseEvent \/ Serve \/ UNCHANGED vars => edit' = edit
    BY DEF ForeignChange, LoseEvent, Serve, vars
  <2> QED
    BY <2>1, <2>2, <2>3, <2>4, <2>5 DEF Next
<1> QED
  BY <1>1, <1>2 DEF Orderly

\* Items appear and the queue stays.
LEMMA GentleGrows ==
  ASSUME Typed, UpdatesMeet, ShownComes, UNCHANGED <<wire, edit, store>>,
         \A j \in Id : doc'[j] = Gone => doc[j] = Gone
  PROVE  UpdatesMeet' /\ ShownComes'
<1>1. \A k \in DOMAIN wire : wire[k] \in Edit => edit[wire[k]].id \in Id
  BY NotYet DEF Typed, SyncType
<1> QED
  BY <1>1 DEF UpdatesMeet, ShownComes, CreatedAt

LEMMA GentleServe ==
  ASSUME IsFiniteSet(Id), Typed, Gentle, GentleInv, Serve
  PROVE  UpdatesMeet' /\ ShownComes' /\ EditSucceeds' /\ ItemsExist'
<1>1. /\ UNCHANGED <<mode, events, wire, sync, edit, reader>> /\ wire # <<>> /\ answer = NoAnswer
      /\ UNCHANGED <<wire, edit, store>>
  BY ServeKeeps DEF sync
<1>2. DocType /\ docRev \in Nat /\ UpdatesMeet /\ ShownComes
  BY DEF Typed, DocType, GentleInv
<1>3. CASE wire[1] \in Edit
  <2>1. PICK e \in Edit : e = wire[1]
    BY <1>3
  <2>2. ServeEdit(e) /\ edit[e].id \in Id /\ edit[e].kind \in Kind /\ e \in InFlight
    BY <1>3, <2>1, ServesEdit
  <2>3. PICK i \in Id : i = edit[e].id
    BY <2>2
  <2>4. edit[e].kind # "delete" /\ ~mode.rejects
    BY DEF Gentle, Orderly
  <2>5. edit[e].kind # "create" => doc[i] # Gone
    <3>1. SUFFICES ASSUME edit[e].kind = "update", doc[i] = Gone PROVE FALSE
      BY <2>2, <2>4 DEF Kind
    <3>2. DOMAIN wire = 1..Len(wire) /\ Len(wire) \in Nat /\ 1 \in DOMAIN wire
      BY <1>1, WireParts DEF Typed
    <3>3. PICK j \in DOMAIN wire : j < 1
      BY <1>2, <1>3, <2>1, <2>3, <3>1, <3>2 DEF UpdatesMeet
    <3> QED
      BY <3>2, <3>3
  <2>6. /\ Write(i, edit[e].kind = "delete")
        /\ Answers(e, TRUE, [j \in {i} |-> doc'[j]], {})
    BY <2>2, <2>3, <2>4, <2>5 DEF ServeEdit
  <2>7. PICK gone \in BOOLEAN : gone = (edit[e].kind = "delete")
    OBVIOUS
  <2>8. Write(i, gone) /\ ~gone
    BY <2>4, <2>6, <2>7
  <2>9. doc'[i] # Gone /\ \A j \in Id \ {i} : doc'[j] = doc[j]
    BY <1>1, <1>2, <2>8, WriteParts DEF Gone
  <2>10. PICK items : items = [j \in {i} |-> doc'[j]]
    OBVIOUS
  <2>11. answer' = [from |-> e, ok |-> TRUE, rev |-> docRev, items |-> items, gone |-> {}]
    BY <2>6, <2>10 DEF Answers
  <2>12. answer'.ok /\ answer'.items = items
    BY <2>11
  <2>13. UpdatesMeet' /\ ShownComes'
    BY <1>1, <1>2, <2>9, GentleGrows
  <2>14. EditSucceeds'
    BY <1>1, <2>1, <2>3, <2>9, <2>12 DEF EditSucceeds
  <2>15. ItemsExist'
    BY <2>9, <2>10, <2>12 DEF ItemsExist
  <2> QED
    BY <2>13, <2>14, <2>15
<1>4. CASE wire[1] \notin Edit
  <2>1. UNCHANGED kicad /\ (ServeRead(wire[1]) \/ FailRead(wire[1]))
    BY <1>4, ServesRead
  <2>2. doc' = doc
    BY <2>1 DEF kicad
  <2>3. UpdatesMeet' /\ ShownComes'
    BY <1>1, <1>2, <2>2, GentleGrows
  <2>4. EditSucceeds'
    BY <1>1, <1>4 DEF EditSucceeds
  <2>5. ItemsExist'
    <3>1. ASSUME NEW S \in SUBSET Present, NEW gone, Answers(wire[1], TRUE, Items(S), gone) PROVE ItemsExist'
      <4>1. PICK items : items = Items(S)
        OBVIOUS
      <4>2. answer'.items = items
        BY <3>1, <4>1 DEF Answers
      <4>3. DOMAIN items = S
        BY <4>1 DEF Items
      <4> QED
        BY <2>2, <4>2, <4>3 DEF ItemsExist, Present
    <3>2. CASE FailRead(wire[1])
      <4>1. ~answer'.ok
        BY <3>2 DEF FailRead, Answers
      <4> QED
        BY <4>1 DEF ItemsExist
    <3>3. CASE ServeRead(wire[1])
      <4>1. PICK r : r = wire[1]
        OBVIOUS
      <4>2. PICK changed : changed = {i \in Id : changedAt[i] > reader[r].since}
        OBVIOUS
      <4>3. \/ Answers(r, TRUE, Items(reader[r].ids \intersect Present), {})
            \/ Answers(r, TRUE, Items(changed \intersect Present), changed \ Present)
            \/ Answers(r, TRUE, Items(Present), {})
        BY <3>3, <4>1, <4>2 DEF ServeRead
      <4> QED
        BY <3>1, <4>1, <4>3
    <3> QED
      BY <2>1, <3>2, <3>3
  <2> QED
    BY <2>3, <2>4, <2>5
<1> QED
  BY <1>3, <1>4

LEMMA GentleStart ==
  ASSUME IsFiniteSet(Id), Typed, Gentle', GentleInv, Gentle, NEW e \in mode.edits, StartEdit(e)
  PROVE  UpdatesMeet' /\ ShownComes' /\ EditSucceeds' /\ ItemsExist'
<1>1. /\ e \in Edit /\ edit[e].at = "new" /\ wire' = Append(wire, e)
      /\ UNCHANGED <<mode, kicad, events, answer, rev, loaded, reader>>
  BY StartParts
<1>2. PICK k \in Kind, i \in Id : Shows(e, k, i)
  BY StartParts
<1>3. /\ k = "create" => store[i] = Gone
      /\ k # "create" => store[i] # Gone
      /\ edit'[e].kind = k /\ edit'[e].id = i /\ \A f \in Edit \ {e} : edit'[f] = edit[f]
      /\ \A j \in Id \ {i} : store'[j] = store[j]
  BY <1>2 DEF Shows, Typed, SyncType
<1>4. k # "delete"
  BY <1>1, <1>3 DEF Gentle, Orderly
<1>5. PICK n \in Nat : /\ DOMAIN wire = 1..n /\ DOMAIN wire' = 1..(n + 1)
                       /\ \A m \in 1..n : wire'[m] = wire[m]
                       /\ wire'[n + 1] = e
  BY <1>1, WireGrows DEF Typed
<1>6. \A m \in 1..n : wire[m] # e
  BY <1>1, <1>5, NotYet
<1>7. \A m \in 1..n, j \in Id : CreatedAt(m, j)' <=> CreatedAt(m, j)
  BY <1>3, <1>5, <1>6 DEF CreatedAt
<1>8. UpdatesMeet /\ ShownComes /\ EditSucceeds /\ ItemsExist /\ doc' = doc /\ answer' = answer
  BY <1>1 DEF GentleInv, kicad
<1>9. ASSUME doc[i] = Gone PROVE (k = "create" /\ CreatedAt(n + 1, i)') \/ \E m \in 1..n : CreatedAt(m, i)
  <2>1. CASE k = "create"
    BY <1>1, <1>3, <1>5, <2>1 DEF CreatedAt
  <2>2. CASE k # "create"
    BY <1>3, <1>5, <1>8, <1>9, <2>2 DEF ShownComes
  <2> QED
    BY <2>1, <2>2
<1>10. UpdatesMeet'
  <2>1. SUFFICES ASSUME NEW m \in DOMAIN wire', wire'[m] \in Edit, edit'[wire'[m]].kind = "update",
                        doc[edit'[wire'[m]].id] = Gone
                 PROVE  \E j \in DOMAIN wire' : j < m /\ CreatedAt(j, edit[wire[m]].id)'
    BY <1>8 DEF UpdatesMeet
  <2>2. CASE m \in 1..n
    <3>1. wire[m] = wire'[m] /\ edit'[wire[m]] = edit[wire[m]] /\ edit[wire[m]].id \in Id
      BY <1>3, <1>5, <1>6, <2>1, <2>2, NotYet DEF Typed, SyncType
    <3>2. PICK j \in 1..n : j < m /\ CreatedAt(j, edit[wire[m]].id)
      BY <1>5, <1>8, <2>1, <2>2, <3>1 DEF UpdatesMeet
    <3> QED
      BY <1>5, <1>7, <3>1, <3>2
  <2>3. CASE m = n + 1
    <3>1. edit'[wire'[m]].id = i /\ k = "update" /\ doc[i] = Gone
      BY <1>3, <1>5, <2>1, <2>3
    <3>2. PICK j \in 1..n : CreatedAt(j, i)
      BY <1>9, <3>1
    <3>3. j \in DOMAIN wire' /\ j < m /\ CreatedAt(j, i)'
      BY <1>5, <1>7, <2>3, <3>2
    <3> QED
      BY <3>1, <3>3
  <2> QED
    BY <1>5, <2>1, <2>2, <2>3
<1>11. ShownComes'
  <2>1. SUFFICES ASSUME NEW j \in Id, store'[j] # Gone, doc[j] = Gone PROVE \E m \in DOMAIN wire' : CreatedAt(m, j)'
    BY <1>8 DEF ShownComes
  <2>2. CASE j = i
    BY <1>5, <1>7, <1>9, <2>1, <2>2
  <2>3. CASE j # i
    <3>1. PICK m \in 1..n : CreatedAt(m, j)
      BY <1>3, <1>5, <1>8, <2>1, <2>3 DEF ShownComes
    <3> QED
      BY <1>5, <1>7, <3>1
  <2> QED
    BY <2>2, <2>3
<1>12. EditSucceeds' /\ ItemsExist'
  <2>1. answer # NoAnswer => wire'[1] = wire[1] /\ wire[1] # e
    BY <1>1, FirstStays, NotYet
  <2> QED
    BY <1>3, <1>8, <2>1 DEF EditSucceeds, ItemsExist
<1> QED
  BY <1>10, <1>11, <1>12

\* The queue moves up by one; what left it was no creation that is still needed.
LEMMA GentleMoves ==
  ASSUME Typed, UpdatesMeet, ShownComes, wire # <<>>, UNCHANGED doc, answer' = NoAnswer,
         NEW w \in Edit \union Reader,
         wire' = Tail(wire) \/ (AsksAgain(w) /\ w \in Reader),
         \A k \in DOMAIN wire : wire[k] \in Edit /\ k # 1 => edit'[wire[k]] = edit[wire[k]],
         wire[1] \in Edit => doc[edit[wire[1]].id] # Gone,
         \A i \in Id : store'[i] # Gone => store[i] # Gone \/ doc[i] # Gone
  PROVE  UpdatesMeet' /\ ShownComes' /\ EditSucceeds' /\ ItemsExist'
<1>0. SeqType
  BY DEF Typed
<1>1. PICK n \in Nat : DOMAIN wire = 1..(n + 1) /\ 1..n \subseteq DOMAIN wire'
                       /\ (\A k \in 1..n : wire'[k] = wire[k + 1])
                       /\ \A k \in DOMAIN wire' : k \in 1..n \/ wire'[k] \notin Edit
  <2>1. CASE wire' = Tail(wire)
    <3>1. PICK n \in Nat : DOMAIN wire = 1..(n + 1) /\ DOMAIN wire' = 1..n /\ \A k \in 1..n : wire'[k] = wire[k + 1]
      BY <1>0, <2>1, WireShrinks
    <3> QED
      BY <3>1
  <2>2. CASE AsksAgain(w) /\ w \in Reader
    <3>1. PICK n \in Nat : DOMAIN wire = 1..(n + 1) /\ DOMAIN wire' = 1..(n + 1)
                           /\ (\A k \in 1..n : wire'[k] = wire[k + 1]) /\ wire'[n + 1] = w
      BY <1>0, <2>2, WireTurns
    <3>2. w \notin Edit
      BY SyncAssumption, <2>2
    <3>3. \A k \in DOMAIN wire' : k \in 1..n \/ k = n + 1
      BY <3>1
    <3>4. 1..n \subseteq DOMAIN wire'
      BY <3>1
    <3> QED
      BY <3>1, <3>2, <3>3, <3>4
  <2> QED
    BY <2>1, <2>2
<1>2. \A k \in 1..n, i \in Id : CreatedAt(k + 1, i) => CreatedAt(k, i)'
  BY <1>1 DEF CreatedAt
<1>3. \A k \in DOMAIN wire, i \in Id : CreatedAt(k, i) /\ doc[i] = Gone => k - 1 \in 1..n /\ CreatedAt(k - 1, i)'
  <2>1. SUFFICES ASSUME NEW k \in DOMAIN wire, NEW i \in Id, CreatedAt(k, i), doc[i] = Gone
                 PROVE  k - 1 \in 1..n /\ CreatedAt(k - 1, i)'
    OBVIOUS
  <2>2. k # 1
    BY <2>1 DEF CreatedAt
  <2>3. k - 1 \in 1..n /\ (k - 1) + 1 = k
    BY <1>1, <2>2
  <2> QED
    BY <1>2, <2>1, <2>3
<1>4. UpdatesMeet'
  <2>1. SUFFICES ASSUME NEW k \in DOMAIN wire', wire'[k] \in Edit, edit'[wire'[k]].kind = "update",
                        doc[edit'[wire'[k]].id] = Gone
                 PROVE  \E j \in DOMAIN wire' : j < k /\ CreatedAt(j, edit[wire[k]].id)'
    BY DEF UpdatesMeet
  <2>2. k \in 1..n /\ k + 1 \in DOMAIN wire /\ wire'[k] = wire[k + 1] /\ edit'[wire'[k]] = edit[wire[k + 1]]
    BY <1>1, <2>1
  <2>3. PICK i \in Id : i = edit[wire[k + 1]].id
    BY <2>1, <2>2, NotYet DEF Typed, SyncType
  <2>4. PICK j \in DOMAIN wire : j < k + 1 /\ CreatedAt(j, i)
    BY <2>1, <2>2, <2>3 DEF UpdatesMeet
  <2>5. j - 1 \in 1..n /\ CreatedAt(j - 1, i)' /\ j - 1 < k
    BY <1>1, <1>3, <2>1, <2>2, <2>3, <2>4
  <2> QED
    BY <1>1, <2>2, <2>3, <2>5
<1>5. ShownComes'
  <2>1. SUFFICES ASSUME NEW i \in Id, store'[i] # Gone, doc[i] = Gone PROVE \E k \in DOMAIN wire' : CreatedAt(k, i)'
    BY DEF ShownComes
  <2>2. PICK k \in DOMAIN wire : CreatedAt(k, i)
    BY <2>1 DEF ShownComes
  <2> QED
    BY <1>1, <1>3, <2>1, <2>2
<1>6. EditSucceeds' /\ ItemsExist'
  BY DEF EditSucceeds, ItemsExist
<1> QED
  BY <1>4, <1>5, <1>6

LEMMA GentleInvStep ==
  ASSUME IsFiniteSet(Id), Typed, AppCallers, AnswerInv, GentleInv, [Next]_vars
  PROVE  GentleInv'
<1>0. SUFFICES ASSUME Gentle', Gentle PROVE UpdatesMeet' /\ ShownComes' /\ EditSucceeds' /\ ItemsExist'
  BY OrderlyStep, DocSteps DEF GentleInv, Gentle
<1>1. /\ UpdatesMeet /\ ShownComes /\ EditSucceeds /\ ItemsExist
      /\ DocType /\ SeqType /\ \A k \in DOMAIN wire : wire[k] \in Edit \union Reader
  BY <1>0, WireParts DEF GentleInv, Typed
<1>2. CASE ForeignChange
  <2>1. UNCHANGED <<mode, wire, answer, sync, edit, reader>> /\ UNCHANGED <<wire, edit, store, answer>>
    BY <1>2, ForeignParts DEF sync
  <2>2. PICK i \in Id, gone \in BOOLEAN : Write(i, gone) /\ (gone => mode.foreignDeletes)
    BY <1>2, ForeignParts
  <2>3. ~gone
    BY <1>0, <2>2 DEF Gentle, Orderly
  <2>4. \A j \in Id : doc'[j] = Gone => doc[j] = Gone
    BY <1>1, <2>1, <2>2, <2>3, WriteParts DEF DocType, Gone
  <2>5. UpdatesMeet' /\ ShownComes'
    BY <1>1, <2>1, <2>4, GentleGrows
  <2>6. EditSucceeds'
    <3>1. answer # NoAnswer /\ wire[1] \in Edit => edit[wire[1]].id \in Id
      BY WireParts, NotYet DEF Typed, SyncType, WireInv
    <3> QED
      BY <1>1, <2>1, <2>4, <3>1 DEF EditSucceeds
  <2>7. ItemsExist'
    <3>1. answer # NoAnswer /\ answer.ok => DOMAIN answer.items \subseteq Id
      BY DEF AnswerInv
    <3> QED
      BY <1>1, <2>1, <2>4, <3>1 DEF ItemsExist
  <2> QED
    BY <2>5, <2>6, <2>7
<1>3. CASE Serve
  BY <1>0, <1>3, GentleServe
<1>4. ASSUME NEW e \in mode.edits, StartEdit(e) PROVE UpdatesMeet' /\ ShownComes' /\ EditSucceeds' /\ ItemsExist'
  BY <1>0, <1>4, GentleStart
<1>5. ASSUME NEW e \in mode.edits, EditAnswered(e) PROVE UpdatesMeet' /\ ShownComes' /\ EditSucceeds' /\ ItemsExist'
  <2>1. /\ e \in InFlight /\ edit[e].id \in Id /\ wire # <<>> /\ wire[1] = e
        /\ answer # NoAnswer /\ answer' = NoAnswer /\ wire' = Tail(wire)
        /\ UNCHANGED <<mode, kicad, events, rev, loaded, reader>>
        /\ \A f \in Edit \ {e} : edit'[f] = edit[f]
        /\ loaded => store' = IF answer.ok THEN Applied(e) ELSE RolledBack(e)
        /\ ~loaded => store' = store
    BY <1>5, EndParts
  <2>2. e \in Edit /\ answer.ok /\ doc[edit[e].id] # Gone /\ doc' = doc
    BY <1>1, <2>1 DEF EditSucceeds, InFlight, kicad
  <2>3. \A k \in DOMAIN wire : wire[k] \in Edit /\ k # 1 => edit'[wire[k]] = edit[wire[k]]
    <3>1. 1 \in DOMAIN wire
      BY <1>1, <2>1, WireParts
    <3> QED
      BY <2>1, <3>1 DEF Typed, WireInv
  <2>4. \A i \in Id : store'[i] # Gone => store[i] # Gone \/ doc[i] # Gone
    <3>1. loaded => store' = [store EXCEPT ![edit[e].id] = answer.items[edit[e].id]]
      BY <2>1, <2>2 DEF Applied
    <3>2. store \in [Id -> Nat \union Edit] /\ loaded \in BOOLEAN
      BY DEF Typed, SyncType
    <3> QED
      BY <2>1, <2>2, <3>1, <3>2
  <2> QED
    BY <1>1, <2>1, <2>2, <2>3, <2>4, GentleMoves
<1>6. ASSUME NEW r \in mode.readers, StartRefresh(r) \/ HandleEvent(r) PROVE UpdatesMeet' /\ ShownComes' /\ EditSucceeds' /\ ItemsExist'
  <2>1. /\ r \in Reader /\ reader[r].at = "idle" /\ Begins(r) /\ UNCHANGED <<mode, kicad, answer, rev, edit>>
        /\ \/ store' = store
           \/ store' = [store EXCEPT ![events[1].id] = Gone]
    BY <1>6, AskParts
  <2>2. r \notin Edit /\ doc' = doc
    BY SyncAssumption, <2>1 DEF kicad
  <2>3. DOMAIN wire \subseteq DOMAIN wire' /\ (\A k \in DOMAIN wire : wire'[k] = wire[k])
        /\ \A k \in DOMAIN wire' : k \in DOMAIN wire \/ wire'[k] = r
    <3>1. CASE wire' = wire
      BY <3>1
    <3>2. CASE wire' = Append(wire, r)
      <4>1. PICK n \in Nat : DOMAIN wire = 1..n /\ DOMAIN wire' = 1..(n + 1)
                             /\ (\A k \in 1..n : wire'[k] = wire[k]) /\ wire'[n + 1] = r
        BY <1>1, <2>1, <3>2, WireGrows
      <4>2. \A k \in DOMAIN wire' : k \in 1..n \/ k = n + 1
        BY <4>1
      <4> QED
        BY <4>1, <4>2
    <3> QED
      BY <2>1, <3>1, <3>2 DEF Begins
  <2>4. \A k \in DOMAIN wire, i \in Id : CreatedAt(k, i)' <=> CreatedAt(k, i)
    BY <2>1, <2>3 DEF CreatedAt
  <2>5. UpdatesMeet'
    <3>1. SUFFICES ASSUME NEW m \in DOMAIN wire', wire'[m] \in Edit, edit'[wire'[m]].kind = "update",
                          doc[edit'[wire'[m]].id] = Gone
                   PROVE  \E j \in DOMAIN wire' : j < m /\ CreatedAt(j, edit[wire[m]].id)'
      BY <2>2 DEF UpdatesMeet
    <3>2. m \in DOMAIN wire /\ wire'[m] = wire[m]
      BY <2>2, <2>3, <3>1
    <3>3. edit[wire[m]].id \in Id
      BY <3>1, <3>2, NotYet DEF Typed, SyncType
    <3>4. PICK j \in DOMAIN wire : j < m /\ CreatedAt(j, edit[wire[m]].id)
      BY <1>1, <2>1, <3>1, <3>2 DEF UpdatesMeet
    <3> QED
      BY <2>1, <2>3, <2>4, <3>2, <3>3, <3>4
  <2>6. ShownComes'
    <3>1. SUFFICES ASSUME NEW i \in Id, store'[i] # Gone, doc[i] = Gone PROVE \E k \in DOMAIN wire' : CreatedAt(k, i)'
      BY <2>2 DEF ShownComes
    <3>2. store[i] # Gone
      BY <2>1, <3>1 DEF Typed, SyncType
    <3>3. PICK k \in DOMAIN wire : CreatedAt(k, i)
      BY <1>1, <3>1, <3>2 DEF ShownComes
    <3> QED
      BY <2>3, <2>4, <3>3
  <2>7. EditSucceeds' /\ ItemsExist'
    <3>1. answer # NoAnswer => wire'[1] = wire[1]
      BY <2>1, FirstStays DEF Begins
    <3> QED
      BY <1>1, <2>1, <2>2, <3>1 DEF EditSucceeds, ItemsExist
  <2> QED
    BY <2>5, <2>6, <2>7
<1>7. ASSUME NEW r \in mode.readers, ReadSteps(r) PROVE UpdatesMeet' /\ ShownComes' /\ EditSucceeds' /\ ItemsExist'
  <2>1. /\ r \in Reader /\ wire # <<>> /\ wire[1] = r /\ answer # NoAnswer /\ answer' = NoAnswer
        /\ UNCHANGED <<mode, kicad, events, pending, edit>>
        /\ wire' = Tail(wire) \/ AsksAgain(r)
    BY <1>7, ReadParts
  <2>2. \A i \in Id : \/ store'[i] = store[i]
                      \/ store'[i] = Gone
                      \/ answer.ok /\ i \in DOMAIN answer.items /\ store'[i] = answer.items[i]
    BY <1>7, <2>1, ReadFills
  <2>3. doc' = doc /\ wire[1] \notin Edit
    BY SyncAssumption, <2>1 DEF kicad
  <2>4. \A i \in Id : store'[i] # Gone => store[i] # Gone \/ doc[i] # Gone
    BY <1>1, <2>1, <2>2 DEF ItemsExist
  <2> QED
    BY <1>1, <2>1, <2>3, <2>4, GentleMoves
<1>8. CASE LoseEvent \/ UNCHANGED vars
  <2>1. UNCHANGED <<wire, edit, store, doc, answer>>
    BY <1>8 DEF LoseEvent, vars, sync, kicad
  <2>2. UpdatesMeet' /\ ShownComes'
    BY <1>1, <2>1, GentleGrows
  <2> QED
    BY <1>1, <2>1, <2>2 DEF EditSucceeds, ItemsExist
<1> QED
  BY <1>2, <1>3, <1>4, <1>5, <1>6, <1>7, <1>8 DEF Next

-----------------------------------------------------------------------------
(* What the store shows. *)

\* What a re-read brings for an item that has not changed since.
LEMMA ReadReflects ==
  ASSUME IsFiniteSet(Id), Typed, AppCallers, AnswerInv, NEW r \in mode.readers, ReadSteps(r), NEW i \in Id,
         changedAt[i] <= rev', loaded', loaded /\ changedAt[i] <= rev => store[i] = doc[i]
  PROVE  store'[i] = doc[i]
<1>1. /\ r \in Reader /\ wire[1] = r /\ answer # NoAnswer /\ UNCHANGED kicad /\ rev' \in {rev, answer.rev}
      /\ reader[r] \in ReaderType /\ reader[r].since <= rev /\ reader[r].since \in Nat /\ rev \in Nat
      /\ reader[r].eventRev = 0
  BY ReadParts DEF Typed, SyncType, ReaderType
<1>2. /\ answer.rev \in Nat /\ rev <= answer.rev /\ changedAt[i] \in Nat /\ docRev \in Nat
      /\ answer.ok => /\ i \in DOMAIN answer.items => answer.items[i] = doc[i]
                      /\ Covers(r)
  <2>1. answer.rev \in Nat /\ rev <= answer.rev /\ changedAt[i] \in Nat /\ docRev \in Nat
    BY <1>1 DEF AnswerInv, Typed, DocType
  <2>2. changedAt[i] <= answer.rev
    BY <1>1, <2>1
  <2> QED
    BY <1>1, <2>1, <2>2 DEF AnswerInv
<1>3. changedAt[i] <= answer.rev
  BY <1>1, <1>2
<1>4. loaded /\ store'[i] = store[i] /\ rev' = rev => store'[i] = doc[i]
  OBVIOUS
<1>5. CASE IdsAnswered(r)
  <2>1. loaded' = loaded /\ rev' = rev /\ reader[r].at = "ids"
    <3>1. loaded' = loaded /\ reader[r].at = "ids" /\ (rev' = rev \/ SetRevision(reader[r].eventRev))
      BY <1>5 DEF IdsAnswered
    <3>2. SetRevision(0) => rev' = rev
      BY <1>1 DEF SetRevision
    <3> QED
      BY <1>1, <3>1, <3>2
  <2>2. CASE ~answer.ok
    BY <1>4, <1>5, <2>1, <2>2 DEF IdsAnswered
  <2>3. CASE answer.ok
    <3>1. store'[i] = IF i \in DOMAIN answer.items THEN answer.items[i]
                      ELSE IF i \in reader[r].ids THEN Gone ELSE store[i]
      BY <1>5, <2>3 DEF IdsAnswered, Merge
    <3>2. i \notin DOMAIN answer.items /\ i \in reader[r].ids => doc[i] = Gone
      BY <1>2, <1>3, <2>1, <2>3 DEF Covers, Left
    <3> QED
      BY <1>2, <2>1, <2>3, <3>1, <3>2
  <2> QED
    BY <2>2, <2>3
<1>6. CASE CountsAnswered(r)
  BY <1>4, <1>6 DEF CountsAnswered, sync
<1>7. ASSUME answer.ok, ReplaceAll, i \notin DOMAIN answer.items => doc[i] = Gone PROVE store'[i] = doc[i]
  <2>1. store'[i] = IF i \in DOMAIN answer.items THEN answer.items[i] ELSE Gone
    BY <1>7 DEF ReplaceAll
  <2> QED
    BY <1>2, <1>7, <2>1
<1>8. CASE FullAnswered(r)
  <2>1. loaded' = loaded /\ reader[r].at = "full"
    BY <1>8 DEF FullAnswered
  <2>2. CASE ~answer.ok
    BY <1>4, <1>8, <2>1, <2>2 DEF FullAnswered
  <2>3. CASE answer.ok
    <3>1. i \notin DOMAIN answer.items => doc[i] = Gone
      BY <1>2, <1>3, <2>1, <2>3 DEF Covers, Left
    <3> QED
      BY <1>7, <1>8, <2>3, <3>1 DEF FullAnswered
  <2> QED
    BY <2>2, <2>3
<1>9. CASE LoadAnswered(r)
  <2>1. CASE ~answer.ok
    BY <1>4, <1>9, <2>1 DEF LoadAnswered
  <2>2. CASE answer.ok
    <3>1. i \notin DOMAIN answer.items => doc[i] = Gone
      BY <1>2, <1>3, <1>9, <2>2 DEF Covers, Left, LoadAnswered
    <3> QED
      BY <1>7, <1>9, <2>2, <3>1 DEF LoadAnswered
  <2> QED
    BY <2>1, <2>2
<1>10. CASE SinceAnswered(r)
  <2>1. loaded' = loaded /\ reader[r].at = "since"
    BY <1>10 DEF SinceAnswered
  <2>2. CASE UNCHANGED <<store, rev>>
    BY <1>4, <2>1, <2>2
  <2>3. CASE /\ answer.ok /\ ~Moved(r)
             /\ IF answer.rev <= reader[r].since THEN UNCHANGED store
                ELSE IF IsFull(r) THEN ReplaceAll ELSE Merge(answer.gone)
             /\ SetRevision(IF answer.rev > reader[r].eventRev THEN answer.rev ELSE reader[r].eventRev)
    <3>1. CASE answer.rev <= reader[r].since
      <4>1. answer.rev = rev
        BY <1>1, <1>2, <3>1
      <4> QED
        BY <1>1, <1>4, <2>1, <2>3, <3>1, <4>1
    <3>2. CASE ~(answer.rev <= reader[r].since)
      <4>1. i \notin DOMAIN answer.items =>
              IF IsFull(r) \/ i \in answer.gone THEN doc[i] = Gone ELSE changedAt[i] <= reader[r].since
        BY <1>2, <1>3, <2>1, <2>3 DEF Covers, Left
      <4>2. CASE IsFull(r)
        <5>1. i \notin DOMAIN answer.items => doc[i] = Gone
          BY <4>1, <4>2
        <5> QED
          BY <1>7, <2>3, <3>2, <4>2, <5>1
      <4>3. CASE ~IsFull(r)
        <5>1. store'[i] = IF i \in DOMAIN answer.items THEN answer.items[i]
                          ELSE IF i \in answer.gone THEN Gone ELSE store[i]
          BY <2>3, <3>2, <4>3 DEF Merge
        <5>2. changedAt[i] <= reader[r].since => store[i] = doc[i]
          BY <1>1, <1>2, <2>1
        <5> QED
          BY <1>2, <2>3, <4>1, <4>3, <5>1, <5>2
      <4> QED
        BY <4>2, <4>3
    <3> QED
      BY <3>1, <3>2
  <2> QED
    BY <1>10, <2>2, <2>3 DEF SinceAnswered
<1> QED
  BY <1>5, <1>6, <1>8, <1>9, <1>10 DEF ReadSteps

\* The inverse patch of an edit that takes its turn is what KiCad has.
LEMMA PendingInvStep ==
  ASSUME IsFiniteSet(Id), Typed, AppCallers, AnswerInv, TurnsInv, PendingInv, Reflects, GhostInv, [Next]_vars
  PROVE  PendingInv'
<1>0. mode' = mode
  BY DocSteps
<1>1. SUFFICES ASSUME ~mode.overlap, loaded'
               PROVE  \A e \in InFlight' :
                        /\ Key(e)' \in DOMAIN pending'
                        /\ pending'[Key(e)'] \in Nat
                        /\ changedAt'[edit'[e].id] <= rev' => pending'[Key(e)'] = doc'[edit'[e].id]
  BY <1>0 DEF PendingInv
<1>2. ASSUME UNCHANGED <<sync, edit>>
      PROVE  \A e \in InFlight' :
                        /\ Key(e)' \in DOMAIN pending'
                        /\ pending'[Key(e)'] \in Nat
                        /\ changedAt'[edit'[e].id] <= rev' => pending'[Key(e)'] = doc'[edit'[e].id]
  <2>1. SUFFICES ASSUME NEW e \in InFlight
                 PROVE  /\ Key(e) \in DOMAIN pending
                        /\ pending[Key(e)] \in Nat
                        /\ changedAt'[edit[e].id] <= rev => pending[Key(e)] = doc'[edit[e].id]
    BY <1>2 DEF InFlight, Key, sync
  <2>2. /\ Key(e) \in DOMAIN pending /\ pending[Key(e)] \in Nat
        /\ changedAt[edit[e].id] <= rev => pending[Key(e)] = doc[edit[e].id]
    BY <1>1, <1>2 DEF PendingInv, sync
  <2>3. edit[e].id \in Id /\ rev \in Nat /\ rev <= docRev /\ docRev \in Nat /\ DocType
    BY DEF Typed, SyncType, DocType
  <2>4. CASE UNCHANGED kicad
    BY <2>2, <2>4 DEF kicad
  <2>5. ASSUME NEW i \in Id, NEW gone \in BOOLEAN, Write(i, gone)
        PROVE  changedAt'[edit[e].id] <= rev => pending[Key(e)] = doc'[edit[e].id]
    <3>1. changedAt'[i] = docRev + 1 /\ \A j \in Id \ {i} : doc'[j] = doc[j] /\ changedAt'[j] = changedAt[j]
      BY <1>0, <2>3, <2>5, WriteParts
    <3> QED
      BY <2>2, <2>3, <3>1
  <2> QED
    BY <2>2, <2>4, <2>5, DocSteps
<1>3. ForeignChange \/ LoseEvent \/ Serve \/ UNCHANGED vars => UNCHANGED <<sync, edit>>
  BY DEF ForeignChange, LoseEvent, Serve, vars
<1>4. ASSUME InFlight = {}, edit' = edit PROVE InFlight' = {}
  BY <1>4 DEF InFlight
<1>5. ASSUME NEW e \in mode.edits, StartEdit(e), NEW f \in InFlight'
      PROVE  /\ Key(f)' \in DOMAIN pending'
             /\ pending'[Key(f)'] \in Nat
             /\ changedAt'[edit'[f].id] <= rev' => pending'[Key(f)'] = doc'[edit'[f].id]
  <2>1. /\ e \in Edit /\ InFlight = {} /\ UNCHANGED <<mode, kicad, events, answer, rev, loaded, reader>>
    BY <1>1, <1>5, StartParts
  <2>2. PICK k \in Kind, i \in Id : Shows(e, k, i)
    BY <1>5, StartParts
  <2>3. /\ edit'[e].kind = k /\ edit'[e].id = i /\ \A g \in Edit \ {e} : edit'[g] = edit[g]
        /\ Remember(<<k, i>>, store[i])
    BY <1>1, <2>1, <2>2 DEF Shows
  <2>4. f = e
    BY <2>1, <2>3 DEF InFlight
  <2>5. Key(f)' = <<k, i>> /\ <<k, i>> \in DOMAIN pending' /\ pending'[<<k, i>>] = store[i]
    BY <2>3, <2>4 DEF Key, Remember
  <2>6. store[i] \in Nat /\ (changedAt[i] <= rev => store[i] = doc[i])
    <3>1. Orderly /\ ~EditOn(i) /\ loaded
      BY <1>1, <2>1 DEF Orderly, EditOn
    <3>2. store[i] \in Nat \union Edit
      BY DEF Typed, SyncType
    <3> QED
      BY <2>1, <3>1, <3>2 DEF GhostInv, Reflects
  <2> QED
    BY <2>1, <2>3, <2>4, <2>5, <2>6 DEF kicad
<1>6. ASSUME NEW e \in mode.edits, EditAnswered(e) PROVE InFlight' = {}
  <2>1. e \in InFlight /\ edit'[e].at = "done" /\ \A f \in Edit \ {e} : edit'[f] = edit[f]
    BY <1>6, EndParts
  <2> QED
    BY <1>1, <2>1 DEF TurnsInv, InFlight
<1>7. ASSUME NEW r \in mode.readers, StartRefresh(r) \/ HandleEvent(r) PROVE InFlight' = {}
  <2>1. MayRead /\ edit' = edit
    BY <1>7, AskParts
  <2> QED
    BY <1>1, <1>4, <2>1 DEF MayRead
<1>8. ASSUME NEW r \in mode.readers, ReadSteps(r) PROVE InFlight' = {}
  <2>1. r \in Reader /\ reader[r].at \in Asking /\ edit' = edit
    BY <1>8, ReadParts
  <2>2. r \in Busy
    BY <2>1 DEF Busy, Asking
  <2> QED
    BY <1>1, <1>4, <2>1, <2>2 DEF TurnsInv
<1> QED
  BY <1>2, <1>3, <1>5, <1>6, <1>7, <1>8 DEF Next

\* What an edit leaves in the store when it is answered.
LEMMA EndShows ==
  ASSUME Typed, AnswerInv, Orderly, TurnsInv, PendingInv, GentleInv, NEW e \in mode.edits, EditAnswered(e), loaded
  PROVE  \E v \in Nat : /\ store' = [store EXCEPT ![edit[e].id] = v]
                        /\ changedAt[edit[e].id] <= rev => v = doc[edit[e].id]
<1>1. /\ e \in InFlight /\ edit[e].id \in Id /\ wire # <<>> /\ wire[1] = e /\ answer # NoAnswer
      /\ store' = IF answer.ok THEN Applied(e) ELSE RolledBack(e)
  BY EndParts
<1>2. e \in Edit
  BY <1>1 DEF InFlight
<1>3. CASE answer.ok
  <2>1. answer.items[edit[e].id] \in Nat /\ (changedAt[edit[e].id] <= answer.rev => answer.items[edit[e].id] = doc[edit[e].id])
    BY <1>1, <1>2, <1>3 DEF AnswerInv
  <2>2. changedAt[edit[e].id] \in Nat /\ rev \in Nat /\ answer.rev \in Nat /\ rev <= answer.rev
    BY <1>1 DEF Typed, DocType, SyncType, AnswerInv
  <2>3. store' = [store EXCEPT ![edit[e].id] = answer.items[edit[e].id]]
    BY <1>1, <1>3 DEF Applied
  <2>4. PICK v \in Nat : v = answer.items[edit[e].id]
    BY <2>1
  <2>5. changedAt[edit[e].id] <= rev => v = doc[edit[e].id]
    BY <2>1, <2>2, <2>4
  <2> QED
    BY <2>3, <2>4, <2>5
<1>4. CASE ~answer.ok
  <2>1. ~mode.overlap
    BY <1>1, <1>2, <1>4 DEF GentleInv, Gentle, EditSucceeds
  <2>2. /\ Key(e) \in DOMAIN pending /\ pending[Key(e)] \in Nat
        /\ changedAt[edit[e].id] <= rev => pending[Key(e)] = doc[edit[e].id]
    BY <1>1, <2>1 DEF PendingInv
  <2>3. store' = [store EXCEPT ![edit[e].id] = pending[Key(e)]]
    BY <1>1, <1>4, <2>2 DEF RolledBack
  <2> QED
    BY <2>2, <2>3
<1> QED
  BY <1>3, <1>4

LEMMA ReflectsStep ==
  ASSUME IsFiniteSet(Id), Typed, AppCallers, AnswerInv, TurnsInv, FreshInv, EventInv, PendingInv, GentleInv,
         Reflects, [Next]_vars
  PROVE  Reflects'
<1>0. SUFFICES ASSUME loaded', Orderly', NEW i \in Id, changedAt'[i] <= rev', ~EditOn(i)' PROVE store'[i] = doc'[i]
  BY DEF Reflects
<1>1. /\ Orderly /\ rev \in Nat /\ rev <= docRev /\ docRev \in Nat /\ DocType
      /\ store \in [Id -> Nat \union Edit] /\ mode' = mode
  BY <1>0, OrderlyStep, DocSteps DEF Typed, SyncType, DocType
<1>2. loaded /\ changedAt[i] <= rev /\ ~EditOn(i) => store[i] = doc[i]
  BY <1>1 DEF Reflects
<1>3. ASSUME UNCHANGED <<sync, edit>> PROVE store'[i] = doc'[i]
  <2>1. loaded /\ rev' = rev /\ store'[i] = store[i] /\ ~EditOn(i)
    BY <1>0, <1>3 DEF sync, EditOn, InFlight
  <2>2. CASE UNCHANGED kicad
    BY <1>0, <1>2, <2>1, <2>2 DEF kicad
  <2>3. ASSUME NEW j \in Id, NEW gone \in BOOLEAN, Write(j, gone) PROVE store'[i] = doc'[i]
    <3>1. changedAt'[j] = docRev + 1 /\ \A k \in Id \ {j} : doc'[k] = doc[k] /\ changedAt'[k] = changedAt[k]
      BY <1>1, <2>3, WriteParts
    <3> QED
      BY <1>0, <1>1, <1>2, <2>1, <3>1
  <2> QED
    BY <2>2, <2>3, DocSteps
<1>4. ForeignChange \/ LoseEvent \/ Serve \/ UNCHANGED vars => UNCHANGED <<sync, edit>>
  BY DEF ForeignChange, LoseEvent, Serve, vars
<1>5. ASSUME NEW e \in mode.edits, StartEdit(e) PROVE store'[i] = doc'[i]
  <2>1. e \in Edit /\ edit[e].at = "new" /\ UNCHANGED <<mode, kicad, events, answer, rev, loaded, reader>>
    BY <1>5, StartParts
  <2>2. PICK k \in Kind, j \in Id : Shows(e, k, j)
    BY <1>5, StartParts
  <2>3. /\ edit'[e].at = "sent" /\ edit'[e].id = j /\ \A f \in Edit \ {e} : edit'[f] = edit[f]
        /\ \A m \in Id \ {j} : store'[m] = store[m]
    BY <1>1, <2>2 DEF Shows
  <2>4. j # i
    BY <1>0, <2>1, <2>3 DEF EditOn, InFlight
  <2>5. ~EditOn(i)
    BY <1>0, <2>1, <2>3 DEF EditOn, InFlight
  <2> QED
    BY <1>0, <1>2, <2>1, <2>3, <2>4, <2>5 DEF kicad
<1>6. ASSUME NEW e \in mode.edits, EditAnswered(e) PROVE store'[i] = doc'[i]
  <2>1. /\ e \in InFlight /\ UNCHANGED <<mode, kicad, events, rev, loaded, reader>>
        /\ \A f \in Edit \ {e} : edit'[f] = edit[f]
    BY <1>6, EndParts
  <2>2. loaded /\ changedAt[i] <= rev /\ doc' = doc
    BY <1>0, <2>1 DEF kicad
  <2>3. PICK v \in Nat : /\ store' = [store EXCEPT ![edit[e].id] = v]
                         /\ changedAt[edit[e].id] <= rev => v = doc[edit[e].id]
    BY <1>1, <1>6, <2>2, EndShows
  <2>4. CASE edit[e].id = i
    BY <1>1, <2>2, <2>3, <2>4
  <2>5. CASE edit[e].id # i
    <3>1. ~EditOn(i)
      BY <1>0, <2>1, <2>5 DEF EditOn, InFlight
    <3> QED
      BY <1>1, <1>2, <2>2, <2>3, <2>5, <3>1
  <2> QED
    BY <2>4, <2>5
<1>7. ASSUME NEW r \in mode.readers, StartRefresh(r) \/ HandleEvent(r) PROVE store'[i] = doc'[i]
  <2>1. /\ UNCHANGED <<mode, kicad, answer, rev, loaded, pending, edit>>
        /\ \/ store' = store
           \/ /\ loaded /\ events # <<>> /\ events[1].gone /\ events[1].id \in Id
              /\ store' = [store EXCEPT ![events[1].id] = Gone]
    BY <1>7, AskParts
  <2>2. store[i] = doc[i] /\ doc' = doc
    BY <1>0, <1>2, <2>1 DEF kicad, EditOn, InFlight
  <2>3. events # <<>> /\ events[1].gone => doc[events[1].id] = Gone
    <3>1. SUFFICES ASSUME events # <<>>, events[1].gone PROVE doc[events[1].id] = Gone
      OBVIOUS
    <3>2. 1 \in DOMAIN events
      BY <3>1, EventParts DEF Typed
    <3>3. ~mode.reborn
      BY <3>1, <3>2, SyncAssumption DEF EventInv, AppCallers, Typed, DocType
    <3> QED
      BY <3>1, <3>2, <3>3 DEF FreshInv
  <2> QED
    BY <1>1, <2>1, <2>2, <2>3
<1>8. ASSUME NEW r \in mode.readers, ReadSteps(r) PROVE store'[i] = doc'[i]
  <2>1. UNCHANGED <<mode, kicad, events, pending, edit>>
    BY <1>8, ReadParts
  <2>2. doc' = doc /\ changedAt[i] <= rev' /\ ~EditOn(i)
    BY <1>0, <2>1 DEF kicad, EditOn, InFlight
  <2> QED
    BY <1>0, <1>2, <1>8, <2>2, ReadReflects
<1> QED
  BY <1>3, <1>4, <1>5, <1>6, <1>7, <1>8 DEF Next

LEMMA GhostInvStep ==
  ASSUME IsFiniteSet(Id), Typed, AppCallers, AnswerInv, TurnsInv, PendingInv, GentleInv, GhostInv, [Next]_vars
  PROVE  GhostInv'
<1>0. /\ store \in [Id -> Nat \union Edit] /\ Edit \intersect Nat = {} /\ loaded \in BOOLEAN
      /\ mode' = mode /\ (Orderly' => Orderly)
  BY SyncAssumption, OrderlyStep, DocSteps DEF Typed, SyncType
<1>1. ASSUME loaded => loaded', \A e \in InFlight : edit'[e] = edit[e],
             \A i \in Id : store'[i] = store[i] \/ store'[i] \in Nat
      PROVE  GhostInv'
  <2>1. InFlight \subseteq InFlight'
    BY <1>1 DEF InFlight
  <2> QED
    BY <1>0, <1>1, <2>1 DEF GhostInv
<1>2. ASSUME UNCHANGED <<sync, edit>> PROVE GhostInv'
  BY <1>1, <1>2 DEF sync
<1>3. ForeignChange \/ LoseEvent \/ Serve \/ UNCHANGED vars => UNCHANGED <<sync, edit>>
  BY DEF ForeignChange, LoseEvent, Serve, vars
<1>4. ASSUME NEW e \in mode.edits, StartEdit(e) PROVE GhostInv'
  <2>1. e \in Edit /\ edit[e].at = "new" /\ loaded' = loaded
    BY <1>4, StartParts
  <2>2. PICK k \in Kind, j \in Id : Shows(e, k, j)
    BY <1>4, StartParts
  <2>3. edit'[e].at = "sent" /\ edit'[e].id = j /\ \A f \in Edit \ {e} : edit'[f] = edit[f]
    BY <2>2 DEF Shows
  <2>4. \A f \in InFlight : edit'[f] = edit[f] /\ f \in InFlight'
    BY <2>1, <2>3 DEF InFlight
  <2>5. e \in InFlight'
    BY <2>1, <2>3 DEF InFlight
  <2>6. CASE ~loaded
    BY <1>1, <2>1, <2>2, <2>4, <2>6 DEF Shows
  <2>7. CASE loaded
    <3>1. (\A m \in Id \ {j} : store'[m] = store[m]) /\ (store'[j] = e \/ store'[j] = Gone)
      BY <1>0, <2>2, <2>7 DEF Shows
    <3>2. Orderly' => \A m \in Id : store'[m] \in Edit => store'[m] \in InFlight' /\ edit'[store'[m]].id = m
      <4>1. SUFFICES ASSUME Orderly', NEW m \in Id, store'[m] \in Edit
                     PROVE  store'[m] \in InFlight' /\ edit'[store'[m]].id = m
        OBVIOUS
      <4>2. CASE m = j
        BY <1>0, <2>3, <2>5, <3>1, <4>1, <4>2 DEF Gone
      <4>3. CASE m # j
        BY <1>0, <2>4, <3>1, <4>1, <4>3 DEF GhostInv
      <4> QED
        BY <4>2, <4>3
    <3> QED
      BY <2>1, <2>7, <3>2 DEF GhostInv
  <2> QED
    BY <1>0, <2>6, <2>7
<1>5. ASSUME NEW e \in mode.edits, EditAnswered(e) PROVE GhostInv'
  <2>1. /\ e \in InFlight /\ edit[e].id \in Id /\ UNCHANGED <<mode, kicad, events, rev, loaded, reader>>
        /\ \A f \in Edit \ {e} : edit'[f] = edit[f]
        /\ ~loaded => UNCHANGED <<pending, store>>
    BY <1>5, EndParts
  <2>2. CASE ~loaded
    BY <1>0, <2>1, <2>2 DEF GhostInv
  <2>3. CASE loaded
    <3>1. SUFFICES ASSUME Orderly, NEW m \in Id, store'[m] \in Edit
                   PROVE  store'[m] \in InFlight' /\ edit'[store'[m]].id = m
      BY <1>0, <2>1, <2>3 DEF GhostInv
    <3>2. PICK v \in Nat : store' = [store EXCEPT ![edit[e].id] = v]
      BY <1>5, <2>3, <3>1, EndShows
    <3>3. m # edit[e].id /\ store'[m] = store[m]
      BY <1>0, <3>1, <3>2
    <3>4. store[m] \in InFlight /\ edit[store[m]].id = m /\ store[m] # e
      BY <3>1, <3>3 DEF GhostInv
    <3> QED
      BY <2>1, <3>3, <3>4 DEF InFlight
  <2> QED
    BY <1>0, <2>2, <2>3
<1>6. ASSUME NEW r \in mode.readers, StartRefresh(r) \/ HandleEvent(r) PROVE GhostInv'
  <2>1. /\ UNCHANGED <<mode, kicad, answer, rev, loaded, pending, edit>>
        /\ store' = store \/ (events[1].id \in Id /\ store' = [store EXCEPT ![events[1].id] = Gone])
    BY <1>6, AskParts
  <2>2. \A i \in Id : store'[i] = store[i] \/ store'[i] \in Nat
    BY <1>0, <2>1 DEF Gone
  <2> QED
    BY <1>1, <2>1, <2>2
<1>7. ASSUME NEW r \in mode.readers, ReadSteps(r) PROVE GhostInv'
  <2>1. wire[1] = r /\ answer # NoAnswer /\ edit' = edit
    BY <1>7, ReadParts
  <2>2. /\ loaded => loaded'
        /\ \A i \in Id : \/ store'[i] = store[i]
                         \/ store'[i] = Gone
                         \/ answer.ok /\ i \in DOMAIN answer.items /\ store'[i] = answer.items[i]
    BY <1>7, <2>1, ReadFills
  <2>3. \A i \in Id : store'[i] = store[i] \/ store'[i] \in Nat
    BY <2>1, <2>2 DEF AnswerInv, Gone
  <2> QED
    BY <1>1, <2>1, <2>2, <2>3
<1> QED
  BY <1>2, <1>3, <1>4, <1>5, <1>6, <1>7 DEF Next

-----------------------------------------------------------------------------
(* The theorems. *)

SyncInv ==
  /\ Typed /\ TurnsInv /\ FreshInv /\ EventInv /\ AnswerInv /\ CountInv
  /\ GentleInv /\ PendingInv /\ Reflects /\ GhostInv

LEMMA SyncInvInit ==
  ASSUME Init
  PROVE  SyncInv
<1>1. /\ mode \in Mode /\ docRev = 1 /\ events = <<>> /\ wire = <<>> /\ answer = NoAnswer
      /\ store = [i \in Id |-> Gone] /\ rev = 0 /\ loaded = FALSE
      /\ pending = <<>> /\ edit = [e \in Edit |-> NewEdit] /\ reader = [r \in Reader |-> Idle]
  BY DEF Init
<1>2. changedAt \in [Id -> {0, 1}] /\ doc = changedAt
  BY DEF Init, Gone
<1>3. InFlight = {} /\ Busy = {}
  BY <1>1 DEF InFlight, Busy, NewEdit, Idle
<1>4. NewEdit \in EditType /\ Idle \in ReaderType /\ Idle.since = 0 /\ Idle.at = "idle" /\ NewEdit.kind = "none"
  BY DEF NewEdit, EditType, Idle, ReaderType, Asking
<1>5. DocType
  BY <1>1, <1>2 DEF DocType, Gone
<1>6. SyncType
  <2>1. DOMAIN pending = {}
    BY <1>1
  <2>2. store \in [Id -> Nat \union Edit]
    BY <1>1 DEF Gone
  <2>3. edit \in [Edit -> EditType] /\ \A e \in Edit : edit[e].kind = "none"
    BY <1>1, <1>4
  <2>4. reader \in [Reader -> ReaderType] /\ \A r \in Reader : reader[r].since <= rev
    BY <1>1, <1>4
  <2>5. rev \in Nat /\ rev <= docRev
    BY <1>1
  <2>6. loaded \in BOOLEAN
    BY <1>1
  <2> QED
    BY <1>3, <2>1, <2>2, <2>3, <2>4, <2>5, <2>6 DEF SyncType
<1>7. events \in Seq(EventType) /\ wire \in Seq(Edit \union Reader) /\ DOMAIN events = {} /\ DOMAIN wire = {}
  BY <1>1
<1>8. Typed
  BY <1>1, <1>5, <1>6, <1>7 DEF Typed, SeqType, WireInv
<1>9. TurnsInv /\ EventInv /\ AnswerInv /\ PendingInv
  BY <1>1, <1>3, <1>7 DEF TurnsInv, EventInv, AnswerInv, PendingInv
<1>10. FreshInv
  BY <1>3, <1>7 DEF FreshInv, Creates
<1>11. CountInv
  BY <1>1, <1>4 DEF CountInv
<1>12. GentleInv
  BY <1>1, <1>7 DEF GentleInv, UpdatesMeet, ShownComes, EditSucceeds, ItemsExist
<1>13. Reflects /\ GhostInv
  BY <1>1, SyncAssumption DEF Reflects, GhostInv, Gone
<1> QED
  BY <1>8, <1>9, <1>10, <1>11, <1>12, <1>13 DEF SyncInv

\* Every step keeps the invariant.
LEMMA SyncInvStep ==
  ASSUME IsFiniteSet(Id), AppCallers, SyncInv, [Next]_vars
  PROVE  SyncInv'
<1>1. /\ Typed /\ TurnsInv /\ FreshInv /\ EventInv /\ AnswerInv /\ CountInv
      /\ GentleInv /\ PendingInv /\ Reflects /\ GhostInv
  BY DEF SyncInv
<1>2. Typed' /\ TurnsInv' /\ FreshInv' /\ EventInv' /\ AnswerInv' /\ CountInv'
  BY <1>1, TypedStep, TurnsInvStep, FreshInvStep, EventInvStep, AnswerInvStep, CountInvStep
<1>3. GentleInv' /\ PendingInv' /\ Reflects' /\ GhostInv'
  BY <1>1, GentleInvStep, PendingInvStep, ReflectsStep, GhostInvStep
<1> QED
  BY <1>2, <1>3 DEF SyncInv

\* Whatever is asked, edited and lost, in any order, the store has an item as KiCad
\* has it, when the item has not changed since the revision the store claims and
\* nothing about it is under way: document-sync.ts with any number of items,
\* edits and re-reads.
THEOREM StoreReflects ==
  ASSUME IsFiniteSet(Id), AppCallers
  PROVE  Spec => []ReflectsRevision
<1>1. SyncInv => ReflectsRevision
  <2>1. SUFFICES ASSUME SyncInv, NEW i \in Id, Orderly, loaded, changedAt[i] <= rev, ~InFlux(i)
                 PROVE  store[i] = doc[i]
    BY DEF ReflectsRevision
  <2>2. ~EditOn(i)
    BY <2>1 DEF InFlux, EditOn
  <2> QED
    BY <2>1, <2>2 DEF SyncInv, Reflects
<1>2. Init => SyncInv
  BY SyncInvInit
<1>3. SyncInv /\ [Next]_vars => SyncInv'
  BY SyncInvStep
<1> QED
  BY <1>1, <1>2, <1>3, PTL DEF Spec

\* An optimistic version is shown only while its edit is under way: the answer
\* replaces it, or the inverse patch takes it back (document-sync.ts, onChange).
THEOREM NoGhostStays ==
  ASSUME IsFiniteSet(Id), AppCallers
  PROVE  Spec => []NoGhost
<1>1. SyncInv => NoGhost
  BY DEF SyncInv, GhostInv, NoGhost
<1>2. Init => SyncInv
  BY SyncInvInit
<1>3. SyncInv /\ [Next]_vars => SyncInv'
  BY SyncInvStep
<1> QED
  BY <1>1, <1>2, <1>3, PTL DEF Spec

-----------------------------------------------------------------------------
(* Any callers, and any set of items: types, and who waits for whom.         *)

\* Who waits has asked KiCad, or has joined the one load under way.
OnWire(w) == \E k \in DOMAIN wire : wire[k] = w
Asked ==
  /\ \A e \in InFlight : OnWire(e)
  /\ \A r \in Reader : reader[r].at \in Asking => OnWire(r)
Loads ==
  /\ loading <=> \E r \in Reader : reader[r].at = "load"
  /\ \A q, r \in Reader : reader[q].at = "load" /\ reader[r].at = "load" => q = r
  /\ \A r \in Reader : reader[r].at = "joined" => loading

\* Sets of items need not be finite: the counts are whatever Cardinality says of them.
Size == {0} \union {Cardinality(S) : S \in SUBSET Id}
AnyReader == [at : {"idle", "joined"} \union Asking, since : Nat, counts : Nat, expected : Size,
              tries : {0, 1}, ids : SUBSET Id, eventRev : Nat]
CallTypes ==
  /\ loaded \in BOOLEAN /\ loading \in BOOLEAN
  /\ edit \in [Edit -> EditType] /\ \A e \in InFlight : edit[e].kind \in Kind /\ edit[e].id \in Id
  /\ reader \in [Reader -> AnyReader] /\ \A r \in Reader : reader[r].eventRev <= docRev

\* No version is newer than the document.
Shown == 0..docRev \union Edit
Versions ==
  /\ docRev >= 1 /\ rev \in 0..docRev
  /\ store \in [Id -> Shown]
  /\ DOMAIN pending \subseteq Kind \X Id /\ \A k \in DOMAIN pending : pending[k] \in Shown
  /\ \A n \in DOMAIN events : events[n].rev <= docRev
AnswerTypes ==
  answer # NoAnswer =>
    /\ answer.ok \in BOOLEAN /\ answer.rev \in 0..docRev
    /\ answer.ok =>
         /\ DOMAIN answer.items \subseteq Id /\ \A i \in DOMAIN answer.items : answer.items[i] \in 0..docRev
         /\ wire[1] \in Edit => edit[wire[1]].id \in DOMAIN answer.items

\* Each edit that KiCad has not executed still has a revision to itself.
Ahead == {e \in InFlight : Unserved(e)}
RoomInv == IsFiniteSet(InFlight) /\ docRev + Cardinality(Ahead) <= mode.max.revs

Calls == DocType /\ SeqType /\ WireInv /\ CallTypes /\ Versions
CallInv == Calls /\ AnswerTypes /\ RoomInv /\ Asked /\ Loads

\* Every set of naturals with a bound has a largest element.
LEMMA LargestOf ==
  ASSUME NEW n \in Nat, NEW V \in SUBSET (0..n), V # {}
  PROVE  \E v \in V : \A w \in V : v >= w
<1>1. PICK R : R = {p \in Nat \X Nat : p[1] < p[2]} /\ IsWellFoundedOn(R, Nat)
  <2>1. IsWellFoundedOn({p \in Nat \X Nat : p[1] < p[2]}, Nat)
    BY NatLessThanWellFounded, Zenon DEF OpToRel
  <2> QED
    BY <2>1
<1>2. PICK T : T = {n - v : v \in V}
  OBVIOUS
<1>3. T \subseteq Nat
  BY <1>2
<1>4. T # {}
  BY <1>2
<1>5. PICK x \in T : \A y \in T : ~ (<<y, x>> \in R)
  BY <1>1, <1>3, <1>4, WFMin
<1>6. PICK v \in V : x = n - v
  BY <1>2, <1>5
<1>7. ASSUME NEW w \in V PROVE v >= w
  <2>1. n - w \in T /\ n - w \in Nat /\ n - v \in Nat /\ v \in Nat /\ w \in Nat
    BY <1>2
  <2>2. ~ (n - w < n - v)
    BY <1>1, <1>5, <1>6, <2>1
  <2> QED
    BY <2>1, <2>2
<1> QED
  BY <1>7

LEMMA Turning ==
  ASSUME CallTypes, NEW r \in Reader, NEW s \in AnyReader, s.eventRev <= docRev, Becomes(r, s)
  PROVE  /\ reader' \in [Reader -> AnyReader] /\ reader'[r] = s
         /\ \A q \in Reader \ {r} : reader'[q] = reader[q]
         /\ \A q \in Reader : reader'[q].eventRev <= docRev
<1>1. reader \in [Reader -> AnyReader] /\ \A q \in Reader : reader[q].eventRev <= docRev
  BY DEF CallTypes
<1>2. reader' \in [Reader -> AnyReader] /\ reader'[r] = s /\ \A q \in Reader \ {r} : reader'[q] = reader[q]
  BY <1>1 DEF Becomes
<1> QED
  BY <1>1, <1>2

\* A call of refresh() joins the load under way, or asks.
Comes(r) ==
  /\ reader' \in [Reader -> AnyReader] /\ \A q \in Reader : reader'[q].eventRev <= docRev
  /\ \A q \in Reader \ {r} : reader'[q] = reader[q]
  /\ \/ wire' = wire /\ loading' = loading /\ reader'[r].at = "idle"
     \/ wire' = wire /\ loading' = loading /\ loading /\ reader'[r].at = "joined"
     \/ wire' = Append(wire, r) /\ loading' = loading /\ reader'[r].at \in {"counts", "ids"}
     \/ wire' = Append(wire, r) /\ ~loading /\ loading' = TRUE /\ reader'[r].at = "load"

LEMMA RefreshComes ==
  ASSUME Calls, NEW r \in Reader, NEW v \in Nat, v <= docRev, Refresh(r, v)
  PROVE  Comes(r)
<1>0. CallTypes /\ reader[r] \in AnyReader /\ rev \in Nat
  BY DEF Calls, CallTypes, Versions
<1>1. CASE loading
  <2>1. PICK s : s = [reader[r] EXCEPT !.at = "joined", !.eventRev = v]
    OBVIOUS
  <2>2. s \in AnyReader /\ s.at = "joined" /\ s.eventRev = v
    BY <1>0, <2>1 DEF AnyReader, Asking
  <2>3. Becomes(r, s) /\ wire' = wire /\ loading' = loading
    BY <1>1, <2>1 DEF Refresh
  <2> QED
    BY <1>0, <1>1, <2>2, <2>3, Turning DEF Comes
<1>2. CASE ~loading /\ (loaded /\ rev # 0 /\ mode.incremental)
  <2>1. PICK s : s = [reader[r] EXCEPT !.at = "counts", !.since = rev, !.eventRev = v]
    OBVIOUS
  <2>2. s \in AnyReader /\ s.at = "counts" /\ s.eventRev = v
    BY <1>0, <2>1 DEF AnyReader, Asking
  <2>3. Becomes(r, s) /\ wire' = Append(wire, r) /\ loading' = loading
    BY <1>2, <2>1 DEF Refresh, Asks
  <2> QED
    BY <1>0, <2>2, <2>3, Turning DEF Comes
<1>3. CASE ~loading /\ ~(loaded /\ rev # 0 /\ mode.incremental)
  <2>1. PICK s : s = [reader[r] EXCEPT !.at = "load", !.eventRev = v]
    OBVIOUS
  <2>2. s \in AnyReader /\ s.at = "load" /\ s.eventRev = v
    BY <1>0, <2>1 DEF AnyReader, Asking
  <2>3. Becomes(r, s) /\ wire' = Append(wire, r) /\ loading' = TRUE
    BY <1>3, <2>1 DEF Refresh, Asks
  <2> QED
    BY <1>0, <1>3, <2>2, <2>3, Turning DEF Comes
<1> QED
  BY <1>1, <1>2, <1>3

LEMMA AskSteps ==
  ASSUME Calls, NEW r \in mode.readers, StartRefresh(r) \/ HandleEvent(r)
  PROVE  /\ r \in Reader /\ reader[r].at = "idle" /\ Comes(r)
         /\ UNCHANGED <<mode, kicad, answer, loaded, pending, edit>>
         /\ events' = events \/ (events # <<>> /\ events' = Tail(events))
         /\ rev' \in 0..docRev /\ store' \in [Id -> Shown]
<1>0. /\ r \in Reader /\ reader[r] \in AnyReader /\ CallTypes /\ SeqType
      /\ rev \in 0..docRev /\ docRev \in Nat /\ store \in [Id -> Shown] /\ Gone \in Shown
      /\ reader \in [Reader -> AnyReader] /\ \A q \in Reader : reader[q].eventRev <= docRev
  BY SyncAssumption DEF Calls, DocType, CallTypes, Versions, Gone, Shown
<1>1. CASE StartRefresh(r)
  <2>1. Refresh(r, 0) /\ reader[r].at = "idle"
        /\ UNCHANGED <<mode, kicad, events, answer, store, rev, loaded, pending, edit>>
    BY <1>1 DEF StartRefresh
  <2> QED
    BY <1>0, <2>1, RefreshComes
<1>2. CASE HandleEvent(r)
  <2>1. /\ events # <<>> /\ reader[r].at = "idle" /\ events' = Tail(events)
        /\ UNCHANGED <<mode, kicad, answer, loaded, pending, edit>>
    BY <1>2 DEF HandleEvent
  <2>2. PICK ev \in EventType : ev = Head(events) /\ ev = events[1] /\ 1 \in DOMAIN events
    BY <1>0, <2>1, EventParts
  <2>3. PICK v : v = IF mode.eventRevision THEN ev.rev ELSE 0
    OBVIOUS
  <2>4. v \in Nat /\ v <= docRev /\ ev.id \in Id
    BY <1>0, <2>2, <2>3 DEF Calls, Versions, EventType
  <2>5. CASE Refresh(r, v) /\ UNCHANGED <<store, rev>>
    BY <1>0, <2>1, <2>4, <2>5, RefreshComes
  <2>6. CASE /\ store' = [store EXCEPT ![ev.id] = Gone] /\ SetRevision(v)
             /\ UNCHANGED <<wire, loading, reader>>
    <3>1. rev' \in 0..docRev
      BY <1>0, <2>4, <2>6 DEF SetRevision
    <3>2. Comes(r)
      BY <1>0, <2>1, <2>6 DEF Comes
    <3>3. store' \in [Id -> Shown]
      BY <1>0, <2>4, <2>6
    <3> QED
      BY <1>0, <2>1, <3>1, <3>2, <3>3
  <2>7. CASE /\ Becomes(r, [reader[r] EXCEPT !.at = "ids", !.ids = {ev.id}, !.eventRev = v])
             /\ Asks(r) /\ UNCHANGED <<store, rev, loading>>
    <3>1. PICK s : s = [reader[r] EXCEPT !.at = "ids", !.ids = {ev.id}, !.eventRev = v]
      OBVIOUS
    <3>2. s \in AnyReader /\ s.at = "ids" /\ s.eventRev = v
      BY <1>0, <2>4, <3>1 DEF AnyReader, Asking
    <3>3. Becomes(r, s) /\ wire' = Append(wire, r) /\ loading' = loading
      BY <2>7, <3>1 DEF Asks
    <3>4. Comes(r)
      BY <1>0, <2>4, <3>2, <3>3, Turning DEF Comes
    <3> QED
      BY <1>0, <2>1, <2>7, <3>4
  <2> QED
    BY <1>2, <2>2, <2>3, <2>5, <2>6, <2>7 DEF HandleEvent
<1> QED
  BY <1>1, <1>2

\* The answer meets the call that asked: it ends, or asks again; a load ends for all.
Goes(r) ==
  /\ reader[r].at \in Asking \ {"load"} /\ loading' = loading
  /\ \A q \in Reader \ {r} : reader'[q] = reader[q]
  /\ \/ wire' = Tail(wire) /\ reader'[r] = Idle
     \/ AsksAgain(r) /\ reader'[r].at \in Asking \ {"load"}
LoadGoes(r) ==
  /\ reader[r].at = "load" /\ loading' = FALSE /\ wire' = Tail(wire) /\ reader'[r] = Idle
  /\ \A q \in Reader \ {r} : reader'[q] = IF reader[q].at = "joined" THEN Idle ELSE reader[q]

LEMMA Ending ==
  ASSUME CallTypes, docRev \in Nat, NEW r \in Reader, Ends(r)
  PROVE  /\ reader' \in [Reader -> AnyReader] /\ reader'[r] = Idle
         /\ \A q \in Reader \ {r} : reader'[q] = reader[q]
         /\ \A q \in Reader : reader'[q].eventRev <= docRev
<1>1. Idle \in AnyReader /\ Idle.eventRev = 0
  BY DEF Idle, AnyReader, Asking, Size
<1>2. Becomes(r, Idle)
  BY DEF Ends, Becomes
<1> QED
  BY <1>1, <1>2, Turning

LEMMA Fills ==
  ASSUME Calls, AnswerTypes, answer # NoAnswer, answer.ok, NEW S
  PROVE  /\ ReplaceAll => store' \in [Id -> Shown]
         /\ Merge(S) => store' \in [Id -> Shown]
<1>1. store \in [Id -> Shown] /\ Gone \in Shown /\ \A i \in DOMAIN answer.items : answer.items[i] \in Shown
  BY DEF Calls, DocType, Versions, AnswerTypes, Shown, Gone
<1>2. ReplaceAll => store' \in [Id -> Shown]
  BY <1>1 DEF ReplaceAll
<1>3. Merge(S) => store' \in [Id -> Shown]
  BY <1>1 DEF Merge
<1> QED
  BY <1>2, <1>3

LEMMA LoadSteps ==
  ASSUME Calls, AnswerTypes, answer # NoAnswer, NEW r \in Reader, LoadAnswered(r)
  PROVE  /\ LoadGoes(r)
         /\ reader' \in [Reader -> AnyReader] /\ \A q \in Reader : reader'[q].eventRev <= docRev
         /\ rev' \in 0..docRev /\ store' \in [Id -> Shown] /\ loaded' \in BOOLEAN
<1>0. /\ reader \in [Reader -> AnyReader] /\ \A q \in Reader : reader[q].eventRev \in Nat /\ reader[q].eventRev <= docRev
      /\ rev \in 0..docRev /\ docRev \in Nat /\ loaded \in BOOLEAN /\ store \in [Id -> Shown]
      /\ answer.ok \in BOOLEAN /\ answer.rev \in 0..docRev
      /\ Idle \in AnyReader /\ Idle.eventRev = 0 /\ reader[r].at = "load"
  BY DEF Calls, DocType, CallTypes, Versions, AnswerTypes, AnyReader, Idle, Asking, Size, LoadAnswered
<1>1. reader' = [q \in Reader |-> IF q = r \/ reader[q].at = "joined" THEN Idle ELSE reader[q]]
  BY DEF LoadAnswered, Together
<1>2. LoadGoes(r)
  BY <1>0, <1>1 DEF LoadGoes, LoadAnswered, LoadOver, Done
<1>3. reader' \in [Reader -> AnyReader]
  BY <1>0, <1>1
<1>4. \A q \in Reader : reader'[q].eventRev <= docRev
  BY <1>0, <1>1
<1>5. CASE ~answer.ok
  BY <1>0, <1>2, <1>3, <1>4, <1>5 DEF LoadAnswered
<1>6. CASE answer.ok
  <2>1. PICK V : V = {rev, answer.rev} \union {reader[q].eventRev : q \in Together(r)}
    OBVIOUS
  <2>2. V \in SUBSET (0..docRev) /\ V # {}
    BY <1>0, <2>1 DEF Together
  <2>3. rev' = CHOOSE v \in V : \A w \in V : v >= w
    BY <1>6, <2>1 DEF LoadAnswered
  <2>4. rev' \in V
    BY <1>0, <2>2, <2>3, LargestOf
  <2>5. loaded' = TRUE /\ ReplaceAll
    BY <1>6 DEF LoadAnswered
  <2>6. store' \in [Id -> Shown]
    BY <1>6, <2>5, Fills
  <2> QED
    BY <1>2, <1>3, <1>4, <2>2, <2>4, <2>5, <2>6
<1> QED
  BY <1>0, <1>5, <1>6

LEMMA ReadMoves ==
  ASSUME Calls, AnswerTypes, NEW r \in mode.readers, ReadSteps(r)
  PROVE  /\ r \in Reader /\ wire # <<>> /\ wire[1] = r /\ answer # NoAnswer /\ answer' = NoAnswer
         /\ UNCHANGED <<mode, kicad, events, pending, edit>>
         /\ Goes(r) \/ LoadGoes(r)
         /\ reader' \in [Reader -> AnyReader] /\ \A q \in Reader : reader'[q].eventRev <= docRev
         /\ rev' \in 0..docRev /\ store' \in [Id -> Shown] /\ loaded' \in BOOLEAN
<1>0. /\ r \in Reader /\ reader[r] \in AnyReader /\ CallTypes
      /\ reader[r].eventRev \in Nat /\ reader[r].eventRev <= docRev
      /\ rev \in 0..docRev /\ docRev \in Nat /\ loaded \in BOOLEAN /\ store \in [Id -> Shown]
  BY SyncAssumption DEF Calls, DocType, CallTypes, Versions, AnyReader
<1>1. Answered(r) /\ UNCHANGED <<mode, kicad, events, pending, edit>>
  BY DEF ReadSteps, IdsAnswered, CountsAnswered, SinceAnswered, FullAnswered, LoadAnswered, sync
<1>2. wire # <<>> /\ wire[1] = r /\ answer # NoAnswer /\ answer' = NoAnswer
  BY <1>1, WireParts DEF Answered, Calls
<1>3. answer.ok \in BOOLEAN /\ answer.rev \in 0..docRev /\ (answer.ok => DOMAIN answer.items \in SUBSET Id)
  BY <1>2 DEF AnswerTypes
<1>4. \A v \in Nat : v <= docRev /\ SetRevision(v) => rev' \in 0..docRev
  BY <1>0 DEF SetRevision
<1>5. PICK late \in Nat : late = (IF answer.rev > reader[r].eventRev THEN answer.rev ELSE reader[r].eventRev)
                          /\ late <= docRev
  BY <1>0, <1>3
<1>6. ASSUME loading' = loading, loaded' = loaded, reader[r].at \in Asking \ {"load"},
             rev' \in 0..docRev, store' \in [Id -> Shown],
             \/ Done /\ Ends(r)
             \/ AsksAgain(r) /\ \E s \in AnyReader : /\ s.at \in Asking \ {"load"} /\ s.eventRev <= docRev
                                                     /\ Becomes(r, s)
      PROVE  /\ Goes(r) /\ reader' \in [Reader -> AnyReader] /\ \A q \in Reader : reader'[q].eventRev <= docRev
             /\ rev' \in 0..docRev /\ store' \in [Id -> Shown] /\ loaded' \in BOOLEAN
  <2>1. CASE Done /\ Ends(r)
    BY <1>0, <1>6, <2>1, Ending DEF Goes, Done
  <2>2. ASSUME AsksAgain(r), NEW s \in AnyReader, s.at \in Asking \ {"load"}, s.eventRev <= docRev, Becomes(r, s)
        PROVE  Goes(r) /\ reader' \in [Reader -> AnyReader] /\ \A q \in Reader : reader'[q].eventRev <= docRev
    BY <1>0, <1>6, <2>2, Turning DEF Goes
  <2> QED
    BY <1>0, <1>6, <2>1, <2>2
<1>7. CASE IdsAnswered(r)
  <2>1. /\ reader[r].at = "ids" /\ Done /\ Ends(r) /\ loading' = loading /\ loaded' = loaded
        /\ answer.ok => Merge(reader[r].ids) /\ SetRevision(reader[r].eventRev)
        /\ ~answer.ok => UNCHANGED <<store, rev>>
    BY <1>7 DEF IdsAnswered
  <2>2. rev' \in 0..docRev /\ store' \in [Id -> Shown]
    BY <1>0, <1>2, <1>3, <1>4, <2>1, Fills
  <2> QED
    BY <1>0, <1>1, <1>2, <1>6, <2>1, <2>2 DEF Asking
<1>8. CASE CountsAnswered(r)
  <2>1. reader[r].at = "counts" /\ UNCHANGED <<store, rev, loaded, loading>>
    BY <1>8 DEF CountsAnswered, sync
  <2>2. CASE answer.ok
    <3>1. PICK n \in Size : n = Cardinality(DOMAIN answer.items)
      BY <1>3, <2>2 DEF Size
    <3>2. PICK s : s = [reader[r] EXCEPT !.at = "since", !.counts = answer.rev, !.expected = n]
      OBVIOUS
    <3>0. PICK a \in Nat : a = answer.rev
      BY <1>0, <1>3
    <3>3. s \in AnyReader /\ s.at \in Asking \ {"load"} /\ s.eventRev <= docRev
      BY <1>0, <3>0, <3>1, <3>2 DEF AnyReader, Asking
    <3>4. AsksAgain(r) /\ Becomes(r, s)
      BY <1>8, <2>2, <3>1, <3>2 DEF CountsAnswered
    <3> QED
      BY <1>0, <1>1, <1>2, <1>6, <2>1, <3>3, <3>4 DEF Asking
  <2>3. CASE ~answer.ok
    BY <1>0, <1>1, <1>2, <1>6, <1>8, <2>1, <2>3 DEF CountsAnswered, Asking
  <2> QED
    BY <2>2, <2>3
<1>9. CASE SinceAnswered(r)
  <2>1. reader[r].at = "since" /\ UNCHANGED <<loaded, loading>>
    BY <1>9 DEF SinceAnswered
  <2>2. CASE ~answer.ok /\ Done /\ Ends(r) /\ UNCHANGED <<store, rev>>
    BY <1>0, <1>1, <1>2, <1>6, <2>1, <2>2 DEF Asking
  <2>3. CASE /\ AsksAgain(r) /\ UNCHANGED <<store, rev>>
             /\ IF reader[r].tries = 0 THEN Becomes(r, [reader[r] EXCEPT !.at = "counts", !.tries = 1])
                ELSE Becomes(r, [reader[r] EXCEPT !.at = "full"])
    <3>1. PICK s : s = IF reader[r].tries = 0 THEN [reader[r] EXCEPT !.at = "counts", !.tries = 1]
                       ELSE [reader[r] EXCEPT !.at = "full"]
      OBVIOUS
    <3>2. s \in AnyReader /\ s.at \in Asking \ {"load"} /\ s.eventRev <= docRev
      BY <1>0, <3>1 DEF AnyReader, Asking
    <3>3. Becomes(r, s)
      BY <2>3, <3>1
    <3> QED
      BY <1>0, <1>1, <1>2, <1>6, <2>1, <2>3, <3>2, <3>3 DEF Asking
  <2>4. CASE /\ answer.ok /\ Done /\ Ends(r)
             /\ IF answer.rev <= reader[r].since THEN UNCHANGED store
                ELSE IF IsFull(r) THEN ReplaceAll ELSE Merge(answer.gone)
             /\ SetRevision(late)
    <3>1. rev' \in 0..docRev
      BY <1>4, <1>5, <2>4
    <3>2. store' = store \/ ReplaceAll \/ Merge(answer.gone)
      BY <2>4
    <3>3. store' \in [Id -> Shown]
      BY <1>0, <1>2, <2>4, <3>2, Fills
    <3> QED
      BY <1>0, <1>1, <1>2, <1>6, <2>1, <2>4, <3>1, <3>3 DEF Asking
  <2> QED
    BY <1>5, <1>9, <2>2, <2>3, <2>4 DEF SinceAnswered
<1>10. CASE FullAnswered(r)
  <2>1. /\ reader[r].at = "full" /\ Done /\ Ends(r) /\ loading' = loading /\ loaded' = loaded
        /\ answer.ok => ReplaceAll /\ SetRevision(late)
        /\ ~answer.ok => UNCHANGED <<store, rev>>
    BY <1>5, <1>10 DEF FullAnswered
  <2>2. rev' \in 0..docRev /\ store' \in [Id -> Shown]
    BY <1>0, <1>2, <1>3, <1>4, <1>5, <2>1, Fills
  <2> QED
    BY <1>0, <1>1, <1>2, <1>6, <2>1, <2>2 DEF Asking
<1>11. CASE LoadAnswered(r)
  BY <1>0, <1>1, <1>2, <1>11, LoadSteps
<1> QED
  BY <1>7, <1>8, <1>9, <1>10, <1>11 DEF ReadSteps

\* An edit starts, and is answered.
Patched == /\ store' \in [Id -> Shown]
           /\ DOMAIN pending' \subseteq Kind \X Id /\ \A k \in DOMAIN pending' : pending'[k] \in Shown
LEMMA EditStarts ==
  ASSUME Calls, NEW e \in mode.edits, StartEdit(e)
  PROVE  /\ e \in Edit /\ edit[e].at = "new" /\ Room /\ wire' = Append(wire, e) /\ Patched
         /\ UNCHANGED <<mode, kicad, events, answer, rev, loaded, loading, reader>>
         /\ edit' \in [Edit -> EditType] /\ edit'[e].at = "sent" /\ edit'[e].kind \in Kind /\ edit'[e].id \in Id
         /\ \A f \in Edit \ {e} : edit'[f] = edit[f]
<1>1. e \in Edit /\ mode.ids \subseteq Id /\ edit \in [Edit -> EditType]
  BY SyncAssumption DEF Calls, DocType, CallTypes
<1>2. /\ edit[e].at = "new" /\ Room /\ wire' = Append(wire, e)
      /\ UNCHANGED <<mode, kicad, events, answer, rev, loaded, loading, reader>>
  BY DEF StartEdit
<1>3. PICK k \in Kind, i \in Id :
        /\ edit' = [edit EXCEPT ![e] = [at |-> "sent", kind |-> k, id |-> i]]
        /\ \/ Remember(<<k, i>>, store[i]) /\ store' = [store EXCEPT ![i] = IF k = "delete" THEN Gone ELSE e]
           \/ UNCHANGED <<pending, store>>
  BY <1>1 DEF StartEdit
<1>4. PICK s : s = [at |-> "sent", kind |-> k, id |-> i]
  OBVIOUS
<1>5. s \in EditType /\ s.at = "sent" /\ s.kind \in Kind /\ s.id \in Id
  BY <1>4 DEF EditType
<1>6. edit' \in [Edit -> EditType] /\ edit'[e] = s /\ \A f \in Edit \ {e} : edit'[f] = edit[f]
  BY <1>1, <1>3, <1>4, <1>5
<1>7. Patched
  <2>1. /\ store \in [Id -> Shown] /\ Gone \in Shown /\ e \in Shown
        /\ DOMAIN pending \subseteq Kind \X Id /\ \A x \in DOMAIN pending : pending[x] \in Shown
    BY <1>1 DEF Calls, DocType, Versions, Shown, Gone
  <2>2. CASE Remember(<<k, i>>, store[i]) /\ store' = [store EXCEPT ![i] = IF k = "delete" THEN Gone ELSE e]
    <3>1. PICK x \in Kind \X Id : x = <<k, i>>
      OBVIOUS
    <3>2. pending' = [y \in DOMAIN pending \union {x} |-> IF y = x THEN store[i] ELSE pending[y]]
      BY <2>2, <3>1 DEF Remember
    <3>3. DOMAIN pending' \subseteq Kind \X Id /\ \A y \in DOMAIN pending' : pending'[y] \in Shown
      BY <2>1, <3>2
    <3>4. store' \in [Id -> Shown]
      BY <2>1, <2>2
    <3> QED
      BY <3>3, <3>4 DEF Patched
  <2> QED
    BY <1>3, <2>1, <2>2 DEF Patched
<1> QED
  BY <1>1, <1>2, <1>5, <1>6, <1>7

LEMMA EditEnds ==
  ASSUME Calls, AnswerTypes, NEW e \in mode.edits, EditAnswered(e)
  PROVE  /\ e \in InFlight /\ wire # <<>> /\ wire[1] = e /\ wire' = Tail(wire) /\ Patched
         /\ answer # NoAnswer /\ answer' = NoAnswer
         /\ UNCHANGED <<mode, kicad, events, rev, loaded, loading, reader>>
         /\ edit' \in [Edit -> EditType] /\ edit'[e].at = "done"
         /\ \A f \in Edit \ {e} : edit'[f] = edit[f]
<1>1. e \in Edit /\ edit \in [Edit -> EditType]
  BY SyncAssumption DEF Calls, DocType, CallTypes
<1>2. /\ wire # <<>> /\ Head(wire) = e /\ answer # NoAnswer /\ answer' = NoAnswer /\ wire' = Tail(wire)
      /\ UNCHANGED <<mode, kicad, events, rev, loaded, loading, reader>>
      /\ \/ Forget(e) /\ store' = IF answer.ok THEN Applied(e) ELSE RolledBack(e)
         \/ UNCHANGED <<pending, store>>
  BY DEF EditAnswered, Answered, Done
<1>3. wire[1] = e /\ 1 \in DOMAIN wire
  BY <1>2, WireParts DEF Calls
<1>4. e \in InFlight /\ edit[e].id \in Id
  BY <1>1, <1>3 DEF Calls, WireInv, InFlight, CallTypes
<1>5. PICK s : s = [edit[e] EXCEPT !.at = "done"]
  OBVIOUS
<1>6. s \in EditType /\ s.at = "done"
  BY <1>1, <1>5 DEF EditType
<1>7. edit' = [edit EXCEPT ![e] = s]
  BY <1>1, <1>5 DEF EditAnswered
<1>8. edit' \in [Edit -> EditType] /\ edit'[e] = s /\ \A f \in Edit \ {e} : edit'[f] = edit[f]
  BY <1>1, <1>6, <1>7
<1>9. Patched
  <2>1. /\ store \in [Id -> Shown] /\ DOMAIN pending \subseteq Kind \X Id
        /\ \A x \in DOMAIN pending : pending[x] \in Shown
    BY DEF Calls, Versions
  <2>2. CASE UNCHANGED <<pending, store>>
    BY <2>1, <2>2 DEF Patched, Shown, kicad
  <2>3. CASE Forget(e) /\ store' = IF answer.ok THEN Applied(e) ELSE RolledBack(e)
    <3>1. DOMAIN pending' \subseteq Kind \X Id /\ \A x \in DOMAIN pending' : pending'[x] \in Shown
      BY <2>1, <2>3 DEF Forget
    <3>2. answer.ok => answer.items[edit[e].id] \in Shown
      BY <1>1, <1>2, <1>3 DEF AnswerTypes, Shown
    <3>3. answer.ok => store' \in [Id -> Shown]
      BY <1>4, <2>1, <2>3, <3>2 DEF Applied
    <3>4. ~answer.ok => store' \in [Id -> Shown]
      BY <1>4, <2>1, <2>3 DEF RolledBack
    <3> QED
      BY <3>1, <3>3, <3>4 DEF Patched
  <2> QED
    BY <1>2, <2>2, <2>3
<1> QED
  BY <1>1, <1>2, <1>3, <1>4, <1>6, <1>8, <1>9

\* Only KiCad changes the document, one item at a time.
LEMMA ServeChanges ==
  ASSUME Calls, Serve
  PROVE  /\ wire # <<>> /\ answer = NoAnswer /\ UNCHANGED <<mode, events, wire, sync, edit, reader>>
         /\ \/ UNCHANGED kicad
            \/ /\ wire[1] \in InFlight /\ edit[wire[1]].id \in Id
               /\ \E gone \in BOOLEAN : Write(edit[wire[1]].id, gone) /\ answer' # NoAnswer
<1>1. wire # <<>> /\ answer = NoAnswer /\ UNCHANGED <<mode, events, wire, sync, edit, reader>>
  BY DEF Serve
<1>2. Head(wire) = wire[1] /\ 1 \in DOMAIN wire /\ wire[1] \in Edit \union Reader
  BY <1>1, WireParts DEF Calls
<1>3. CASE wire[1] \in Edit
  <2>1. PICK e \in InFlight : e = wire[1] /\ ServeEdit(e) /\ edit[e].id \in Id /\ e \in Edit
    BY <1>2, <1>3 DEF Calls, WireInv, CallTypes, InFlight, Serve
  <2>2. CASE UNCHANGED kicad
    BY <1>1, <2>2
  <2>3. ASSUME Write(edit[e].id, edit[e].kind = "delete"), Answers(e, TRUE, [j \in {edit[e].id} |-> doc'[j]], {})
        PROVE  Write(edit[e].id, edit[e].kind = "delete") /\ answer' # NoAnswer
    <3>1. answer'.from = e
      BY <2>3 DEF Answers
    <3>2. e # "none"
      BY <2>1, SyncAssumption
    <3>3. NoAnswer.from = "none"
      BY DEF NoAnswer
    <3> QED
      BY <2>3, <3>1, <3>2, <3>3
  <2>4. PICK gone \in BOOLEAN : gone = (edit[e].kind = "delete")
    OBVIOUS
  <2> QED
    BY <1>1, <2>1, <2>2, <2>3, <2>4 DEF ServeEdit
<1>4. CASE wire[1] \notin Edit
  BY <1>1, <1>2, <1>4 DEF Serve, ServeRead, FailRead
<1> QED
  BY <1>3, <1>4

\* Who is on the wire stays there until it is answered.
LEMMA QueueKeeps ==
  ASSUME SeqType, NEW w \in Edit \union Reader
  PROVE  /\ wire' = Append(wire, w) =>
              (\E k \in DOMAIN wire' : wire'[k] = w) /\ \A x : OnWire(x) => \E k \in DOMAIN wire' : wire'[k] = x
         /\ wire # <<>> /\ wire' = Tail(wire) =>
              \A x : OnWire(x) /\ x # wire[1] => \E k \in DOMAIN wire' : wire'[k] = x
         /\ wire # <<>> /\ wire[1] = w /\ AsksAgain(w) => \A x : OnWire(x) => \E k \in DOMAIN wire' : wire'[k] = x
<1>1. ASSUME wire' = Append(wire, w)
      PROVE  (\E k \in DOMAIN wire' : wire'[k] = w) /\ \A x : OnWire(x) => \E k \in DOMAIN wire' : wire'[k] = x
  <2>1. PICK n \in Nat : /\ DOMAIN wire = 1..n /\ DOMAIN wire' = 1..(n + 1)
                         /\ \A k \in 1..n : wire'[k] = wire[k]
                         /\ wire'[n + 1] = w
    BY <1>1, WireGrows
  <2>2. n + 1 \in DOMAIN wire' /\ \A k \in DOMAIN wire : k \in DOMAIN wire' /\ wire'[k] = wire[k]
    BY <2>1
  <2> QED
    BY <2>1, <2>2 DEF OnWire
<1>2. ASSUME wire # <<>>, NEW x, OnWire(x), x # wire[1], NEW n \in Nat, DOMAIN wire = 1..(n + 1),
             \A k \in 1..n : wire'[k] = wire[k + 1], 1..n \subseteq DOMAIN wire'
      PROVE  \E k \in DOMAIN wire' : wire'[k] = x
  <2>1. PICK k \in 1..(n + 1) : wire[k] = x /\ k # 1
    BY <1>2 DEF OnWire
  <2>2. PICK j \in 1..n : k = j + 1
    BY <2>1
  <2> QED
    BY <1>2, <2>1, <2>2
<1>3. ASSUME wire # <<>>, wire' = Tail(wire), NEW x, OnWire(x), x # wire[1]
      PROVE  \E k \in DOMAIN wire' : wire'[k] = x
  <2>1. PICK n \in Nat : /\ DOMAIN wire = 1..(n + 1) /\ DOMAIN wire' = 1..n
                         /\ \A k \in 1..n : wire'[k] = wire[k + 1]
    BY <1>3, WireShrinks
  <2> QED
    BY <1>2, <1>3, <2>1
<1>4. ASSUME wire # <<>>, wire[1] = w, AsksAgain(w), NEW x, OnWire(x)
      PROVE  \E k \in DOMAIN wire' : wire'[k] = x
  <2>1. PICK n \in Nat : /\ DOMAIN wire = 1..(n + 1) /\ DOMAIN wire' = 1..(n + 1)
                         /\ \A k \in 1..n : wire'[k] = wire[k + 1]
                         /\ wire'[n + 1] = w
    BY <1>4, WireTurns
  <2>2. 1..n \subseteq DOMAIN wire' /\ n + 1 \in DOMAIN wire'
    BY <2>1
  <2> QED
    BY <1>2, <1>4, <2>1, <2>2
<1> QED
  BY <1>1, <1>3, <1>4

\* Which edits KiCad has still to execute, and how many.
LEMMA AheadCount ==
  ASSUME RoomInv, DocType
  PROVE  /\ IsFiniteSet(InFlight) /\ Cardinality(InFlight) \in Nat /\ Cardinality(Ahead) \in Nat
         /\ Ahead \subseteq InFlight /\ Cardinality(Ahead) <= Cardinality(InFlight)
         /\ docRev \in Nat /\ mode.max.revs \in Nat /\ docRev + Cardinality(Ahead) <= mode.max.revs
<1>1. IsFiniteSet(InFlight) /\ Ahead \in SUBSET InFlight /\ docRev + Cardinality(Ahead) <= mode.max.revs
  BY DEF RoomInv, Ahead
<1>2. IsFiniteSet(Ahead) /\ Cardinality(Ahead) <= Cardinality(InFlight)
  BY <1>1, FS_Subset
<1>3. Cardinality(InFlight) \in Nat /\ Cardinality(Ahead) \in Nat
  BY <1>1, <1>2, FS_CardinalityType
<1>4. docRev \in Nat /\ mode.max.revs \in Nat
  BY SyncAssumption DEF DocType
<1> QED
  BY <1>1, <1>2, <1>3, <1>4

\* Fewer edits ahead, at the same revision, leave room.
LEMMA RoomStays ==
  ASSUME RoomInv, DocType, mode' = mode, docRev' = docRev, InFlight' \subseteq InFlight, Ahead' \subseteq Ahead
  PROVE  RoomInv'
<1>1. /\ IsFiniteSet(InFlight) /\ Cardinality(Ahead) \in Nat /\ docRev \in Nat /\ mode.max.revs \in Nat
      /\ docRev + Cardinality(Ahead) <= mode.max.revs /\ Ahead \subseteq InFlight
  BY AheadCount
<1>2. PICK A : A = Ahead
  OBVIOUS
<1>3. PICK B : B = Ahead'
  OBVIOUS
<1>4. PICK F : F = InFlight'
  OBVIOUS
<1>5. IsFiniteSet(F) /\ IsFiniteSet(A)
  BY <1>1, <1>2, <1>4, FS_Subset
<1>6. Cardinality(B) <= Cardinality(A) /\ IsFiniteSet(B)
  BY <1>2, <1>3, <1>5, FS_Subset
<1>7. Cardinality(B) \in Nat
  BY <1>6, FS_CardinalityType
<1>8. docRev' + Cardinality(B) <= mode'.max.revs
  BY <1>1, <1>2, <1>6, <1>7
<1> QED
  BY <1>3, <1>4, <1>5, <1>8 DEF RoomInv

\* The steps of KiCad and of its events leave the calls alone.
LEMMA CallsStand ==
  ASSUME CallInv, UNCHANGED <<mode, wire, sync, edit, reader>>, DocType', docRev <= docRev',
         events' \in Seq(EventType), \A n \in DOMAIN events' : events'[n].rev <= docRev',
         answer' = answer \/ wire # <<>>, AnswerTypes', RoomInv'
  PROVE  CallInv'
<1>1. DocType /\ SeqType /\ WireInv /\ CallTypes /\ Versions /\ Asked /\ Loads
  BY DEF CallInv, Calls
<1>2. docRev \in Nat /\ docRev' \in Nat
  BY <1>1 DEF DocType
<1>3. SeqType' /\ WireInv'
  BY <1>1 DEF SeqType, WireInv
<1>4. CallTypes'
  <2>1. \A r \in Reader : reader[r].eventRev \in Nat /\ reader[r].eventRev <= docRev'
    BY <1>1, <1>2 DEF CallTypes, AnyReader
  <2> QED
    BY <1>1, <2>1 DEF CallTypes, InFlight, sync
<1>5. Versions'
  <2>1. 0..docRev \subseteq 0..docRev'
    BY <1>2
  <2>2. Shown \subseteq Shown'
    BY <2>1 DEF Shown
  <2>3. UNCHANGED <<rev, store, pending>>
    BY DEF sync
  <2>4. docRev' >= 1 /\ rev' \in 0..docRev'
    BY <1>1, <1>2, <2>1, <2>3 DEF Versions
  <2>5. store' \in [Id -> Shown'] /\ \A k \in DOMAIN pending' : pending'[k] \in Shown'
    BY <1>1, <2>2, <2>3 DEF Versions
  <2> QED
    BY <1>1, <2>3, <2>4, <2>5 DEF Versions
<1>6. Asked' /\ Loads'
  BY <1>1 DEF Asked, Loads, OnWire, InFlight, sync
<1> QED
  BY <1>3, <1>4, <1>5, <1>6 DEF CallInv, Calls

LEMMA ForeignKeepsCalls ==
  ASSUME CallInv, ForeignChange
  PROVE  CallInv'
<1>0. DocType /\ SeqType /\ Versions /\ AnswerTypes /\ RoomInv /\ docRev \in Nat
  BY DEF CallInv, Calls, DocType
<1>1. PICK i \in Id, gone \in BOOLEAN : /\ Room /\ Write(i, gone)
                                        /\ events' = Append(events, [id |-> i, gone |-> gone, rev |-> docRev + 1])
  BY <1>0, SyncAssumption DEF ForeignChange, DocType
<1>2. UNCHANGED <<mode, wire, answer, sync, edit, reader>>
  BY DEF ForeignChange
<1>3. DocType' /\ docRev' = docRev + 1
  BY <1>0, <1>1, <1>2, WriteParts
<1>4. /\ events' \in Seq(EventType)
      /\ \A n \in DOMAIN events' : events'[n].rev <= docRev'
  <2>0. docRev + 1 \in Nat
    BY <1>0
  <2>5. PICK ev : ev = [id |-> i, gone |-> gone, rev |-> docRev + 1]
    OBVIOUS
  <2>1. ev \in EventType /\ ev.rev = docRev + 1
    BY <2>0, <2>5 DEF EventType
  <2>2. events \in Seq(EventType) /\ events' = Append(events, ev)
    BY <1>0, <1>1, <2>5 DEF SeqType
  <2>3. /\ events' \in Seq(EventType)
        /\ \A n \in DOMAIN events' : (n \in DOMAIN events /\ events'[n] = events[n]) \/ events'[n] = ev
    <3>1. /\ events' \in Seq(EventType) /\ Len(events') = Len(events) + 1
          /\ \A n \in 1..Len(events) : events'[n] = events[n]
          /\ events'[Len(events) + 1] = ev
      BY <2>1, <2>2, AppendProperties
    <3>2. DOMAIN events = 1..Len(events) /\ DOMAIN events' = 1..Len(events') /\ Len(events) \in Nat
      BY <2>2, <3>1, LenProperties
    <3> QED
      BY <3>1, <3>2
  <2>4. \A n \in DOMAIN events : events[n].rev \in Nat /\ events[n].rev <= docRev
    <3>1. \A n \in DOMAIN events : events[n] \in EventType
      BY <2>2, ElementOfSeq, LenProperties
    <3> QED
      BY <1>0, <3>1 DEF EventType, Versions
  <2> QED
    BY <1>0, <1>3, <2>1, <2>3, <2>4
<1>5. AnswerTypes'
  BY <1>0, <1>2, <1>3 DEF AnswerTypes
<1>6. RoomInv'
  <2>1. InFlight' = InFlight /\ Ahead' = Ahead
    BY <1>2 DEF InFlight, Ahead, Unserved
  <2> QED
    BY <1>0, <1>1, <1>2, <1>3, <2>1, AheadCount DEF RoomInv, Room
<1> QED
  BY <1>0, <1>2, <1>3, <1>4, <1>5, <1>6, CallsStand

LEMMA ServeTypes ==
  ASSUME CallInv, Serve, DocType', docRev <= docRev'
  PROVE  AnswerTypes'
<1>0. DocType /\ SeqType /\ WireInv /\ CallTypes /\ docRev \in Nat /\ docRev' \in Nat /\ UNCHANGED <<wire, edit, reader>>
  BY DEF CallInv, Calls, DocType, Serve
<1>1. wire # <<>> /\ Head(wire) = wire[1] /\ 1 \in DOMAIN wire
  BY <1>0, WireParts DEF Serve
<1>2. ASSUME answer'.ok = FALSE, answer'.rev = docRev PROVE AnswerTypes'
  <2>1. answer'.ok \in BOOLEAN /\ ~answer'.ok
    BY <1>2
  <2>2. answer'.rev \in 0..docRev'
    BY <1>0, <1>2
  <2> QED
    BY <2>1, <2>2 DEF AnswerTypes
<1>3. CASE wire[1] \in Edit
  <2>1. PICK e \in Edit : e = wire[1] /\ ServeEdit(e) /\ edit[e].id \in Id
    BY <1>0, <1>1, <1>3 DEF WireInv, CallTypes, InFlight, Serve
  <2>2. CASE Answers(e, FALSE, <<>>, {})
    BY <1>2, <2>2 DEF Answers
  <2>3. CASE Write(edit[e].id, edit[e].kind = "delete") /\ Answers(e, TRUE, [j \in {edit[e].id} |-> doc'[j]], {})
    <3>1. doc'[edit[e].id] \in 0..docRev'
      BY <2>1 DEF DocType, Gone
    <3>2. /\ answer'.ok = TRUE /\ answer'.rev = docRev
          /\ answer'.items = [j \in {edit[e].id} |-> doc'[j]]
      BY <2>3 DEF Answers
    <3>3. DOMAIN answer'.items = {edit[e].id} /\ answer'.items[edit[e].id] \in 0..docRev'
      BY <3>1, <3>2
    <3>4. answer'.rev \in 0..docRev'
      BY <1>0, <3>2
    <3>5. wire'[1] = e /\ edit' = edit
      BY <1>0, <2>1
    <3>6. answer'.ok \in BOOLEAN
      BY <3>2
    <3> QED
      BY <2>1, <3>3, <3>4, <3>5, <3>6 DEF AnswerTypes
  <2> QED
    BY <2>1, <2>2, <2>3 DEF ServeEdit
<1>4. CASE wire[1] \notin Edit
  <2>1. ServeRead(wire[1]) \/ FailRead(wire[1])
    BY <1>1, <1>4 DEF Serve
  <2>2. CASE FailRead(wire[1])
    BY <1>2, <2>2 DEF FailRead, Answers
  <2>3. CASE ServeRead(wire[1])
    <3>1. PICK S, gone : Answers(wire[1], TRUE, Items(S), gone) /\ S \subseteq Id /\ UNCHANGED kicad
      BY <2>3 DEF ServeRead, Present
    <3>2. answer'.ok = TRUE /\ answer'.rev = docRev /\ answer'.items = [i \in S |-> doc[i]]
      BY <3>1 DEF Answers, Items
    <3>3. DOMAIN answer'.items = S /\ \A i \in S : answer'.items[i] = doc[i] /\ doc[i] \in 0..docRev
      BY <1>0, <3>1, <3>2 DEF DocType, Gone
    <3>4. docRev' = docRev
      BY <3>1 DEF kicad
    <3>5. answer'.rev \in 0..docRev'
      BY <1>0, <3>2, <3>4
    <3>6. wire'[1] \notin Edit
      BY <1>0, <1>4
    <3>7. answer'.ok \in BOOLEAN
      BY <3>2
    <3> QED
      BY <3>1, <3>3, <3>4, <3>5, <3>6, <3>7 DEF AnswerTypes
  <2> QED
    BY <2>1, <2>2, <2>3
<1> QED
  BY <1>3, <1>4

LEMMA EventsGo ==
  ASSUME SeqType, Versions, events' = events \/ (events # <<>> /\ events' = Tail(events))
  PROVE  events' \in Seq(EventType) /\ \A n \in DOMAIN events' : events'[n].rev <= docRev
<1>1. CASE events' = events
  BY <1>1 DEF SeqType, Versions
<1>2. CASE events # <<>> /\ events' = Tail(events)
  <2>1. /\ events' \in Seq(EventType)
        /\ \A n \in DOMAIN events' : n + 1 \in DOMAIN events /\ events'[n] = events[n + 1]
    BY <1>2, EventParts
  <2> QED
    BY <2>1 DEF Versions
<1> QED
  BY <1>1, <1>2

LEMMA ServeKeepsCalls ==
  ASSUME CallInv, Serve
  PROVE  CallInv'
<1>0. Calls /\ DocType /\ SeqType /\ Versions /\ RoomInv /\ docRev \in Nat
  BY DEF CallInv, Calls, DocType
<1>1. wire # <<>> /\ answer = NoAnswer /\ UNCHANGED <<mode, events, wire, sync, edit, reader>>
  BY <1>0, ServeChanges
<1>2. events' \in Seq(EventType) /\ \A n \in DOMAIN events' : events'[n].rev <= docRev
  BY <1>0, <1>1, EventsGo
<1>3. InFlight' = InFlight /\ Ahead = InFlight
  BY <1>1 DEF InFlight, Ahead, Unserved
<1>4. CASE UNCHANGED kicad
  <2>1. DocType' /\ docRev' = docRev
    BY <1>0, <1>1, <1>4 DEF DocType, kicad
  <2>2. Ahead' \subseteq Ahead
    BY <1>3 DEF Ahead
  <2>3. RoomInv'
    BY <1>0, <1>1, <1>3, <2>1, <2>2, RoomStays
  <2>4. AnswerTypes'
    BY <1>0, <2>1, ServeTypes
  <2> QED
    BY <1>0, <1>1, <1>2, <2>1, <2>3, <2>4, CallsStand
<1>5. ASSUME NEW gone \in BOOLEAN, wire[1] \in InFlight, edit[wire[1]].id \in Id, Write(edit[wire[1]].id, gone), answer' # NoAnswer
      PROVE  CallInv'
  <2>1. DocType' /\ docRev' = docRev + 1
    BY <1>0, <1>1, <1>5, WriteParts
  <2>2. AnswerTypes'
    BY <1>0, <2>1, ServeTypes
  <2>3. PICK e \in InFlight : e = wire[1]
    BY <1>5
  <2>4. PICK A : A = Ahead'
    OBVIOUS
  <2>5. A = InFlight \ {e}
    BY <1>1, <1>3, <1>5, <2>3, <2>4 DEF Ahead, Unserved
  <2>6. /\ IsFiniteSet(InFlight) /\ Cardinality(InFlight) \in Nat /\ mode.max.revs \in Nat
        /\ docRev + Cardinality(InFlight) <= mode.max.revs
    BY <1>0, <1>3, AheadCount
  <2>7. Cardinality(A) = Cardinality(InFlight) - 1
    BY <2>3, <2>5, <2>6, FS_RemoveElement
  <2>8. docRev' + Cardinality(A) <= mode'.max.revs
    BY <1>0, <1>1, <2>1, <2>6, <2>7
  <2>9. RoomInv'
    BY <1>3, <2>4, <2>6, <2>8 DEF RoomInv
  <2>10. \A n \in DOMAIN events' : events'[n].rev <= docRev'
    <3>1. \A n \in DOMAIN events' : events'[n] \in EventType
      BY <1>2, ElementOfSeq, LenProperties
    <3> QED
      BY <1>0, <1>2, <2>1, <3>1 DEF EventType
  <2> QED
    BY <1>0, <1>1, <1>2, <2>1, <2>2, <2>9, <2>10, CallsStand
<1> QED
  BY <1>0, <1>4, <1>5, ServeChanges

LEMMA StillCalls ==
  ASSUME CallInv, LoseEvent \/ UNCHANGED vars
  PROVE  CallInv'
<1>0. DocType /\ SeqType /\ Versions /\ AnswerTypes /\ RoomInv /\ docRev \in Nat
  BY DEF CallInv, Calls, DocType
<1>1. /\ UNCHANGED <<mode, kicad, wire, answer, sync, edit, reader>>
      /\ events' = events \/ (events # <<>> /\ events' = Tail(events))
  BY DEF LoseEvent, vars
<1>2. DocType' /\ docRev' = docRev
  BY <1>0, <1>1 DEF DocType, kicad
<1>3. events' \in Seq(EventType) /\ \A n \in DOMAIN events' : events'[n].rev <= docRev'
  BY <1>0, <1>1, <1>2, EventsGo
<1>4. AnswerTypes'
  BY <1>0, <1>1, <1>2 DEF AnswerTypes
<1>5. InFlight' = InFlight /\ Ahead' = Ahead
  BY <1>1 DEF InFlight, Ahead, Unserved
<1>6. RoomInv'
  BY <1>0, <1>1, <1>2, <1>5, RoomStays
<1> QED
  BY <1>0, <1>1, <1>2, <1>3, <1>4, <1>6, CallsStand

\* While an answer waits, what is asked besides does not come first.
LEMMA FirstKept ==
  ASSUME SeqType, WireInv, NEW w \in Edit \union Reader, wire' = wire \/ wire' = Append(wire, w), answer # NoAnswer
  PROVE  wire # <<>> /\ wire' # <<>> /\ wire'[1] = wire[1]
<1>1. wire # <<>> /\ 1 \in DOMAIN wire
  BY WireParts DEF WireInv
<1>2. CASE wire' = Append(wire, w)
  BY <1>1, <1>2, WireGrows
<1> QED
  BY <1>1, <1>2

LEMMA StartKeepsCalls ==
  ASSUME CallInv, NEW e \in mode.edits, StartEdit(e)
  PROVE  CallInv'
<1>0. /\ Calls /\ DocType /\ SeqType /\ WireInv /\ CallTypes /\ Versions /\ AnswerTypes /\ RoomInv /\ Asked /\ Loads
      /\ Edit \intersect Reader = {} /\ docRev \in Nat
  BY SyncAssumption DEF CallInv, Calls, DocType
<1>1. /\ e \in Edit /\ edit[e].at = "new" /\ Room /\ wire' = Append(wire, e) /\ Patched
      /\ UNCHANGED <<mode, kicad, events, answer, rev, loaded, loading, reader>>
      /\ edit' \in [Edit -> EditType] /\ edit'[e].at = "sent" /\ edit'[e].kind \in Kind /\ edit'[e].id \in Id
      /\ \A f \in Edit \ {e} : edit'[f] = edit[f]
  BY <1>0, EditStarts
<1>2. \A k \in DOMAIN wire : wire[k] # e
  BY <1>0, <1>1 DEF WireInv
<1>3. DocType' /\ docRev' = docRev /\ SeqType'
  BY <1>0, <1>1, WireGrows DEF DocType, SeqType, kicad
<1>4. WireInv'
  BY <1>0, <1>1, <1>2, WireJoins
<1>5. InFlight' = InFlight \union {e} /\ e \notin InFlight
  BY <1>1 DEF InFlight
<1>6. CallTypes'
  <2>1. \A f \in InFlight' : edit'[f].kind \in Kind /\ edit'[f].id \in Id
    BY <1>0, <1>1 DEF CallTypes, InFlight
  <2> QED
    BY <1>0, <1>1, <1>3, <2>1 DEF CallTypes
<1>7. Versions'
  <2>1. Shown' = Shown
    BY <1>3 DEF Shown
  <2> QED
    BY <1>0, <1>1, <1>3, <2>1 DEF Versions, Patched
<1>8. answer # NoAnswer => wire'[1] = wire[1] /\ wire[1] # e /\ wire # <<>> /\ wire' # <<>>
  <2>1. SUFFICES ASSUME answer # NoAnswer PROVE wire'[1] = wire[1] /\ wire[1] # e /\ wire # <<>> /\ wire' # <<>>
    OBVIOUS
  <2>2. wire # <<>> /\ wire' # <<>> /\ wire'[1] = wire[1]
    BY <1>0, <1>1, <2>1, FirstKept
  <2> QED
    BY <1>0, <1>2, <2>2, WireParts
<1>9. AnswerTypes'
  BY <1>0, <1>1, <1>3, <1>8 DEF AnswerTypes
<1>10. RoomInv'
  <2>1. PICK F : F = InFlight'
    OBVIOUS
  <2>2. PICK A : A = Ahead'
    OBVIOUS
  <2>3. /\ IsFiniteSet(InFlight) /\ Cardinality(InFlight) \in Nat /\ mode.max.revs \in Nat
    BY <1>0, AheadCount
  <2>4. IsFiniteSet(F) /\ Cardinality(F) = Cardinality(InFlight) + 1
    BY <1>5, <2>1, <2>3, FS_AddElement
  <2>5. A \in SUBSET F
    BY <2>1, <2>2 DEF Ahead
  <2>6. IsFiniteSet(A) /\ Cardinality(A) <= Cardinality(F)
    BY <2>4, <2>5, FS_Subset
  <2>7. Cardinality(A) \in Nat
    BY <2>6, FS_CardinalityType
  <2>8. docRev' + Cardinality(A) <= mode'.max.revs
    BY <1>0, <1>1, <1>3, <2>3, <2>4, <2>6, <2>7 DEF Room
  <2> QED
    BY <2>1, <2>2, <2>4, <2>8 DEF RoomInv
<1>11. Asked'
  <2>1. (\E k \in DOMAIN wire' : wire'[k] = e) /\ \A x : OnWire(x) => \E k \in DOMAIN wire' : wire'[k] = x
    BY <1>0, <1>1, QueueKeeps
  <2> QED
    BY <1>0, <1>1, <1>5, <2>1 DEF Asked, OnWire
<1>12. Loads'
  BY <1>0, <1>1 DEF Loads
<1> QED
  BY <1>3, <1>4, <1>6, <1>7, <1>9, <1>10, <1>11, <1>12 DEF CallInv, Calls

LEMMA EndKeepsCalls ==
  ASSUME CallInv, NEW e \in mode.edits, EditAnswered(e)
  PROVE  CallInv'
<1>0. /\ Calls /\ DocType /\ SeqType /\ WireInv /\ CallTypes /\ Versions /\ AnswerTypes /\ RoomInv /\ Asked /\ Loads
      /\ Edit \intersect Reader = {} /\ docRev \in Nat
  BY SyncAssumption DEF CallInv, Calls, DocType
<1>1. /\ e \in InFlight /\ wire # <<>> /\ wire[1] = e /\ wire' = Tail(wire) /\ Patched
      /\ answer # NoAnswer /\ answer' = NoAnswer
      /\ UNCHANGED <<mode, kicad, events, rev, loaded, loading, reader>>
      /\ edit' \in [Edit -> EditType] /\ edit'[e].at = "done"
      /\ \A f \in Edit \ {e} : edit'[f] = edit[f]
  BY <1>0, EditEnds
<1>2. e \in Edit
  BY <1>1 DEF InFlight
<1>3. DocType' /\ docRev' = docRev /\ SeqType'
  BY <1>0, <1>1, WireShrinks DEF DocType, SeqType, kicad
<1>4. WireInv'
  BY <1>0, <1>1, <1>2, WireLeaves
<1>5. InFlight' = InFlight \ {e}
  BY <1>1, <1>2 DEF InFlight
<1>6. CallTypes'
  <2>1. \A f \in InFlight' : edit'[f].kind \in Kind /\ edit'[f].id \in Id
    BY <1>0, <1>1, <1>5 DEF CallTypes, InFlight
  <2> QED
    BY <1>0, <1>1, <1>3, <2>1 DEF CallTypes
<1>7. Versions'
  <2>1. Shown' = Shown
    BY <1>3 DEF Shown
  <2> QED
    BY <1>0, <1>1, <1>3, <2>1 DEF Versions, Patched
<1>8. AnswerTypes'
  BY <1>1 DEF AnswerTypes
<1>9. RoomInv'
  <2>1. InFlight \ {e} \subseteq Ahead
    BY <1>1 DEF Ahead, Unserved
  <2>2. InFlight' \subseteq InFlight /\ Ahead' \subseteq Ahead
    BY <1>5, <2>1 DEF Ahead
  <2> QED
    BY <1>0, <1>1, <1>3, <2>2, RoomStays
<1>10. Asked'
  <2>1. \A x : OnWire(x) /\ x # wire[1] => \E k \in DOMAIN wire' : wire'[k] = x
    BY <1>0, <1>1, <1>2, QueueKeeps
  <2> QED
    BY <1>0, <1>1, <1>2, <1>5, <2>1 DEF Asked, OnWire
<1>11. Loads'
  BY <1>0, <1>1 DEF Loads
<1> QED
  BY <1>3, <1>4, <1>6, <1>7, <1>8, <1>9, <1>10, <1>11 DEF CallInv, Calls

LEMMA AskKeepsCalls ==
  ASSUME CallInv, NEW r \in mode.readers, StartRefresh(r) \/ HandleEvent(r)
  PROVE  CallInv'
<1>0. /\ Calls /\ DocType /\ SeqType /\ WireInv /\ CallTypes /\ Versions /\ AnswerTypes /\ RoomInv /\ Asked /\ Loads
      /\ Edit \intersect Reader = {} /\ docRev \in Nat
  BY SyncAssumption DEF CallInv, Calls, DocType
<1>1. /\ r \in Reader /\ reader[r].at = "idle" /\ Comes(r)
      /\ UNCHANGED <<mode, kicad, answer, loaded, pending, edit>>
      /\ events' = events \/ (events # <<>> /\ events' = Tail(events))
      /\ rev' \in 0..docRev /\ store' \in [Id -> Shown]
  BY <1>0, AskSteps
<1>2. /\ reader' \in [Reader -> AnyReader] /\ \A q \in Reader : reader'[q].eventRev <= docRev
      /\ \A q \in Reader \ {r} : reader'[q] = reader[q]
      /\ wire' = wire \/ wire' = Append(wire, r)
  BY <1>1 DEF Comes
<1>3. \A k \in DOMAIN wire : wire[k] # r
  BY <1>0, <1>1 DEF WireInv, Asking
<1>4. DocType' /\ docRev' = docRev /\ InFlight' = InFlight
  BY <1>0, <1>1 DEF DocType, kicad, InFlight
<1>5. events' \in Seq(EventType) /\ \A n \in DOMAIN events' : events'[n].rev <= docRev'
  BY <1>0, <1>1, <1>4, EventsGo
<1>6. SeqType'
  BY <1>0, <1>1, <1>2, <1>5, WireGrows DEF SeqType
<1>7. WireInv'
  <2>1. CASE wire' = wire
    BY <1>0, <1>1, <1>2, <1>3, <2>1 DEF WireInv
  <2>2. CASE wire' = Append(wire, r) /\ reader'[r].at \in Asking
    BY <1>0, <1>1, <1>2, <1>3, <2>2, WireJoins
  <2> QED
    BY <1>1, <2>1, <2>2 DEF Comes, Asking
<1>8. CallTypes'
  <2>1. loading' \in BOOLEAN
    BY <1>0, <1>1 DEF Comes, CallTypes
  <2> QED
    BY <1>0, <1>1, <1>2, <1>4, <2>1 DEF CallTypes
<1>9. Versions'
  <2>1. Shown' = Shown
    BY <1>4 DEF Shown
  <2> QED
    BY <1>0, <1>1, <1>4, <1>5, <2>1 DEF Versions
<1>10. answer # NoAnswer => wire'[1] = wire[1] /\ wire # <<>> /\ wire' # <<>>
  BY <1>0, <1>1, <1>2, FirstKept
<1>11. AnswerTypes'
  BY <1>0, <1>1, <1>4, <1>10 DEF AnswerTypes
<1>12. RoomInv'
  <2>1. Ahead' \subseteq Ahead
    BY <1>1, <1>4, <1>10 DEF Ahead, Unserved
  <2> QED
    BY <1>0, <1>1, <1>4, <2>1, RoomStays
<1>13. Asked'
  <2>1. \A x : OnWire(x) => \E k \in DOMAIN wire' : wire'[k] = x
    BY <1>0, <1>1, <1>2, QueueKeeps DEF OnWire
  <2>2. reader'[r].at \in Asking => \E k \in DOMAIN wire' : wire'[k] = r
    BY <1>0, <1>1, QueueKeeps DEF Comes, Asking
  <2> QED
    BY <1>0, <1>1, <1>2, <1>4, <2>1, <2>2 DEF Asked, OnWire
<1>14. Loads'
  <2>1. CASE loading' = loading /\ reader'[r].at \in {"idle", "counts", "ids"}
    BY <1>0, <1>1, <1>2, <2>1 DEF Loads
  <2>2. CASE loading' = loading /\ loading /\ reader'[r].at = "joined"
    BY <1>0, <1>1, <1>2, <2>2 DEF Loads
  <2>3. CASE ~loading /\ loading' = TRUE /\ reader'[r].at = "load"
    BY <1>0, <1>1, <1>2, <2>3 DEF Loads
  <2> QED
    BY <1>1, <2>1, <2>2, <2>3 DEF Comes
<1> QED
  BY <1>4, <1>6, <1>7, <1>8, <1>9, <1>11, <1>12, <1>13, <1>14 DEF CallInv, Calls

LEMMA ReadKeepsCalls ==
  ASSUME CallInv, NEW r \in mode.readers, ReadSteps(r)
  PROVE  CallInv'
<1>0. /\ Calls /\ DocType /\ SeqType /\ WireInv /\ CallTypes /\ Versions /\ AnswerTypes /\ RoomInv /\ Asked /\ Loads
      /\ Edit \intersect Reader = {} /\ docRev \in Nat
  BY SyncAssumption DEF CallInv, Calls, DocType
<1>1. /\ r \in Reader /\ wire # <<>> /\ wire[1] = r /\ answer # NoAnswer /\ answer' = NoAnswer
      /\ UNCHANGED <<mode, kicad, events, pending, edit>>
      /\ Goes(r) \/ LoadGoes(r)
      /\ reader' \in [Reader -> AnyReader] /\ \A q \in Reader : reader'[q].eventRev <= docRev
      /\ rev' \in 0..docRev /\ store' \in [Id -> Shown] /\ loaded' \in BOOLEAN
  BY <1>0, ReadMoves
<1>2. /\ \A q \in Reader \ {r} : reader'[q] = reader[q] \/ (reader[q].at = "joined" /\ reader'[q] = Idle)
      /\ \/ wire' = Tail(wire) /\ reader'[r] = Idle
         \/ AsksAgain(r) /\ reader'[r].at \in Asking
      /\ loading' \in BOOLEAN
  BY <1>0, <1>1 DEF Goes, LoadGoes, CallTypes
<1>3. DocType' /\ docRev' = docRev /\ InFlight' = InFlight
  BY <1>0, <1>1 DEF DocType, kicad, InFlight
<1>4. SeqType'
  BY <1>0, <1>1, <1>2, WireShrinks, WireTurns DEF SeqType
<1>5. WireInv'
  <2>1. r \notin Edit /\ "joined" \notin Asking
    BY <1>0, <1>1 DEF Asking
  <2> QED
    BY <1>0, <1>1, <1>2, <2>1, WireLeaves
<1>6. CallTypes'
  BY <1>0, <1>1, <1>2, <1>3 DEF CallTypes
<1>7. Versions'
  <2>1. Shown' = Shown
    BY <1>3 DEF Shown
  <2> QED
    BY <1>0, <1>1, <1>3, <2>1 DEF Versions
<1>8. AnswerTypes'
  BY <1>1 DEF AnswerTypes
<1>9. RoomInv'
  <2>1. \A e \in InFlight : Unserved(e)
    BY <1>0, <1>1 DEF InFlight, Unserved
  <2>2. Ahead' \subseteq Ahead
    BY <1>3, <2>1 DEF Ahead
  <2> QED
    BY <1>0, <1>1, <1>3, <2>2, RoomStays
<1>10. Asked'
  <2>1. \A x : OnWire(x) /\ x # r => \E k \in DOMAIN wire' : wire'[k] = x
    BY <1>0, <1>1, <1>2, QueueKeeps
  <2>2. AsksAgain(r) => \E k \in DOMAIN wire' : wire'[k] = r
    BY <1>0, <1>1, WireTurns
  <2>3. \A e \in InFlight' : e # r
    BY <1>0, <1>1, <1>3 DEF InFlight
  <2>4. \A q \in Reader \ {r} : reader'[q].at \in Asking => reader[q].at \in Asking
    BY <1>2 DEF Asking, Idle
  <2>5. reader'[r].at \in Asking => AsksAgain(r)
    BY <1>2 DEF Asking, Idle
  <2> QED
    BY <1>0, <1>3, <2>1, <2>2, <2>3, <2>4, <2>5 DEF Asked, OnWire
<1>11. Loads'
  <2>1. CASE Goes(r)
    <3>1. reader[r].at # "load" /\ reader'[r].at \notin {"load", "joined"} /\ reader[r].at # "joined"
      BY <2>1 DEF Goes, Asking, Idle
    <3> QED
      BY <1>0, <1>1, <2>1, <3>1 DEF Goes, Loads
  <2>2. CASE LoadGoes(r)
    <3>1. \A q \in Reader : reader'[q].at \notin {"load", "joined"}
      BY <1>0, <1>1, <2>2 DEF LoadGoes, Loads, Idle
    <3> QED
      BY <2>2, <3>1 DEF LoadGoes, Loads
  <2> QED
    BY <1>1, <2>1, <2>2
<1> QED
  BY <1>3, <1>4, <1>5, <1>6, <1>7, <1>8, <1>9, <1>10, <1>11 DEF CallInv, Calls

LEMMA CallInvInit ==
  ASSUME Init
  PROVE  CallInv
<1>1. /\ mode \in Mode /\ docRev = 1
      /\ \E S \in SUBSET mode.ids : doc = [i \in Id |-> IF i \in S THEN 1 ELSE Gone] /\ changedAt = doc
      /\ events = <<>> /\ wire = <<>> /\ answer = NoAnswer
      /\ store = [i \in Id |-> Gone] /\ rev = 0 /\ loaded = FALSE /\ loading = FALSE
      /\ pending = <<>>
      /\ edit = [e \in Edit |-> NewEdit] /\ reader = [r \in Reader |-> Idle]
  BY DEF Init
<1>2. DocType
  BY <1>1 DEF DocType, Gone
<1>3. SeqType
  BY <1>1, EmptySeq DEF SeqType
<1>4. DOMAIN wire = {} /\ DOMAIN events = {} /\ DOMAIN pending = {}
  BY <1>1
<1>5. WireInv /\ AnswerTypes
  BY <1>1, <1>4 DEF WireInv, AnswerTypes
<1>6. InFlight = {} /\ Ahead = {}
  BY <1>1 DEF InFlight, Ahead, NewEdit
<1>7. CallTypes
  <2>1. NewEdit \in EditType /\ Idle \in AnyReader /\ Idle.eventRev = 0
    BY DEF NewEdit, EditType, Idle, AnyReader, Asking, Size
  <2>2. loaded \in BOOLEAN /\ loading \in BOOLEAN
    BY <1>1
  <2>3. edit \in [Edit -> EditType] /\ reader \in [Reader -> AnyReader]
    BY <1>1, <2>1
  <2>4. \A r \in Reader : reader[r].eventRev <= docRev
    BY <1>1, <2>1
  <2> QED
    BY <1>6, <2>2, <2>3, <2>4 DEF CallTypes
<1>8. Versions
  BY <1>1, <1>4 DEF Versions, Shown, Gone
<1>9. RoomInv
  BY <1>1, <1>6, SyncAssumption, FS_EmptySet DEF RoomInv
<1>10. Asked /\ Loads
  BY <1>1, <1>6 DEF Asked, Loads, Idle, Asking
<1> QED
  BY <1>2, <1>3, <1>5, <1>7, <1>8, <1>9, <1>10 DEF CallInv, Calls

LEMMA CallInvStep ==
  ASSUME CallInv, [Next]_vars
  PROVE  CallInv'
BY ForeignKeepsCalls, StillCalls, ServeKeepsCalls, StartKeepsCalls, EndKeepsCalls, AskKeepsCalls, ReadKeepsCalls
   DEF Next

\* The variables keep the types TypeOK gives them, whatever the callers do.
THEOREM TypeCorrect == Spec => []TypeOK
<1>1. CallInv => TypeOK
  <2>1. SUFFICES ASSUME CallInv PROVE TypeOK
    OBVIOUS
  <2>2. DocType /\ SeqType /\ WireInv /\ CallTypes /\ Versions /\ RoomInv /\ Loads
    BY <2>1 DEF CallInv, Calls
  <2>3. mode \in Mode /\ docRev \in 1..MaxRev
    <3>1. /\ docRev \in Nat /\ Cardinality(Ahead) \in Nat /\ mode.max.revs \in Nat
          /\ docRev + Cardinality(Ahead) <= mode.max.revs
      BY <2>2, AheadCount
    <3>2. mode.max.revs \in 1..MaxRev /\ MaxRev \in Nat
      BY <2>2, SyncAssumption DEF DocType
    <3> QED
      BY <2>2, <3>1, <3>2 DEF Versions, DocType
  <2>4. changedAt \in [Id -> 0..docRev] /\ \A i \in Id : doc[i] \in {Gone, changedAt[i]}
    BY <2>2 DEF DocType
  <2>5. \A i \in Id : store[i] \in Version
    BY <2>2, <2>3, SyncAssumption DEF Versions, Shown, Version
  <2>6. rev \in 0..docRev /\ loaded \in BOOLEAN /\ loading \in BOOLEAN /\ DOMAIN pending \subseteq Kind \X Id
    BY <2>2 DEF Versions, CallTypes
  <2>7. \A i \in DOMAIN wire, j \in DOMAIN wire : wire[i] = wire[j] => i = j
    BY <2>2 DEF WireInv
  <2>8. \A r \in Reader : /\ reader[r].at \in {"idle", "counts", "since", "full", "load", "joined", "ids"}
                          /\ reader[r].tries \in 0..1
    BY <2>2 DEF CallTypes, AnyReader, Asking
  <2> QED
    BY <2>2, <2>3, <2>4, <2>5, <2>6, <2>7, <2>8 DEF TypeOK, Loads
<1>2. Init => CallInv
  BY CallInvInit
<1>3. CallInv /\ [Next]_vars => CallInv'
  BY CallInvStep
<1> QED
  BY <1>1, <1>2, <1>3, PTL DEF Spec

\* Nobody waits for an answer that is not coming: an edit that is not answered is in
\* the queue, and so is every re-read, save those that joined a load that is in the
\* queue itself (the `loading` promise of document-sync.ts, cleared when it settles,
\* failed or not).
Awaited ==
  /\ \A e \in InFlight : OnWire(e)
  /\ \A r \in Busy : OnWire(r) \/ (reader[r].at = "joined" /\ \E q \in Reader : reader[q].at = "load" /\ OnWire(q))
THEOREM NobodyWaitsInVain == Spec => []Awaited
<1>1. CallInv => Awaited
  <2>1. SUFFICES ASSUME CallInv PROVE Awaited
    OBVIOUS
  <2>2. Asked /\ Loads /\ reader \in [Reader -> AnyReader]
    BY <2>1 DEF CallInv, Calls, CallTypes
  <2>3. \A r \in Busy : r \in Reader /\ (reader[r].at = "joined" \/ reader[r].at \in Asking)
    BY <2>2 DEF Busy, AnyReader
  <2>4. \A q \in Reader : reader[q].at = "load" => OnWire(q)
    BY <2>2 DEF Asked, Asking
  <2> QED
    BY <2>2, <2>3, <2>4 DEF Awaited, Asked, Loads
<1>2. Init => CallInv
  BY CallInvInit
<1>3. CallInv /\ [Next]_vars => CallInv'
  BY CallInvStep
<1> QED
  BY <1>1, <1>2, <1>3, PTL DEF Spec
=============================================================================
