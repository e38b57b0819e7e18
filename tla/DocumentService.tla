-------------------------- MODULE DocumentService --------------------------
(***************************************************************************)
(* apps/web/src/services/kicad/KicadDocumentService.ts with the client's    *)
(* events.ts: how the app notices that a document changed on the server.    *)
(* Events are handled one at a time; while they are down a timer polls the  *)
(* revision; our own commits, re-reads and saves mark themselves as busy.   *)
(*                                                                         *)
(* One document.  What the store shows is the set of revisions whose        *)
(* changes it has read; a refresh reads them all, an event names one.  Each *)
(* await ends a step.  KiCad, the other clients and the link that carries   *)
(* the events are external: events are sequenced and may be lost.           *)
(***************************************************************************)
EXTENDS Integers, Sequences, FiniteSets

CONSTANTS
  MaxRev,  \* bound: revisions of the document
  Mode     \* the kinds of behaviour looked at: whether the transport relays
           \* events (else the timer polls), and how many revisions, commits and
           \* edits outside a commit (resyncDocument) of our own, saves of our own
           \* and of another client, lost events, losses of the link and failed
           \* re-reads there may be

Bounded == {"revs", "commits", "commands", "saves", "foreignSaves", "losses", "drops", "fails"}
ASSUME DocumentAssumption ==
  /\ MaxRev \in Nat \ {0}
  /\ \A m \in Mode : /\ m.relay \in BOOLEAN /\ m.max \in [Bounded -> Nat]
                     /\ m.max.revs \in 1..MaxRev

VARIABLES
  mode,         \* never changes
  rev, onDisk,  \* KiCad: the document's revision, and the one last saved
  own,          \* KiCad: the revisions made under our client name
  seq, wire,    \* KiCad: sequence of the last event, and the events under way
  link,         \* KicadDocumentService.eventsLive
  lastSeq,      \* KiCadEvents.last
  queue,        \* eventQueue: the handlers that have not run
  handling,     \* the queued handler that awaits something: a revision or none
  known, savedRev, dirty,
  shown,        \* the revisions the store has read
  polling,      \* the poll: "no", or what it awaits
  pollAt, got,  \* the revision it found, and the one its answer is of
  forced,       \* the event queue waits for the poll
  commitAt, commandAt, saveAt,
  count         \* how often each bounded thing has happened

server == <<rev, onDisk, own, seq>>
marks == <<known, savedRev, dirty, shown>>
poll == <<polling, pollAt, got, forced>>
calls == <<commitAt, commandAt, saveAt>>
documentVars == <<mode, server, wire, link, lastSeq, queue, handling, marks, poll, calls, count>>

None == 0
Revs == 0..MaxRev
Event == [seq : Nat, kind : {"changed", "saved"}, rev : Revs]
Handler == {[kind |-> "poll", rev |-> None]} \union [kind : {"changed", "saved"}, rev : Revs]

DocumentTypeOK ==
  /\ mode \in Mode
  /\ rev \in 1..MaxRev /\ onDisk \in 1..MaxRev /\ own \subseteq 1..MaxRev
  /\ seq \in Nat /\ lastSeq \in 0..seq
  /\ wire \in Seq(Event) /\ queue \in Seq(Handler)
  /\ link \in BOOLEAN /\ handling \in Revs
  /\ known \in 1..rev /\ savedRev \in 1..rev /\ dirty \in BOOLEAN /\ shown \subseteq 1..rev
  /\ polling \in {"no", "revision", "refresh"} /\ pollAt \in Revs /\ got \in Revs /\ forced \in BOOLEAN
  /\ commitAt \in {"no", "open", "ended"}
  /\ commandAt \in {"no", "reading", "read"}
  /\ saveAt \in {"no", "saving", "saved"}
  /\ \A k \in Bounded : count[k] \in 0..mode.max[k]
  /\ handling # None => ~forced

DocumentInit ==
  /\ mode \in Mode
  /\ rev = 1 /\ onDisk = 1 /\ own = {} /\ seq = 0 /\ wire = <<>>
  /\ link = mode.relay
  /\ lastSeq = 0 /\ queue = <<>> /\ handling = None
  /\ known = 1 /\ savedRev = 1 /\ dirty = FALSE /\ shown = {1}
  /\ polling = "no" /\ pollAt = None /\ got = None /\ forced = FALSE
  /\ commitAt = "no" /\ commandAt = "no" /\ saveAt = "no"
  /\ count = [k \in Bounded |-> 0]

Once(k) == count[k] < mode.max[k] /\ count' = [count EXCEPT ![k] = @ + 1]

\* beginActivity() marks a commit, a re-read and a save.
Busy == commitAt = "open" \/ commandAt = "reading" \/ saveAt # "no" \/ handling # None

\* The store's listeners set `dirty` when a re-read changes something.
Reads(revs) == shown' = shown \union revs /\ dirty' = (dirty \/ revs \ shown # {})
Everything == 1..rev
FailsToRead == Once("fails") /\ UNCHANGED <<shown, dirty>>

-----------------------------------------------------------------------------
(* KiCad: revisions, the file, and events. *)

Publish(kind, r) ==
  /\ seq' = seq + 1
  /\ wire' = IF link THEN Append(wire, [seq |-> seq + 1, kind |-> kind, rev |-> r]) ELSE wire
Changes(isOwn) ==
  /\ rev < mode.max.revs /\ rev' = rev + 1
  /\ own' = IF isOwn THEN own \union {rev + 1} ELSE own
  /\ Publish("changed", rev + 1)
  /\ UNCHANGED onDisk

ForeignChange ==
  /\ Changes(FALSE)
  /\ UNCHANGED <<mode, link, lastSeq, queue, handling, marks, poll, calls, count>>
ForeignSave ==
  /\ Once("foreignSaves") /\ onDisk' = rev /\ Publish("saved", rev)
  /\ UNCHANGED <<mode, rev, own, link, lastSeq, queue, handling, marks, poll, calls>>
\* Only a jump after the first event seen can be noticed.
LoseEvent ==
  /\ wire # <<>> /\ lastSeq # 0 /\ Once("losses") /\ wire' = Tail(wire)
  /\ UNCHANGED <<mode, server, link, lastSeq, queue, handling, marks, poll, calls>>

-----------------------------------------------------------------------------
(* Events: the link, the queue and the handlers. *)

LinkDown ==
  /\ link /\ Once("drops") /\ link' = FALSE /\ wire' = <<>>
  /\ UNCHANGED <<mode, server, lastSeq, queue, handling, marks, poll, calls>>

Later(h) == queue' = queue \o h
PollForced == [kind |-> "poll", rev |-> None]

LinkUp ==
  /\ ~link /\ count.drops > 0 /\ link' = TRUE
  /\ Later(<<PollForced>>)
  /\ UNCHANGED <<mode, server, wire, lastSeq, handling, marks, poll, calls, count>>

\* KiCadEvents.push: the gap listeners run before the event's own.
NoGap(e) == <<>>   \* mutation: a jump in the sequence goes unnoticed
GapCheck(e) == IF lastSeq # 0 /\ e.seq > lastSeq + 1 THEN <<PollForced>> ELSE <<>>
EventArrives ==
  /\ wire # <<>> /\ wire' = Tail(wire)
  /\ LET e == Head(wire) IN
     /\ lastSeq' = e.seq
     /\ Later(GapCheck(e) \o <<[kind |-> e.kind, rev |-> e.rev]>>)
  /\ UNCHANGED <<mode, server, link, handling, marks, poll, calls, count>>

QueueRuns == queue # <<>> /\ handling = None /\ ~forced
Next1 == Head(queue)
Ours(r) == r \in own
DirtyIfNew(r) == r # known   \* mutation: compares with the last revision seen
DirtyAt(r) == r # savedRev

\* onDocumentChanged: a change of our own is taken to be in the store already.
HandleOwn ==
  /\ QueueRuns /\ Next1.kind = "changed" /\ Ours(Next1.rev)
  /\ queue' = Tail(queue)
  /\ known' = Next1.rev /\ dirty' = DirtyAt(Next1.rev)
  /\ UNCHANGED <<mode, server, wire, link, lastSeq, handling, savedRev, shown, poll, calls, count>>
HandleForeign ==
  /\ QueueRuns /\ Next1.kind = "changed" /\ ~Ours(Next1.rev)
  /\ queue' = Tail(queue) /\ handling' = Next1.rev
  /\ UNCHANGED <<mode, server, wire, link, lastSeq, marks, poll, calls, count>>
\* A poll's revision request was sent before anything that marks itself busy:
\* requests are answered in order.
AnsweredBefore == polling # "revision"
\* The re-read is over: the items the event names, or (without ids) everything.
HandledForeign ==
  /\ handling # None /\ handling' = None /\ AnsweredBefore
  /\ known' = handling
  /\ \/ \E all \in BOOLEAN :
          /\ shown' = shown \union (IF all THEN Everything ELSE {handling})
          /\ dirty' = DirtyAt(handling) /\ UNCHANGED count
     \/ Once("fails") /\ UNCHANGED shown /\ dirty' = DirtyAt(handling)
  /\ UNCHANGED <<mode, server, wire, link, lastSeq, queue, savedRev, poll, calls>>

HandleSaved ==
  /\ QueueRuns /\ Next1.kind = "saved"
  /\ queue' = Tail(queue)
  /\ savedRev' = Next1.rev /\ known' = Next1.rev /\ dirty' = FALSE
  /\ UNCHANGED <<mode, server, wire, link, lastSeq, handling, shown, poll, calls, count>>

-----------------------------------------------------------------------------
(* The revision poll. *)

\* poll(true), queued by a gap or by the link coming back, is skipped when busy.
HandlePoll ==
  /\ QueueRuns /\ Next1.kind = "poll"
  /\ queue' = Tail(queue)
  /\ IF polling # "no" \/ Busy THEN UNCHANGED <<polling, forced>>
     ELSE polling' = "revision" /\ forced' = TRUE
  /\ UNCHANGED <<mode, server, wire, link, lastSeq, handling, marks, pollAt, got, calls, count>>
PollTimer ==
  /\ ~link /\ polling = "no" /\ ~Busy
  /\ polling' = "revision" /\ UNCHANGED <<pollAt, got, forced>>
  /\ UNCHANGED <<mode, server, wire, link, lastSeq, queue, handling, marks, calls, count>>

\* KiCad answers: with its revision, or with the items changed up to it.
PollServed ==
  /\ polling # "no" /\ commitAt # "ended" /\ commandAt # "read" /\ got = None /\ got' = rev
  /\ UNCHANGED <<mode, server, wire, link, lastSeq, queue, handling, marks, polling, pollAt, forced,
                 calls, count>>

PollEndsQuietly == polling' = "no" /\ pollAt' = None /\ UNCHANGED forced   \* mutation: the queue is not told
PollEnds == polling' = "no" /\ pollAt' = None /\ forced' = FALSE
MovedTwice == got > known + 1   \* mutation: one revision late
Moved == got # known
PollRevision ==
  /\ polling = "revision" /\ got # None /\ got' = None
  /\ IF Moved THEN polling' = "refresh" /\ pollAt' = got /\ known' = got /\ UNCHANGED forced
     ELSE PollEnds /\ UNCHANGED known
  /\ UNCHANGED <<mode, server, wire, link, lastSeq, queue, handling, savedRev, dirty, shown, calls, count>>
PollRefresh ==
  /\ polling = "refresh" /\ got # None
  /\ got' = None /\ PollEnds
  /\ \/ shown' = shown \union 1..got /\ dirty' = DirtyAt(pollAt) /\ UNCHANGED count
     \/ FailsToRead
  /\ UNCHANGED <<mode, server, wire, link, lastSeq, queue, handling, known, savedRev, calls>>

-----------------------------------------------------------------------------
(* What the app does itself: commits, edits outside a commit, saves. *)

BeginCommit ==
  /\ commitAt = "no" /\ Once("commits") /\ commitAt' = "open"
  /\ UNCHANGED <<mode, server, wire, link, lastSeq, queue, handling, marks, poll, commandAt, saveAt>>
PushCommit ==
  /\ commitAt = "open" /\ commitAt' = "ended" /\ AnsweredBefore
  /\ Changes(TRUE) /\ Reads({rev + 1})
  /\ UNCHANGED <<mode, link, lastSeq, queue, handling, known, savedRev, poll, commandAt, saveAt, count>>
DropCommit ==
  /\ commitAt = "open" /\ commitAt' = "ended" /\ AnsweredBefore
  /\ UNCHANGED <<mode, server, wire, link, lastSeq, queue, handling, marks, poll, commandAt, saveAt, count>>

\* Undo, annotate, teardrops ... and then resyncDocument.
Command ==
  /\ commandAt = "no" /\ Once("commands") /\ commandAt' = "reading"
  /\ Changes(TRUE)
  /\ UNCHANGED <<mode, link, lastSeq, queue, handling, marks, poll, commitAt, saveAt>>
Resynced ==
  /\ commandAt = "reading" /\ commandAt' = "read" /\ AnsweredBefore
  /\ \/ Reads(Everything) /\ UNCHANGED count
     \/ FailsToRead
  /\ UNCHANGED <<mode, server, wire, link, lastSeq, queue, handling, known, savedRev, poll, commitAt, saveAt>>

AfterCommit ==
  /\ known' = rev /\ dirty' = DirtyAt(rev)
  /\ \/ commitAt = "ended" /\ commitAt' = "no" /\ UNCHANGED commandAt
     \/ commandAt = "read" /\ commandAt' = "no" /\ UNCHANGED commitAt
  /\ UNCHANGED <<mode, server, wire, link, lastSeq, queue, handling, savedRev, shown, poll, saveAt, count>>

save ==
  /\ saveAt = "no" /\ Once("saves") /\ saveAt' = "saving"
  /\ UNCHANGED <<mode, server, wire, link, lastSeq, queue, handling, marks, poll, commitAt, commandAt>>
SaveServed ==
  /\ saveAt = "saving" /\ saveAt' = "saved" /\ AnsweredBefore
  /\ onDisk' = rev /\ Publish("saved", rev)
  /\ UNCHANGED <<mode, rev, own, link, lastSeq, queue, handling, marks, poll, commitAt, commandAt, count>>
\* save() asks for the revision after the file was written.
Saved ==
  /\ saveAt = "saved" /\ saveAt' = "no"
  /\ savedRev' = rev /\ known' = rev /\ dirty' = FALSE
  /\ UNCHANGED <<mode, server, wire, link, lastSeq, queue, handling, shown, poll, commitAt, commandAt, count>>

Handle == HandleOwn \/ HandleForeign \/ HandledForeign \/ HandleSaved \/ HandlePoll
Poll == PollTimer \/ PollServed \/ PollRevision \/ PollRefresh
OwnCalls == PushCommit \/ DropCommit \/ Resynced \/ AfterCommit \/ SaveServed \/ Saved
External == ForeignChange \/ ForeignSave \/ LoseEvent \/ LinkDown

DocumentNext ==
  \/ External \/ LinkUp \/ EventArrives \/ Handle \/ Poll \/ OwnCalls
  \/ BeginCommit \/ Command \/ save

DocumentSpec == DocumentInit /\ [][DocumentNext]_documentVars

\* The link comes back or the timer polls, handlers run, requests are answered.
DocumentFairness ==
  /\ WF_documentVars(LinkUp) /\ WF_documentVars(EventArrives) /\ WF_documentVars(Handle)
  /\ WF_documentVars(PollTimer) /\ WF_documentVars(PollServed) /\ WF_documentVars(PollRevision) /\ WF_documentVars(PollRefresh)
  /\ WF_documentVars(OwnCalls)
DocumentLiveSpec == DocumentSpec /\ DocumentFairness

-----------------------------------------------------------------------------
(* Properties. *)

Idle == /\ queue = <<>> /\ handling = None /\ polling = "no"
        /\ commitAt = "no" /\ commandAt = "no" /\ saveAt = "no"
\* Nothing more will be noticed: every event has been seen and, while the link
\* is down, the timer finds the revision it knows.
Settled == Idle /\ wire = <<>> /\ (IF link THEN lastSeq = seq ELSE known = rev)

\* No change is missed for good: once settled the store has read every revision.
\* That is not so when a re-read fails, which nothing repeats; when the one check a
\* lost link or a lost event forces is skipped because of a poll or a call under
\* way; and after calls of our own while the timer polls, as they end by taking
\* KiCad's revision for the one in the store.
CallsOfOurs == count.commits + count.commands + count.saves
NothingSkipped == /\ count.drops = 0 /\ count.fails = 0
                  /\ CallsOfOurs = 0 \/ (link /\ count.losses = 0)
NothingMissed == Settled /\ NothingSkipped => shown = 1..rev

\* Then what the app calls saved is on disk, unless it saved itself (it asks for
\* the revision after the save).
CleanIsSaved == Settled /\ NothingSkipped /\ ~dirty /\ count.saves = 0 => onDisk = rev

\* Whatever is queued is handled, as changes come to an end: no event and no
\* forced poll stops the queue.
QueueDrains == []<>(queue = <<>>)

\* Without events the timer finds every change of another client sooner or later,
\* when no re-read fails and no call of our own comes between.
CatchesUp == []<>(mode.relay \/ CallsOfOurs > 0 \/ count.fails > 0 \/ shown = 1..rev)
=============================================================================
