--------------------------- MODULE CommandService ---------------------------
(***************************************************************************)
(* apps/web/src/services/CommandService.ts over KicadCommitBackend.ts:      *)
(* transactions that edit the store optimistically, are sent to KiCad as    *)
(* one commit each, and are undone and redone by replaying their ops as a   *)
(* new commit.                                                             *)
(*                                                                         *)
(* An owner is a transaction or a call of undo()/redo(); each await ends a  *)
(* step.  The backend serialises commits with a promise chain and finds     *)
(* "the" open commit by store.  The client's Commit is abstracted to what   *)
(* CommitProtocol establishes for it; KiCad is external and may fail any    *)
(* request of the owners in `Failing`.                                      *)
(***************************************************************************)
EXTENDS Integers, Sequences, FiniteSets

CONSTANTS
  Tx,           \* transactions
  Undoer,       \* calls of undo() and redo()
  Item, Value,  \* items of the one store, and their contents
  Absent,       \* the content of an item that does not exist
  Nobody,
  Limit,        \* history entries kept (200)
  Failing,      \* owners whose requests KiCad may fail
  MaxFail,      \* bound: failed requests
  Mode          \* the kinds of behaviour looked at

Owner == Tx \union Undoer
Content == Value \union {Absent}

ASSUME CommandAssumption ==
  /\ Tx \intersect Undoer = {} /\ Nobody \notin Owner /\ Absent \notin Value
  /\ Limit \in Nat \ {0} /\ MaxFail \in Nat
  /\ Failing \subseteq Owner
  /\ Mode \subseteq [alone : BOOLEAN, items : SUBSET Item, undoers : SUBSET Undoer]

VARIABLES
  mode,        \* never changes: whether transactions and undos start only when
               \* the others are over, and which items and undoers take part
  local,       \* the optimistic store
  first, last, \* TransactionImpl.pending: Pending.first and .last, as ops
  pc,          \* where each owner is
  todo,        \* the ops an owner has not sent yet
  batch,       \* the ops of the request it awaits
  before,      \* what that request's optimistic change replaced in the store
  entry,       \* the history entry an undoer replays, and to which stack it goes
  undoStack, redoStack, replaying,
  chain,       \* KicadCommitBackend.chain: owners in the order of begin()
  open,        \* KicadCommitBackend.open: the owner filed under the store
  target,      \* the owner whose Commit an end() call of this owner is ending
  handle,      \* the client's Commit: "none", "open", "dropped" by KiCad, "ended"
  doc, base,   \* KiCad: the document, and as it was at BeginCommit
  pending,     \* KiCad: the owner of the open commit
  lost,        \* history: KiCad was left in a state the client gave up on
  fails

store == <<local, first, last>>
history == <<undoStack, redoStack, replaying, entry>>
backend == <<chain, open>>
kicad == <<doc, base, pending, lost, fails>>
vars == <<mode, store, pc, todo, batch, before, history, backend, target, handle, kicad>>

\* Ops are partial functions from items to contents.
Ops == UNION {[S -> Content] : S \in SUBSET Item}
NoOps == [i \in {} |-> Absent]
Over(f, ops) == [i \in DOMAIN f |-> IF i \in DOMAIN ops THEN ops[i] ELSE f[i]]
Only(ops, S) == [i \in S |-> ops[i]]
Entry == [fwd : Ops, inv : Ops]

Quiet == {"idle", "editing", "committed", "dropped", "failed", "returned"}
TypeOK ==
  /\ mode \in Mode
  /\ local \in [Item -> Content] /\ doc \in [Item -> Content] /\ base \in [Item -> Content]
  /\ first \in [Tx -> Ops] /\ last \in [Tx -> Ops]
  /\ \A t \in Tx : DOMAIN first[t] = DOMAIN last[t]
  /\ pc \in [Owner -> Quiet \union {"waiting", "applying", "ending", "dropping", "discarding", "cleaning"}]
  /\ todo \in [Owner -> Ops] /\ batch \in [Owner -> Ops] /\ before \in [Owner -> Ops]
  /\ entry \in [Undoer -> [entry : Entry, redo : BOOLEAN] \union {Nobody}]
  /\ undoStack \in Seq(Entry) /\ redoStack \in Seq(Entry)
  /\ replaying \in BOOLEAN
  /\ chain \in Seq(Owner) /\ open \in Owner \union {Nobody}
  /\ target \in [Owner -> Owner \union {Nobody}]
  /\ handle \in [Owner -> {"none", "open", "dropped", "ended"}]
  /\ pending \in Owner \union {Nobody}
  /\ lost \in BOOLEAN /\ fails \in 0..MaxFail

Init ==
  /\ mode \in Mode
  /\ local \in [Item -> Content] /\ \A i \in Item \ mode.items : local[i] = Absent
  /\ doc = local /\ base = local
  /\ first = [t \in Tx |-> NoOps] /\ last = [t \in Tx |-> NoOps]
  /\ pc = [o \in Owner |-> "idle"]
  /\ todo = [o \in Owner |-> NoOps] /\ batch = [o \in Owner |-> NoOps]
  /\ before = [o \in Owner |-> NoOps]
  /\ entry = [u \in Undoer |-> Nobody]
  /\ undoStack = <<>> /\ redoStack = <<>> /\ replaying = FALSE
  /\ chain = <<>> /\ open = Nobody
  /\ target = [o \in Owner |-> Nobody] /\ handle = [o \in Owner |-> "none"]
  /\ pending = Nobody /\ lost = FALSE /\ fails = 0

To(o, l) == pc' = [pc EXCEPT ![o] = l]
Fails(o) == o \in Failing /\ fails < MaxFail /\ fails' = fails + 1

-----------------------------------------------------------------------------
(* Editing a transaction. *)

Begin(t) ==
  /\ pc[t] = "idle"
  /\ mode.alone => \A o \in Owner : pc[o] \in Quiet \ {"editing"}
  /\ To(t, "editing")
  /\ UNCHANGED <<mode, store, todo, batch, before, history, backend, target, handle, kicad>>

\* update, replace, create and delete: touch() keeps the first pre-state.
KeepLatest(ops, i, v) == [j \in DOMAIN ops \union {i} |-> IF j = i THEN v ELSE ops[j]]
KeepFirst(ops, i, v) == [j \in DOMAIN ops \union {i} |-> IF j \in DOMAIN ops THEN ops[j] ELSE v]
Edit(t, i, v) ==
  /\ pc[t] = "editing"
  /\ v = Absent => local[i] # Absent
  /\ first' = [first EXCEPT ![t] = KeepFirst(@, i, local[i])]
  /\ last' = [last EXCEPT ![t] = KeepLatest(@, i, v)]
  /\ local' = [local EXCEPT ![i] = v]
  /\ UNCHANGED <<mode, pc, todo, batch, before, history, backend, target, handle, kicad>>

\* buildOps: an item created and deleted again needs no op.
Changed(t) == {i \in DOMAIN first[t] : first[t][i] # Absent \/ last[t][i] # Absent}
ForwardOps(t) == Only(last[t], Changed(t))
InverseOps(t) == Only(first[t], Changed(t))

-----------------------------------------------------------------------------
(* KicadCommitBackend: end() acts on whatever commit the store has open. *)

\* The end of the step: end() finds no commit and returns at once.
EndDrop(o, awaits, result) ==
  IF open = Nobody
  THEN To(o, result) /\ UNCHANGED <<open, target>>
  ELSE /\ To(o, awaits) /\ target' = [target EXCEPT ![o] = open] /\ open' = Nobody

KeepTurn(o) == UNCHANGED chain   \* mutation: release() forgotten
\* release(): the turn in the chain is over; only who has had its turn holds it,
\* and a second call does nothing.
Release(o) == chain' = IF chain # <<>> /\ Head(chain) = o THEN Tail(chain) ELSE chain

NotRolledBack(f, t) == f   \* mutation: the store keeps the edits
RolledBack(f, t) == Over(f, InverseOps(t))

Commit(t) ==
  /\ pc[t] = "editing"
  /\ IF Changed(t) = {}
     THEN EndDrop(t, "dropping", "returned") /\ UNCHANGED <<chain, todo>>
     ELSE /\ To(t, "waiting") /\ chain' = Append(chain, t)
          /\ todo' = [todo EXCEPT ![t] = ForwardOps(t)]
          /\ UNCHANGED <<open, target>>
  /\ UNCHANGED <<mode, store, batch, before, history, handle, kicad>>

Drop(t) ==
  /\ pc[t] = "editing"
  /\ local' = RolledBack(local, t)
  /\ EndDrop(t, "discarding", "dropped")
  /\ UNCHANGED <<mode, first, last, todo, batch, before, history, chain, handle, kicad>>

\* mutation: the failed transaction does not end its commit
GiveUpOpen(o, f) ==
  /\ local' = (IF o \in Tx THEN RolledBack(f, o) ELSE f)
  /\ replaying' = (IF o \in Tx THEN replaying ELSE FALSE)
  /\ To(o, "failed") /\ UNCHANGED <<open, target>>
\* A step of commit() or replay() threw with the store showing f: a transaction
\* rolls the store back and drops, a replay only clears `replaying`.
GiveUp(o, f) ==
  IF o \in Tx
  THEN /\ local' = RolledBack(f, o)
       /\ EndDrop(o, "cleaning", "failed")
       /\ UNCHANGED replaying
  ELSE /\ local' = f /\ replaying' = FALSE
       /\ To(o, "failed") /\ UNCHANGED <<open, target>>

\* begin(): our turn has come; KiCad opens a commit or refuses.
AnyTurn(o) == \E i \in DOMAIN chain : chain[i] = o   \* mutation: no chain
Turn(o) == chain # <<>> /\ chain[1] = o
BeginCommit(o) ==
  /\ pc[o] = "waiting" /\ Turn(o) /\ pending = Nobody
  /\ pending' = o /\ base' = doc
  /\ open' = o /\ handle' = [handle EXCEPT ![o] = "open"]
  /\ To(o, "applying")
  /\ UNCHANGED <<mode, store, todo, batch, before, history, chain, target, doc, lost, fails>>
BeginRefused(o) ==
  /\ pc[o] = "waiting" /\ Turn(o)
  /\ IF pending = Nobody THEN Fails(o) ELSE UNCHANGED fails
  /\ Release(o)
  /\ GiveUp(o, local)
  /\ UNCHANGED <<mode, first, last, todo, batch, before, entry, undoStack, redoStack,
                 handle, doc, base, pending, lost>>

\* apply(): one request per run of ops of one kind; the store shows it at once.
OneKind(ops) == \A i, j \in DOMAIN ops : ops[i] = Absent <=> ops[j] = Absent
SendBatch(o) ==
  /\ pc[o] = "applying" /\ batch[o] = NoOps /\ handle[o] # "ended"
  /\ \E S \in SUBSET DOMAIN todo[o] :
       /\ S # {} /\ OneKind(Only(todo[o], S))
       /\ batch' = [batch EXCEPT ![o] = Only(todo[o], S)]
       /\ todo' = [todo EXCEPT ![o] = Only(@, DOMAIN @ \ S)]
       /\ before' = [before EXCEPT ![o] = Only(local, S)]
       /\ local' = Over(local, Only(todo[o], S))
  /\ UNCHANGED <<mode, first, last, pc, history, backend, target, handle, kicad>>

\* The Commit was ended by somebody else: the next edit is rejected.
EditRejected(o) ==
  /\ pc[o] = "applying" /\ batch[o] = NoOps /\ handle[o] = "ended" /\ todo[o] # NoOps
  /\ GiveUp(o, local)
  /\ UNCHANGED <<mode, first, last, todo, batch, before, entry, undoStack, redoStack, chain, handle, kicad>>

BatchApplied(o) ==
  /\ pc[o] = "applying" /\ batch[o] # NoOps
  /\ doc' = Over(doc, batch[o]) /\ local' = Over(local, batch[o])
  /\ batch' = [batch EXCEPT ![o] = NoOps]
  /\ UNCHANGED <<mode, first, last, pc, todo, before, history, backend, target, handle,
                 base, pending, lost, fails>>

\* KiCad rejects items, or the reply is lost: any part may have been applied.
BatchFailed(o) ==
  /\ pc[o] = "applying" /\ batch[o] # NoOps /\ Fails(o)
  /\ \E S \in SUBSET DOMAIN batch[o] : doc' = Over(doc, Only(batch[o], S))
  /\ batch' = [batch EXCEPT ![o] = NoOps]
  /\ GiveUp(o, Over(local, before[o]))
  /\ UNCHANGED <<mode, first, last, todo, before, entry, undoStack, redoStack, chain, handle,
                 base, pending, lost>>

LastFew(s) == IF Len(s) > Limit THEN Tail(s) ELSE s
\* mutation: a new commit leaves the redo stack
PushOnly(e) ==
  IF replaying THEN UNCHANGED <<undoStack, redoStack>>
  ELSE undoStack' = LastFew(Append(undoStack, e)) /\ UNCHANGED redoStack
PushHistory(e) ==
  IF replaying THEN UNCHANGED <<undoStack, redoStack>>
  ELSE undoStack' = LastFew(Append(undoStack, e)) /\ redoStack' = <<>>

\* mutation: a replayed entry goes back to the stack it came from
BackAgain(u) == ~entry[u].redo
Redoing(u) == entry[u].redo
Succeed(o) ==
  /\ To(o, IF o \in Tx THEN "committed" ELSE "returned")
  /\ IF o \in Tx
     THEN PushHistory([fwd |-> ForwardOps(o), inv |-> InverseOps(o)]) /\ UNCHANGED <<replaying, entry>>
     ELSE /\ replaying' = FALSE /\ UNCHANGED entry
          /\ IF Redoing(o)
             THEN undoStack' = Append(undoStack, entry[o].entry) /\ UNCHANGED redoStack
             ELSE redoStack' = Append(redoStack, entry[o].entry) /\ UNCHANGED undoStack

\* end('commit'): the entry filed under the store, or nothing to do.
EndCommit(o) ==
  /\ pc[o] = "applying" /\ todo[o] = NoOps /\ batch[o] = NoOps
  /\ IF open = Nobody
     THEN Succeed(o) /\ UNCHANGED <<open, target>>
     ELSE /\ To(o, "ending") /\ open' = Nobody
          /\ target' = [target EXCEPT ![o] = open]
          /\ UNCHANGED history
  /\ UNCHANGED <<mode, store, todo, batch, before, chain, handle, kicad>>

\* push() of the target, after it drained.
Pushed(o) ==
  LET x == target[o] IN
  /\ pc[o] = "ending" /\ batch[x] = NoOps
  /\ pending' = Nobody
  /\ handle' = [handle EXCEPT ![x] = "ended"]
  /\ Release(x) /\ Succeed(o)
  /\ UNCHANGED <<mode, store, todo, batch, before, open, target, doc, base, lost, fails>>

\* push() recovered: the commit was reverted, or nobody knows its state.
PushFailed(o) ==
  LET x == target[o] IN
  /\ pc[o] = "ending" /\ batch[x] = NoOps /\ Fails(o)
  /\ handle' = [handle EXCEPT ![x] = "ended"]
  /\ Release(x)
  /\ \/ pending' = Nobody /\ doc' = base /\ UNCHANGED lost
     \/ pending' \in {x, Nobody} /\ lost' = TRUE /\ UNCHANGED doc
  /\ GiveUp(o, local)
  /\ UNCHANGED <<mode, first, last, todo, batch, before, entry, undoStack, redoStack, base>>

\* drop() of the target: after the drain KiCad reverts it; until the reply is
\* back the target's own edits are still accepted.
Discards(o) == pc[o] \in {"dropping", "discarding", "cleaning"}
DropServed(o) ==
  LET x == target[o] IN
  /\ Discards(o) /\ handle[x] = "open" /\ batch[x] = NoOps
  /\ handle' = [handle EXCEPT ![x] = "dropped"]
  /\ \/ pending' = Nobody /\ doc' = base /\ UNCHANGED <<lost, fails>>
     \/ Fails(o) /\ lost' = TRUE /\ pending' \in {x, Nobody} /\ UNCHANGED doc
  /\ UNCHANGED <<mode, store, pc, todo, batch, before, history, backend, target, base>>
DropReturns(o) ==
  LET x == target[o] IN
  /\ Discards(o) /\ handle[x] = "dropped"
  /\ handle' = [handle EXCEPT ![x] = "ended"]
  /\ Release(x)
  /\ To(o, CASE pc[o] = "dropping" -> "returned"
             [] pc[o] = "discarding" -> "dropped"
             [] pc[o] = "cleaning" -> "failed")
  /\ UNCHANGED <<mode, store, todo, batch, before, history, open, target, kicad>>

-----------------------------------------------------------------------------
(* Undo, redo, and changes that happened outside a transaction. *)

Undo(u) ==
  /\ pc[u] = "idle"
  /\ mode.alone => \A o \in Owner : pc[o] \in Quiet \ {"editing"}
  /\ \/ /\ undoStack # <<>>
        /\ undoStack' = SubSeq(undoStack, 1, Len(undoStack) - 1) /\ UNCHANGED redoStack
        /\ LET e == undoStack[Len(undoStack)] IN
           /\ entry' = [entry EXCEPT ![u] = [entry |-> e, redo |-> FALSE]]
           /\ todo' = [todo EXCEPT ![u] = e.inv]
     \/ /\ redoStack # <<>>
        /\ redoStack' = SubSeq(redoStack, 1, Len(redoStack) - 1) /\ UNCHANGED undoStack
        /\ LET e == redoStack[Len(redoStack)] IN
           /\ entry' = [entry EXCEPT ![u] = [entry |-> e, redo |-> TRUE]]
           /\ todo' = [todo EXCEPT ![u] = e.fwd]
  /\ replaying' = TRUE
  /\ To(u, "waiting") /\ chain' = Append(chain, u)
  /\ UNCHANGED <<mode, store, batch, before, open, target, handle, kicad>>

\* record(): KiCad pasted an item in a commit of its own.
Record(t, i, v) ==
  /\ pc[t] = "idle" /\ local[i] = Absent /\ doc[i] = Absent
  /\ mode.alone => \A o \in Owner : pc[o] \in Quiet \ {"editing"}
  /\ local' = [local EXCEPT ![i] = v] /\ doc' = [doc EXCEPT ![i] = v]
  /\ base' = [base EXCEPT ![i] = v]
  /\ PushHistory([fwd |-> [j \in {i} |-> v], inv |-> [j \in {i} |-> Absent]])
  /\ To(t, "committed")
  /\ UNCHANGED <<mode, first, last, todo, batch, before, replaying, entry, backend, target, handle,
                 pending, lost, fails>>

ClearHistory ==
  /\ undoStack' = <<>> /\ redoStack' = <<>>
  /\ UNCHANGED <<mode, store, pc, todo, batch, before, replaying, entry, backend, target, handle, kicad>>

Running(o) ==
  \/ BeginCommit(o) \/ BeginRefused(o) \/ SendBatch(o) \/ EditRejected(o) \/ BatchApplied(o)
  \/ BatchFailed(o) \/ EndCommit(o) \/ Pushed(o) \/ PushFailed(o) \/ DropServed(o) \/ DropReturns(o)

Next ==
  \/ \E t \in Tx : Begin(t) \/ Commit(t) \/ Drop(t)
  \/ \E t \in Tx, i \in mode.items, v \in Content : Edit(t, i, v)
  \/ \E o \in Owner : Running(o)
  \/ \E u \in mode.undoers : Undo(u)
  \/ \E t \in Tx, i \in mode.items, v \in Value : Record(t, i, v)
  \/ ClearHistory

Spec == Init /\ [][Next]_vars

\* KiCad answers every request, and an await goes on once it is answered.
Fairness == \A o \in Owner : WF_vars(Running(o))
LiveSpec == Spec /\ Fairness

-----------------------------------------------------------------------------
(* Properties. *)

\* Who may begin finds no other commit of this client open, unless KiCad failed
\* to end one: the chain serialises them (KicadCommitBackend.ts:40).
TurnIsFree == \A o \in Owner : pc[o] = "waiting" /\ Turn(o) => pending = Nobody \/ lost

\* A commit left open has somebody who will end it: its owner, who still finds it
\* filed under the store, or an end() call that took it (KicadCommitBackend.ts:95).
Ends(p) == pc[p] = "ending" \/ Discards(p)
NoOrphan == \A o \in Owner : handle[o] = "open" =>
              \/ pc[o] = "applying" /\ open = o
              \/ \E p \in Owner : Ends(p) /\ target[p] = o

\* When nothing is in progress the optimistic store shows KiCad's document,
\* unless KiCad was left in a state the client gave up on.
AllQuiet == \A o \in Owner : pc[o] \in Quiet \ {"editing"}
StoreAgrees == mode.alone /\ AllQuiet /\ ~lost => local = doc

\* The newest undo entry describes the document as it is, and the newest redo
\* entry the document before it: replaying them restores it.
StacksMatch ==
  mode.alone /\ AllQuiet /\ ~lost =>
    /\ undoStack # <<>> => LET e == undoStack[Len(undoStack)] IN Over(doc, e.fwd) = doc
    /\ redoStack # <<>> => LET e == redoStack[Len(redoStack)] IN Over(doc, e.inv) = doc

\* A transaction KiCad pushed is in the history when its commit() resolves.
CommitIsRecorded ==
  [][mode.alone => \A t \in Tx : pc[t] \in {"applying", "ending"} /\ pc'[t] = "committed" =>
       redoStack' = <<>> /\ undoStack' # <<>> /\ undoStack'[Len(undoStack')].fwd = ForwardOps(t)]_vars

\* Every commit(), drop(), undo() and redo() returns: each owner makes one such
\* call, so it is enough that none is under way again and again.
EveryCallReturns == []<>(\A o \in Owner : pc[o] \in Quiet)
=============================================================================
