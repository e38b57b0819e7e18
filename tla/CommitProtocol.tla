--------------------------- MODULE CommitProtocol ---------------------------
(***************************************************************************)
(* packages/client/src/model/commit.ts: one Commit object.  Edits are       *)
(* queued, merged into batches and sent one batch at a time by a flush loop *)
(* that a microtask starts; push(), drop(), run() and undo() drain the      *)
(* queue and end the transaction.                                           *)
(*                                                                         *)
(* Each await of the code ends a step.  KiCad is external: it answers       *)
(* requests in the order they arrive, may reject part of a batch, may fail  *)
(* EndCommit before or after it recorded the undo entry, and goes on        *)
(* executing a request the client has stopped waiting for.                  *)
(***************************************************************************)
EXTENDS Integers, Sequences, FiniteSets

CONSTANTS
  Op,           \* the edits, each enqueued at most once
  KeyOf(_),     \* kind and container of an edit; equal keys may be merged
  Caller,       \* the calls of push, drop, run and undo
  Flush,        \* the flush loop, as a sender of requests
  Mode,         \* the kinds of commit and of callers looked at
  MaxForeign,   \* bound: commits pushed by another client
  MaxTimeouts   \* bound: requests the transport fails

ASSUME CommitAssumption ==
  /\ Flush \notin Caller
  /\ Mode \subseteq [hasId : BOOLEAN, strict : BOOLEAN, disciplined : BOOLEAN]
  /\ MaxForeign \in Nat /\ MaxTimeouts \in Nat

VARIABLES
  mode,         \* never changes: hasId is FALSE for the one-shot commits outside
                \* BeginCommit, strict is CommitOptions.strict; disciplined callers
                \* end the commit once at a time and stop editing first
  queue, scheduled, ended, finalizing,
  batch,        \* the ops of the request the flush loop awaits; <<>>: not flushing
  status,       \* the promise of each op
  goal, pc,     \* what each caller wants, and where it is
  accepted,     \* history: the ops in the order they were enqueued
  sent,         \* history: the ops in the order they were sent
  wire,         \* requests KiCad has not executed yet
  reply,        \* the answer each sender has not read yet
  timeouts,
  open,         \* KiCad: our transaction is pending
  applied,      \* KiCad: the ops in the pending transaction
  undoStack,    \* KiCad: entries [by, ops]; by is the commit id's owner
  foreignOpen, foreign,
  undidOther    \* history: our Undo reverted an entry that was not ours

client == <<queue, scheduled, ended, finalizing, batch, status, goal, pc, accepted, sent>>
kicad == <<open, applied, undoStack, foreignOpen, foreign, undidOther>>
vars == <<mode, client, wire, reply, timeouts, kicad>>

Sender == Caller \union {Flush}
Goals == {"push", "drop", "fail", "undo"}
Waiting == {"ending", "dropping", "reverting", "stack", "undoing"}
Over == {"pushed", "dropped", "abandoned", "reverted", "undone", "unknown", "refused", "returned"}
Active(c) == pc[c] \notin Over \union {"idle"}
Elems(s) == {s[i] : i \in DOMAIN s}
\* EndCommit and the stack check name the commit, so they need its id.
Kinds == {"ops", "undo"} \union (IF mode.hasId THEN {"commit", "drop", "stack"} ELSE {})
Request == [from : Sender, kind : Kinds, ops : Seq(Op), live : BOOLEAN]
Entry == [by : {"me", "other", "none"}, ops : SUBSET Op]

TypeOK ==
  /\ mode \in Mode
  /\ queue \in Seq(Op) /\ batch \in Seq(Op)
  /\ accepted \in Seq(Op) /\ sent \in Seq(Op)
  /\ scheduled \in BOOLEAN /\ ended \in BOOLEAN /\ finalizing \in BOOLEAN
  /\ status \in [Op -> {"new", "pending", "resolved", "rejected"}]
  /\ goal \in [Caller -> Goals]
  /\ pc \in [Caller -> {"idle", "drain", "drained"} \union Waiting \union Over]
  /\ wire \in Seq(Request)
  /\ reply \in [Sender -> {"none", "ok", "error", "me", "other", "empty"}]
  /\ timeouts \in 0..MaxTimeouts
  /\ open \in BOOLEAN /\ applied \in SUBSET Op
  /\ undoStack \in Seq(Entry)
  /\ foreignOpen \in BOOLEAN /\ foreign \in 0..MaxForeign
  /\ undidOther \in BOOLEAN

Init ==
  /\ mode \in Mode
  /\ queue = <<>> /\ batch = <<>> /\ accepted = <<>> /\ sent = <<>>
  /\ scheduled = FALSE /\ ended = FALSE /\ finalizing = FALSE
  /\ status = [o \in Op |-> "new"]
  /\ goal \in [Caller -> Goals]
  /\ pc = [c \in Caller |-> "idle"]
  /\ wire = <<>> /\ reply = [s \in Sender |-> "none"] /\ timeouts = 0
  /\ open = mode.hasId /\ applied = {} /\ undoStack = <<>>
  /\ foreignOpen = FALSE /\ foreign = 0 /\ undidOther = FALSE

Send(s, kind, ops) ==
  wire' = Append(wire, [from |-> s, kind |-> kind, ops |-> ops, live |-> TRUE])

-----------------------------------------------------------------------------
(* Editing: enqueue and the flush loop. *)

Enqueue(o) ==
  /\ status[o] = "new"
  /\ mode.disciplined => \A c \in Caller : pc[c] = "idle"
  /\ IF ended \/ finalizing
     THEN /\ status' = [status EXCEPT ![o] = "rejected"]
          /\ UNCHANGED <<queue, accepted, scheduled>>
     ELSE /\ status' = [status EXCEPT ![o] = "pending"]
          /\ queue' = Append(queue, o) /\ accepted' = Append(accepted, o)
          /\ scheduled' = TRUE
  /\ UNCHANGED <<mode, batch, sent, ended, finalizing, goal, pc, wire, reply, timeouts, kicad>>

\* How long the prefix of q with one key is.
BatchLengths(q) ==
  {n \in 1..Len(q) : /\ \A i \in 1..n : KeyOf(q[i]) = KeyOf(q[1])
                     /\ n < Len(q) => KeyOf(q[n + 1]) # KeyOf(q[1])}

\* mutation: every queued op with the first one's key joins the batch
SplitByKey(q, n) == LET Same(o) == KeyOf(o) = KeyOf(q[1])
                        Other(o) == ~Same(o)
                    IN <<SelectSeq(q, Same), SelectSeq(q, Other)>>
Split(q, n) == <<SubSeq(q, 1, n), SubSeq(q, n + 1, Len(q))>>

TakeBatch ==
  \E n \in BatchLengths(queue) :
    /\ batch' = Split(queue, n)[1]
    /\ queue' = Split(queue, n)[2]
    /\ sent' = sent \o Split(queue, n)[1]
    /\ Send(Flush, "ops", Split(queue, n)[1])
LoopEnds == batch' = <<>> /\ UNCHANGED <<queue, sent, wire>>

\* mutation: the loop takes one batch only and leaves the rest
FlushOne == IF queue = <<>> \/ batch # <<>> THEN LoopEnds ELSE TakeBatch
FlushMore == IF queue = <<>> THEN LoopEnds ELSE TakeBatch

\* The microtask: start the loop unless it runs.
Microtask ==
  /\ scheduled /\ scheduled' = FALSE
  /\ IF batch # <<>> THEN UNCHANGED <<batch, queue, sent, wire>> ELSE FlushMore
  /\ UNCHANGED <<mode, status, accepted, ended, finalizing, goal, pc, reply, timeouts, kicad>>

\* The loop settles the promises of its batch and takes the next one.
FlushReply ==
  /\ batch # <<>> /\ reply[Flush] # "none"
  /\ status' = [o \in Op |-> IF o \notin Elems(batch) THEN status[o]
                             ELSE IF reply[Flush] = "ok" THEN "resolved" ELSE "rejected"]
  /\ reply' = [reply EXCEPT ![Flush] = "none"]
  /\ FlushMore
  /\ UNCHANGED <<mode, scheduled, accepted, ended, finalizing, goal, pc, timeouts, kicad>>

-----------------------------------------------------------------------------
(* Ending: push, drop, the failure path of run, and undo. *)

\* mutation: drain waits for the running loop only
DrainedLoop == batch = <<>>
Drained == queue = <<>> /\ batch = <<>>

To(c, l) == pc' = [pc EXCEPT ![c] = l]
editing == <<queue, scheduled, batch, status, accepted, sent>>
Sends(c, kind, l) == To(c, l) /\ Send(c, kind, <<>>)
Silent(c, l) == To(c, l) /\ UNCHANGED wire

\* A call: all but undo() start by draining the queue.
Call(c) ==
  /\ pc[c] = "idle"
  /\ mode.disciplined => \A d \in Caller : ~Active(d)
  /\ IF goal[c] # "undo" THEN Silent(c, "drain")
     ELSE IF ~ended THEN Silent(c, "refused")
     ELSE IF mode.hasId THEN Sends(c, "stack", "stack") ELSE Sends(c, "undo", "undoing")
  /\ UNCHANGED <<mode, editing, ended, finalizing, goal, reply, timeouts, kicad>>

\* drain() returns; its caller goes on in a later microtask.
DrainEnds(c) ==
  /\ pc[c] = "drain" /\ Drained
  /\ Silent(c, "drained")
  /\ UNCHANGED <<mode, editing, ended, finalizing, goal, reply, timeouts, kicad>>

PushEnds(c) ==
  /\ pc[c] = "drained" /\ goal[c] = "push"
  /\ IF ended THEN Silent(c, "returned") /\ UNCHANGED <<ended, finalizing>>
     ELSE IF finalizing THEN Silent(c, "refused") /\ UNCHANGED <<ended, finalizing>>
     ELSE IF mode.hasId THEN Sends(c, "commit", "ending") /\ finalizing' = TRUE /\ UNCHANGED ended
     ELSE Silent(c, "pushed") /\ ended' = TRUE /\ UNCHANGED finalizing
  /\ UNCHANGED <<mode, editing, goal, reply, timeouts, kicad>>

DropEnds(c) ==
  /\ pc[c] = "drained" /\ goal[c] = "drop"
  /\ IF ended THEN Silent(c, "returned") /\ UNCHANGED ended
     ELSE IF mode.hasId THEN Sends(c, "drop", "dropping") /\ UNCHANGED ended
     ELSE Silent(c, "dropped") /\ ended' = TRUE
  /\ UNCHANGED <<mode, editing, finalizing, goal, reply, timeouts, kicad>>

\* failAndRecover after its drain; `finalizing` is set only under push().
FailEnds(c) ==
  /\ pc[c] = "drained" /\ goal[c] = "fail"
  /\ IF mode.hasId THEN Sends(c, "drop", "reverting") /\ UNCHANGED ended
     ELSE Silent(c, "unknown") /\ ended' = TRUE
  /\ UNCHANGED <<mode, editing, finalizing, goal, reply, timeouts, kicad>>

EndsForGood(c, l) == Silent(c, l) /\ ended' = TRUE /\ finalizing' = FALSE
Proceeds(c, kind, l) == Sends(c, kind, l) /\ UNCHANGED <<ended, finalizing>>

\* mutation: only a drop that KiCad confirms closes the handle
DropFailsOpen(c) == Silent(c, "abandoned") /\ UNCHANGED <<ended, finalizing>>
DropFails(c) == Silent(c, "abandoned") /\ ended' = TRUE /\ UNCHANGED finalizing

\* undo() also goes on when the newest entry carries no commit id.
MayUndo(c) == \/ reply[c] = "me"
              \/ goal[c] = "undo" /\ reply[c] = "empty"

\* The caller's request is answered.
Answered(c) ==
  /\ reply[c] # "none"
  /\ reply' = [reply EXCEPT ![c] = "none"]
  /\ LET ok == reply[c] = "ok" IN
     \/ /\ pc[c] = "ending" /\ ok
        /\ EndsForGood(c, "pushed") /\ UNCHANGED goal
     \/ /\ pc[c] = "ending" /\ ~ok             \* failAndRecover, still finalizing
        /\ Silent(c, "drain") /\ goal' = [goal EXCEPT ![c] = "fail"]
        /\ UNCHANGED <<ended, finalizing>>
     \/ /\ pc[c] = "dropping"
        /\ IF ok THEN Silent(c, "dropped") /\ ended' = TRUE /\ UNCHANGED finalizing
           ELSE DropFails(c)
        /\ UNCHANGED goal
     \/ /\ pc[c] = "reverting" /\ UNCHANGED goal
        /\ IF ok THEN EndsForGood(c, "reverted") ELSE Proceeds(c, "stack", "stack")
     \/ /\ pc[c] = "stack" /\ UNCHANGED goal
        /\ IF MayUndo(c) THEN Proceeds(c, "undo", "undoing") ELSE EndsForGood(c, "unknown")
     \/ /\ pc[c] = "undoing" /\ UNCHANGED goal
        /\ IF ok THEN EndsForGood(c, IF goal[c] = "fail" THEN "reverted" ELSE "undone")
           ELSE EndsForGood(c, "unknown")
  /\ UNCHANGED <<mode, editing, timeouts, kicad>>

\* The transport gives up on a request, answered or not; KiCad may still see it.
Timeout(s) ==
  /\ timeouts < MaxTimeouts /\ timeouts' = timeouts + 1
  /\ IF s = Flush THEN batch # <<>> ELSE pc[s] \in Waiting
  /\ reply[s] \in {"none", "ok"}
  /\ reply' = [reply EXCEPT ![s] = "error"]
  /\ wire' = [i \in DOMAIN wire |->
                IF wire[i].from = s THEN [wire[i] EXCEPT !.live = FALSE] ELSE wire[i]]
  /\ UNCHANGED <<mode, client, kicad>>

-----------------------------------------------------------------------------
(* KiCad and the other client. *)

Push(by, ops) == undoStack' = Append(undoStack, [by |-> by, ops |-> ops])
Pop == undoStack' = SubSeq(undoStack, 1, Len(undoStack) - 1)
Newest == undoStack[Len(undoStack)]

\* Some of the items are accepted; outside a transaction they are one undo entry.
ServeOps(m, a) ==
  \E S \in SUBSET Elems(m.ops) :
    /\ a = (IF S = Elems(m.ops) \/ ~mode.strict THEN "ok" ELSE "error")
    /\ applied' = IF open THEN applied \union S ELSE applied
    /\ IF open \/ S = {} THEN UNCHANGED undoStack ELSE Push("none", S)
    /\ UNCHANGED <<open, undidOther>>

ServeCommit(m, a) ==
  \/ /\ open /\ a \in {"ok", "error"}       \* it may throw after the record moved
     /\ Push("me", applied) /\ open' = FALSE /\ applied' = {} /\ UNCHANGED undidOther
  \/ a = "error" /\ UNCHANGED <<open, applied, undoStack, undidOther>>

ServeDrop(m, a) ==
  \/ /\ open /\ a = "ok"
     /\ open' = FALSE /\ applied' = {} /\ UNCHANGED <<undoStack, undidOther>>
  \/ a = "error" /\ UNCHANGED <<open, applied, undoStack, undidOther>>

ServeStack(m, a) ==
  /\ a = (IF undoStack = <<>> \/ Newest.by = "none" THEN "empty" ELSE Newest.by)
  /\ UNCHANGED <<mode, open, applied, undoStack, undidOther>>

\* KiCad refuses Undo while any client has an open commit.
ServeUndo(m, a) ==
  IF open \/ foreignOpen \/ undoStack = <<>>
  THEN a = "error" /\ UNCHANGED <<open, applied, undoStack, undidOther>>
  ELSE /\ a = "ok" /\ Pop /\ UNCHANGED <<open, applied>>
       /\ undidOther' = (undidOther \/ Newest.by # "me")

Serve ==
  /\ wire # <<>>
  /\ wire' = Tail(wire)
  /\ \E a \in {"ok", "error", "me", "other", "empty"} :
       LET m == Head(wire) IN
       /\ CASE m.kind = "ops" -> ServeOps(m, a)
            [] m.kind = "commit" -> ServeCommit(m, a)
            [] m.kind = "drop" -> ServeDrop(m, a)
            [] m.kind = "stack" -> ServeStack(m, a)
            [] m.kind = "undo" -> ServeUndo(m, a)
       /\ reply' = IF m.live THEN [reply EXCEPT ![m.from] = a] ELSE reply
  /\ UNCHANGED <<mode, client, timeouts, foreignOpen, foreign>>

\* A request nobody waits for was lost with its connection.
Lose ==
  /\ wire # <<>> /\ ~Head(wire).live
  /\ wire' = Tail(wire)
  /\ UNCHANGED <<mode, client, reply, timeouts, kicad>>

ForeignBegins ==
  /\ foreign < MaxForeign /\ ~foreignOpen
  /\ foreign' = foreign + 1 /\ foreignOpen' = TRUE
  /\ UNCHANGED <<mode, client, wire, reply, timeouts, open, applied, undoStack, undidOther>>
ForeignPushes ==
  /\ foreignOpen /\ foreignOpen' = FALSE
  /\ Push("other", {})
  /\ UNCHANGED <<mode, client, wire, reply, timeouts, open, applied, foreign, undidOther>>

CallerSteps(c) == Call(c) \/ DrainEnds(c) \/ PushEnds(c) \/ DropEnds(c) \/ FailEnds(c) \/ Answered(c)

Next ==
  \/ \E o \in Op : Enqueue(o)
  \/ Microtask \/ FlushReply
  \/ \E c \in Caller : CallerSteps(c)
  \/ \E s \in Sender : Timeout(s)
  \/ Serve \/ Lose \/ ForeignBegins \/ ForeignPushes

Spec == Init /\ [][Next]_vars

\* Microtasks run, and every request is answered or times out: that is what
\* the transport guarantees (NngIpcTransport!EveryRequestSettles).
Fairness ==
  /\ WF_vars(Microtask) /\ WF_vars(FlushReply) /\ WF_vars(Serve)
  /\ \A c \in Caller : WF_vars(pc[c] # "idle" /\ CallerSteps(c))
LiveSpec == Spec /\ Fairness

-----------------------------------------------------------------------------
(* Properties.  What an edit made, or a second call begun, while a call is  *)
(* under way may do to the outcome is left to the runs of careless callers. *)

Disciplined == mode.hasId /\ mode.disciplined

InDocument == applied \union UNION {undoStack[i].ops : i \in DOMAIN undoStack}

\* drop() that KiCad confirmed leaves nothing of the commit in the document
\* (commit.ts:159).
DropReverts == \A c \in Caller : Disciplined /\ pc[c] = "dropped" => InDocument = {}

\* So does a CommitDroppedError, whether the transaction was dropped or undone,
\* and a successful undo(), unless another client's entry was undone instead.
RecoveryReverts ==
  \A c \in Caller : Disciplined /\ pc[c] \in {"reverted", "undone"} => InDocument = {} \/ undidOther

\* A commit that was pushed is one undo entry with every edit it resolved, and
\* no edit of it landed outside.
NoUndoCalled == \A c \in Caller : goal[c] \in {"undo", "fail"} => pc[c] \in {"idle", "refused"}
PushedAsOne ==
  \A c \in Caller : Disciplined /\ pc[c] = "pushed" =>
    /\ \A i \in DOMAIN undoStack : undoStack[i].by # "none"
    /\ mode.strict /\ NoUndoCalled =>
         \E i \in DOMAIN undoStack :
           undoStack[i].by = "me" /\ {o \in Op : status[o] = "resolved"} \subseteq undoStack[i].ops

\* Merging never reorders, loses or repeats an edit.
OrderKept == sent \o queue = accepted

\* After drop() returned, confirmed or not, no edit and no commit is sent
\* (commit.ts:177).
NothingAfterDiscard ==
  [][mode.disciplined /\ (\E c \in Caller : pc[c] \in {"dropped", "abandoned"}) /\ Len(wire') > Len(wire)
       => wire'[Len(wire')].kind \notin {"ops", "commit"}]_vars

\* Every accepted edit is answered, and every push, drop, run and undo returns.
\* There is one of each for a caller and each op, so it is enough that none is
\* open again and again.
EveryCallEnds == []<>((\A o \in Op : status[o] # "pending") /\ \A c \in Caller : ~Active(c))
=============================================================================
