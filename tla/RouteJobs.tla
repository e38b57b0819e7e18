------------------------------ MODULE RouteJobs ------------------------------
(* Routing jobs of the bridge (packages/router/src/bridge-job.ts). A job is one
   asynchronous function; an action is the code from the answer of one request to
   KiCad to the next await. `stage` is the request a job waits for, `state` is what
   the job reports. Jobs share the undo stack of the board, which other clients
   also push to and undo from. Progress events and the log are left out: only the
   events that open and end a stream are kept. *)
EXTENDS Naturals, Sequences

CONSTANTS
  Job,          \* jobs that may be started
  Follower,     \* HTTP streams and wait() calls that may follow a job
  Editor,       \* anyone else who edits the board
  Kind,         \* routers: "fab", "dsn" (Freerouting, our commit), "kicad" (KiCad imports)
  Refill,       \* values of request.refillZones
  MaxCopper,    \* tracks and vias a router may return
  MaxExisting,  \* unlocked old copper that may turn out dangling
  MaxForeign,   \* edits and undos of others
  MaxFaults     \* requests that fail

ASSUME RouteAssumption ==
  /\ Editor \notin Job
  /\ Kind \subseteq {"fab", "dsn", "kicad"}
  /\ Refill \subseteq BOOLEAN
  /\ MaxCopper \in Nat /\ MaxExisting \in Nat /\ MaxForeign \in Nat /\ MaxFaults \in Nat

VARIABLES
  stage,      \* the request the job waits for
  state,      \* info.state
  aborted,    \* the job's abort signal
  summary,    \* info.summary is set
  work,       \* the locals of the job
  stack,      \* who made each entry of the board's undo stack
  saved,      \* the file on disk has an entry of the job
  listeners,  \* followers the job will tell its end
  inbox,      \* events sent to a follower and not read yet
  foreign,    \* edits and undos of others so far
  faults,     \* requests that failed so far
  early,      \* history: cancelled before anything was applied
  mixed       \* history: another actor touched the stack while a commit was tentative

jobVars == <<stage, state, aborted, summary, work, early>>
boardVars == <<stack, saved, foreign, mixed>>
followVars == <<listeners, inbox>>
routeVars == <<jobVars, boardVars, followVars, faults>>

States == {"queued", "saving", "filling", "extracting", "routing", "applying",
           "done", "failed", "cancelled"}
\* Stages before anything is applied; in "reading" Freerouting has exited and its
\* session is being read, which only the kicad kind does as a stage of its own.
Untouched == {"open", "fill", "save", "extract", "route", "reading"}
\* Stages between a commit that may be taken back and the decision to keep it.
Tentative == {"drc", "undo", "label", "relabel"}
Stages == Untouched \union Tentative \union
          {"none", "import", "apply", "reapply", "refill", "resave", "ratsnest", "tracks", "over"}

finished(s) == s \in {"done", "failed", "cancelled"}

NoWork == [kind |-> "dsn", refill |-> FALSE, copper |-> 0, left |-> 0, removed |-> 0,
           claims |-> FALSE, pass |-> 0, bound |-> 0, applied |-> FALSE]

RouteInit ==
  /\ stage = [j \in Job |-> "none"]
  /\ state = [j \in Job |-> "queued"]
  /\ aborted = [j \in Job |-> FALSE]
  /\ summary = [j \in Job |-> FALSE]
  /\ work = [j \in Job |-> NoWork]
  /\ stack = <<>>
  /\ saved = [j \in Job |-> FALSE]
  /\ listeners = [j \in Job |-> {}]
  /\ inbox = [f \in Follower |-> <<>>]
  /\ foreign = 0
  /\ faults = 0
  /\ early = [j \in Job |-> FALSE]
  /\ mixed = [j \in Job |-> FALSE]

\* A request fails.
Fault == faults < MaxFaults /\ faults' = faults + 1

-----------------------------------------------------------------------------
(* The board. *)

\* Every job whose commit is tentative, other than `who`, meets a foreign change.
Mix(who) == mixed' = [j \in Job |-> mixed[j] \/ (j # who /\ stage[j] \in Tentative)]

push(who) == stack' = Append(stack, who) /\ Mix(who)

\* mutation: the tentative commit is left where it is.
NoUndo(who) == UNCHANGED <<stack, mixed>>

\* board.undo(1) takes back the newest entry, whoever made it.
undo(who) == stack' = SubSeq(stack, 1, Len(stack) - 1) /\ Mix(who)

-----------------------------------------------------------------------------
(* Telling the followers. *)

Told(ev, j) == [ev |-> ev, state |-> state'[j], summary |-> summary'[j]]

\* mutation: only a job that is done tells its followers.
EmitDone(j, ev) ==
  /\ inbox' = [f \in Follower |->
                 IF f \in listeners[j] /\ ev = "done" THEN Append(inbox[f], Told(ev, j)) ELSE inbox[f]]
  /\ listeners' = [listeners EXCEPT ![j] = {}]

\* `done` and `error` close every stream and resolve every wait().
emit(j, ev) ==
  /\ inbox' = [f \in Follower |->
                 IF f \in listeners[j] THEN Append(inbox[f], Told(ev, j)) ELSE inbox[f]]
  /\ listeners' = [listeners EXCEPT ![j] = {}]

\* The locals that are used after the cleanup loop or its failure.
LeaveLoop(j, applied) ==
  work' = [work EXCEPT ![j] = [NoWork EXCEPT !.kind = work[j].kind,
                                             !.refill = work[j].refill,
                                             !.applied = applied]]

\* The catch clause of the job.
Throw(j) ==
  /\ state' = [state EXCEPT ![j] = IF aborted[j] THEN "cancelled" ELSE "failed"]
  /\ stage' = [stage EXCEPT ![j] = "over"]
  /\ UNCHANGED summary
  /\ emit(j, "error")

\* setState(s), then the request of stage `next`.
Goto(j, next, s) ==
  /\ stage' = [stage EXCEPT ![j] = next]
  /\ state' = [state EXCEPT ![j] = s]
  /\ UNCHANGED <<summary, listeners, inbox>>

\* mutation: the answer of a request is used without looking at the signal.
NeverStopped(j) == FALSE

\* checkCancelled() throws.
Stopped(j) == aborted[j]

GoOn(j, next, s) == IF Stopped(j) THEN Throw(j) ELSE Goto(j, next, s)

-----------------------------------------------------------------------------
(* The job. *)

start(j, kind, refill) ==
  /\ stage[j] = "none"
  /\ stage' = [stage EXCEPT ![j] = "open"]
  /\ work' = [work EXCEPT ![j].kind = kind, ![j].refill = refill]
  /\ UNCHANGED <<state, aborted, summary, early, boardVars, followVars, faults>>

Open(j) ==
  /\ stage[j] = "open"
  /\ IF work[j].refill THEN GoOn(j, "fill", "filling") ELSE GoOn(j, "save", "saving")
  /\ UNCHANGED <<aborted, work, early, boardVars>>

Fill(j) ==
  /\ stage[j] = "fill"
  /\ GoOn(j, "save", "saving")
  /\ UNCHANGED <<aborted, work, early, boardVars>>

\* SaveDocument writes the board as it is, with every entry of the stack.
Written == saved' = [k \in Job |-> \E i \in DOMAIN stack : stack[i] = k]

Save(j) ==
  /\ stage[j] = "save"
  /\ Written
  /\ GoOn(j, "extract", "extracting")
  /\ UNCHANGED <<aborted, work, early, stack, foreign, mixed>>

Extract(j) ==
  /\ stage[j] = "extract"
  /\ GoOn(j, "route", "routing")
  /\ UNCHANGED <<aborted, work, early, boardVars>>

\* mutation: the bound of the cleanup leaves out the last, clean pass.
ShortBound(n, m) == n + m

\* maxCleanupPasses: each pass but the last removes an item.
maxCleanupPasses(n, m) == n + m + 1

\* The result has `n` tracks and vias, and claims free vias or not; `m` items of the
\* unlocked old copper on its nets would turn out dangling. Nothing to route is no
\* error; routing nothing is one, see Fail.
Route(j) ==
  /\ stage[j] = "route"
  /\ work[j].kind # "kicad"
  /\ \/ Stopped(j) /\ Throw(j) /\ UNCHANGED work
     \/ ~Stopped(j) /\ Goto(j, "ratsnest", "applying") /\ UNCHANGED work
     \/ /\ ~Stopped(j)
        /\ \E n \in 0..MaxCopper, m \in 0..MaxExisting, c \in BOOLEAN :
             /\ n > 0 \/ c
             /\ m > 0 \/ c => work[j].kind = "fab"
             /\ work' = [work EXCEPT ![j].copper = n, ![j].left = m, ![j].claims = c,
                                     ![j].bound = maxCleanupPasses(n, m)]
        /\ Goto(j, "apply", "applying")
  /\ UNCHANGED <<aborted, early, boardVars>>

\* Freerouting in kicad mode: an abort seen while Java runs kills it and rejects; one
\* that comes after it exited is not looked at before the import.
Exited(j) ==
  /\ stage[j] = "route"
  /\ work[j].kind = "kicad"
  /\ GoOn(j, "reading", "routing")
  /\ UNCHANGED <<aborted, work, early, boardVars>>

ReadSession(j) ==
  /\ stage[j] = "reading"
  /\ Goto(j, "import", "routing")
  /\ UNCHANGED <<aborted, work, early, boardVars>>

\* The commit stays: refill if asked to, and save.
Keep(j) ==
  /\ LeaveLoop(j, TRUE)
  /\ IF work[j].refill THEN Goto(j, "refill", "filling") ELSE Goto(j, "resave", "saving")

Import(j) ==
  /\ stage[j] = "import"
  /\ push(j)
  /\ IF Stopped(j) THEN Throw(j) /\ UNCHANGED work
     ELSE Keep(j)
  /\ UNCHANGED <<aborted, early, saved, foreign>>

\* applyRouteResult: one commit. Only a fab_router commit is tentative: DRC follows.
Apply(j) ==
  /\ stage[j] = "apply"
  /\ push(j)
  /\ IF work[j].kind = "fab"
     THEN Goto(j, "drc", "applying") /\ UNCHANGED work
     ELSE Keep(j)
  /\ UNCHANGED <<aborted, early, saved, foreign>>

\* mutation: old copper that was removed already is counted as dangling again.
AllDangling(j) == {d \in (0..work[j].copper) \X (0..(work[j].left + work[j].removed)) : d[1] + d[2] > 0}

\* The new and the old items DRC may call dangling, when it calls any so.
Dangling(j) == {d \in (0..work[j].copper) \X (0..work[j].left) : d[1] + d[2] > 0}

\* DRC names dangling copper, which the next pass leaves out or removes. With none the
\* commit is kept, after the message was compared with KiCad's count unless the request named it.
Drc(j) ==
  /\ stage[j] = "drc"
  /\ \/ Keep(j)
     \/ Goto(j, "label", "applying") /\ UNCHANGED work
     \/ \E d \in Dangling(j) :
          /\ work' = [work EXCEPT ![j].copper = @ - d[1], ![j].left = @ - d[2],
                                  ![j].removed = @ + d[2]]
          /\ Goto(j, "undo", "applying")
  /\ UNCHANGED <<aborted, early, boardVars>>

\* Undo the tentative commit, then stop when nothing is left, or try again.
UndoTentative(j) ==
  /\ stage[j] = "undo"
  /\ IF stack = <<>>
     THEN Throw(j) /\ LeaveLoop(j, FALSE) /\ UNCHANGED <<stack, mixed>>
     ELSE /\ undo(j)
          /\ IF work[j].copper = 0 /\ ~work[j].claims /\ work[j].removed = 0
             THEN Goto(j, "ratsnest", "applying") /\ LeaveLoop(j, FALSE)
             ELSE IF work[j].pass + 1 = work[j].bound
             THEN Throw(j) /\ LeaveLoop(j, FALSE)
             ELSE /\ work' = [work EXCEPT ![j].pass = @ + 1]
                  /\ Goto(j, "apply", "applying")
  /\ UNCHANGED <<aborted, early, saved, foreign>>

\* GetRatsnest: the message already has KiCad's count, or the commit is made anew.
Label(j) ==
  /\ stage[j] = "label"
  /\ \/ Keep(j)
     \/ Goto(j, "relabel", "applying") /\ UNCHANGED work
  /\ UNCHANGED <<aborted, early, boardVars>>

Relabel(j) ==
  /\ stage[j] = "relabel"
  /\ IF stack = <<>>
     THEN Throw(j) /\ LeaveLoop(j, FALSE) /\ UNCHANGED <<stack, mixed>>
     ELSE undo(j) /\ Goto(j, "reapply", "applying") /\ UNCHANGED work
  /\ UNCHANGED <<aborted, early, saved, foreign>>

Reapply(j) ==
  /\ stage[j] = "reapply"
  /\ push(j)
  /\ Keep(j)
  /\ UNCHANGED <<aborted, early, saved, foreign>>

\* The refill after the apply may fail without consequence.
RefillAfter(j) ==
  /\ stage[j] = "refill"
  /\ Goto(j, "resave", "saving")
  /\ UNCHANGED <<aborted, work, early, boardVars>>

\* mutation: the applied route is not written.
SkipSave(j) == UNCHANGED saved

persistAppliedRoute(j) == Written

Resave(j) ==
  /\ stage[j] = "resave"
  /\ persistAppliedRoute(j)
  /\ Goto(j, "ratsnest", "saving")
  /\ UNCHANGED <<aborted, work, early, stack, foreign, mixed>>

\* Re-measured or not, the job now reports done; its summary needs one more request.
Ratsnest(j) ==
  /\ stage[j] = "ratsnest"
  /\ Goto(j, "tracks", "done")
  /\ UNCHANGED <<aborted, work, early, boardVars>>

Summarise(j) ==
  /\ stage[j] = "tracks"
  /\ summary' = [summary EXCEPT ![j] = TRUE]
  /\ stage' = [stage EXCEPT ![j] = "over"]
  /\ UNCHANGED state
  /\ emit(j, "done")
  /\ UNCHANGED <<aborted, work, early, boardVars>>

\* A request fails, or the router routes nothing. The measuring and the refill after
\* the apply cannot fail the job. A failed commit may be in KiCad all the same.
Fail(j) ==
  /\ stage[j] \notin {"none", "refill", "ratsnest", "over"}
  /\ Fault
  /\ \/ UNCHANGED <<stack, mixed>>
     \/ stage[j] \in {"import", "apply", "reapply"} /\ push(j)
     \/ stage[j] \in {"undo", "relabel"} /\ stack # <<>> /\ undo(j)
  /\ Throw(j)
  /\ LeaveLoop(j, work[j].applied)
  /\ UNCHANGED <<aborted, early, saved, foreign>>

Answer(j) ==
  \/ Open(j) \/ Fill(j) \/ Save(j) \/ Extract(j) \/ Route(j) \/ Exited(j) \/ ReadSession(j)
  \/ Import(j) \/ Apply(j) \/ Drc(j) \/ UndoTentative(j) \/ Label(j) \/ Relabel(j)
  \/ Reapply(j) \/ RefillAfter(j) \/ Resave(j) \/ Ratsnest(j) \/ Summarise(j)

JobStep(j) == Answer(j) /\ UNCHANGED faults

-----------------------------------------------------------------------------
(* The bridge's handlers and the other clients of the board. *)

\* DELETE: a job that reports an end is left alone.
cancel(j) ==
  /\ IF stage[j] # "none" /\ ~finished(state[j])
     THEN /\ aborted' = [aborted EXCEPT ![j] = TRUE]
          /\ early' = [early EXCEPT ![j] = @ \/ stage[j] \in Untouched]
     ELSE UNCHANGED <<aborted, early>>
  /\ UNCHANGED <<stage, state, summary, work, boardVars, followVars, faults>>

\* GET as an event stream: the job's info, then its end; at once when it has ended.
stream(f, j) ==
  /\ LET info == [ev |-> "state", state |-> state[j], summary |-> summary[j]]
         closed == [ev |-> "closed", state |-> state[j], summary |-> summary[j]]
     IN IF finished(state[j])
        THEN inbox' = [inbox EXCEPT ![f] = <<info, closed>>] /\ UNCHANGED listeners
        ELSE /\ inbox' = [inbox EXCEPT ![f] = <<info>>]
             /\ listeners' = [listeners EXCEPT ![j] = @ \union {f}]

\* The client of a stream goes away.
disconnect(f) ==
  /\ listeners' = [j \in Job |-> listeners[j] \ {f}]
  /\ inbox' = [inbox EXCEPT ![f] = <<>>]

Others ==
  /\ foreign < MaxForeign
  /\ foreign' = foreign + 1
  /\ push(Editor) \/ (stack # <<>> /\ undo(Editor))
  /\ UNCHANGED <<jobVars, saved, followVars, faults>>

-----------------------------------------------------------------------------
(* Properties of the jobs. *)

RouteTypeOK ==
  /\ stage \in [Job -> Stages]
  /\ state \in [Job -> States]
  /\ aborted \in [Job -> BOOLEAN]
  /\ summary \in [Job -> BOOLEAN]
  /\ work \in [Job -> [kind : Kind \union {"dsn"}, refill : BOOLEAN, copper : Nat, left : Nat,
                       removed : Nat, claims : BOOLEAN, pass : Nat, bound : Nat,
                       applied : BOOLEAN]]
  /\ stack \in Seq(Job \union {Editor})
  /\ saved \in [Job -> BOOLEAN]
  /\ listeners \in [Job -> SUBSET Follower]
  /\ inbox \in [Follower -> Seq([ev : {"state", "done", "error", "closed"}, state : States,
                                 summary : BOOLEAN])]
  /\ foreign \in Nat
  /\ faults \in Nat
  /\ early \in [Job -> BOOLEAN]
  /\ mixed \in [Job -> BOOLEAN]

Entries(j) == {i \in DOMAIN stack : stack[i] = j}

\* The cleanup loop always converges: while copper is removed, passes are left, so
\* "fab_router dangling-copper cleanup did not converge" is never reported.
Converges ==
  \A j \in Job :
    /\ stage[j] \in {"apply", "drc"} =>
         work[j].pass + work[j].copper + work[j].left < work[j].bound
    /\ stage[j] = "undo" =>
         work[j].pass + work[j].copper + work[j].left + 1 < work[j].bound

\* However often the cleanup and the relabelling apply and undo, at most one commit
\* of a job is on the board, unless another client edited between the two.
OneCommit ==
  \A j \in Job : ~mixed[j] => \A a, b \in Entries(j) : a = b

\* A job cancelled before anything was applied never leaves a commit on the board
\* (bridge-job.ts:24), whichever of our own commits it would have made.
CancelledUntouched ==
  \A j \in Job : early[j] /\ work[j].kind # "kicad" => Entries(j) = {}
=============================================================================
