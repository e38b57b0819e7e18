--------------------------- MODULE AutorouteService ---------------------------
(* The application's side of a routing job (apps/web/src/services/kicad/
   KicadAutorouteService.ts), composed with the bridge's jobs: start() posts the job,
   follows its event stream and re-reads the board; cancel() deletes the job and pulls
   the plug after a grace period. The path that routes in the tab is left out (its
   router is gone). A run is one call of start() and is its own follower. *)
EXTENDS RouteJobs, FiniteSets

CONSTANTS
  NoRun, NoJob,
  JobOf(_)     \* the job the bridge starts for a run

Run == Follower

ASSUME AppAssumption ==
  /\ NoRun \notin Run /\ NoJob \notin Job
  /\ \A r \in Run : JobOf(r) \in Job
  /\ \A r, q \in Run : JobOf(r) = JobOf(q) => r = q

VARIABLES
  at,       \* where start() of a run is
  run,      \* this.run: its id, state and summary
  abort,    \* this.abort: the run whose controller it is, or NoRun
  signal,   \* the controller of a run was aborted
  jobId,    \* this.jobId
  grace,    \* controllers whose grace period runs
  deleting  \* jobs a DELETE is under way for

appVars == <<at, run, abort, signal, jobId, grace, deleting>>
vars == <<routeVars, appVars>>

At == {"idle", "posting", "posted", "fetching", "reading", "resync", "count", "over"}

isFinished(r) == finished(r.state)
running == run.id # NoRun /\ ~isFinished(run)

Init ==
  /\ RouteInit
  /\ at = [r \in Run |-> "idle"]
  /\ run = [id |-> NoRun, state |-> "queued", summary |-> FALSE]
  /\ abort = NoRun
  /\ signal = [r \in Run |-> FALSE]
  /\ jobId = NoJob
  /\ grace = {}
  /\ deleting = {}

-----------------------------------------------------------------------------
(* start() and its requests to the bridge. *)

startRun(r) ==
  /\ at[r] = "idle"
  /\ ~running
  /\ at' = [at EXCEPT ![r] = "posting"]
  /\ run' = [id |-> r, state |-> "queued", summary |-> FALSE]
  /\ abort' = r
  /\ UNCHANGED <<signal, jobId, grace, deleting, routeVars>>

\* The bridge handles the POST and answers 202 with the job.
Post(r) ==
  /\ at[r] = "posting"
  /\ \E k \in Kind, z \in Refill : start(JobOf(r), k, z)
  /\ at' = [at EXCEPT ![r] = "posted"]
  /\ UNCHANGED <<run, abort, signal, jobId, grace, deleting>>

\* The catch and finally clauses: `this.abort` may be another run's by now.
Catch(r, now, cancelled) ==
  /\ at' = [at EXCEPT ![r] = "over"]
  /\ run' = IF abort = NoRun THEN now
            ELSE [now EXCEPT !.state = IF signal[abort] \/ cancelled THEN "cancelled" ELSE "failed"]
  /\ abort' = NoRun
  /\ jobId' = NoJob

\* The POST is refused or fails.
PostFails(r) ==
  /\ at[r] \in {"posting", "posted"}
  /\ Fault
  /\ Catch(r, run, FALSE)
  /\ UNCHANGED <<signal, grace, deleting, jobVars, boardVars, followVars>>

\* The job's id arrives and the stream is asked for; an aborted signal rejects fetch().
Posted(r) ==
  /\ at[r] = "posted"
  /\ IF signal[r]
     THEN Catch(r, run, FALSE)
     ELSE /\ at' = [at EXCEPT ![r] = "fetching"]
          /\ jobId' = JobOf(r)
          /\ UNCHANGED <<run, abort>>
  /\ UNCHANGED <<signal, grace, deleting, routeVars>>

Fetched(r) ==
  /\ at[r] = "fetching"
  /\ stream(r, JobOf(r))
  /\ at' = [at EXCEPT ![r] = "reading"]
  /\ UNCHANGED <<run, abort, signal, jobId, grace, deleting, jobVars, boardVars, faults>>

\* fetch() and the reader reject once the run's signal is aborted.
StreamAborted(r) ==
  /\ at[r] \in {"fetching", "reading"}
  /\ signal[r]
  /\ disconnect(r)
  /\ Catch(r, run, FALSE)
  /\ UNCHANGED <<signal, grace, deleting, jobVars, boardVars, faults>>

StreamBreaks(r) ==
  /\ at[r] \in {"fetching", "reading"}
  /\ Fault
  /\ disconnect(r)
  /\ Catch(r, run, FALSE)
  /\ UNCHANGED <<signal, grace, deleting, jobVars, boardVars>>

\* applyBridgeEvent: `state` copies the state of the job, `done` and `error` end the run.
applyBridgeEvent(e) ==
  [run EXCEPT !.state = CASE e.ev = "done" -> "done"
                          [] e.ev = "error" -> IF e.state = "cancelled" THEN "cancelled" ELSE "failed"
                          [] OTHER -> e.state,
              !.summary = @ \/ e.summary]

Read(r) ==
  /\ at[r] = "reading"
  /\ inbox[r] # <<>>
  /\ LET e == Head(inbox[r])
         now == IF e.ev = "closed" THEN run ELSE applyBridgeEvent(e)
     IN CASE ~isFinished(now) /\ e.ev # "closed" ->
               /\ run' = now
               /\ inbox' = [inbox EXCEPT ![r] = Tail(@)]
               /\ UNCHANGED <<at, abort, jobId, listeners>>
          [] ~isFinished(now) /\ e.ev = "closed" ->
               Catch(r, run, FALSE) /\ disconnect(r)
          [] now.state = "done" ->
               /\ run' = now
               /\ at' = [at EXCEPT ![r] = "resync"]
               /\ disconnect(r)
               /\ UNCHANGED <<abort, jobId>>
          [] OTHER ->
               Catch(r, now, now.state = "cancelled") /\ disconnect(r)
  /\ UNCHANGED <<signal, grace, deleting, jobVars, boardVars, faults>>

\* The board is read again.
Resync(r) ==
  /\ at[r] = "resync"
  /\ at' = [at EXCEPT ![r] = "count"]
  /\ UNCHANGED <<run, abort, jobId, signal, grace, deleting, routeVars>>

ResyncFails(r) ==
  /\ at[r] = "resync"
  /\ Fault
  /\ Catch(r, run, FALSE)
  /\ UNCHANGED <<signal, grace, deleting, jobVars, boardVars, followVars>>

\* The unrouted count, or its failure, ends start(); the finally clause clears fields
\* that may be another run's by now.
Count(r) ==
  /\ at[r] = "count"
  /\ at' = [at EXCEPT ![r] = "over"]
  /\ abort' = NoRun
  /\ jobId' = NoJob
  /\ UNCHANGED <<run, signal, grace, deleting, routeVars>>

-----------------------------------------------------------------------------
(* cancel(). *)

cancelRun ==
  /\ running
  /\ IF jobId # NoJob
     THEN deleting' = deleting \union {jobId} /\ UNCHANGED signal
     ELSE /\ signal' = [r \in Run |-> signal[r] \/ r = abort]
          /\ UNCHANGED deleting
  /\ UNCHANGED <<at, run, abort, jobId, grace, routeVars>>

\* The bridge handles the DELETE.
Delete(j) ==
  /\ j \in deleting
  /\ deleting' = deleting \ {j}
  /\ cancel(j)
  /\ grace' = grace \union ({abort} \ {NoRun})
  /\ UNCHANGED <<at, run, abort, signal, jobId>>

\* The DELETE fails: logged, and the grace period starts all the same.
DeleteFails(j) ==
  /\ j \in deleting
  /\ Fault
  /\ deleting' = deleting \ {j}
  /\ grace' = grace \union ({abort} \ {NoRun})
  /\ UNCHANGED <<at, run, abort, signal, jobId, jobVars, boardVars, followVars>>

\* After the grace period only the controller that was current is aborted.
Pull(r) == signal' = [signal EXCEPT ![r] = @ \/ abort = r]

GraceEnds(r) ==
  /\ r \in grace
  /\ grace' = grace \ {r}
  /\ Pull(r)
  /\ UNCHANGED <<at, run, abort, jobId, deleting, routeVars>>

-----------------------------------------------------------------------------

AppStep(r) ==
  \/ Post(r) \/ Posted(r) \/ Fetched(r) \/ StreamAborted(r) \/ Read(r) \/ Resync(r) \/ Count(r)

AppFails(r) == PostFails(r) \/ StreamBreaks(r) \/ ResyncFails(r)

Next ==
  \/ \E j \in Job : (JobStep(j) \/ Fail(j)) /\ UNCHANGED appVars
  \/ Others /\ UNCHANGED appVars
  \/ \E r \in Run : startRun(r) \/ AppStep(r) \/ AppFails(r) \/ GraceEnds(r)
  \/ cancelRun
  \/ \E j \in Job : Delete(j) \/ DeleteFails(j)

\* KiCad and the bridge answer every request they do not fail, and what a stream was
\* sent is read; nobody has to start, cancel, edit or fail.
Fairness ==
  /\ \A j \in Job : WF_vars(JobStep(j) /\ UNCHANGED appVars)
  /\ \A r \in Run : WF_vars(AppStep(r))

Spec == Init /\ [][Next]_vars
LiveSpec == Spec /\ Fairness

-----------------------------------------------------------------------------
(* Properties. *)

TypeOK ==
  /\ RouteTypeOK
  /\ at \in [Run -> At]
  /\ run \in [id : Run \union {NoRun}, state : States, summary : BOOLEAN]
  /\ abort \in Run \union {NoRun}
  /\ signal \in [Run -> BOOLEAN]
  /\ jobId \in Job \union {NoJob}
  /\ grace \subseteq Run
  /\ deleting \subseteq Job

\* A run or a job that reports done, and whose commit nobody took back, has it in the
\* file too.
DoneIsSaved ==
  \A r \in Run : LET j == JobOf(r) IN
    /\ state[j] = "done" \/ (run.id = r /\ run.state = "done")
    /\ work[j].applied /\ Entries(j) # {}
    => saved[j]

\* Every call of start() returns, whatever fails and whoever edits the board.
EveryRunEnds == \A r \in Run : at[r] = "posting" ~> at[r] = "over"
=============================================================================
