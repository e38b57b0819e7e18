--------------------------- MODULE AppServices_proofs ---------------------------
(* Theorems about the application's services that follow the bridge and KiCad: routing
   jobs, for any number of runs and jobs, any routers and any number of edits, undos and
   failing requests of others; and the revision tracking of a document, for any number of
   revisions, calls of our own, lost events and lost connections. *)
EXTENDS AutorouteService, DocumentService, SequenceTheorems, TLAPS

(***************************************************************************)
(* Routing jobs: KicadAutorouteService and the bridge's jobs.               *)
(***************************************************************************)

Work == [kind : Kind \union {"dsn"}, refill : BOOLEAN, copper : Nat, left : Nat,
         removed : Nat, claims : BOOLEAN, pass : Nat, bound : Nat, applied : BOOLEAN]
Message == [ev : {"state", "done", "error", "closed"}, state : States, summary : BOOLEAN]
Who == Job \union {Editor}

-----------------------------------------------------------------------------
(* The undo stack. *)

\* One more entry on top, and nothing else moves.
LEMMA PushEntries ==
  ASSUME stack \in Seq(Who), NEW who \in Who, push(who)
  PROVE  /\ stack' \in Seq(Who)
         /\ Len(stack') = Len(stack) + 1
         /\ \A j \in Job : Entries(j)' = Entries(j) \union (IF j = who THEN {Len(stack')} ELSE {})
<1>1. stack' = Append(stack, who) /\ Len(stack) \in Nat
  BY LenProperties DEF push
<1>2. /\ stack' \in Seq(Who)
      /\ Len(stack') = Len(stack) + 1
      /\ \A i \in 1..Len(stack) : stack'[i] = stack[i]
      /\ stack'[Len(stack) + 1] = who
  BY <1>1, AppendProperties
<1>3. DOMAIN stack = 1..Len(stack) /\ DOMAIN stack' = 1..(Len(stack) + 1)
  BY <1>2, LenProperties
<1> QED
  BY <1>1, <1>2, <1>3 DEF Entries

\* The newest entry goes, whoever made it, and nothing else moves.
LEMMA UndoEntries ==
  ASSUME stack \in Seq(Who), stack # <<>>, NEW who, undo(who)
  PROVE  /\ stack' \in Seq(Who)
         /\ \A j \in Job : Entries(j)' = Entries(j) \ {Len(stack)}
<1>1. /\ stack' = SubSeq(stack, 1, Len(stack) - 1)
      /\ Len(stack) \in Nat \ {0}
      /\ \A i \in 1..Len(stack) : stack[i] \in Who
  BY EmptySeq, LenProperties, ElementOfSeq DEF undo
<1>2. /\ stack' \in Seq(Who)
      /\ Len(stack') = Len(stack) - 1
      /\ \A i \in 1..(Len(stack) - 1) : stack'[i] = stack[i]
  <2> DEFINE n == Len(stack) - 1
  <2>1. n \in Int /\ 1 \in Int /\ \A i \in 1..n : stack[i] \in Who
    BY <1>1
  <2>2. /\ SubSeq(stack, 1, n) \in Seq(Who)
        /\ Len(SubSeq(stack, 1, n)) = IF 1 <= n THEN n - 1 + 1 ELSE 0
        /\ \A i \in 1..(n - 1 + 1) : SubSeq(stack, 1, n)[i] = stack[1 + i - 1]
    BY ONLY <2>1, SubSeqProperties
  <2>3. n \in Nat /\ stack' = SubSeq(stack, 1, n)
    BY <1>1
  <2>4. Len(stack') = n /\ \A i \in 1..n : stack'[i] = stack[i]
    <3> HIDE DEF n
    <3> QED
      BY <2>2, <2>3
  <2> QED
    BY <2>2, <2>3, <2>4
<1>3. DOMAIN stack = 1..Len(stack) /\ DOMAIN stack' = 1..(Len(stack) - 1)
  BY <1>1, <1>2, LenProperties
<1> QED
  BY <1>1, <1>2, <1>3 DEF Entries

-----------------------------------------------------------------------------
(* Types. *)

\* What ending a job or going on with it leaves of the types.
JobTold == /\ stage' \in [Job -> Stages]
           /\ state' \in [Job -> States]
           /\ summary' \in [Job -> BOOLEAN]
           /\ listeners' \in [Job -> SUBSET Follower]
           /\ inbox' \in [Follower -> Seq(Message)]

LEMMA EmitType ==
  ASSUME RouteTypeOK, NEW j \in Job, NEW ev \in {"done", "error"}, emit(j, ev),
         state' \in [Job -> States], summary' \in [Job -> BOOLEAN]
  PROVE  /\ listeners' \in [Job -> SUBSET Follower]
         /\ inbox' \in [Follower -> Seq(Message)]
<1>1. Told(ev, j) \in Message
  BY DEF Told, Message
<1>2. inbox \in [Follower -> Seq(Message)]
  BY DEF RouteTypeOK, Message
<1>3. \A f \in Follower : inbox[f] \in Seq(Message) /\ Append(inbox[f], Told(ev, j)) \in Seq(Message)
  BY <1>1, <1>2, AppendProperties
<1> QED
  BY <1>3 DEF emit, RouteTypeOK

LEMMA GoOnType ==
  ASSUME RouteTypeOK, NEW j \in Job
  PROVE  /\ Throw(j) => JobTold
         /\ \A next \in Stages, s \in States : Goto(j, next, s) \/ GoOn(j, next, s) => JobTold
<1>1. ASSUME Throw(j) PROVE JobTold
  <2>1. state' \in [Job -> States] /\ stage' \in [Job -> Stages] /\ summary' \in [Job -> BOOLEAN]
    BY <1>1 DEF Throw, RouteTypeOK, States, Stages
  <2> QED
    BY <1>1, <2>1, EmitType DEF Throw, JobTold
<1>2. ASSUME NEW next \in Stages, NEW s \in States, Goto(j, next, s) PROVE JobTold
  BY <1>2 DEF Goto, JobTold, RouteTypeOK, Message
<1> QED
  BY <1>1, <1>2 DEF GoOn

\* The locals of a job keep their types however they change.
LEMMA WorkType ==
  ASSUME NEW w \in Work
  PROVE  /\ [w EXCEPT !.pass = w.pass + 1] \in Work
         /\ \A n, m, b \in Nat, c \in BOOLEAN :
              [w EXCEPT !.copper = n, !.left = m, !.claims = c, !.bound = b] \in Work
         /\ \A a \in 0..w.copper, b \in 0..w.left :
              [w EXCEPT !.copper = w.copper - a, !.left = w.left - b, !.removed = w.removed + b] \in Work
         /\ \A k \in Kind, z \in BOOLEAN : [w EXCEPT !.kind = k, !.refill = z] \in Work
         /\ \A x \in BOOLEAN : [NoWork EXCEPT !.kind = w.kind, !.refill = w.refill, !.applied = x] \in Work
<1> USE DEF Work
<1>1. [w EXCEPT !.pass = w.pass + 1] \in Work
  OBVIOUS
<1>2. ASSUME NEW n \in Nat, NEW m \in Nat, NEW b \in Nat, NEW c \in BOOLEAN
      PROVE  [w EXCEPT !.copper = n, !.left = m, !.claims = c, !.bound = b] \in Work
  OBVIOUS
<1>3. ASSUME NEW a \in 0..w.copper, NEW b \in 0..w.left
      PROVE  [w EXCEPT !.copper = w.copper - a, !.left = w.left - b, !.removed = w.removed + b] \in Work
  <2>1. w.copper - a \in Nat /\ w.left - b \in Nat /\ w.removed + b \in Nat
    OBVIOUS
  <2> QED
    BY <2>1
<1>4. ASSUME NEW k \in Kind, NEW z \in BOOLEAN PROVE [w EXCEPT !.kind = k, !.refill = z] \in Work
  OBVIOUS
<1>5. ASSUME NEW x \in BOOLEAN
      PROVE  [NoWork EXCEPT !.kind = w.kind, !.refill = w.refill, !.applied = x] \in Work
  BY DEF NoWork
<1> QED
  BY <1>1, <1>2, <1>3, <1>4, <1>5

LEMMA KeepType ==
  ASSUME RouteTypeOK, NEW j \in Job, Keep(j)
  PROVE  JobTold /\ work' \in [Job -> Work]
<1>1. work' \in [Job -> Work]
  <2>1. work \in [Job -> Work]
    BY DEF RouteTypeOK, Work
  <2>2. [NoWork EXCEPT !.kind = work[j].kind, !.refill = work[j].refill, !.applied = TRUE] \in Work
    BY <2>1, WorkType
  <2> QED
    BY <2>1, <2>2 DEF Keep, LeaveLoop
<1>2. {"refill", "resave"} \subseteq Stages /\ {"filling", "saving"} \subseteq States
  BY DEF Stages, States
<1> QED
  BY <1>1, <1>2, GoOnType DEF Keep

\* Every answer, and every failure, keeps the types of what a job owns.
LEMMA AnswerType ==
  ASSUME RouteTypeOK, NEW j \in Job, Answer(j)
  PROVE  JobTold /\ work' \in [Job -> Work] /\ stack' \in Seq(Who)
<1>1. work \in [Job -> Work] /\ stack \in Seq(Who) /\ j \in Who
  BY DEF RouteTypeOK, Work, Who
<1>2. /\ Untouched \subseteq Stages /\ Tentative \subseteq Stages
      /\ {"import", "apply", "reapply", "refill", "resave", "ratsnest", "tracks", "over"} \subseteq Stages
  BY DEF Stages
<1>3. CASE \/ Open(j) \/ Fill(j) \/ Save(j) \/ Extract(j) \/ Exited(j) \/ ReadSession(j)
           \/ RefillAfter(j) \/ Resave(j) \/ Ratsnest(j)
  <2>1. JobTold
    BY <1>2, <1>3, GoOnType
    DEF Open, Fill, Save, Extract, Exited, ReadSession, RefillAfter, Resave, Ratsnest, States, Untouched
  <2>2. UNCHANGED <<work, stack>>
    BY <1>3 DEF Open, Fill, Save, Extract, Exited, ReadSession, RefillAfter, Resave, Ratsnest, boardVars
  <2> QED
    BY <1>1, <2>1, <2>2
<1>4. CASE Route(j)
  <2>1. JobTold
    BY <1>2, <1>4, GoOnType DEF Route, States
  <2>2. work' \in [Job -> Work]
    <3>1. CASE UNCHANGED work
      BY <1>1, <3>1
    <3>2. CASE \E n \in 0..MaxCopper, m \in 0..MaxExisting, c \in BOOLEAN :
                 work' = [work EXCEPT ![j].copper = n, ![j].left = m, ![j].claims = c,
                                      ![j].bound = maxCleanupPasses(n, m)]
      <4>1. PICK n \in 0..MaxCopper, m \in 0..MaxExisting, c \in BOOLEAN :
              work' = [work EXCEPT ![j].copper = n, ![j].left = m, ![j].claims = c,
                                   ![j].bound = maxCleanupPasses(n, m)]
        BY <3>2
      <4>2. n \in Nat /\ m \in Nat /\ maxCleanupPasses(n, m) \in Nat
        BY RouteAssumption DEF maxCleanupPasses
      <4> QED
        BY <1>1, <4>1, <4>2, WorkType
    <3> QED
      BY <1>4, <3>1, <3>2 DEF Route
  <2> QED
    BY <1>1, <1>4, <2>1, <2>2 DEF Route, boardVars
<1>5. CASE Import(j) \/ Apply(j) \/ Reapply(j)
  <2>1. JobTold /\ work' \in [Job -> Work]
    BY <1>1, <1>2, <1>5, GoOnType, KeepType DEF Import, Apply, Reapply, States, Tentative
  <2>2. push(j)
    BY <1>5 DEF Import, Apply, Reapply
  <2> QED
    BY <1>1, <2>1, <2>2, PushEntries
<1>6. CASE Drc(j)
  <2>1. JobTold
    BY <1>2, <1>6, KeepType, GoOnType DEF Drc, States, Tentative
  <2>2. work' \in [Job -> Work]
    <3>1. CASE UNCHANGED work
      BY <1>1, <3>1
    <3>2. CASE Keep(j)
      BY <3>2, KeepType
    <3>3. CASE \E d \in Dangling(j) :
                 work' = [work EXCEPT ![j].copper = @ - d[1], ![j].left = @ - d[2],
                                      ![j].removed = @ + d[2]]
      <4>1. PICK a \in 0..work[j].copper, b \in 0..work[j].left :
              work' = [work EXCEPT ![j].copper = @ - a, ![j].left = @ - b, ![j].removed = @ + b]
        BY <3>3 DEF Dangling
      <4> QED
        BY <1>1, <4>1, WorkType
    <3> QED
      BY <1>6, <3>1, <3>2, <3>3 DEF Drc
  <2> QED
    BY <1>1, <1>6, <2>1, <2>2 DEF Drc, boardVars
<1>7. CASE UndoTentative(j)
  <2>1. JobTold
    BY <1>2, <1>7, GoOnType DEF UndoTentative, States
  <2>2. work' \in [Job -> Work]
    <3>1. CASE LeaveLoop(j, FALSE)
      BY <1>1, <3>1, WorkType DEF LeaveLoop
    <3>2. CASE work' = [work EXCEPT ![j].pass = @ + 1]
      BY <1>1, <3>2, WorkType
    <3> QED
      BY <1>7, <3>1, <3>2 DEF UndoTentative
  <2>3. stack' \in Seq(Who)
    BY <1>1, <1>7, UndoEntries DEF UndoTentative
  <2> QED
    BY <2>1, <2>2, <2>3
<1>8. CASE Label(j)
  <2>1. JobTold /\ work' \in [Job -> Work]
    BY <1>1, <1>2, <1>8, KeepType, GoOnType DEF Label, States, Tentative
  <2> QED
    BY <1>1, <1>8, <2>1 DEF Label, boardVars
<1>9. CASE Relabel(j)
  <2>1. JobTold
    BY <1>2, <1>9, GoOnType DEF Relabel, States
  <2>2. work' \in [Job -> Work]
    BY <1>1, <1>9, WorkType DEF Relabel, LeaveLoop
  <2>3. stack' \in Seq(Who)
    BY <1>1, <1>9, UndoEntries DEF Relabel
  <2> QED
    BY <2>1, <2>2, <2>3
<1>10. CASE Summarise(j)
  <2>1. /\ summary' \in [Job -> BOOLEAN] /\ stage' \in [Job -> Stages]
        /\ state' \in [Job -> States] /\ emit(j, "done")
    BY <1>2, <1>10 DEF Summarise, RouteTypeOK
  <2>2. JobTold
    BY <2>1, EmitType DEF JobTold
  <2> QED
    BY <1>1, <1>10, <2>2 DEF Summarise, boardVars
<1> QED
  BY <1>3, <1>4, <1>5, <1>6, <1>7, <1>8, <1>9, <1>10 DEF Answer

\* What a step of `who` may do to the undo stack (bridge-job.ts:418-478).
StackStep(who) == \/ UNCHANGED <<stack, mixed>>
                  \/ push(who)
                  \/ stack # <<>> /\ undo(who)

OnlyOf(j) == \A k \in Job \ {j} : stage'[k] = stage[k] /\ work'[k] = work[k]

\* A job moves only itself, and changes the stack only by its own commit and undo.
LEMMA AnswerFrame ==
  ASSUME RouteTypeOK, NEW j \in Job, Answer(j)
  PROVE  /\ StackStep(j) /\ OnlyOf(j)
         /\ UNCHANGED <<aborted, early, foreign>>
         /\ Written \/ UNCHANGED saved
<1> USE DEF StackStep, OnlyOf
<1>1. stage \in [Job -> Stages] /\ work \in [Job -> Work]
  BY DEF RouteTypeOK, Work
<1>2. CASE \/ Open(j) \/ Fill(j) \/ Save(j) \/ Extract(j) \/ Exited(j) \/ ReadSession(j)
           \/ RefillAfter(j) \/ Resave(j) \/ Ratsnest(j)
  <2>1. UNCHANGED <<stack, mixed, work, aborted, early, foreign>> /\ (Written \/ UNCHANGED saved)
    BY <1>2 DEF Open, Fill, Save, Extract, Exited, ReadSession, RefillAfter, Resave, Ratsnest,
                boardVars, persistAppliedRoute
  <2>2. \A k \in Job \ {j} : stage'[k] = stage[k]
    BY <1>1, <1>2 DEF Open, Fill, Save, Extract, Exited, ReadSession, RefillAfter, Resave, Ratsnest,
                GoOn, Goto, Throw
  <2> QED
    BY <2>1, <2>2
<1>3. CASE Route(j) \/ Label(j) \/ Summarise(j)
  BY <1>1, <1>3 DEF Route, Label, Summarise, boardVars, Keep, LeaveLoop, Goto, Throw
<1>4. CASE Import(j) \/ Apply(j) \/ Reapply(j)
  BY <1>1, <1>4 DEF Import, Apply, Reapply, Keep, LeaveLoop, Goto, Throw
<1>5. CASE Drc(j)
  BY <1>1, <1>5 DEF Drc, boardVars, Keep, LeaveLoop, Goto
<1>6. CASE UndoTentative(j) \/ Relabel(j)
  BY <1>1, <1>6 DEF UndoTentative, Relabel, LeaveLoop, Goto, Throw
<1> QED
  BY <1>2, <1>3, <1>4, <1>5, <1>6 DEF Answer

\* A failure ends the job where it is, whether its commit or undo took effect or not.
LEMMA FailFrame ==
  ASSUME RouteTypeOK, NEW j \in Job, Fail(j)
  PROVE  /\ StackStep(j) /\ OnlyOf(j)
         /\ UNCHANGED <<aborted, early, foreign, saved>>
         /\ stage'[j] = "over" /\ faults' \in Nat
         /\ JobTold /\ work' \in [Job -> Work]
<1>1. stage \in [Job -> Stages] /\ work \in [Job -> Work] /\ faults \in Nat
  BY DEF RouteTypeOK, Work
<1>2. Throw(j) /\ LeaveLoop(j, work[j].applied) /\ Fault
  BY DEF Fail
<1>3. StackStep(j) /\ UNCHANGED <<aborted, early, foreign, saved>>
  BY DEF Fail, StackStep
<1>4. OnlyOf(j) /\ stage'[j] = "over"
  BY <1>1, <1>2 DEF OnlyOf, Throw, LeaveLoop
<1>5. work' \in [Job -> Work]
  <2>1. work[j] \in Work /\ work[j].applied \in BOOLEAN
    BY <1>1 DEF Work
  <2> QED
    BY <1>1, <1>2, <2>1, WorkType DEF LeaveLoop
<1>6. faults' \in Nat
  BY <1>1, <1>2 DEF Fault
<1> QED
  BY <1>2, <1>3, <1>4, <1>5, <1>6, GoOnType

\* The board keeps its types.
LEMMA StackStepType ==
  ASSUME RouteTypeOK, NEW who \in Who, StackStep(who)
  PROVE  stack' \in Seq(Who) /\ mixed' \in [Job -> BOOLEAN]
<1>1. stack \in Seq(Who) /\ mixed \in [Job -> BOOLEAN]
  BY DEF RouteTypeOK, Who
<1> QED
  BY <1>1, PushEntries, UndoEntries DEF StackStep, push, undo, Mix

LEMMA JobType ==
  ASSUME RouteTypeOK, NEW j \in Job, JobStep(j) \/ Fail(j)
  PROVE  RouteTypeOK'
<1>1. /\ JobTold /\ work' \in [Job -> Work] /\ StackStep(j)
      /\ UNCHANGED <<aborted, early, foreign>> /\ faults' \in Nat
      /\ Written \/ UNCHANGED saved
  BY AnswerType, AnswerFrame, FailFrame DEF JobStep, RouteTypeOK
<1>2. saved' \in [Job -> BOOLEAN]
  BY <1>1 DEF Written, RouteTypeOK
<1>3. j \in Who
  BY DEF Who
<1>4. stack' \in Seq(Who) /\ mixed' \in [Job -> BOOLEAN]
  BY <1>1, <1>3, StackStepType
<1> QED
  BY <1>1, <1>2, <1>4 DEF RouteTypeOK, JobTold, Who, Work, Message

\* The application's own fields.
AppTypeOK ==
  /\ at \in [Run -> At]
  /\ run \in [id : Run \union {NoRun}, state : States, summary : BOOLEAN]
  /\ abort \in Run \union {NoRun}
  /\ signal \in [Run -> BOOLEAN]
  /\ jobId \in Job \union {NoJob}
  /\ grace \subseteq Run
  /\ deleting \subseteq Job
RunInfo == [id : Run \union {NoRun}, state : States, summary : BOOLEAN]

LEMMA CatchType ==
  ASSUME AppTypeOK, NEW r \in Run, NEW now \in RunInfo, NEW c \in BOOLEAN, Catch(r, now, c)
  PROVE  /\ at' \in [Run -> At] /\ run' \in RunInfo
         /\ abort' \in Run \union {NoRun} /\ jobId' \in Job \union {NoJob}
<1>1. \A s \in {"cancelled", "failed"} : [now EXCEPT !.state = s] \in RunInfo
  BY DEF RunInfo, States
<1> QED
  BY <1>1 DEF Catch, AppTypeOK, At

LEMMA ReadType ==
  ASSUME TypeOK, NEW r \in Run, Read(r)
  PROVE  TypeOK'
<1> USE DEF Run
<1>1. /\ inbox \in [Follower -> Seq(Message)] /\ listeners \in [Job -> SUBSET Follower]
      /\ inbox[r] # <<>> /\ AppTypeOK /\ run \in RunInfo
  BY DEF TypeOK, RouteTypeOK, Message, Read, AppTypeOK, RunInfo
<1>2. Tail(inbox[r]) \in Seq(Message) /\ Head(inbox[r]) \in Message /\ <<>> \in Seq(Message)
  BY <1>1, HeadTailProperties, EmptySeq
<1>3. applyBridgeEvent(Head(inbox[r])) \in RunInfo
  <2> DEFINE e == Head(inbox[r])
  <2>1. e.state \in States /\ e.summary \in BOOLEAN /\ run.summary \in BOOLEAN
    BY <1>1, <1>2 DEF Message, RunInfo
  <2>2. (CASE e.ev = "done" -> "done"
           [] e.ev = "error" -> IF e.state = "cancelled" THEN "cancelled" ELSE "failed"
           [] OTHER -> e.state) \in States
    BY <2>1 DEF States
  <2>3. \A s \in States, b \in BOOLEAN : [run EXCEPT !.state = s, !.summary = b] \in RunInfo
    BY <1>1 DEF RunInfo
  <2>4. (run.summary \/ e.summary) \in BOOLEAN
    BY <2>1
  <2> QED
    BY <2>2, <2>3, <2>4 DEF applyBridgeEvent
<1>4. PICK now \in RunInfo :
        \/ /\ run' = now /\ inbox' = [inbox EXCEPT ![r] = Tail(@)]
           /\ UNCHANGED <<at, abort, jobId, listeners>>
        \/ (\E c \in BOOLEAN : Catch(r, now, c)) /\ disconnect(r)
        \/ /\ run' = now /\ at' = [at EXCEPT ![r] = "resync"] /\ disconnect(r)
           /\ UNCHANGED <<abort, jobId>>
  <2> DEFINE e == Head(inbox[r])
             now == IF e.ev = "closed" THEN run ELSE applyBridgeEvent(e)
  <2>1. now \in RunInfo
    BY <1>1, <1>3
  <2>2. (now.state = "cancelled") \in BOOLEAN
    OBVIOUS
  <2>3. \/ /\ run' = now /\ inbox' = [inbox EXCEPT ![r] = Tail(@)]
           /\ UNCHANGED <<at, abort, jobId, listeners>>
        \/ Catch(r, run, FALSE) /\ disconnect(r) /\ now = run
        \/ /\ run' = now /\ at' = [at EXCEPT ![r] = "resync"] /\ disconnect(r)
           /\ UNCHANGED <<abort, jobId>>
        \/ Catch(r, now, now.state = "cancelled") /\ disconnect(r)
    BY DEF Read
  <2> HIDE DEF now
  <2> QED
    BY <2>1, <2>2, <2>3
<1>5. /\ at' \in [Run -> At] /\ run' \in RunInfo
      /\ abort' \in Run \union {NoRun} /\ jobId' \in Job \union {NoJob}
  <2>1. at \in [Run -> At] /\ abort \in Run \union {NoRun} /\ jobId \in Job \union {NoJob}
    BY <1>1 DEF AppTypeOK
  <2>2. CASE \E c \in BOOLEAN : Catch(r, now, c)
    BY <1>1, <2>2, CatchType
  <2>3. CASE run' = now /\ UNCHANGED <<abort, jobId>> /\ (UNCHANGED at \/ at' = [at EXCEPT ![r] = "resync"])
    BY <2>1, <2>3 DEF At
  <2> QED
    BY <1>4, <2>2, <2>3
<1>6. inbox' \in [Follower -> Seq(Message)] /\ listeners' \in [Job -> SUBSET Follower]
  <2>1. CASE disconnect(r)
    BY <1>1, <1>2, <2>1 DEF disconnect
  <2>2. CASE inbox' = [inbox EXCEPT ![r] = Tail(@)] /\ UNCHANGED listeners
    BY <1>1, <1>2, <2>2
  <2> QED
    BY <1>4, <2>1, <2>2
<1>7. /\ UNCHANGED <<signal, grace, deleting, faults>>
      /\ UNCHANGED <<stage, state, aborted, summary, work, early, stack, saved, foreign, mixed>>
  BY DEF Read, jobVars, boardVars
<1>8. RouteTypeOK'
  BY <1>6, <1>7 DEF TypeOK, RouteTypeOK, Message
<1> QED
  BY <1>5, <1>7, <1>8 DEF TypeOK, RunInfo

\* What one run of the application keeps of the types.
LEMMA AppType ==
  ASSUME TypeOK, NEW r \in Run, startRun(r) \/ AppStep(r) \/ AppFails(r) \/ GraceEnds(r)
  PROVE  TypeOK'
<1> USE DEF Run
<1>1. RouteTypeOK /\ AppTypeOK /\ run \in RunInfo /\ inbox \in [Follower -> Seq(Message)]
  BY DEF TypeOK, RouteTypeOK, AppTypeOK, RunInfo, Message
<1>2. CASE startRun(r)
  BY <1>1, <1>2 DEF startRun, TypeOK, RouteTypeOK, AppTypeOK, At, States, routeVars, jobVars, boardVars, followVars
<1>3. CASE Post(r)
  <2>1. PICK k \in Kind, z \in Refill : start(JobOf(r), k, z)
    BY <1>3 DEF Post
  <2>2. JobOf(r) \in Job /\ z \in BOOLEAN
    BY AppAssumption, RouteAssumption
  <2>3. work \in [Job -> Work]
    BY <1>1 DEF RouteTypeOK, Work
  <2>4. work' \in [Job -> Work]
    BY <2>1, <2>2, <2>3, WorkType DEF start
  <2>5. stage' \in [Job -> Stages]
    BY <1>1, <2>1, <2>2 DEF start, RouteTypeOK, Stages, Untouched
  <2>6. RouteTypeOK'
    BY <1>1, <2>1, <2>4, <2>5 DEF start, RouteTypeOK, Work, boardVars, followVars
  <2> QED
    BY <1>1, <1>3, <2>6 DEF Post, TypeOK, AppTypeOK, At
<1>4. CASE Read(r)
  BY <1>4, ReadType
<1>5. CASE Fetched(r)
  <2>1. JobOf(r) \in Job
    BY AppAssumption
  <2>2. \A ev \in {"state", "closed"} : [ev |-> ev, state |-> state[JobOf(r)], summary |-> summary[JobOf(r)]] \in Message
    BY <1>1, <2>1 DEF Message, RouteTypeOK
  <2>3. \A x, y \in Message : <<x>> \in Seq(Message) /\ <<x, y>> \in Seq(Message)
    OBVIOUS
  <2>4. \E q \in Seq(Message) : inbox' = [inbox EXCEPT ![r] = q]
    BY <1>5, <2>2, <2>3 DEF Fetched, stream
  <2>5. listeners' \in [Job -> SUBSET Follower]
    <3>1. UNCHANGED listeners \/ listeners' = [listeners EXCEPT ![JobOf(r)] = @ \union {r}]
      BY <1>5 DEF Fetched, stream
    <3>2. listeners \in [Job -> SUBSET Follower]
      BY <1>1 DEF RouteTypeOK
    <3> QED
      BY <2>1, <3>1, <3>2
  <2>6. inbox' \in [Follower -> Seq(Message)]
    BY <1>1, <2>4
  <2>7. RouteTypeOK'
    BY <1>1, <1>5, <2>5, <2>6 DEF Fetched, RouteTypeOK, Message, jobVars, boardVars
  <2> QED
    BY <1>1, <1>5, <2>7 DEF Fetched, TypeOK, AppTypeOK, At
<1>6. CASE PostFails(r) \/ Posted(r) \/ StreamAborted(r) \/ StreamBreaks(r) \/ Resync(r) \/ ResyncFails(r) \/ Count(r)
  <2>1. /\ at' \in [Run -> At] /\ run' \in RunInfo
        /\ abort' \in Run \union {NoRun} /\ jobId' \in Job \union {NoJob}
    <3>1. CASE Catch(r, run, FALSE)
      BY <1>1, <3>1, CatchType
    <3>2. CASE Resync(r) \/ Count(r)
      BY <1>1, <3>2 DEF Resync, Count, AppTypeOK, At
    <3>3. CASE at' = [at EXCEPT ![r] = "fetching"] /\ jobId' = JobOf(r) /\ UNCHANGED <<run, abort>>
      BY <1>1, <3>3, AppAssumption DEF AppTypeOK, At
    <3> QED
      BY <1>6, <3>1, <3>2, <3>3 DEF PostFails, Posted, StreamAborted, StreamBreaks, ResyncFails
  <2>2. inbox' \in [Follower -> Seq(Message)] /\ listeners' \in [Job -> SUBSET Follower]
    <3>1. CASE disconnect(r)
      <4>1. <<>> \in Seq(Message)
        OBVIOUS
      <4> QED
        BY <1>1, <3>1, <4>1 DEF disconnect, RouteTypeOK
    <3>2. CASE UNCHANGED <<inbox, listeners>>
      BY <1>1, <3>2 DEF RouteTypeOK
    <3> QED
      BY <1>6, <3>1, <3>2 DEF PostFails, Posted, StreamAborted, StreamBreaks, Resync, ResyncFails, Count,
                              routeVars, followVars
  <2>3. faults' \in Nat
    <3>1. faults \in Nat
      BY <1>1 DEF RouteTypeOK
    <3>2. Fault \/ UNCHANGED faults
      BY <1>6 DEF PostFails, Posted, StreamAborted, StreamBreaks, Resync, ResyncFails, Count, routeVars
    <3> QED
      BY <3>1, <3>2 DEF Fault
  <2>4. /\ UNCHANGED <<signal, grace, deleting>>
        /\ UNCHANGED <<stage, state, aborted, summary, work, early, stack, saved, foreign, mixed>>
    BY <1>6 DEF PostFails, Posted, StreamAborted, StreamBreaks, Resync, ResyncFails, Count,
                routeVars, jobVars, boardVars
  <2>5. RouteTypeOK'
    BY <1>1, <2>2, <2>3, <2>4 DEF RouteTypeOK, Message
  <2> QED
    BY <1>1, <2>1, <2>4, <2>5 DEF TypeOK, AppTypeOK, RunInfo
<1>7. CASE GraceEnds(r)
  BY <1>1, <1>7 DEF GraceEnds, Pull, TypeOK, RouteTypeOK, AppTypeOK, routeVars, jobVars, boardVars, followVars
<1> QED
  BY <1>2, <1>3, <1>4, <1>5, <1>6, <1>7 DEF AppStep, AppFails

-----------------------------------------------------------------------------
\* Type correctness: whatever answers, fails, is cancelled or edited in between, every
\* field of the jobs and of the application keeps its type.
THEOREM TypeCorrect == Spec => []TypeOK
<1>1. Init => TypeOK
  <2>1. \A S : <<>> \in Seq(S)
    OBVIOUS
  <2>2. NoWork \in Work
    BY DEF NoWork, Work
  <2>3. ASSUME Init PROVE RouteTypeOK
    BY <2>1, <2>2, <2>3 DEF Init, RouteInit, RouteTypeOK, Stages, States, Work
  <2> QED
    BY <2>3 DEF Init, TypeOK, At, States
<1>2. TypeOK /\ [Next]_vars => TypeOK'
  <2> SUFFICES ASSUME TypeOK, [Next]_vars PROVE TypeOK'
    OBVIOUS
  <2>1. ASSUME NEW j \in Job, JobStep(j) \/ Fail(j), UNCHANGED appVars PROVE TypeOK'
    <3>1. RouteTypeOK'
      BY <2>1, JobType DEF TypeOK
    <3> QED
      BY <2>1, <3>1 DEF TypeOK, appVars
  <2>2. CASE Others /\ UNCHANGED appVars
    <3> RouteTypeOK /\ Editor \in Who /\ foreign \in Nat
      BY DEF TypeOK, RouteTypeOK, Who
    <3>1. StackStep(Editor) /\ foreign' \in Nat
      BY <2>2 DEF Others, StackStep
    <3>2. stack' \in Seq(Who) /\ mixed' \in [Job -> BOOLEAN]
      BY <3>1, StackStepType
    <3>3. RouteTypeOK'
      BY <2>2, <3>1, <3>2 DEF Others, RouteTypeOK, Who, jobVars, followVars
    <3> QED
      BY <2>2, <3>3 DEF TypeOK, appVars
  <2>3. ASSUME NEW r \in Run, startRun(r) \/ AppStep(r) \/ AppFails(r) \/ GraceEnds(r) PROVE TypeOK'
    BY <2>3, AppType
  <2>4. CASE cancelRun
    <3>1. RouteTypeOK'
      BY <2>4 DEF cancelRun, TypeOK, RouteTypeOK, routeVars, jobVars, boardVars, followVars
    <3>2. signal' \in [Run -> BOOLEAN] /\ deleting' \subseteq Job
      BY <2>4 DEF cancelRun, TypeOK
    <3> QED
      BY <2>4, <3>1, <3>2 DEF cancelRun, TypeOK
  <2>5. ASSUME NEW j \in Job, Delete(j) \/ DeleteFails(j) PROVE TypeOK'
    <3> aborted \in [Job -> BOOLEAN] /\ early \in [Job -> BOOLEAN] /\ faults \in Nat
      BY DEF TypeOK, RouteTypeOK
    <3>1. aborted' \in [Job -> BOOLEAN] /\ early' \in [Job -> BOOLEAN] /\ faults' \in Nat
      <4>1. CASE Delete(j)
        BY <4>1 DEF Delete, cancel
      <4>2. CASE DeleteFails(j)
        BY <4>2 DEF DeleteFails, Fault, jobVars
      <4> QED
        BY <2>5, <4>1, <4>2
    <3>2. /\ UNCHANGED <<at, run, abort, signal, jobId>> /\ deleting' \subseteq Job /\ grace' \subseteq Run
          /\ UNCHANGED <<stage, state, summary, work, stack, saved, foreign, mixed, listeners, inbox>>
      BY <2>5 DEF Delete, DeleteFails, cancel, TypeOK, jobVars, boardVars, followVars
    <3> QED
      BY <3>1, <3>2 DEF TypeOK, RouteTypeOK
  <2>6. CASE UNCHANGED vars
    BY <2>6 DEF vars, routeVars, appVars, jobVars, boardVars, followVars, TypeOK, RouteTypeOK
  <2> QED
    BY <2>1, <2>2, <2>3, <2>4, <2>5, <2>6 DEF Next
<1> QED
  BY <1>1, <1>2, PTL DEF Spec

-----------------------------------------------------------------------------
(* What a step means to the jobs. *)

\* Every step answers or fails one request of one job, starts or cancels one job, is
\* an edit of others, or leaves the jobs and the board alone.
LEMMA JobSteps ==
  ASSUME TypeOK, [Next]_vars
  PROVE  \/ \E j \in Job : Answer(j) \/ Fail(j)
         \/ StackStep(Editor) /\ UNCHANGED <<jobVars, saved>>
         \/ \E j \in Job : (\E k \in Kind, z \in Refill : start(j, k, z)) /\ UNCHANGED boardVars
         \/ \E j \in Job : cancel(j)
         \/ UNCHANGED <<jobVars, boardVars>>
<1>1. CASE \E j \in Job : JobStep(j) \/ Fail(j)
  BY <1>1 DEF JobStep
<1>2. CASE Others
  BY <1>2 DEF Others, StackStep
<1>3. ASSUME NEW r \in Run, startRun(r) \/ AppStep(r) \/ AppFails(r) \/ GraceEnds(r)
      PROVE  \/ \E j \in Job : (\E k \in Kind, z \in Refill : start(j, k, z)) /\ UNCHANGED boardVars
             \/ UNCHANGED <<jobVars, boardVars>>
  <2>1. CASE Post(r)
    BY <2>1, AppAssumption DEF Post, start
  <2>2. CASE startRun(r) \/ GraceEnds(r) \/ AppFails(r)
    BY <2>2 DEF startRun, GraceEnds, AppFails, PostFails, StreamBreaks, ResyncFails, routeVars
  <2>3. CASE Posted(r) \/ Fetched(r) \/ StreamAborted(r) \/ Read(r) \/ Resync(r) \/ Count(r)
    BY <2>3 DEF Posted, Fetched, StreamAborted, Read, Resync, Count, routeVars
  <2> QED
    BY <1>3, <2>1, <2>2, <2>3 DEF AppStep
<1>4. CASE cancelRun \/ UNCHANGED vars
  BY <1>4 DEF cancelRun, vars, routeVars
<1>5. ASSUME NEW j \in Job, Delete(j) \/ DeleteFails(j)
      PROVE  cancel(j) \/ UNCHANGED <<jobVars, boardVars>>
  BY <1>5 DEF Delete, DeleteFails
<1> QED
  BY <1>1, <1>2, <1>3, <1>4, <1>5 DEF Next

-----------------------------------------------------------------------------
(* The cleanup converges. *)

\* The measure: passes made, and copper a later pass can still take, stay below the
\* bound; it is zero until the router has answered.
PassesBounded ==
  /\ Converges
  /\ \A j \in Job : stage[j] \in Untouched \union {"none"} => work[j].pass = 0

\* However many passes the cleanup makes, each takes an item, so that the bound of
\* maxCleanupPasses (bridge-job.ts:424) is never met and the "did not converge" error
\* never thrown, for every router result and every answer of the DRC.
THEOREM CleanupConverges == Spec => [](Converges /\ PassesBounded)
<1>1. Init => PassesBounded
  BY DEF Init, RouteInit, PassesBounded, Converges, NoWork
<1>2. TypeOK /\ PassesBounded /\ [Next]_vars => PassesBounded'
  <2> SUFFICES ASSUME TypeOK, PassesBounded, [Next]_vars PROVE PassesBounded'
    OBVIOUS
  <2> DEFINE B(j) ==
        /\ stage[j] \in {"apply", "drc"} => work[j].pass + work[j].copper + work[j].left < work[j].bound
        /\ stage[j] = "undo" => work[j].pass + work[j].copper + work[j].left + 1 < work[j].bound
        /\ stage[j] \in Untouched \union {"none"} => work[j].pass = 0
  <2>1. \A j \in Job : B(j)
    BY DEF PassesBounded, Converges
  <2>2. SUFFICES \A j \in Job : B(j)'
    BY DEF PassesBounded, Converges
  <2>3. /\ RouteTypeOK /\ stage \in [Job -> Stages] /\ work \in [Job -> Work]
        /\ \A j \in Job : /\ work[j].pass \in Nat /\ work[j].copper \in Nat /\ work[j].left \in Nat
                          /\ work[j].bound \in Nat /\ work[j].removed \in Nat
    BY DEF TypeOK, RouteTypeOK, Work
  <2>4. ASSUME NEW j \in Job, Answer(j) \/ Fail(j) PROVE \A k \in Job : B(k)'
    <3>1. OnlyOf(j)
      BY <2>3, <2>4, AnswerFrame, FailFrame
    <3>2. ASSUME NEW k \in Job \ {j} PROVE B(k)'
      BY <2>1, <3>1, <3>2 DEF OnlyOf
    <3>3. B(j)'
      <4> SUFFICES ASSUME stage'[j] \in {"apply", "drc", "undo", "none"} \union Untouched PROVE B(j)'
        OBVIOUS
      <4>1. CASE Open(j) \/ Fill(j) \/ Save(j) \/ Extract(j) \/ Exited(j)
        BY <2>1, <2>3, <4>1 DEF Open, Fill, Save, Extract, Exited, GoOn, Goto, Throw, Untouched
      <4>2. CASE Route(j)
        <5>1. stage'[j] = "apply" /\ stage[j] = "route"
          BY <2>3, <4>2 DEF Route, Goto, Throw, Untouched
        <5>2. PICK n \in 0..MaxCopper, m \in 0..MaxExisting, c \in BOOLEAN :
                work' = [work EXCEPT ![j].copper = n, ![j].left = m, ![j].claims = c,
                                     ![j].bound = maxCleanupPasses(n, m)]
          <6>1. ~Throw(j) /\ ~Goto(j, "ratsnest", "applying")
            BY <2>3, <5>1 DEF Goto, Throw
          <6> QED
            BY <4>2, <6>1 DEF Route
        <5>3. /\ work'[j].pass = 0 /\ work'[j].copper = n /\ work'[j].left = m
              /\ work'[j].bound = n + m + 1
          BY <2>1, <2>3, <5>1, <5>2 DEF Work, Untouched, maxCleanupPasses
        <5>4. n \in Nat /\ m \in Nat
          BY RouteAssumption
        <5> QED
          BY <5>1, <5>3, <5>4 DEF Untouched
      <4>3. CASE Apply(j)
        <5>1. stage'[j] = "drc" /\ stage[j] = "apply" /\ work' = work
          BY <2>3, <4>3 DEF Apply, Keep, Goto, Untouched
        <5> QED
          BY <2>1, <5>1 DEF Untouched
      <4>4. CASE Drc(j)
        <5>1. stage'[j] = "undo" /\ stage[j] = "drc"
          BY <2>3, <4>4 DEF Drc, Keep, Goto, Untouched
        <5>2. PICK a \in 0..work[j].copper, b \in 0..work[j].left :
                /\ a + b > 0
                /\ work' = [work EXCEPT ![j].copper = @ - a, ![j].left = @ - b, ![j].removed = @ + b]
          <6>1. ~Keep(j) /\ ~Goto(j, "label", "applying")
            BY <2>3, <5>1 DEF Goto, Keep
          <6>2. \E d \in Dangling(j) :
                  work' = [work EXCEPT ![j].copper = @ - d[1], ![j].left = @ - d[2],
                                       ![j].removed = @ + d[2]]
            BY <4>4, <6>1 DEF Drc
          <6> QED
            BY <6>2 DEF Dangling
        <5>3. /\ work'[j].pass = work[j].pass /\ work'[j].bound = work[j].bound
              /\ work'[j].copper = work[j].copper - a /\ work'[j].left = work[j].left - b
          BY <2>3, <5>2 DEF Work
        <5> QED
          BY <2>1, <2>3, <5>1, <5>2, <5>3 DEF Untouched
      <4>5. CASE UndoTentative(j)
        <5>1. stage'[j] = "apply" /\ stage[j] = "undo" /\ work' = [work EXCEPT ![j].pass = @ + 1]
          BY <2>3, <4>5 DEF UndoTentative, Goto, Throw, Untouched
        <5>2. /\ work'[j].pass = work[j].pass + 1 /\ work'[j].bound = work[j].bound
              /\ work'[j].copper = work[j].copper /\ work'[j].left = work[j].left
          BY <2>3, <5>1 DEF Work
        <5> QED
          BY <2>1, <2>3, <5>1, <5>2 DEF Untouched
      <4>6. CASE \/ ReadSession(j) \/ Import(j) \/ Label(j) \/ Relabel(j) \/ Reapply(j)
                 \/ RefillAfter(j) \/ Resave(j) \/ Ratsnest(j) \/ Summarise(j) \/ Fail(j)
        BY <2>3, <4>6 DEF ReadSession, Import, Label, Relabel, Reapply, RefillAfter, Resave,
                          Ratsnest, Summarise, Fail, Keep, Goto, Throw, Untouched
      <4> QED
        BY <2>4, <4>1, <4>2, <4>3, <4>4, <4>5, <4>6 DEF Answer
    <3> QED
      BY <3>2, <3>3
  <2>5. ASSUME NEW j \in Job, NEW k \in Kind, NEW z \in Refill, start(j, k, z) PROVE \A i \in Job : B(i)'
    <3>1. \A i \in Job : work'[i].pass = work[i].pass
      BY <2>3, <2>5 DEF start, Work
    <3>2. stage[j] = "none" /\ stage'[j] = "open"
      BY <2>3, <2>5 DEF start
    <3>3. \A i \in Job \ {j} : stage'[i] = stage[i] /\ work'[i] = work[i]
      BY <2>3, <2>5 DEF start
    <3> QED
      BY <2>1, <3>1, <3>2, <3>3 DEF Untouched
  <2>6. CASE UNCHANGED <<stage, work>>
    BY <2>1, <2>6
  <2> QED
    BY <2>4, <2>5, <2>6, JobSteps DEF cancel, jobVars
<1>3. PassesBounded => Converges
  BY DEF PassesBounded
<1> QED
  BY <1>1, <1>2, <1>3, TypeCorrect, PTL DEF Spec

-----------------------------------------------------------------------------
(* One commit on the board. *)

\* Where the commit of a job is, by the request the job waits for: nowhere before it is
\* made and after it was taken back, on top of the stack while it is tentative.
Place(j) ==
  /\ stage[j] \in Untouched \union {"none"} => Entries(j) = {}
  /\ ~mixed[j] =>
       /\ stage[j] \in {"import", "apply", "reapply"} => Entries(j) = {}
       /\ stage[j] \in Tentative => Entries(j) = {Len(stack)}
       /\ \A a, b \in Entries(j) : a = b

Placed == \A j \in Job : Place(j)

\* The stages after the last commit.
Rest == {"refill", "resave", "ratsnest", "tracks", "over"}

\* The steps of a job as the board sees them.
BoardStep(j) ==
  \/ /\ UNCHANGED <<stack, mixed>>
     /\ \/ stage'[j] \in Rest
        \/ stage[j] \in Untouched /\ stage'[j] \in Untouched \union {"import", "apply"}
        \/ stage[j] \in Tentative /\ stage'[j] \in Tentative
  \/ /\ push(j)
     /\ stage[j] \in {"import", "apply", "reapply"} /\ stage'[j] \in {"drc"} \union Rest
  \/ /\ stack # <<>> /\ undo(j)
     /\ stage[j] \in Tentative /\ stage'[j] \in {"apply", "reapply"} \union Rest

LEMMA JobBoard ==
  ASSUME RouteTypeOK, NEW j \in Job, Answer(j) \/ Fail(j)
  PROVE  BoardStep(j)
<1>1. stage \in [Job -> Stages]
  BY DEF RouteTypeOK
<1> USE DEF BoardStep, Rest
<1>2. CASE Open(j) \/ Fill(j) \/ Save(j) \/ Extract(j) \/ Exited(j) \/ ReadSession(j)
  BY <1>1, <1>2 DEF Open, Fill, Save, Extract, Exited, ReadSession, GoOn, Goto, Throw, Untouched, boardVars
<1>3. CASE Route(j)
  BY <1>1, <1>3 DEF Route, Goto, Throw, Untouched, boardVars
<1>4. CASE Import(j) \/ Apply(j) \/ Reapply(j)
  BY <1>1, <1>4 DEF Import, Apply, Reapply, Keep, Goto, Throw
<1>5. CASE Drc(j) \/ Label(j)
  BY <1>1, <1>5 DEF Drc, Label, Keep, Goto, Tentative, boardVars
<1>6. CASE UndoTentative(j) \/ Relabel(j)
  BY <1>1, <1>6 DEF UndoTentative, Relabel, Goto, Throw, Tentative
<1>7. CASE RefillAfter(j) \/ Resave(j) \/ Ratsnest(j) \/ Summarise(j)
  BY <1>1, <1>7 DEF RefillAfter, Resave, Ratsnest, Summarise, Goto, boardVars
<1>8. CASE Fail(j)
  BY <1>1, <1>8 DEF Fail, Throw, Tentative
<1> QED
  BY <1>2, <1>3, <1>4, <1>5, <1>6, <1>7, <1>8 DEF Answer

\* Whatever the cleanup and the relabelling do, and in whatever order other clients edit
\* and undo, a job whose tentative commit nobody else came near has at most one commit on
\* the board (bridge-job.ts:424-500).
THEOREM OneCommitOnly == Spec => [](OneCommit /\ Placed)
<1>1. Init => Placed
  <2>1. DOMAIN <<>> = {}
    OBVIOUS
  <2> QED
    BY <2>1 DEF Init, RouteInit, Placed, Place, Entries, Tentative, Untouched
<1>2. TypeOK /\ Placed /\ [Next]_vars => Placed'
  <2> SUFFICES ASSUME TypeOK, Placed, [Next]_vars PROVE Placed'
    OBVIOUS
  <2>1. /\ RouteTypeOK /\ stack \in Seq(Who) /\ stage \in [Job -> Stages] /\ mixed \in [Job -> BOOLEAN]
        /\ Len(stack) \in Nat /\ \A k \in Job : Entries(k) \subseteq 1..Len(stack)
    <3>1. RouteTypeOK /\ stack \in Seq(Who) /\ stage \in [Job -> Stages] /\ mixed \in [Job -> BOOLEAN]
      BY DEF TypeOK, RouteTypeOK, Who
    <3> QED
      BY <3>1, LenProperties DEF Entries
  \* A change of the stack by another actor.
  <2>2. ASSUME NEW who \in Who, StackStep(who), NEW k \in Job \ {who}, stage'[k] = stage[k]
        PROVE  Place(k)'
    <3>1. CASE UNCHANGED <<stack, mixed>>
      BY <2>2, <3>1 DEF Placed, Place, Entries
    <3>2. CASE push(who) \/ (stack # <<>> /\ undo(who))
      <4>1. Entries(k)' \subseteq Entries(k)
        BY <2>1, <2>2, <3>2, PushEntries, UndoEntries
      <4>2. mixed'[k] = (mixed[k] \/ stage[k] \in Tentative)
        BY <2>1, <2>2, <3>2 DEF push, undo, Mix
      <4> QED
        BY <2>2, <4>1, <4>2 DEF Placed, Place
    <3> QED
      BY <2>2, <3>1, <3>2 DEF StackStep
  <2>3. ASSUME NEW j \in Job, Answer(j) \/ Fail(j) PROVE Placed'
    <3>1. StackStep(j) /\ OnlyOf(j) /\ j \in Who
      BY <2>1, <2>3, AnswerFrame, FailFrame DEF Who
    <3>2. \A k \in Job \ {j} : Place(k)'
      BY <2>2, <3>1 DEF OnlyOf
    <3>3. BoardStep(j) /\ Place(j)
      BY <2>1, <2>3, JobBoard DEF Placed
    <3>4. Place(j)'
      <4>1. CASE /\ UNCHANGED <<stack, mixed>>
                 /\ \/ stage'[j] \in Rest
                    \/ stage[j] \in Untouched /\ stage'[j] \in Untouched \union {"import", "apply"}
                    \/ stage[j] \in Tentative /\ stage'[j] \in Tentative
        BY <3>3, <4>1 DEF Place, Entries, Rest, Untouched, Tentative
      <4>2. CASE /\ push(j)
                 /\ stage[j] \in {"import", "apply", "reapply"} /\ stage'[j] \in {"drc"} \union Rest
        <5>1. /\ Entries(j)' = Entries(j) \union {Len(stack')}
              /\ mixed'[j] = mixed[j]
          BY <2>1, <3>1, <4>2, PushEntries DEF push, Mix
        <5> QED
          BY <3>3, <4>2, <5>1 DEF Place, Rest, Untouched, Tentative
      <4>3. CASE /\ stack # <<>> /\ undo(j)
                 /\ stage[j] \in Tentative /\ stage'[j] \in {"apply", "reapply"} \union Rest
        <5>1. /\ Entries(j)' = Entries(j) \ {Len(stack)}
              /\ mixed'[j] = mixed[j]
          BY <2>1, <4>3, UndoEntries DEF undo, Mix
        <5> QED
          BY <3>3, <4>3, <5>1 DEF Place, Rest, Untouched, Tentative
      <4> QED
        BY <3>3, <4>1, <4>2, <4>3 DEF BoardStep
    <3> QED
      BY <3>2, <3>4 DEF Placed
  <2>4. CASE StackStep(Editor) /\ UNCHANGED jobVars
    BY <2>2, <2>4, RouteAssumption DEF Placed, Who, jobVars
  <2>5. ASSUME NEW j \in Job, NEW k \in Kind, NEW z \in Refill, start(j, k, z), UNCHANGED boardVars
        PROVE  Placed'
    BY <2>1, <2>5 DEF start, boardVars, Placed, Place, Entries, Untouched, Tentative
  <2>6. CASE UNCHANGED <<stage, boardVars>>
    BY <2>6 DEF boardVars, Placed, Place, Entries
  <2> QED
    BY <2>3, <2>4, <2>5, <2>6, JobSteps DEF cancel, jobVars
<1>3. Placed => OneCommit
  BY DEF Placed, Place, OneCommit
<1> QED
  BY <1>1, <1>2, <1>3, TypeCorrect, PTL DEF Spec

-----------------------------------------------------------------------------
(* A job cancelled in time. *)

\* A job cancelled before anything was applied still waits for a request that its next
\* checkCancelled() follows, or is over, without an entry of its own.
Stop(j) ==
  /\ early[j] => aborted[j] /\ stage[j] # "none"
  /\ stage[j] \in {"reading", "import"} => work[j].kind = "kicad"
  /\ early[j] /\ work[j].kind # "kicad" => stage[j] \in Untouched \union {"over"} /\ Entries(j) = {}

Stops == \A j \in Job : Stop(j)

\* "Cancel before the apply leaves the board untouched" (docs/06-routing.md:127), for a
\* job whose own code commits the route.
THEOREM CancelledLeavesBoard == Spec => []CancelledUntouched
<1>1. Init => Stops
  BY DEF Init, RouteInit, Stops, Stop, NoWork
<1>2. TypeOK /\ Placed /\ Stops /\ [Next]_vars => Stops'
  <2> SUFFICES ASSUME TypeOK, Placed, Stops, [Next]_vars PROVE Stops'
    OBVIOUS
  <2>1. /\ RouteTypeOK /\ stack \in Seq(Who) /\ stage \in [Job -> Stages] /\ work \in [Job -> Work]
        /\ early \in [Job -> BOOLEAN] /\ aborted \in [Job -> BOOLEAN]
    BY DEF TypeOK, RouteTypeOK, Who, Work
  \* Nobody else puts an entry of a job on the stack.
  <2>2. ASSUME NEW who \in Who, StackStep(who), NEW k \in Job \ {who}
        PROVE  Entries(k)' \subseteq Entries(k)
    BY <2>1, <2>2, PushEntries, UndoEntries DEF StackStep, Entries
  <2>3. ASSUME NEW j \in Job, Answer(j) \/ Fail(j) PROVE Stops'
    <3>1. StackStep(j) /\ OnlyOf(j) /\ UNCHANGED <<early, aborted>> /\ j \in Who
      BY <2>1, <2>3, AnswerFrame, FailFrame DEF Who
    <3>2. \A k \in Job \ {j} : Stop(k)'
      BY <2>2, <3>1 DEF OnlyOf, Stops, Stop
    <3>3. BoardStep(j) /\ Stop(j)
      BY <2>1, <2>3, JobBoard DEF Stops
    <3>4. work'[j].kind = work[j].kind
      <4>1. \A x \in BOOLEAN : LeaveLoop(j, x) => work'[j].kind = work[j].kind
        BY <2>1 DEF LeaveLoop, NoWork, Work
      <4>2. Keep(j) => work'[j].kind = work[j].kind
        BY <4>1 DEF Keep
      <4>3. CASE UNCHANGED work
        BY <4>3
      <4>4. CASE Route(j) \/ Drc(j) \/ UndoTentative(j)
        <5>1. CASE Route(j)
          <6>1. CASE \E n \in 0..MaxCopper, m \in 0..MaxExisting, c \in BOOLEAN :
                       work' = [work EXCEPT ![j].copper = n, ![j].left = m, ![j].claims = c,
                                            ![j].bound = maxCleanupPasses(n, m)]
            BY <2>1, <6>1 DEF Work
          <6> QED
            BY <4>3, <5>1, <6>1 DEF Route
        <5>2. CASE Drc(j)
          <6>1. CASE \E d \in Dangling(j) :
                       work' = [work EXCEPT ![j].copper = @ - d[1], ![j].left = @ - d[2],
                                            ![j].removed = @ + d[2]]
            <7>1. PICK a \in 0..work[j].copper, b \in 0..work[j].left :
                    work' = [work EXCEPT ![j].copper = @ - a, ![j].left = @ - b, ![j].removed = @ + b]
              BY <6>1 DEF Dangling
            <7> QED
              BY <2>1, <7>1 DEF Work
          <6>2. \/ Keep(j) \/ UNCHANGED work
                \/ \E d \in Dangling(j) :
                      work' = [work EXCEPT ![j].copper = @ - d[1], ![j].left = @ - d[2],
                                           ![j].removed = @ + d[2]]
            BY <5>2 DEF Drc
          <6> QED
            BY <4>2, <4>3, <6>1, <6>2
        <5>3. CASE UndoTentative(j)
          BY <2>1, <4>1, <5>3 DEF UndoTentative, Work
        <5> QED
          BY <4>4, <5>1, <5>2, <5>3
      <4>5. CASE Import(j) \/ Apply(j) \/ Reapply(j) \/ Label(j)
        BY <4>2, <4>5 DEF Import, Apply, Reapply, Label
      <4>6. CASE Relabel(j) \/ Fail(j)
        BY <2>1, <4>1, <4>6 DEF Relabel, Fail, Work
      <4>7. CASE \/ Open(j) \/ Fill(j) \/ Save(j) \/ Extract(j) \/ Exited(j) \/ ReadSession(j)
                 \/ RefillAfter(j) \/ Resave(j) \/ Ratsnest(j) \/ Summarise(j)
        BY <4>7 DEF Open, Fill, Save, Extract, Exited, ReadSession, RefillAfter, Resave, Ratsnest, Summarise
      <4> QED
        BY <2>3, <4>4, <4>5, <4>6, <4>7 DEF Answer
    <3>5. stage[j] # "none" /\ stage'[j] # "none"
      <4>1. stage[j] # "none"
        BY <2>3 DEF Answer, Open, Fill, Save, Extract, Route, Exited, ReadSession, Import, Apply, Drc,
          UndoTentative, Label, Relabel, Reapply, RefillAfter, Resave, Ratsnest, Summarise, Fail
      <4> QED
        BY <3>3, <4>1 DEF BoardStep, Rest, Untouched, Tentative
    <3>6. stage'[j] \in {"reading", "import"} => work[j].kind = "kicad"
      BY <2>1, <2>3, <3>3 DEF Answer, Open, Fill, Save, Extract, Route, Exited, ReadSession, Import,
        Apply, Drc, UndoTentative, Label, Relabel, Reapply, RefillAfter, Resave, Ratsnest, Summarise,
        Fail, Keep, GoOn, Goto, Throw, Stop
    <3>7. ASSUME early[j], work[j].kind # "kicad"
          PROVE  stage'[j] \in Untouched \union {"over"} /\ UNCHANGED stack
      <4>1. stage[j] \in Untouched \ {"reading"} /\ Stopped(j)
        BY <2>1, <2>3, <3>3, <3>7 DEF Stop, Stopped, Answer, Open, Fill, Save, Extract, Route, Exited,
          ReadSession, Import, Apply, Drc, UndoTentative, Label, Relabel, Reapply, RefillAfter,
          Resave, Ratsnest, Summarise, Fail
      <4> QED
        BY <2>1, <2>3, <3>7, <4>1 DEF Answer, Open, Fill, Save, Extract, Route, Exited, ReadSession,
          Import, Apply, Drc, UndoTentative, Label, Relabel, Reapply, RefillAfter, Resave, Ratsnest,
          Summarise, Fail, GoOn, Throw, Untouched, boardVars
    <3>8. Stop(j)'
      BY <3>1, <3>3, <3>4, <3>5, <3>6, <3>7 DEF Stop, Entries
    <3> QED
      BY <3>2, <3>8 DEF Stops
  <2>4. CASE StackStep(Editor) /\ UNCHANGED jobVars
    BY <2>2, <2>4, RouteAssumption DEF Stops, Stop, Who, jobVars
  <2>5. ASSUME NEW j \in Job, NEW k \in Kind, NEW z \in Refill, start(j, k, z), UNCHANGED boardVars
        PROVE  Stops'
    <3>1. ~early[j] /\ UNCHANGED <<early, aborted, stack>> /\ stage'[j] = "open"
      BY <2>1, <2>5 DEF start, boardVars, Stops, Stop
    <3>2. \A i \in Job \ {j} : stage'[i] = stage[i] /\ work'[i] = work[i]
      BY <2>1, <2>5 DEF start
    <3> QED
      BY <3>1, <3>2 DEF Stops, Stop, Entries
  <2>6. ASSUME NEW j \in Job, cancel(j) PROVE Stops'
    <3>1. UNCHANGED <<stage, work, stack>>
      BY <2>6 DEF cancel, boardVars
    <3>2. \A k \in Job : /\ aborted[k] => aborted'[k]
                         /\ early'[k] => \/ early[k]
                                         \/ aborted'[k] /\ stage[k] \in Untouched
      BY <2>1, <2>6 DEF cancel
    <3> QED
      BY <3>1, <3>2 DEF Stops, Stop, Placed, Place, Entries, Untouched
  <2>7. CASE UNCHANGED <<jobVars, boardVars>>
    BY <2>7 DEF jobVars, boardVars, Stops, Stop, Entries
  <2> QED
    BY <2>3, <2>4, <2>5, <2>6, <2>7, JobSteps
<1>3. Stops => CancelledUntouched
  BY DEF Stops, Stop, CancelledUntouched
<1> QED
  BY <1>1, <1>2, <1>3, TypeCorrect, OneCommitOnly, PTL DEF Spec

-----------------------------------------------------------------------------
(* What is reported done is in the file. *)

\* The commit of a job, if there is one, is in the file.
Clean(j) == work[j].applied /\ Entries(j) # {} => saved[j]
Good(j) == stage[j] \in {"tracks", "over"} /\ Clean(j)

\* Before the route nothing is applied; past the save it is written; and only then does
\* the job report done.
Ready(j) ==
  /\ stage[j] \in Untouched \union {"none"} => ~work[j].applied
  /\ stage[j] \in {"ratsnest", "tracks"} => Clean(j)
  /\ state[j] = "done" => Good(j)

ReadyInv == \A j \in Job : Ready(j)

\* Another actor's step takes an entry of a job away or leaves it, and writes what is there.
LEMMA CleanStays ==
  ASSUME stack \in Seq(Who), NEW who \in Who, StackStep(who), NEW k \in Job \ {who},
         work'[k] = work[k], Written \/ UNCHANGED saved
  PROVE  Clean(k) => Clean(k)'
<1>1. Entries(k)' \subseteq Entries(k)
  BY PushEntries, UndoEntries DEF StackStep, Entries
<1>2. Entries(k) # {} => \E i \in DOMAIN stack : stack[i] = k
  BY DEF Entries
<1> QED
  BY <1>1, <1>2 DEF Clean, Written

\* What a job's own answers and failures make of it.
LEMMA OwnReady ==
  ASSUME RouteTypeOK, NEW j \in Job, Ready(j), Answer(j) \/ Fail(j)
  PROVE  /\ Ready(j)' /\ (Good(j) => Good(j)')
         /\ \A k \in Job \ {j} : state'[k] = state[k]
         /\ \/ UNCHANGED <<listeners, inbox>>
            \/ \E ev \in {"done", "error"} :
                 emit(j, ev) /\ (ev = "done" \/ state'[j] = "done" => Good(j)')
<1>1. stage \in [Job -> Stages] /\ state \in [Job -> States] /\ work \in [Job -> Work]
  BY DEF RouteTypeOK, Work
<1>a. Throw(j) => /\ stage'[j] = "over" /\ state'[j] # "done" /\ emit(j, "error")
                  /\ \A k \in Job \ {j} : state'[k] = state[k]
  BY <1>1 DEF Throw
<1>b. \A next, s : Goto(j, next, s) => /\ stage'[j] = next /\ state'[j] = s /\ UNCHANGED <<listeners, inbox>>
                                       /\ \A k \in Job \ {j} : state'[k] = state[k]
  BY <1>1 DEF Goto
<1>c. Keep(j) => \E next \in {"refill", "resave"}, s \in {"filling", "saving"} : Goto(j, next, s)
  BY DEF Keep
<1>d. LeaveLoop(j, FALSE) => ~work'[j].applied
  BY <1>1 DEF LeaveLoop, NoWork, Work
<1>2. CASE Open(j) \/ Fill(j) \/ Save(j) \/ Extract(j) \/ Exited(j) \/ ReadSession(j)
  <2>1. /\ UNCHANGED work /\ stage[j] \in Untouched
        /\ Throw(j) \/ \E next \in Untouched \union {"import"}, s \in States \ {"done"} : Goto(j, next, s)
    BY <1>2 DEF Open, Fill, Save, Extract, Exited, ReadSession, GoOn, Untouched, States
  <2> QED
    BY <1>a, <1>b, <2>1 DEF Ready, Good, Clean, Untouched
<1>3. CASE Route(j)
  <2>1. stage[j] = "route" /\ (Throw(j) \/ Goto(j, "ratsnest", "applying") \/ Goto(j, "apply", "applying"))
    BY <1>3 DEF Route
  <2>2. work'[j].applied = work[j].applied
    <3>1. CASE \E n \in 0..MaxCopper, m \in 0..MaxExisting, c \in BOOLEAN :
                 work' = [work EXCEPT ![j].copper = n, ![j].left = m, ![j].claims = c,
                                      ![j].bound = maxCleanupPasses(n, m)]
      BY <1>1, <3>1 DEF Work
    <3> QED
      BY <1>3, <3>1 DEF Route
  <2> QED
    BY <1>a, <1>b, <2>1, <2>2 DEF Ready, Good, Clean, Untouched
<1>4. CASE Import(j) \/ Apply(j) \/ Reapply(j) \/ Drc(j) \/ Label(j) \/ Relabel(j)
  <2>1. /\ stage[j] \in {"import", "apply", "reapply"} \union Tentative
        /\ Throw(j) \/ \E next \in Tentative \union {"refill", "resave", "reapply"}, s \in {"filling", "saving", "applying"} :
                         Goto(j, next, s)
    BY <1>4, <1>c DEF Import, Apply, Reapply, Drc, Label, Relabel, Tentative
  <2> QED
    BY <1>a, <1>b, <2>1 DEF Ready, Good, Untouched, Tentative
<1>5. CASE UndoTentative(j)
  <2>1. /\ stage[j] = "undo"
        /\ \/ Throw(j)
           \/ Goto(j, "ratsnest", "applying") /\ LeaveLoop(j, FALSE)
           \/ Goto(j, "apply", "applying")
    BY <1>5 DEF UndoTentative
  <2>2. CASE Throw(j)
    BY <1>a, <2>1, <2>2 DEF Ready, Good, Untouched
  <2>3. CASE Goto(j, "ratsnest", "applying") /\ LeaveLoop(j, FALSE)
    BY <1>b, <1>d, <2>1, <2>3 DEF Ready, Good, Clean, Untouched
  <2>4. CASE Goto(j, "apply", "applying")
    BY <1>b, <2>1, <2>4 DEF Ready, Good, Untouched
  <2> QED
    BY <2>1, <2>2, <2>3, <2>4
<1>6. CASE RefillAfter(j)
  BY <1>6, <1>b DEF RefillAfter, Ready, Good, Untouched
<1>7. CASE Resave(j)
  <2>1. stage[j] = "resave" /\ Goto(j, "ratsnest", "saving") /\ Written /\ UNCHANGED <<work, stack>>
    BY <1>7 DEF Resave, persistAppliedRoute
  <2>2. Clean(j)'
    BY <2>1 DEF Clean, Written, Entries
  <2> QED
    BY <1>b, <2>1, <2>2 DEF Ready, Good, Untouched
<1>8. CASE Ratsnest(j)
  <2>1. stage[j] = "ratsnest" /\ Goto(j, "tracks", "done") /\ UNCHANGED <<work, stack, saved>>
    BY <1>8 DEF Ratsnest, boardVars
  <2>2. Clean(j)'
    BY <2>1 DEF Ready, Clean, Entries
  <2> QED
    BY <1>b, <2>1, <2>2 DEF Ready, Good, Untouched
<1>9. CASE Summarise(j)
  <2>1. stage[j] = "tracks" /\ stage'[j] = "over" /\ UNCHANGED <<state, work, stack, saved>> /\ emit(j, "done")
    BY <1>1, <1>9 DEF Summarise, boardVars
  <2>2. Clean(j)'
    BY <2>1 DEF Ready, Clean, Entries
  <2> QED
    BY <2>1, <2>2 DEF Ready, Good, Untouched
<1>10. CASE Fail(j)
  <2>1. Throw(j) /\ LeaveLoop(j, work[j].applied) /\ UNCHANGED saved
    BY <1>10 DEF Fail
  <2>2. work'[j].applied = work[j].applied
    BY <1>1, <2>1 DEF LeaveLoop, NoWork, Work
  <2>3. Good(j) => UNCHANGED stack
    BY <1>10 DEF Fail, Good
  <2>4. Good(j) => Clean(j)'
    BY <2>1, <2>2, <2>3 DEF Good, Clean, Entries
  <2> QED
    BY <1>a, <2>1, <2>4 DEF Ready, Good, Untouched
<1> QED
  BY <1>2, <1>3, <1>4, <1>5, <1>6, <1>7, <1>8, <1>9, <1>10 DEF Answer

LEMMA ReadyStep ==
  ASSUME TypeOK, ReadyInv, [Next]_vars
  PROVE  ReadyInv' /\ \A j \in Job : Good(j) => Good(j)'
<1>1. RouteTypeOK /\ stack \in Seq(Who) /\ stage \in [Job -> Stages] /\ work \in [Job -> Work]
  BY DEF TypeOK, RouteTypeOK, Who, Work
<1>2. ASSUME NEW j \in Job, Answer(j) \/ Fail(j)
      PROVE  ReadyInv' /\ \A k \in Job : Good(k) => Good(k)'
  <2>1. /\ StackStep(j) /\ OnlyOf(j) /\ j \in Who /\ (Written \/ UNCHANGED saved)
    BY <1>1, <1>2, AnswerFrame, FailFrame DEF Who
  <2>2. /\ Ready(j)' /\ (Good(j) => Good(j)')
        /\ \A k \in Job \ {j} : state'[k] = state[k]
    BY <1>1, <1>2, OwnReady DEF ReadyInv
  <2>3. ASSUME NEW k \in Job \ {j} PROVE Ready(k)' /\ (Good(k) => Good(k)')
    <3>1. stage'[k] = stage[k] /\ work'[k] = work[k] /\ state'[k] = state[k]
      BY <2>1, <2>2 DEF OnlyOf
    <3>2. Clean(k) => Clean(k)'
      BY <1>1, <2>1, <3>1, CleanStays
    <3> QED
      BY <3>1, <3>2 DEF ReadyInv, Ready, Good
  <2> QED
    BY <2>2, <2>3 DEF ReadyInv
<1>3. CASE StackStep(Editor) /\ UNCHANGED <<jobVars, saved>>
  <2>1. Editor \in Who /\ \A k \in Job : k # Editor
    BY RouteAssumption DEF Who
  <2>2. UNCHANGED <<stage, state, work, saved>>
    BY <1>3 DEF jobVars
  <2>3. \A k \in Job : Clean(k) => Clean(k)'
    BY <1>1, <1>3, <2>1, <2>2, CleanStays
  <2> QED
    BY <2>2, <2>3 DEF ReadyInv, Ready, Good
<1>4. ASSUME NEW j \in Job, NEW k \in Kind, NEW z \in Refill, start(j, k, z), UNCHANGED boardVars
      PROVE  ReadyInv' /\ \A i \in Job : Good(i) => Good(i)'
  <2>1. /\ UNCHANGED <<state, stack, saved>> /\ stage[j] = "none" /\ stage'[j] = "open"
        /\ \A i \in Job \ {j} : stage'[i] = stage[i] /\ work'[i] = work[i]
        /\ work'[j].applied = work[j].applied
    BY <1>1, <1>4 DEF start, boardVars, Work
  <2> QED
    BY <2>1 DEF ReadyInv, Ready, Good, Clean, Entries, Untouched
<1>5. CASE \/ \E j \in Job : cancel(j)
           \/ UNCHANGED <<jobVars, boardVars>>
  <2>1. UNCHANGED <<stage, state, work, stack, saved>>
    BY <1>5 DEF cancel, jobVars, boardVars
  <2> QED
    BY <2>1 DEF ReadyInv, Ready, Good, Clean, Entries
<1> QED
  BY <1>2, <1>3, <1>4, <1>5, JobSteps

\* A message that makes a run done.
Says(e) == e.ev = "done" \/ e.state = "done"

\* A run follows its own job, and is told "done" only of what is saved.
ToldInv ==
  /\ \A j \in Job : \A f \in listeners[j] : JobOf(f) = j
  /\ \A f \in Follower : \A i \in DOMAIN inbox[f] : Says(inbox[f][i]) => Good(JobOf(f))

\* What a step does to the streams.
LEMMA FollowSteps ==
  ASSUME TypeOK, [Next]_vars
  PROVE  \/ \E j \in Job : Answer(j) \/ Fail(j)
         \/ UNCHANGED <<listeners, inbox>>
         \/ \E r \in Run : \/ disconnect(r)
                           \/ stream(r, JobOf(r))
                           \/ /\ inbox[r] # <<>> /\ inbox' = [inbox EXCEPT ![r] = Tail(@)]
                              /\ UNCHANGED listeners
<1>1. CASE \E j \in Job : JobStep(j) \/ Fail(j)
  BY <1>1 DEF JobStep
<1>2. CASE \/ Others \/ cancelRun \/ UNCHANGED vars
           \/ \E j \in Job : Delete(j) \/ DeleteFails(j)
  BY <1>2 DEF Others, cancelRun, Delete, DeleteFails, cancel, vars, routeVars, followVars
<1>3. ASSUME NEW r \in Run, Read(r)
      PROVE  \/ disconnect(r)
             \/ /\ inbox[r] # <<>> /\ inbox' = [inbox EXCEPT ![r] = Tail(@)]
                /\ UNCHANGED listeners
  BY <1>3 DEF Read
<1>4. ASSUME NEW r \in Run, startRun(r) \/ AppStep(r) \/ AppFails(r) \/ GraceEnds(r), ~Read(r)
      PROVE  UNCHANGED <<listeners, inbox>> \/ disconnect(r) \/ stream(r, JobOf(r))
  <2>1. CASE startRun(r) \/ GraceEnds(r) \/ Resync(r) \/ Count(r)
    BY <2>1 DEF startRun, GraceEnds, Resync, Count, routeVars, followVars
  <2>2. CASE Post(r)
    BY <2>2 DEF Post, start, followVars
  <2>3. CASE Posted(r) \/ Fetched(r) \/ StreamAborted(r)
    BY <2>3 DEF Posted, Fetched, StreamAborted, routeVars, followVars
  <2>4. CASE AppFails(r)
    BY <2>4 DEF AppFails, PostFails, StreamBreaks, ResyncFails, followVars
  <2> QED
    BY <1>4, <2>1, <2>2, <2>3, <2>4 DEF AppStep
<1> QED
  BY <1>1, <1>2, <1>3, <1>4 DEF Next

LEMMA ToldStep ==
  ASSUME TypeOK, ReadyInv, ToldInv, [Next]_vars
  PROVE  ToldInv'
<1>1. /\ RouteTypeOK /\ inbox \in [Follower -> Seq(Message)] /\ listeners \in [Job -> SUBSET Follower]
      /\ \A r \in Follower : JobOf(r) \in Job
  BY AppAssumption DEF TypeOK, RouteTypeOK, Message, Run
<1>2. \A k \in Job : Good(k) => Good(k)'
  BY ReadyStep
\* A stream that only gets a part of what was told before, or the news of its job.
<1>3. ASSUME NEW f \in Follower,
             \A i \in DOMAIN inbox'[f] :
                \/ \E k \in DOMAIN inbox[f] : inbox'[f][i] = inbox[f][k]
                \/ Says(inbox'[f][i]) => Good(JobOf(f))'
      PROVE  \A i \in DOMAIN inbox'[f] : Says(inbox'[f][i]) => Good(JobOf(f))'
  BY <1>1, <1>2, <1>3 DEF ToldInv
<1>4. CASE UNCHANGED <<listeners, inbox>>
  BY <1>1, <1>2, <1>4 DEF ToldInv
<1>5. ASSUME NEW j \in Job, NEW ev \in {"done", "error"}, emit(j, ev),
             ev = "done" \/ state'[j] = "done" => Good(j)'
      PROVE  ToldInv'
  <2>1. \A k \in Job : listeners'[k] \subseteq listeners[k]
    BY <1>1, <1>5 DEF emit
  <2>2. ASSUME NEW f \in Follower
        PROVE  \A i \in DOMAIN inbox'[f] : Says(inbox'[f][i]) => Good(JobOf(f))'
    <3>1. CASE f \notin listeners[j]
      <4>1. inbox'[f] = inbox[f]
        BY <1>5, <3>1 DEF emit
      <4> QED
        BY <1>3, <4>1
    <3>2. CASE f \in listeners[j]
      <4>1. inbox'[f] = Append(inbox[f], Told(ev, j)) /\ JobOf(f) = j
        BY <1>5, <3>2 DEF emit, ToldInv
      <4>2. Says(Told(ev, j)) => Good(JobOf(f))'
        BY <1>5, <4>1 DEF Says, Told
      <4>3. \A i \in DOMAIN inbox'[f] : \/ i \in DOMAIN inbox[f] /\ inbox'[f][i] = inbox[f][i]
                                        \/ inbox'[f][i] = Told(ev, j)
        <5>1. PICK s : s = inbox[f] /\ s \in Seq(Message)
          BY <1>1
        <5>2. Told(ev, j) \in Message \union {Told(ev, j)} /\ s \in Seq(Message \union {Told(ev, j)})
          BY <5>1, SeqMonotonic
        <5>3. /\ DOMAIN s = 1..Len(s) /\ Len(s) \in Nat
              /\ Append(s, Told(ev, j)) \in Seq(Message \union {Told(ev, j)})
              /\ Len(Append(s, Told(ev, j))) = Len(s) + 1
              /\ \A i \in 1..Len(s) : Append(s, Told(ev, j))[i] = s[i]
              /\ Append(s, Told(ev, j))[Len(s) + 1] = Told(ev, j)
          BY <5>2, LenProperties, AppendProperties
        <5>4. DOMAIN Append(s, Told(ev, j)) = 1..(Len(s) + 1)
          BY <5>3, LenProperties
        <5> QED
          BY <4>1, <5>1, <5>3, <5>4
      <4> QED
        BY <1>3, <4>2, <4>3
    <3> QED
      BY <3>1, <3>2
  <2> QED
    BY <2>1, <2>2 DEF ToldInv
<1>6. ASSUME NEW j \in Job, Answer(j) \/ Fail(j) PROVE ToldInv'
  BY <1>1, <1>4, <1>5, <1>6, OwnReady DEF ReadyInv
<1>7. ASSUME NEW r \in Run,
             \/ disconnect(r)
             \/ stream(r, JobOf(r))
             \/ /\ inbox[r] # <<>> /\ inbox' = [inbox EXCEPT ![r] = Tail(@)]
                /\ UNCHANGED listeners
      PROVE  ToldInv'
  <2>1. r \in Follower /\ \A f \in Follower \ {r} : inbox'[f] = inbox[f]
    BY <1>1, <1>7 DEF disconnect, stream, Run
  <2>2. \A k \in Job : \A f \in listeners'[k] : JobOf(f) = k
    <3>1. \A k \in Job : listeners'[k] \subseteq listeners[k] \union (IF k = JobOf(r) THEN {r} ELSE {})
      BY <1>1, <1>7, <2>1 DEF disconnect, stream
    <3> QED
      BY <3>1 DEF ToldInv
  <2>3. \A i \in DOMAIN inbox'[r] : \/ \E k \in DOMAIN inbox[r] : inbox'[r][i] = inbox[r][k]
                                    \/ Says(inbox'[r][i]) => Good(JobOf(r))'
    <3>1. CASE disconnect(r)
      BY <1>1, <2>1, <3>1 DEF disconnect
    <3>2. CASE stream(r, JobOf(r))
      <4>1. state[JobOf(r)] = "done" => Good(JobOf(r))'
        BY <1>1, <1>2, <2>1 DEF ReadyInv, Ready
      <4>2. \A i \in DOMAIN inbox'[r] : inbox'[r][i].state = state[JobOf(r)] /\ inbox'[r][i].ev \in {"state", "closed"}
        BY <1>1, <2>1, <3>2 DEF stream
      <4> QED
        BY <4>1, <4>2 DEF Says
    <3>3. CASE inbox[r] # <<>> /\ inbox' = [inbox EXCEPT ![r] = Tail(@)]
      <4>1. PICK s \in Seq(Message) : s = inbox[r] /\ s # <<>> /\ inbox'[r] = Tail(s)
        BY <1>1, <2>1, <3>3
      <4>2. /\ Len(s) \in Nat /\ Len(s) # 0 /\ DOMAIN s = 1..Len(s)
            /\ Tail(s) \in Seq(Message) /\ Len(Tail(s)) = Len(s) - 1
            /\ \A i \in 1..Len(Tail(s)) : Tail(s)[i] = s[i + 1]
        BY <4>1, LenProperties, EmptySeq, HeadTailProperties
      <4>3. DOMAIN Tail(s) = 1..(Len(s) - 1)
        BY <4>2, LenProperties
      <4> QED
        BY <4>1, <4>2, <4>3
    <3> QED
      BY <1>7, <3>1, <3>2, <3>3
  <2>4. \A f \in Follower : \A i \in DOMAIN inbox'[f] : Says(inbox'[f][i]) => Good(JobOf(f))'
    <3> SUFFICES ASSUME NEW f \in Follower
                 PROVE  \A i \in DOMAIN inbox'[f] : Says(inbox'[f][i]) => Good(JobOf(f))'
      OBVIOUS
    <3>1. CASE f = r
      BY <1>3, <2>3, <3>1
    <3>2. CASE f # r
      BY <1>3, <2>1, <3>2
    <3> QED
      BY <3>1, <3>2
  <2> QED
    BY <2>2, <2>4 DEF ToldInv
<1> QED
  BY <1>4, <1>6, <1>7, FollowSteps

\* A run that is followed is the current one and has not ended; the current run reports
\* done only what is saved.
Followed == {"posting", "posted", "fetching", "reading"}
RunInv ==
  /\ \A r \in Run : at[r] \in Followed => run.id = r /\ ~isFinished(run)
  /\ run.id \in Run /\ run.state = "done" => Good(JobOf(run.id))

\* A board that cannot be read again fails the run it was read for, not a later one.
OwnFailure == \A r \in Run : ResyncFails(r) => run.id = r

LEMMA RunStep ==
  ASSUME TypeOK, ReadyInv, ToldInv, RunInv, [Next]_vars, OwnFailure
  PROVE  RunInv'
<1>1. /\ at \in [Run -> At] /\ run \in RunInfo /\ inbox \in [Follower -> Seq(Message)]
      /\ \A r \in Run : JobOf(r) \in Job
      /\ NoRun \notin Run
  BY AppAssumption DEF TypeOK, RunInfo, RouteTypeOK, Message
<1>2. \A k \in Job : Good(k) => Good(k)'
  BY ReadyStep
<1>3. CASE UNCHANGED <<at, run>>
  BY <1>1, <1>2, <1>3 DEF RunInv, isFinished
\* The end of a run, with an exception or without.
<1>4. ASSUME NEW r \in Run, run.id = r, at'[r] \notin Followed, \A q \in Run \ {r} : at'[q] = at[q],
             run'.id = r, run'.state = "done" => Good(JobOf(r)) \/ UNCHANGED run
      PROVE  RunInv'
  <2>1. \A q \in Run : at'[q] \notin Followed
    BY <1>1, <1>4 DEF RunInv
  <2>2. run'.state = "done" => Good(JobOf(r))
    BY <1>1, <1>4 DEF RunInv
  <2> QED
    BY <1>1, <1>2, <1>4, <2>1, <2>2 DEF RunInv
<1>5. ASSUME NEW r \in Run, NEW now \in RunInfo, NEW c \in BOOLEAN, Catch(r, now, c), run.id = r, now.id = r,
             now.state = "done" => Good(JobOf(r)) \/ now = run
      PROVE  RunInv'
  <2>1. at'[r] = "over" /\ \A q \in Run \ {r} : at'[q] = at[q]
    BY <1>1, <1>5 DEF Catch
  <2>2. run' = now \/ \E s \in {"cancelled", "failed"} : run' = [now EXCEPT !.state = s]
    BY <1>5 DEF Catch
  <2>3. run'.id = r /\ (run'.state = "done" => Good(JobOf(r)) \/ UNCHANGED run)
    BY <1>5, <2>2 DEF RunInfo
  <2> QED
    BY <1>4, <1>5, <2>1, <2>3 DEF Followed
<1>6. ASSUME NEW r \in Run, startRun(r) PROVE RunInv'
  <2>1. \A q \in Run : at[q] \notin Followed
    BY <1>1, <1>6 DEF RunInv, startRun, running
  <2>2. at'[r] = "posting" /\ \A q \in Run \ {r} : at'[q] = at[q]
    BY <1>1, <1>6 DEF startRun
  <2>3. run' = [id |-> r, state |-> "queued", summary |-> FALSE]
    BY <1>6 DEF startRun
  <2> QED
    BY <2>1, <2>2, <2>3 DEF RunInv, Followed, isFinished, finished
<1>7. ASSUME NEW r \in Run, Post(r) \/ Fetched(r) \/ (Posted(r) /\ ~signal[r]) PROVE RunInv'
  <2>1. at[r] \in Followed /\ at'[r] \in Followed /\ UNCHANGED run /\ \A q \in Run \ {r} : at'[q] = at[q]
    BY <1>1, <1>7 DEF Post, Fetched, Posted, Followed
  <2> QED
    BY <1>1, <1>2, <2>1 DEF RunInv, isFinished
<1>8. ASSUME NEW r \in Run, \/ PostFails(r) \/ StreamBreaks(r) \/ ResyncFails(r) \/ StreamAborted(r)
                            \/ (Posted(r) /\ signal[r])
      PROVE  RunInv'
  <2>1. Catch(r, run, FALSE) /\ (at[r] \in Followed \/ ResyncFails(r))
    BY <1>8 DEF PostFails, StreamBreaks, ResyncFails, StreamAborted, Posted, Followed
  <2>2. run.id = r
    BY <2>1 DEF RunInv, OwnFailure
  <2> QED
    BY <1>1, <1>5, <2>1, <2>2
<1>9. ASSUME NEW r \in Run, Read(r) PROVE RunInv'
  <2>1. /\ at[r] = "reading" /\ at[r] \in Followed /\ inbox[r] # <<>> /\ r \in Follower
        /\ run.id = r /\ run.state # "done"
    BY <1>1, <1>9 DEF Read, Followed, RunInv, isFinished, finished, Run
  <2>2. Head(inbox[r]) \in Message /\ 1 \in DOMAIN inbox[r] /\ Head(inbox[r]) = inbox[r][1]
    <3>1. PICK s \in Seq(Message) : s = inbox[r] /\ s # <<>>
      BY <1>1, <2>1
    <3>2. Len(s) \in Nat /\ Len(s) # 0 /\ DOMAIN s = 1..Len(s) /\ Head(s) = s[1] /\ Head(s) \in Message
      BY <3>1, LenProperties, EmptySeq, HeadTailProperties
    <3> QED
      BY <3>1, <3>2
  <2>3. PICK e \in Message : e = Head(inbox[r])
    BY <2>2
  <2>4. Says(e) => Good(JobOf(r))
    BY <2>1, <2>2, <2>3 DEF ToldInv
  <2>5. PICK now \in RunInfo : /\ now = IF e.ev = "closed" THEN run ELSE applyBridgeEvent(e)
                               /\ now.id = r /\ (now.state = "done" => Good(JobOf(r)))
    <3>1. CASE e.ev = "closed"
      BY <1>1, <2>1, <3>1
    <3>2. CASE e.ev # "closed"
      <4>1. PICK s \in States : /\ s = CASE e.ev = "done" -> "done"
                                         [] e.ev = "error" -> IF e.state = "cancelled" THEN "cancelled" ELSE "failed"
                                         [] OTHER -> e.state
                                /\ s = "done" => Says(e)
        BY <2>3 DEF States, Message, Says
      <4>2. PICK b \in BOOLEAN : b = (run.summary \/ e.summary)
        BY <1>1, <2>3 DEF RunInfo, Message
      <4>3. applyBridgeEvent(e) = [run EXCEPT !.state = s, !.summary = b]
        BY <4>1, <4>2 DEF applyBridgeEvent
      <4>4. applyBridgeEvent(e) \in RunInfo /\ applyBridgeEvent(e).id = r /\ applyBridgeEvent(e).state = s
        BY <1>1, <2>1, <4>3 DEF RunInfo
      <4> QED
        BY <2>4, <3>2, <4>1, <4>4
    <3> QED
      BY <3>1, <3>2
  <2>6. \/ run' = now /\ UNCHANGED at /\ ~isFinished(now)
        \/ Catch(r, run, FALSE)
        \/ run' = now /\ at' = [at EXCEPT ![r] = "resync"]
        \/ Catch(r, now, now.state = "cancelled")
    BY <1>9, <2>3, <2>5 DEF Read
  <2>7. CASE run' = now /\ UNCHANGED at /\ ~isFinished(now)
    BY <1>1, <1>2, <2>1, <2>5, <2>7 DEF RunInv, isFinished
  <2>8. CASE Catch(r, run, FALSE)
    BY <1>1, <1>5, <2>1, <2>8
  <2>9. CASE run' = now /\ at' = [at EXCEPT ![r] = "resync"]
    <3>1. at'[r] \notin Followed /\ \A q \in Run \ {r} : at'[q] = at[q]
      BY <1>1, <2>9 DEF Followed
    <3> QED
      BY <1>4, <2>1, <2>5, <2>9, <3>1
  <2>10. CASE Catch(r, now, now.state = "cancelled")
    BY <1>5, <2>1, <2>5, <2>10
  <2> QED
    BY <2>6, <2>7, <2>8, <2>9, <2>10
<1>10. ASSUME NEW r \in Run, Resync(r) \/ Count(r) PROVE RunInv'
  <2>1. at'[r] \notin Followed /\ UNCHANGED run /\ \A q \in Run \ {r} : at'[q] = at[q]
    BY <1>1, <1>10 DEF Resync, Count, Followed
  <2> QED
    BY <1>1, <1>2, <2>1 DEF RunInv, isFinished
<1>11. CASE \/ \E j \in Job : (JobStep(j) \/ Fail(j)) /\ UNCHANGED appVars
            \/ Others /\ UNCHANGED appVars
            \/ cancelRun \/ UNCHANGED vars
            \/ \E j \in Job : Delete(j) \/ DeleteFails(j)
            \/ \E r \in Run : GraceEnds(r)
  <2>1. UNCHANGED <<at, run>>
    BY <1>11 DEF appVars, cancelRun, vars, Delete, DeleteFails, GraceEnds
  <2> QED
    BY <1>3, <2>1
<1> QED
  BY <1>6, <1>7, <1>8, <1>9, <1>10, <1>11 DEF Next, AppStep, AppFails

\* Every job that reports done, and did not merely route nothing, has its commit in the
\* file, and so has the run that follows it, whatever else fails, is cancelled, edited or
\* undone (bridge-job.ts:500-520, KicadAutorouteService.ts:122-144, 278-293), as long as
\* no run whose board could not be read again marks a later run as failed
\* (KicadAutorouteService.ts:136, 296): after that the later run is overtaken while it
\* still listens, and gives its own end to the run after it.
THEOREM DoneRunsAreSaved == Spec /\ [][OwnFailure]_vars => []DoneIsSaved
<1>1. Init => ReadyInv /\ ToldInv /\ RunInv
  <2> SUFFICES ASSUME Init PROVE ReadyInv /\ ToldInv /\ RunInv
    OBVIOUS
  <2>1. DOMAIN <<>> = {}
    OBVIOUS
  <2> QED
    BY <2>1 DEF Init, RouteInit, ReadyInv, Ready, ToldInv, RunInv, Followed, NoWork
<1>2. Spec => [](TypeOK /\ ReadyInv /\ ToldInv)
  BY <1>1, ReadyStep, ToldStep, TypeCorrect, PTL DEF Spec
<1>3. TypeOK /\ ReadyInv /\ ToldInv /\ RunInv /\ [Next]_vars /\ [OwnFailure]_vars => RunInv'
  <2>1. CASE UNCHANGED vars
    BY <2>1 DEF vars, routeVars, appVars, jobVars, boardVars, followVars, RunInv, Good, Clean, Entries, isFinished
  <2>2. CASE OwnFailure
    BY <2>2, RunStep
  <2> QED
    BY <2>1, <2>2
<1>4. TypeOK /\ ReadyInv /\ RunInv => DoneIsSaved
  BY AppAssumption DEF ReadyInv, Ready, RunInv, Good, Clean, DoneIsSaved
<1> QED
  BY <1>1, <1>2, <1>3, <1>4, PTL DEF Spec

(***************************************************************************)
(* Revision tracking: KicadDocumentService and KiCadEvents.                 *)
(***************************************************************************)

\* Nothing cut the connection: LinkUp never runs, so events flow all the time or never.
Steady == count.drops = 0

\* What is under way is numbered up to the last sequence and of a revision that exists,
\* the file has been written at the revision a save names; nothing is under way while the
\* link is down.
WireRanges ==
  /\ \A j \in 1..Len(wire) : /\ wire[j].seq = seq - Len(wire) + j
                             /\ wire[j].rev \in 1..rev
                             /\ wire[j].kind = "saved" => wire[j].rev <= onDisk
  /\ Len(wire) <= seq
  /\ ~link => wire = <<>>

\* So is what waits in the queue.
QueueRanges ==
  \A j \in 1..Len(queue) :
    IF queue[j].kind = "poll" THEN queue[j].rev = None
    ELSE queue[j].rev \in 1..rev /\ (queue[j].kind = "saved" => queue[j].rev <= onDisk)

\* And what the poll and the handlers hold.
OtherRanges ==
  /\ count \in [Bounded -> Nat]
  /\ onDisk <= rev /\ own \subseteq 1..rev
  /\ handling <= rev /\ got <= rev /\ pollAt <= rev
  /\ got # None => polling # "no"
  /\ polling = "refresh" => pollAt # None

Ranges == DocumentTypeOK /\ WireRanges /\ QueueRanges /\ OtherRanges

\* A call of our own is open only if one began.
Began ==
  /\ count.commits = 0 => commitAt = "no"
  /\ count.commands = 0 => commandAt = "no"
  /\ count.saves = 0 => saveAt = "no"
  /\ count.commits = 0 /\ count.commands = 0 => own = {}

\* Without a connection nothing comes that would queue a handler.
Deaf == Steady => /\ link = mode.relay
                  /\ ~link => queue = <<>> /\ handling = None /\ ~forced

\* Events keep their order, and the sequence tells how many were lost.
Lost == seq - Len(wire) - lastSeq
InOrder ==
  /\ \A i, j \in 1..Len(wire) : i < j /\ wire[j].kind = "changed" => wire[i].rev < wire[j].rev
  /\ Steady /\ link => /\ Lost >= 0 /\ (lastSeq = 0 => Lost = 0)
                       /\ count.losses = 0 => Lost = 0

\* A forced poll holds the queue, and the event that showed the gap waits behind it.
PollsForced == Steady /\ link =>
  /\ polling # "no" => forced
  /\ forced => queue # <<>>
  /\ queue # <<>> => queue[Len(queue)].kind # "poll"
  /\ count.losses = 0 => polling = "no" /\ \A j \in 1..Len(queue) : queue[j].kind # "poll"

\* The last event under way, or else the last one handled, is of the last revision.
Latest == Steady /\ link =>
  IF wire # <<>> THEN wire[Len(wire)].rev = rev
  ELSE lastSeq = seq => CASE queue # <<>> -> queue[Len(queue)].rev = rev
                          [] queue = <<>> /\ handling # None -> handling = rev
                          [] OTHER -> known = rev

\* While the timer's re-read is under way nothing else moves what is known.
RereadKnown == Steady /\ CallsOfOurs = 0 /\ polling = "refresh" => pollAt = known

Kept == count.drops = 0 /\ count.fails = 0
ChangedIn(s, r) == \E j \in 1..Len(s) : s[j].kind = "changed" /\ s[j].rev = r
Timed == Kept /\ CallsOfOurs = 0 /\ ~link =>
  IF polling = "refresh" THEN got # None => got >= known ELSE 1..known \subseteq shown

\* Case of no lost event.
Announced == Kept /\ count.losses = 0 /\ link =>
  \A r \in 1..rev \ shown :
    IF r \in own THEN commandAt = "reading" ELSE ChangedIn(queue, r) \/ handling = r \/ ChangedIn(wire, r)

Behind(r) == known < r /\ handling < r
Reread(r) == polling = "refresh" /\ (got = None \/ got >= r)
ToCome(r) == Behind(r) /\ (\A j \in 1..Len(queue) : queue[j].rev < r) /\ (ChangedIn(wire, r) \/ Lost > 0)
Asked(r) == Behind(r) /\ polling = "revision" /\ (got = None \/ got >= r)
ToAsk(r) == Behind(r) /\ \E p \in 1..Len(queue) : queue[p].kind = "poll" /\ \A j \in 1..(p - 1) : queue[j].rev < r
Checked == Kept /\ CallsOfOurs = 0 /\ link =>
  \A r \in 1..rev \ shown :
    ChangedIn(queue, r) \/ handling = r \/ Reread(r) \/ ToCome(r) \/ Asked(r) \/ ToAsk(r)

CleanKnown == NothingSkipped /\ ~dirty /\ polling # "refresh" => known = savedRev
FileKept == count.saves = 0 => savedRev <= onDisk
-----------------------------------------------------------------------------
(* What sequences of events and handlers become. *)

\* What is left of a queue when its head is taken.
LEMMA TailItems ==
  ASSUME NEW S, NEW s \in Seq(S), s # <<>>
  PROVE  /\ Len(s) \in Nat \ {0} /\ Head(s) = s[1] /\ s[1] \in S
         /\ Tail(s) \in Seq(S) /\ Len(Tail(s)) = Len(s) - 1
         /\ \A j \in 1..(Len(s) - 1) : Tail(s)[j] = s[j + 1]
<1>1. /\ Len(s) \in Nat \ {0}
      /\ Head(s) \in S /\ Tail(s) \in Seq(S) /\ Len(Tail(s)) = Len(s) - 1
      /\ \A j \in 1..Len(Tail(s)) : Tail(s)[j] = s[j + 1]
  BY HeadTailProperties, LenProperties, EmptySeq
<1>2. Head(s) = s[1]
  BY <1>1
<1> QED
  BY <1>1, <1>2

\* Handlers are queued at the end.
LEMMA LaterItems ==
  ASSUME NEW S, NEW s \in Seq(S), NEW h \in Seq(S)
  PROVE  /\ s \o h \in Seq(S) /\ Len(s) \in Nat /\ Len(h) \in Nat /\ Len(s \o h) = Len(s) + Len(h)
         /\ \A j \in 1..Len(s) : (s \o h)[j] = s[j]
         /\ \A j \in 1..Len(h) : (s \o h)[Len(s) + j] = h[j]
<1>1. /\ s \o h \in Seq(S) /\ Len(s) \in Nat /\ Len(h) \in Nat /\ Len(s \o h) = Len(s) + Len(h)
      /\ \A j \in 1..(Len(s) + Len(h)) : (s \o h)[j] = IF j <= Len(s) THEN s[j] ELSE h[j - Len(s)]
  BY ConcatProperties, LenProperties
<1> QED
  BY <1>1

\* An event of KiCad's is sent while the link is up, and numbered in any case.
LEMMA Published ==
  ASSUME DocumentTypeOK, NEW k \in {"changed", "saved"}, NEW r \in Revs, Publish(k, r)
  PROVE  /\ seq' = seq + 1 /\ wire' \in Seq(Event) /\ Len(wire) \in Nat
         /\ ~link => wire' = wire
         /\ link => /\ Len(wire') = Len(wire) + 1
                    /\ \A j \in 1..Len(wire) : wire'[j] = wire[j]
                    /\ wire'[Len(wire) + 1].seq = seq + 1
                    /\ wire'[Len(wire) + 1].kind = k
                    /\ wire'[Len(wire) + 1].rev = r
<1> DEFINE e == [seq |-> seq + 1, kind |-> k, rev |-> r]
<1>1. e \in Event /\ wire \in Seq(Event)
  BY DEF DocumentTypeOK, Event
<1>2. /\ Append(wire, e) \in Seq(Event) /\ Len(Append(wire, e)) = Len(wire) + 1
      /\ \A j \in 1..Len(wire) : Append(wire, e)[j] = wire[j]
      /\ Append(wire, e)[Len(wire) + 1] = e
  <2> HIDE DEF e
  <2> QED
    BY <1>1, AppendProperties
<1>3. seq' = seq + 1 /\ wire' = IF link THEN Append(wire, e) ELSE wire
  BY DEF Publish
<1>4. e.seq = seq + 1 /\ e.kind = k /\ e.rev = r
  OBVIOUS
<1>5. Len(wire) \in Nat
  BY <1>1, LenProperties
<1> HIDE DEF e
<1> QED
  BY <1>1, <1>2, <1>3, <1>4, <1>5

\* A bounded thing happened once more.
LEMMA Counted ==
  ASSUME DocumentTypeOK, OtherRanges, NEW k \in Bounded, Once(k)
  PROVE  /\ count' \in [Bounded -> Nat]
         /\ count'[k] = count[k] + 1 /\ count'[k] <= mode.max[k]
         /\ \A i \in Bounded : i # k => count'[i] = count[i]
<1>1. mode.max[k] \in Nat
  BY DocumentAssumption DEF DocumentTypeOK
<1> QED
  BY <1>1 DEF Once, OtherRanges

-----------------------------------------------------------------------------
(* Types and ranges. *)

\* A new event keeps the ranges of those under way.
LEMMA PublishedRanges ==
  ASSUME DocumentTypeOK, WireRanges, NEW k \in {"changed", "saved"}, NEW r \in Revs, Publish(k, r),
         link' = link, rev' \in Nat, rev <= rev', onDisk' \in Nat, onDisk <= onDisk',
         r \in 1..rev', k = "saved" => r <= onDisk'
  PROVE  WireRanges' /\ wire' \in Seq(Event) /\ seq' = seq + 1
<1>1. /\ seq' = seq + 1 /\ wire' \in Seq(Event) /\ Len(wire) \in Nat
      /\ ~link => wire' = wire
      /\ link => /\ Len(wire') = Len(wire) + 1
                 /\ \A j \in 1..Len(wire) : wire'[j] = wire[j]
                 /\ wire'[Len(wire) + 1].seq = seq + 1
                 /\ wire'[Len(wire) + 1].kind = k
                 /\ wire'[Len(wire) + 1].rev = r
  BY Published
<1>2. seq \in Nat /\ rev \in Nat /\ onDisk \in Nat
  BY DocumentAssumption DEF DocumentTypeOK
<1>3. CASE link
  <2> SUFFICES ASSUME NEW j \in 1..Len(wire')
               PROVE  /\ wire'[j].seq = seq' - Len(wire') + j
                      /\ wire'[j].rev \in 1..rev'
                      /\ wire'[j].kind = "saved" => wire'[j].rev <= onDisk'
    <3>1. Len(wire) <= seq
      BY DEF WireRanges
    <3>2. Len(wire') <= seq'
      <4>1. Len(wire') = Len(wire) + 1 /\ seq' = seq + 1 /\ Len(wire) \in Nat
        BY <1>1, <1>3
      <4> QED
        BY ONLY <1>2, <3>1, <4>1
    <3> QED
      BY <1>1, <1>3, <3>2 DEF WireRanges
  <2>1. CASE j \in 1..Len(wire)
    <3>1. wire'[j] = wire[j] /\ j \in Nat
      BY <1>1, <1>3, <2>1
    <3>2. /\ wire[j].seq = seq - Len(wire) + j /\ wire[j].rev \in 1..rev
          /\ wire[j].kind = "saved" => wire[j].rev <= onDisk
      BY <2>1 DEF WireRanges
    <3>3. Len(wire') = Len(wire) + 1
      BY <1>1, <1>3
    <3> QED
      BY <1>1, <1>2, <3>1, <3>2, <3>3
  <2>2. CASE j = Len(wire) + 1
    BY <1>1, <1>2, <1>3, <2>2
  <2> QED
    BY <1>1, <1>3, <2>1, <2>2
<1>4. CASE ~link
  <2>1. wire = <<>> /\ wire' = <<>>
    BY <1>1, <1>4 DEF WireRanges
  <2>2. Len(wire') = 0
    BY <2>1
  <2> QED
    BY <1>1, <1>2, <2>1, <2>2 DEF WireRanges
<1> QED
  BY <1>1, <1>3, <1>4

\* So does taking the first one away.
LEMMA TakenRanges ==
  ASSUME DocumentTypeOK, WireRanges, wire # <<>>, wire' = Tail(wire), UNCHANGED <<seq, rev, onDisk, link>>
  PROVE  /\ WireRanges' /\ wire' \in Seq(Event)
         /\ Len(wire) \in Nat \ {0} /\ Len(wire') = Len(wire) - 1
         /\ \A j \in 1..Len(wire') : wire'[j] = wire[j + 1]
         /\ Head(wire) = wire[1] /\ wire[1] \in Event
<1>1. wire \in Seq(Event)
  BY DEF DocumentTypeOK
<1>2. /\ Len(wire) \in Nat \ {0} /\ Head(wire) = wire[1] /\ wire[1] \in Event
      /\ wire' \in Seq(Event) /\ Len(wire') = Len(wire) - 1
      /\ \A j \in 1..(Len(wire) - 1) : wire'[j] = wire[j + 1]
  BY <1>1, TailItems
<1>3. seq \in Nat
  BY DEF DocumentTypeOK
<1> QED
  BY <1>2, <1>3 DEF WireRanges

\* And a handler leaving the queue.
LEMMA RunRanges ==
  ASSUME DocumentTypeOK, QueueRanges, queue # <<>>, queue' = Tail(queue),
         rev' = rev, onDisk' = onDisk
  PROVE  /\ QueueRanges' /\ queue' \in Seq(Handler)
         /\ Len(queue) \in Nat \ {0} /\ Len(queue') = Len(queue) - 1
         /\ \A j \in 1..Len(queue') : queue'[j] = queue[j + 1]
         /\ Next1 = queue[1] /\ queue[1] \in Handler
<1>1. queue \in Seq(Handler)
  BY DEF DocumentTypeOK
<1>2. /\ Len(queue) \in Nat \ {0} /\ Head(queue) = queue[1] /\ queue[1] \in Handler
      /\ queue' \in Seq(Handler) /\ Len(queue') = Len(queue) - 1
      /\ \A j \in 1..(Len(queue) - 1) : queue'[j] = queue[j + 1]
  BY <1>1, TailItems
<1> QED
  BY <1>2 DEF QueueRanges, Next1

\* What an event adds to the queue: itself, after a check of the gap it shows.
LEMMA ArrivedItems ==
  ASSUME DocumentTypeOK, WireRanges, QueueRanges, EventArrives
  PROVE  /\ queue' \in Seq(Handler) /\ Len(queue) \in Nat
         /\ \A j \in 1..Len(queue) : queue'[j] = queue[j]
         /\ Len(queue') = Len(queue) + (IF lastSeq # 0 /\ Lost > 0 THEN 2 ELSE 1)
         /\ lastSeq # 0 /\ Lost > 0 => queue'[Len(queue) + 1] = PollForced
         /\ queue'[Len(queue')].kind = wire[1].kind /\ queue'[Len(queue')].rev = wire[1].rev
         /\ lastSeq' = seq - Len(wire) + 1
<1> DEFINE e == Head(wire)
           h == [kind |-> e.kind, rev |-> e.rev]
           hs == GapCheck(e) \o <<h>>
<1>1. /\ wire # <<>> /\ wire' = Tail(wire) /\ lastSeq' = e.seq
      /\ queue' = queue \o hs
      /\ UNCHANGED <<seq, rev, onDisk, link>>
  BY DEF EventArrives, Later, server
<1>2. /\ Len(wire) \in Nat \ {0} /\ e = wire[1] /\ wire[1] \in Event
  BY <1>1, TakenRanges
<1>3. h \in Handler /\ PollForced \in Handler /\ queue \in Seq(Handler)
  BY <1>2 DEF Handler, Event, PollForced, DocumentTypeOK
<1>4. e.seq = seq - Len(wire) + 1
  BY <1>2 DEF WireRanges
<1>5. (lastSeq # 0 /\ e.seq > lastSeq + 1) <=> (lastSeq # 0 /\ Lost > 0)
  BY <1>2, <1>4 DEF Lost, DocumentTypeOK
<1>6. /\ hs \in Seq(Handler)
      /\ IF lastSeq # 0 /\ Lost > 0 THEN Len(hs) = 2 /\ hs[1] = PollForced /\ hs[2] = h
         ELSE Len(hs) = 1 /\ hs[1] = h
  <2> HIDE DEF h, e
  <2>1. /\ GapCheck(e) \in Seq(Handler)
        /\ IF lastSeq # 0 /\ Lost > 0 THEN Len(GapCheck(e)) = 1 /\ GapCheck(e)[1] = PollForced
           ELSE Len(GapCheck(e)) = 0
    BY <1>3, <1>5 DEF GapCheck
  <2>2. <<h>> \in Seq(Handler) /\ Len(<<h>>) = 1 /\ <<h>>[1] = h
    BY <1>3
  <2>3. /\ hs \in Seq(Handler) /\ Len(hs) = Len(GapCheck(e)) + Len(<<h>>)
        /\ \A j \in 1..Len(GapCheck(e)) : hs[j] = GapCheck(e)[j]
        /\ \A j \in 1..Len(<<h>>) : hs[Len(GapCheck(e)) + j] = <<h>>[j]
    BY <2>1, <2>2, LaterItems
  <2>4. \A j \in 1..1 : hs[Len(GapCheck(e)) + j] = h
    BY <2>2, <2>3
  <2>5. hs[Len(GapCheck(e)) + 1] = h
    BY <2>4
  <2> QED
    BY <2>1, <2>2, <2>3, <2>5
<1>7. /\ queue \o hs \in Seq(Handler) /\ Len(queue) \in Nat /\ Len(queue \o hs) = Len(queue) + Len(hs)
      /\ \A j \in 1..Len(queue) : (queue \o hs)[j] = queue[j]
      /\ \A j \in 1..Len(hs) : (queue \o hs)[Len(queue) + j] = hs[j]
  <2> HIDE DEF hs
  <2> QED
    BY <1>3, <1>6, LaterItems
<1>8. h.kind = wire[1].kind /\ h.rev = wire[1].rev
  BY <1>2
<1> HIDE DEF hs, h, e
<1>9. CASE lastSeq # 0 /\ Lost > 0
  <2>1. Len(hs) = 2 /\ hs[1] = PollForced /\ hs[2] = h
    BY <1>6, <1>9
  <2> QED
    BY <1>1, <1>4, <1>7, <1>8, <1>9, <2>1
<1>10. CASE ~(lastSeq # 0 /\ Lost > 0)
  <2>1. Len(hs) = 1 /\ hs[1] = h
    BY <1>6, <1>10
  <2> QED
    BY <1>1, <1>4, <1>7, <1>8, <1>10, <2>1
<1> QED
  BY <1>9, <1>10

\* What no step changes: the kind of behaviour; and the numbers that only grow.
Values ==
  /\ MaxRev \in Nat \ {0} /\ mode \in Mode
  /\ rev \in 1..MaxRev /\ onDisk \in 1..MaxRev /\ seq \in Nat /\ lastSeq \in 0..seq
  /\ handling \in Revs /\ got \in Revs /\ pollAt \in Revs
  /\ known \in 1..rev /\ savedRev \in 1..rev

LEMMA TypedValues ==
  ASSUME DocumentTypeOK
  PROVE  Values /\ mode.max.revs <= MaxRev
BY DocumentAssumption DEF DocumentTypeOK, Values

LEMMA TypedValuesNext ==
  ASSUME DocumentTypeOK'
  PROVE  Values'
BY DocumentAssumption DEF DocumentTypeOK, Values

\* A step of KiCad's that changes the document.
LEMMA ChangesType ==
  ASSUME Ranges, NEW isOwn \in BOOLEAN, Changes(isOwn), UNCHANGED <<mode, link, lastSeq>>
  PROVE  /\ WireRanges' /\ wire' \in Seq(Event) /\ seq' = seq + 1
         /\ rev' = rev + 1 /\ rev' \in 1..MaxRev /\ onDisk' = onDisk
         /\ own' = IF isOwn THEN own \union {rev'} ELSE own
<1>1. Values /\ mode.max.revs \in 1..MaxRev
  BY TypedValues, DocumentAssumption DEF Ranges, DocumentTypeOK
<1>2. /\ rev < mode.max.revs /\ rev' = rev + 1 /\ onDisk' = onDisk
      /\ Publish("changed", rev + 1)
      /\ own' = IF isOwn THEN own \union {rev'} ELSE own
  BY DEF Changes
<1>3. rev + 1 \in Revs /\ rev' \in 1..MaxRev
  BY <1>1, <1>2 DEF Values, Revs
<1>4. rev <= rev' /\ rev' \in Nat /\ onDisk' \in Nat /\ onDisk <= onDisk' /\ rev + 1 \in 1..rev'
  BY <1>1, <1>2 DEF Values
<1> QED
  BY <1>2, <1>3, <1>4, PublishedRanges DEF Ranges

\* A step of KiCad's that writes the file.
LEMMA WritesType ==
  ASSUME Ranges, onDisk' = rev, Publish("saved", rev), UNCHANGED <<mode, link, lastSeq, rev>>
  PROVE  WireRanges' /\ wire' \in Seq(Event) /\ seq' = seq + 1
<1>1. Values
  BY TypedValues DEF Ranges
<1>2. rev \in Revs /\ rev' \in Nat /\ rev <= rev' /\ onDisk' \in Nat /\ onDisk <= onDisk' /\ rev \in 1..rev' /\ rev <= onDisk'
  BY <1>1 DEF Values, Revs, Ranges, OtherRanges
<1> QED
  BY <1>2, PublishedRanges DEF Ranges

\* The counters stay within their bounds.
Counters == count \in [Bounded -> Nat] /\ \A k \in Bounded : count[k] \in 0..mode.max[k]

LEMMA CountersStep ==
  ASSUME Ranges, [DocumentNext]_documentVars
  PROVE  mode' = mode /\ Counters'
<1>1. mode' = mode
  BY DEF DocumentNext, External, Handle, Poll, OwnCalls, documentVars,
         ForeignChange, ForeignSave, LoseEvent, LinkDown, LinkUp, EventArrives,
         HandleOwn, HandleForeign, HandledForeign, HandleSaved, HandlePoll,
         PollTimer, PollServed, PollRevision, PollRefresh, PushCommit, DropCommit, Resynced,
         AfterCommit, SaveServed, Saved, BeginCommit, Command, save
<1>2. count' = count \/ \E k \in Bounded : Once(k)
  BY DEF DocumentNext, External, Handle, Poll, OwnCalls, documentVars, Bounded, FailsToRead,
         ForeignChange, ForeignSave, LoseEvent, LinkDown, LinkUp, EventArrives,
         HandleOwn, HandleForeign, HandledForeign, HandleSaved, HandlePoll,
         PollTimer, PollServed, PollRevision, PollRefresh, PushCommit, DropCommit, Resynced,
         AfterCommit, SaveServed, Saved, BeginCommit, Command, save
<1>3. Counters
  BY DEF Ranges, OtherRanges, DocumentTypeOK, Counters
<1>4. CASE count' = count
  BY <1>1, <1>3, <1>4 DEF Counters
<1>5. CASE \E k \in Bounded : Once(k)
  <2> PICK k \in Bounded : Once(k)
    BY <1>5
  <2>1. /\ count' \in [Bounded -> Nat] /\ count'[k] = count[k] + 1 /\ count'[k] <= mode.max[k]
        /\ \A i \in Bounded : i # k => count'[i] = count[i]
    BY Counted DEF Ranges
  <2> QED
    BY <1>1, <1>3, <2>1 DEF Counters
<1> QED
  BY <1>2, <1>4, <1>5

\* What waits keeps its ranges while revisions only grow.
LEMMA QueueKept ==
  ASSUME Ranges, queue' = queue, rev' \in Nat, rev <= rev', onDisk' \in Nat, onDisk <= onDisk'
  PROVE  QueueRanges' /\ queue' \in Seq(Handler)
<1>1. rev \in Nat /\ onDisk \in Nat
  BY TypedValues DEF Ranges, Values
<1>2. SUFFICES ASSUME NEW j \in 1..Len(queue)
               PROVE  IF queue[j].kind = "poll" THEN queue[j].rev = None
                      ELSE queue[j].rev \in 1..rev' /\ (queue[j].kind = "saved" => queue[j].rev <= onDisk')
  BY DEF QueueRanges, Ranges, DocumentTypeOK
<1>3. IF queue[j].kind = "poll" THEN queue[j].rev = None
      ELSE queue[j].rev \in 1..rev /\ (queue[j].kind = "saved" => queue[j].rev <= onDisk)
  BY DEF Ranges, QueueRanges
<1> QED
  BY <1>1, <1>3

\* Every step keeps types and ranges.
LEMMA RangesStep ==
  ASSUME Ranges, [DocumentNext]_documentVars
  PROVE  Ranges'
<1>1. mode' = mode /\ Counters'
  BY CountersStep
<1>2. Values /\ DocumentTypeOK /\ WireRanges /\ QueueRanges /\ OtherRanges
  BY TypedValues DEF Ranges
<1>3. CASE documentVars' = documentVars
  <2>1. /\ UNCHANGED <<mode, server, wire, link, lastSeq, queue, handling, marks, poll, calls, count>>
    BY <1>3 DEF documentVars
  <2>2. WireRanges' /\ QueueRanges'
    BY <1>2, <2>1 DEF WireRanges, QueueRanges, server
  <2>3. OtherRanges' /\ DocumentTypeOK'
    BY <1>2, <2>1 DEF OtherRanges, DocumentTypeOK, server, marks, poll, calls
  <2> QED
    BY <2>2, <2>3 DEF Ranges
<1> USE DEF Ranges, DocumentTypeOK, OtherRanges, Values, Counters, server, marks, poll, calls, None
<1>4. CASE ForeignChange
  <2>1. /\ WireRanges' /\ wire' \in Seq(Event) /\ seq' = seq + 1
        /\ rev' = rev + 1 /\ rev' \in 1..MaxRev /\ onDisk' = onDisk /\ own' = own
    BY <1>1, <1>4, ChangesType DEF ForeignChange
  <2>2. QueueRanges' /\ queue' \in Seq(Handler)
    BY <1>2, <1>4, <2>1, QueueKept DEF ForeignChange
  <2> QED
    BY <1>1, <1>2, <1>4, <2>1, <2>2 DEF ForeignChange, Revs
<1>5. CASE Command \/ PushCommit
  <2>1. /\ WireRanges' /\ wire' \in Seq(Event) /\ seq' = seq + 1
        /\ rev' = rev + 1 /\ rev' \in 1..MaxRev /\ onDisk' = onDisk /\ own' = own \union {rev'}
    BY <1>1, <1>5, ChangesType DEF Command, PushCommit
  <2>2. QueueRanges' /\ queue' \in Seq(Handler)
    <3>1. queue' = queue /\ rev' \in Nat /\ rev <= rev' /\ onDisk' \in Nat /\ onDisk <= onDisk'
      <4>1. queue' = queue
        BY <1>5 DEF Command, PushCommit
      <4> HIDE DEF Ranges, DocumentTypeOK, OtherRanges, Counters
      <4> QED
        BY <1>2, <2>1, <4>1
    <3> QED
      BY <1>2, <3>1, QueueKept
  <2>3. CASE Command
    BY <1>1, <1>2, <2>1, <2>2, <2>3 DEF Command, Revs
  <2>4. CASE PushCommit
    BY <1>1, <1>2, <2>1, <2>2, <2>4 DEF PushCommit, Reads, Revs
  <2> QED
    BY <1>5, <2>3, <2>4
<1>6. CASE ForeignSave \/ SaveServed
  <2>1. /\ WireRanges' /\ wire' \in Seq(Event) /\ seq' = seq + 1
        /\ rev' = rev /\ onDisk' = rev
    BY <1>1, <1>6, WritesType DEF ForeignSave, SaveServed
  <2>2. QueueRanges' /\ queue' \in Seq(Handler)
    BY <1>2, <1>6, <2>1, QueueKept DEF ForeignSave, SaveServed
  <2>3. CASE ForeignSave
    BY <1>1, <1>2, <2>1, <2>2, <2>3 DEF ForeignSave, Revs
  <2>4. CASE SaveServed
    BY <1>1, <1>2, <2>1, <2>2, <2>4 DEF SaveServed, Revs
  <2> QED
    BY <1>6, <2>3, <2>4
<1>7. CASE LoseEvent
  <2>1. WireRanges' /\ wire' \in Seq(Event)
    BY <1>2, <1>7, TakenRanges DEF LoseEvent
  <2> QED
    BY <1>1, <1>2, <1>7, <2>1 DEF LoseEvent, QueueRanges, Revs
<1>8. CASE LinkDown
  <2>1. /\ wire' = <<>> /\ link' = FALSE
        /\ UNCHANGED <<mode, server, lastSeq, queue, handling, marks, poll, calls>>
    BY <1>8 DEF LinkDown
  <2>2. wire' \in Seq(Event) /\ Len(wire') = 0
    BY <2>1
  <2>3. WireRanges' /\ QueueRanges'
    BY <1>2, <2>1, <2>2 DEF WireRanges, QueueRanges
  <2> QED
    BY <1>1, <1>2, <2>1, <2>2, <2>3
<1>9. CASE LinkUp
  <2>1. <<PollForced>> \in Seq(Handler) /\ Len(<<PollForced>>) = 1 /\ <<PollForced>>[1] = PollForced
    BY DEF PollForced, Handler
  <2>2. /\ queue' \in Seq(Handler) /\ Len(queue) \in Nat /\ Len(queue') = Len(queue) + 1
        /\ \A j \in 1..Len(queue) : queue'[j] = queue[j]
        /\ queue'[Len(queue) + 1] = PollForced
    <3>1. queue' = queue \o <<PollForced>> /\ queue \in Seq(Handler)
      BY <1>9 DEF LinkUp, Later
    <3>2. /\ queue' \in Seq(Handler) /\ Len(queue) \in Nat /\ Len(queue') = Len(queue) + Len(<<PollForced>>)
          /\ \A j \in 1..Len(queue) : queue'[j] = queue[j]
          /\ \A j \in 1..Len(<<PollForced>>) : queue'[Len(queue) + j] = <<PollForced>>[j]
      BY <2>1, <3>1, LaterItems
    <3> QED
      BY <2>1, <3>2
  <2>3. QueueRanges'
    <3>1. UNCHANGED <<rev, onDisk>>
      BY <1>9 DEF LinkUp
    <3> SUFFICES ASSUME NEW j \in 1..Len(queue')
                 PROVE  IF queue'[j].kind = "poll" THEN queue'[j].rev = None
                        ELSE queue'[j].rev \in 1..rev /\ (queue'[j].kind = "saved" => queue'[j].rev <= onDisk)
      BY <3>1 DEF QueueRanges
    <3>2. CASE j \in 1..Len(queue)
      BY <1>2, <2>2, <3>2 DEF QueueRanges
    <3>3. CASE j = Len(queue) + 1
      BY <2>2, <3>3 DEF PollForced
    <3> QED
      BY <2>2, <3>2, <3>3
  <2>4. WireRanges'
    BY <1>2, <1>9 DEF LinkUp, WireRanges
  <2> QED
    BY <1>1, <1>2, <1>9, <2>2, <2>3, <2>4 DEF LinkUp, Revs
<1>10. CASE EventArrives
  <2>1. /\ WireRanges' /\ wire' \in Seq(Event) /\ Len(wire) \in Nat \ {0} /\ wire[1] \in Event
    BY <1>2, <1>10, TakenRanges DEF EventArrives
  <2>2. /\ queue' \in Seq(Handler) /\ Len(queue) \in Nat
        /\ \A j \in 1..Len(queue) : queue'[j] = queue[j]
        /\ Len(queue') = Len(queue) + (IF lastSeq # 0 /\ Lost > 0 THEN 2 ELSE 1)
        /\ lastSeq # 0 /\ Lost > 0 => queue'[Len(queue) + 1] = PollForced
        /\ queue'[Len(queue')].kind = wire[1].kind /\ queue'[Len(queue')].rev = wire[1].rev
        /\ lastSeq' = seq - Len(wire) + 1
    BY <1>2, <1>10, ArrivedItems
  <2>3. UNCHANGED <<mode, server, link, handling, marks, poll, calls, count>>
    BY <1>10 DEF EventArrives
  <2>4. /\ wire[1].rev \in 1..rev /\ wire[1].kind \in {"changed", "saved"}
        /\ wire[1].kind = "saved" => wire[1].rev <= onDisk
    BY <2>1, <1>2 DEF WireRanges, Event
  <2>5. QueueRanges'
    <3> SUFFICES ASSUME NEW j \in 1..Len(queue')
                 PROVE  IF queue'[j].kind = "poll" THEN queue'[j].rev = None
                        ELSE queue'[j].rev \in 1..rev /\ (queue'[j].kind = "saved" => queue'[j].rev <= onDisk)
      BY <2>3 DEF QueueRanges
    <3>1. CASE j \in 1..Len(queue)
      BY <1>2, <2>2, <3>1 DEF QueueRanges
    <3>2. CASE j = Len(queue')
      BY <2>2, <2>4, <3>2
    <3>3. CASE j = Len(queue) + 1 /\ j # Len(queue')
      BY <2>2, <3>3 DEF PollForced
    <3> QED
      BY <2>2, <3>1, <3>2, <3>3
  <2>6. lastSeq' \in 0..seq'
    <3>1. wire[1].seq = seq - Len(wire) + 1 /\ wire[1].seq \in Nat
      BY <1>2, <2>1 DEF WireRanges, Event
    <3> QED
      BY <1>2, <2>1, <2>2, <2>3, <3>1
  <2> QED
    BY <1>1, <1>2, <2>1, <2>2, <2>3, <2>5, <2>6
<1>11. CASE HandleOwn \/ HandleForeign \/ HandleSaved \/ HandlePoll
  <2>1. /\ queue # <<>> /\ queue' = Tail(queue) /\ UNCHANGED <<mode, server, wire, link, lastSeq>>
        /\ handling = None /\ ~forced
    BY <1>11 DEF HandleOwn, HandleForeign, HandleSaved, HandlePoll, QueueRuns
  <2>2. /\ QueueRanges' /\ queue' \in Seq(Handler) /\ Next1 = queue[1] /\ Len(queue) \in Nat \ {0}
    BY <1>2, <2>1, RunRanges
  <2>3. WireRanges'
    BY <1>2, <2>1 DEF WireRanges
  <2>4. Next1.kind # "poll" => Next1.rev \in 1..rev
    BY <1>2, <2>2 DEF QueueRanges
  <2>5. CASE HandleOwn
    BY <1>1, <1>2, <2>1, <2>2, <2>3, <2>4, <2>5 DEF HandleOwn, DirtyAt, Revs
  <2>6. CASE HandleForeign
    BY <1>1, <1>2, <2>1, <2>2, <2>3, <2>4, <2>6 DEF HandleForeign, Revs
  <2>7. CASE HandleSaved
    BY <1>1, <1>2, <2>1, <2>2, <2>3, <2>4, <2>7 DEF HandleSaved, Revs
  <2>8. CASE HandlePoll
    BY <1>1, <1>2, <2>1, <2>2, <2>3, <2>8 DEF HandlePoll, Busy, Revs
  <2> QED
    BY <1>11, <2>5, <2>6, <2>7, <2>8
<1>12. CASE HandledForeign
  <2>1. /\ handling # None /\ handling' = None /\ known' = handling
        /\ \/ \E all \in BOOLEAN : shown' = shown \union (IF all THEN Everything ELSE {handling})
           \/ shown' = shown
        /\ dirty' \in BOOLEAN
        /\ UNCHANGED <<mode, server, wire, link, lastSeq, queue, savedRev, poll, calls>>
    BY <1>12 DEF HandledForeign, DirtyAt
  <2>2. shown' \subseteq 1..rev /\ handling \in 1..rev
    <3>1. handling \in 1..rev /\ shown \subseteq 1..rev
      BY <1>2, <2>1 DEF Revs
    <3> QED
      BY <2>1, <3>1 DEF Everything
  <2>3. WireRanges' /\ QueueRanges'
    BY <1>2, <2>1 DEF WireRanges, QueueRanges
  <2> QED
    BY <1>1, <1>2, <2>1, <2>2, <2>3 DEF Revs
<1>13. CASE PollTimer \/ PollServed \/ PollRevision \/ PollRefresh
  <2>1. UNCHANGED <<mode, server, wire, link, lastSeq, queue, handling, savedRev, calls>>
    BY <1>13 DEF PollTimer, PollServed, PollRevision, PollRefresh
  <2>2. WireRanges' /\ QueueRanges'
    BY <1>2, <2>1 DEF WireRanges, QueueRanges
  <2>3. CASE PollTimer
    BY <1>1, <1>2, <2>1, <2>2, <2>3 DEF PollTimer, Busy, Revs
  <2>4. CASE PollServed
    BY <1>1, <1>2, <2>1, <2>2, <2>4 DEF PollServed, Revs
  <2>5. CASE PollRevision
    <3>1. /\ got' = None /\ UNCHANGED <<dirty, shown, count>>
          /\ \/ polling' = "refresh" /\ pollAt' = got /\ known' = got /\ forced' = forced
             \/ polling' = "no" /\ pollAt' = None /\ forced' = FALSE /\ known' = known
      BY <2>5 DEF PollRevision, PollEnds
    <3>2. got # None /\ got \in 1..rev
      BY <1>2, <2>5 DEF PollRevision, Revs
    <3>3. CASE polling' = "refresh" /\ pollAt' = got /\ known' = got /\ forced' = forced
      BY <1>1, <1>2, <2>1, <2>2, <3>1, <3>2, <3>3 DEF Revs
    <3>4. CASE polling' = "no" /\ pollAt' = None /\ forced' = FALSE /\ known' = known
      <4>1. got' \in Revs /\ pollAt' \in Revs /\ got' <= rev' /\ pollAt' <= rev'
        BY <1>2, <2>1, <3>1, <3>4 DEF Revs
      <4>2. DocumentTypeOK'
        BY <1>1, <1>2, <2>1, <3>1, <3>4, <4>1
      <4>3. OtherRanges'
        BY <1>1, <1>2, <2>1, <3>1, <3>4, <4>1
      <4> QED
        BY <2>2, <4>2, <4>3
    <3> QED
      BY <3>1, <3>3, <3>4
  <2>6. CASE PollRefresh
    <3>1. shown' \subseteq 1..rev /\ dirty' \in BOOLEAN /\ known' = known
      <4>1. /\ UNCHANGED known /\ (shown' = shown \union 1..got \/ shown' = shown)
            /\ dirty' \in BOOLEAN
        BY <2>6 DEF PollRefresh, FailsToRead, DirtyAt
      <4>2. shown \subseteq 1..rev /\ 1..got \subseteq 1..rev
        BY <1>2 DEF Revs
      <4> QED
        BY <4>1, <4>2
    <3>2. got' = None /\ polling' = "no" /\ pollAt' = None /\ forced' = FALSE
      BY <2>6 DEF PollRefresh, PollEnds
    <3> QED
      <4>1. got' \in Revs /\ pollAt' \in Revs /\ got' <= rev' /\ pollAt' <= rev'
        BY <1>2, <2>1, <3>2 DEF Revs
      <4>2. DocumentTypeOK'
        BY <1>1, <1>2, <2>1, <3>1, <3>2, <4>1
      <4>3. OtherRanges'
        BY <1>1, <1>2, <2>1, <3>1, <3>2, <4>1
      <4> QED
        BY <2>2, <4>2, <4>3
  <2> QED
    BY <1>13, <2>3, <2>4, <2>5, <2>6
<1>14. CASE BeginCommit \/ DropCommit \/ Resynced \/ AfterCommit \/ save \/ Saved
  <2>1. UNCHANGED <<mode, server, wire, link, lastSeq, queue, handling, poll>>
    BY <1>14 DEF BeginCommit, DropCommit, Resynced, AfterCommit, save, Saved
  <2>2. WireRanges' /\ QueueRanges'
    BY <1>2, <2>1 DEF WireRanges, QueueRanges
  <2>3. /\ known' \in 1..rev /\ savedRev' \in 1..rev /\ dirty' \in BOOLEAN /\ shown' \subseteq 1..rev
    <3>1. /\ known' \in {known, rev} /\ savedRev' \in {savedRev, rev} /\ dirty' \in BOOLEAN
          /\ shown' = shown \/ shown' = shown \union 1..rev
      BY <1>2, <1>14 DEF BeginCommit, DropCommit, Resynced, AfterCommit, save, Saved,
                         Reads, FailsToRead, Everything, DirtyAt
    <3>2. known \in 1..rev /\ savedRev \in 1..rev /\ shown \subseteq 1..rev /\ rev \in 1..rev
      BY <1>2
    <3> QED
      BY <3>1, <3>2
  <2>4. /\ commitAt' \in {"no", "open", "ended"}
        /\ commandAt' \in {"no", "reading", "read"}
        /\ saveAt' \in {"no", "saving", "saved"}
    BY <1>2, <1>14 DEF BeginCommit, DropCommit, Resynced, AfterCommit, save, Saved
  <2> QED
    BY <1>1, <1>2, <2>1, <2>2, <2>3, <2>4
<1> QED
  BY <1>3, <1>4, <1>5, <1>6, <1>7, <1>8, <1>9, <1>10, <1>11, <1>12, <1>13, <1>14
  DEF DocumentNext, External, Handle, Poll, OwnCalls

\* Types hold in every state.
LEMMA RangesInit == DocumentInit => Ranges
<1> SUFFICES ASSUME DocumentInit PROVE Ranges
  OBVIOUS
<1>1. /\ MaxRev \in Nat \ {0} /\ mode \in Mode
      /\ \A k \in Bounded : mode.max[k] \in Nat
  BY DocumentAssumption DEF DocumentInit
<1>2. wire = <<>> /\ queue = <<>> /\ Len(wire) = 0 /\ Len(queue) = 0 /\ link \in BOOLEAN
  BY DocumentAssumption DEF DocumentInit
<1>3. wire \in Seq(Event) /\ queue \in Seq(Handler)
  BY <1>2
<1>4. DocumentTypeOK
  <2>1. /\ rev = 1 /\ onDisk = 1 /\ own = {} /\ seq = 0 /\ lastSeq = 0 /\ handling = 0
        /\ known = 1 /\ savedRev = 1 /\ dirty = FALSE /\ shown = {1}
        /\ polling = "no" /\ pollAt = 0 /\ got = 0 /\ forced = FALSE
        /\ commitAt = "no" /\ commandAt = "no" /\ saveAt = "no"
    BY DEF DocumentInit, None
  <2>4. \A k \in Bounded : count[k] = 0
    BY DEF DocumentInit
  <2>2. 1 \in 1..MaxRev /\ 0 \in Revs /\ 1 \in 1..1 /\ {1} \subseteq 1..1
    BY <1>1 DEF Revs
  <2>3. \A k \in Bounded : count[k] \in 0..mode.max[k]
    BY <1>1, <2>4
  <2> QED
    <3>1. own \subseteq 1..MaxRev /\ rev \in 1..MaxRev /\ onDisk \in 1..MaxRev /\ lastSeq \in 0..seq
      BY <2>1, <2>2
    <3>2. known \in 1..rev /\ savedRev \in 1..rev /\ shown \subseteq 1..rev
      BY <2>1, <2>2
    <3>3. handling \in Revs /\ pollAt \in Revs /\ got \in Revs
      BY <2>1, <2>2
    <3> QED
      BY ONLY <1>1, <1>2, <1>3, <2>1, <2>3, <3>1, <3>2, <3>3 DEF DocumentTypeOK, None
<1>5. WireRanges /\ QueueRanges
  BY <1>2, <1>4 DEF WireRanges, QueueRanges, DocumentTypeOK
<1>6. OtherRanges
  BY <1>1 DEF DocumentInit, OtherRanges, None
<1> QED
  BY <1>4, <1>5, <1>6 DEF Ranges

-----------------------------------------------------------------------------
(* What counting tells. *)

\* Nothing that happened is forgotten.
LEMMA CountsGrow ==
  ASSUME Ranges, [DocumentNext]_documentVars
  PROVE  /\ \A k \in Bounded : count[k] \in Nat /\ count'[k] \in Nat /\ count[k] <= count'[k]
         /\ CallsOfOurs \in Nat /\ CallsOfOurs' \in Nat
<1>1. count' = count \/ \E k \in Bounded : Once(k)
  BY DEF DocumentNext, External, Handle, Poll, OwnCalls, documentVars, Bounded, FailsToRead,
         ForeignChange, ForeignSave, LoseEvent, LinkDown, LinkUp, EventArrives,
         HandleOwn, HandleForeign, HandledForeign, HandleSaved, HandlePoll,
         PollTimer, PollServed, PollRevision, PollRefresh, PushCommit, DropCommit, Resynced,
         AfterCommit, SaveServed, Saved, BeginCommit, Command, save
<1>2. count \in [Bounded -> Nat] /\ count' \in [Bounded -> Nat]
  BY CountersStep DEF Ranges, OtherRanges, Counters
<1>3. \A k \in Bounded : count[k] \in Nat /\ count'[k] \in Nat /\ count[k] <= count'[k]
  BY <1>1, <1>2 DEF Once
<1> QED
  BY <1>2, <1>3 DEF CallsOfOurs, Bounded

\* While the connection has not been cut it does not come back either.
LEMMA SteadyStep ==
  ASSUME Ranges, [DocumentNext]_documentVars, Steady'
  PROVE  Steady /\ link' = link /\ ~LinkUp /\ ~LinkDown
<1>1. /\ count["drops"] \in Nat /\ count'["drops"] \in Nat /\ count["drops"] <= count'["drops"]
      /\ count'["drops"] = 0
  BY CountsGrow DEF Bounded, Steady
<1>2. Steady
  BY <1>1 DEF Steady
<1>3. ~LinkUp
  BY <1>1 DEF LinkUp
<1>4. ~LinkDown
  <2> SUFFICES ASSUME LinkDown PROVE FALSE
    OBVIOUS
  <2>1. count'["drops"] = count["drops"] + 1
    BY Counted DEF LinkDown, Ranges, Bounded
  <2> QED
    BY <1>1, <2>1
<1>5. link' = link
  BY <1>3, <1>4 DEF DocumentNext, External, Handle, Poll, OwnCalls, documentVars,
         ForeignChange, ForeignSave, LoseEvent, EventArrives,
         HandleOwn, HandleForeign, HandledForeign, HandleSaved, HandlePoll,
         PollTimer, PollServed, PollRevision, PollRefresh, PushCommit, DropCommit, Resynced,
         AfterCommit, SaveServed, Saved, BeginCommit, Command, save
<1> QED
  BY <1>2, <1>3, <1>4, <1>5

\* A step that does not lose an event, and one that does not fail to read.
LEMMA NoLossStep ==
  ASSUME Ranges, [DocumentNext]_documentVars, count'["losses"] = 0
  PROVE  count["losses"] = 0 /\ ~LoseEvent
<1>1. count["losses"] \in Nat /\ count["losses"] <= count'["losses"]
  BY CountsGrow DEF Bounded
<1>2. ~LoseEvent
  <2> SUFFICES ASSUME LoseEvent PROVE FALSE
    OBVIOUS
  <2>1. count'["losses"] = count["losses"] + 1
    BY Counted DEF LoseEvent, Ranges, Bounded
  <2> QED
    BY <1>1, <2>1
<1> QED
  BY <1>1, <1>2

LEMMA NoFailureStep ==
  ASSUME Ranges, [DocumentNext]_documentVars, count'["fails"] = 0
  PROVE  count["fails"] = 0 /\ ~Once("fails")
<1>1. count["fails"] \in Nat /\ count["fails"] <= count'["fails"]
  BY CountsGrow DEF Bounded
<1>2. ~Once("fails")
  <2> SUFFICES ASSUME Once("fails") PROVE FALSE
    OBVIOUS
  <2>1. count'["fails"] = count["fails"] + 1
    BY Counted DEF Ranges, Bounded
  <2> QED
    BY <1>1, <2>1
<1> QED
  BY <1>1, <1>2

\* An open call was counted when it began.
LEMMA BeganStep ==
  ASSUME Ranges, Began, [DocumentNext]_documentVars
  PROVE  Began'
<1>1. \A k \in Bounded : count[k] \in Nat /\ count'[k] \in Nat /\ count[k] <= count'[k]
  BY CountsGrow
<1>2. BeginCommit => count'["commits"] # 0
  <2> SUFFICES ASSUME BeginCommit PROVE count'["commits"] = count["commits"] + 1
    BY <1>1 DEF Bounded
  <2> QED
    BY Counted DEF BeginCommit, Ranges, Bounded
<1>3. Command => count'["commands"] # 0
  <2> SUFFICES ASSUME Command PROVE count'["commands"] = count["commands"] + 1
    BY <1>1 DEF Bounded
  <2> QED
    BY Counted DEF Command, Ranges, Bounded
<1>4. save => count'["saves"] # 0
  <2> SUFFICES ASSUME save PROVE count'["saves"] = count["saves"] + 1
    BY <1>1 DEF Bounded
  <2> QED
    BY Counted DEF save, Ranges, Bounded
<1>5. /\ count'["commits"] = 0 => count["commits"] = 0
      /\ count'["commands"] = 0 => count["commands"] = 0
      /\ count'["saves"] = 0 => count["saves"] = 0
  BY <1>1 DEF Bounded
<1>6. count'["commits"] = 0 => commitAt' = "no"
  <2> SUFFICES ASSUME count'["commits"] = 0 PROVE commitAt' = "no"
    OBVIOUS
  <2>1. commitAt = "no" /\ ~BeginCommit
    BY <1>2, <1>5 DEF Began
  <2> QED
    BY <2>1 DEF DocumentNext, External, Handle, Poll, OwnCalls, documentVars, calls,
         ForeignChange, ForeignSave, LoseEvent, LinkDown, LinkUp, EventArrives,
         HandleOwn, HandleForeign, HandledForeign, HandleSaved, HandlePoll,
         PollTimer, PollServed, PollRevision, PollRefresh, PushCommit, DropCommit, Resynced,
         AfterCommit, SaveServed, Saved, Command, save
<1>7. count'["commands"] = 0 => commandAt' = "no"
  <2> SUFFICES ASSUME count'["commands"] = 0 PROVE commandAt' = "no"
    OBVIOUS
  <2>1. commandAt = "no" /\ ~Command
    BY <1>3, <1>5 DEF Began
  <2> QED
    BY <2>1 DEF DocumentNext, External, Handle, Poll, OwnCalls, documentVars, calls,
         ForeignChange, ForeignSave, LoseEvent, LinkDown, LinkUp, EventArrives,
         HandleOwn, HandleForeign, HandledForeign, HandleSaved, HandlePoll,
         PollTimer, PollServed, PollRevision, PollRefresh, PushCommit, DropCommit, Resynced,
         AfterCommit, SaveServed, Saved, BeginCommit, save
<1>8. count'["saves"] = 0 => saveAt' = "no"
  <2> SUFFICES ASSUME count'["saves"] = 0 PROVE saveAt' = "no"
    OBVIOUS
  <2>1. saveAt = "no" /\ ~save
    BY <1>4, <1>5 DEF Began
  <2> QED
    BY <2>1 DEF DocumentNext, External, Handle, Poll, OwnCalls, documentVars, calls,
         ForeignChange, ForeignSave, LoseEvent, LinkDown, LinkUp, EventArrives,
         HandleOwn, HandleForeign, HandledForeign, HandleSaved, HandlePoll,
         PollTimer, PollServed, PollRevision, PollRefresh, PushCommit, DropCommit, Resynced,
         AfterCommit, SaveServed, Saved, BeginCommit, Command
<1>9. count'["commits"] = 0 /\ count'["commands"] = 0 => own' = {}
  <2> SUFFICES ASSUME count'["commits"] = 0, count'["commands"] = 0 PROVE own' = {}
    OBVIOUS
  <2>1. own = {} /\ ~Command /\ commitAt = "no"
    BY <1>3, <1>5 DEF Began
  <2> QED
    BY <2>1 DEF DocumentNext, External, Handle, Poll, OwnCalls, documentVars, server, Changes,
         ForeignChange, ForeignSave, LoseEvent, LinkDown, LinkUp, EventArrives,
         HandleOwn, HandleForeign, HandledForeign, HandleSaved, HandlePoll,
         PollTimer, PollServed, PollRevision, PollRefresh, PushCommit, DropCommit, Resynced,
         AfterCommit, SaveServed, Saved, BeginCommit, save
<1> QED
  BY <1>6, <1>7, <1>8, <1>9 DEF Began

\* As long as nobody called, every step is another's, an event's or the poll's.
Quiet == External \/ LinkUp \/ EventArrives \/ HandleForeign \/ HandledForeign \/ HandleSaved
         \/ HandlePoll \/ Poll \/ UNCHANGED documentVars
Silent == own = {} /\ commitAt = "no" /\ commandAt = "no" /\ saveAt = "no"

LEMMA QuietStep ==
  ASSUME Ranges, Began, [DocumentNext]_documentVars, CallsOfOurs' = 0
  PROVE  CallsOfOurs = 0 /\ Silent /\ Silent' /\ Quiet
<1>1. \A k \in Bounded : count[k] \in Nat /\ count'[k] \in Nat /\ count[k] <= count'[k]
  BY CountsGrow
<1>2. /\ count'["commits"] = 0 /\ count'["commands"] = 0 /\ count'["saves"] = 0
      /\ count["commits"] = 0 /\ count["commands"] = 0 /\ count["saves"] = 0
  <2>1. /\ count["commits"] \in Nat /\ count'["commits"] \in Nat /\ count["commits"] <= count'["commits"]
        /\ count["commands"] \in Nat /\ count'["commands"] \in Nat /\ count["commands"] <= count'["commands"]
        /\ count["saves"] \in Nat /\ count'["saves"] \in Nat /\ count["saves"] <= count'["saves"]
    BY <1>1 DEF Bounded
  <2>2. count'["commits"] + count'["commands"] + count'["saves"] = 0
    <3>1. CallsOfOurs' = 0
      OBVIOUS
    <3> QED
      BY ONLY <3>1 DEF CallsOfOurs
  <2>3. \A a, b, c \in Nat : a + b + c = 0 => a = 0 /\ b = 0 /\ c = 0
    OBVIOUS
  <2>4. count'["commits"] = 0 /\ count'["commands"] = 0 /\ count'["saves"] = 0
    BY ONLY <2>1, <2>2, <2>3
  <2>5. \A a, b \in Nat : a <= b /\ b = 0 => a = 0
    OBVIOUS
  <2> QED
    BY ONLY <2>1, <2>4, <2>5
<1>3. Silent /\ Silent' /\ CallsOfOurs = 0
  <2>1. Began'
    BY BeganStep
  <2>2. Silent
    BY <1>2 DEF Began, Silent
  <2>3. Silent'
    BY <1>2, <2>1 DEF Began, Silent
  <2> QED
    BY <1>2, <2>2, <2>3 DEF CallsOfOurs
<1>4. ~BeginCommit /\ ~Command /\ ~save
  BY <1>3 DEF Silent, BeginCommit, Command, save
<1>5. ~OwnCalls /\ ~HandleOwn
  BY <1>3 DEF Silent, OwnCalls, PushCommit, DropCommit, Resynced, AfterCommit, SaveServed, Saved, HandleOwn, Ours
<1> QED
  BY <1>3, <1>4, <1>5 DEF Quiet, DocumentNext, Handle, documentVars

-----------------------------------------------------------------------------
(* What each kind of step does to the events under way and to those that wait. *)

\* KiCad sends an event; a handler is started; and what touches neither.
Sends == ForeignChange \/ Command \/ PushCommit \/ ForeignSave \/ SaveServed
Runs == HandleOwn \/ HandleForeign \/ HandleSaved \/ HandlePoll
Aside == HandledForeign \/ PollTimer \/ PollServed \/ PollRevision \/ PollRefresh
        \/ BeginCommit \/ DropCommit \/ Resynced \/ AfterCommit \/ save \/ Saved
        \/ UNCHANGED documentVars

LEMMA StepKinds ==
  ASSUME [DocumentNext]_documentVars
  PROVE  Sends \/ LoseEvent \/ LinkDown \/ LinkUp \/ EventArrives \/ Runs \/ Aside
BY DEF DocumentNext, External, Handle, Poll, OwnCalls, Sends, Runs, Aside, documentVars

LEMMA SentItems ==
  ASSUME Ranges, Sends
  PROVE  /\ UNCHANGED <<mode, link, lastSeq, queue, handling, known, savedRev, poll>>
         /\ rev' \in {rev, rev + 1} /\ Len(wire) \in Nat /\ seq' = seq + 1
         /\ ~link => wire' = wire
         /\ link => /\ Len(wire') = Len(wire) + 1
                    /\ \A j \in 1..Len(wire) : wire'[j] = wire[j]
                    /\ wire'[Len(wire) + 1].rev = rev'
                    /\ wire'[Len(wire) + 1].kind = "changed" <=> rev' = rev + 1
                    /\ Lost' = Lost
<1>1. Values
  BY TypedValues DEF Ranges
<1>2. UNCHANGED <<mode, link, lastSeq, queue, handling, known, savedRev, poll>>
  BY DEF Sends, ForeignChange, Command, PushCommit, ForeignSave, SaveServed, marks
<1>3. \E k \in {"changed", "saved"}, r \in Revs :
        /\ Publish(k, r) /\ r = rev'
        /\ rev' = IF k = "changed" THEN rev + 1 ELSE rev
  <2>1. CASE ForeignChange \/ Command \/ PushCommit
    <3>1. \E b \in BOOLEAN : Changes(b)
      BY <2>1 DEF ForeignChange, Command, PushCommit
    <3>2. /\ rev' = rev + 1 /\ Publish("changed", rev + 1) /\ rev < mode.max.revs
      BY <3>1 DEF Changes
    <3>3. rev + 1 \in Revs
      BY <1>1, <3>2, DocumentAssumption DEF Values, Revs
    <3> QED
      BY <3>2, <3>3
  <2>2. CASE ForeignSave \/ SaveServed
    <3>1. rev' = rev /\ Publish("saved", rev)
      BY <2>2 DEF ForeignSave, SaveServed
    <3> QED
      BY <1>1, <3>1 DEF Values, Revs
  <2> QED
    BY <2>1, <2>2 DEF Sends
<1> PICK k \in {"changed", "saved"}, r \in Revs :
        /\ Publish(k, r) /\ r = rev'
        /\ rev' = IF k = "changed" THEN rev + 1 ELSE rev
  BY <1>3
<1>4. /\ seq' = seq + 1 /\ Len(wire) \in Nat
      /\ ~link => wire' = wire
      /\ link => /\ Len(wire') = Len(wire) + 1
                 /\ \A j \in 1..Len(wire) : wire'[j] = wire[j]
                 /\ wire'[Len(wire) + 1].kind = k
                 /\ wire'[Len(wire) + 1].rev = r
  BY Published DEF Ranges
<1>5. k = "changed" <=> rev' = rev + 1
  BY <1>1 DEF Values
<1>6. link => Lost' = Lost
  BY <1>1, <1>2, <1>4 DEF Lost, Values
<1> QED
  BY <1>2, <1>4, <1>5, <1>6

LEMMA LostItems ==
  ASSUME Ranges, LoseEvent
  PROVE  /\ UNCHANGED <<mode, server, link, lastSeq, queue, handling, marks, poll, calls>>
         /\ lastSeq # 0 /\ Len(wire) \in Nat \ {0} /\ Len(wire') = Len(wire) - 1
         /\ \A j \in 1..Len(wire') : wire'[j] = wire[j + 1]
         /\ Lost' = Lost + 1
<1>1. /\ wire # <<>> /\ lastSeq # 0 /\ wire' = Tail(wire)
      /\ UNCHANGED <<mode, server, link, lastSeq, queue, handling, marks, poll, calls>>
  BY DEF LoseEvent
<1>2. /\ Len(wire) \in Nat \ {0} /\ Len(wire') = Len(wire) - 1
      /\ \A j \in 1..Len(wire') : wire'[j] = wire[j + 1]
  BY <1>1, TakenRanges DEF Ranges, server
<1>3. Values
  BY TypedValues DEF Ranges
<1>4. Lost' = Lost + 1
  BY <1>1, <1>2, <1>3 DEF Lost, Values, server
<1> QED
  BY <1>1, <1>2, <1>4

LEMMA ArrivedBoth ==
  ASSUME Ranges, EventArrives
  PROVE  /\ UNCHANGED <<mode, server, link, handling, marks, poll, calls, count>>
         /\ Len(wire) \in Nat \ {0} /\ Len(wire') = Len(wire) - 1
         /\ \A j \in 1..Len(wire') : wire'[j] = wire[j + 1]
         /\ lastSeq' = seq - Len(wire) + 1 /\ Lost' = 0 /\ lastSeq' # 0
         /\ Len(queue) \in Nat
         /\ \A j \in 1..Len(queue) : queue'[j] = queue[j]
         /\ Len(queue') = Len(queue) + (IF lastSeq # 0 /\ Lost > 0 THEN 2 ELSE 1)
         /\ lastSeq # 0 /\ Lost > 0 =>
              queue'[Len(queue) + 1].kind = "poll" /\ queue'[Len(queue) + 1].rev = 0
         /\ queue'[Len(queue')].kind = wire[1].kind /\ queue'[Len(queue')].rev = wire[1].rev
         /\ wire[1].kind \in {"changed", "saved"}
<1>1. /\ wire # <<>> /\ wire' = Tail(wire)
      /\ UNCHANGED <<mode, server, link, handling, marks, poll, calls, count>>
  BY DEF EventArrives
<1>2. /\ Len(wire) \in Nat \ {0} /\ Len(wire') = Len(wire) - 1 /\ wire[1] \in Event
      /\ \A j \in 1..Len(wire') : wire'[j] = wire[j + 1]
  BY <1>1, TakenRanges DEF Ranges, server
<1>3. /\ Len(queue) \in Nat
      /\ \A j \in 1..Len(queue) : queue'[j] = queue[j]
      /\ Len(queue') = Len(queue) + (IF lastSeq # 0 /\ Lost > 0 THEN 2 ELSE 1)
      /\ lastSeq # 0 /\ Lost > 0 => queue'[Len(queue) + 1] = PollForced
      /\ queue'[Len(queue')].kind = wire[1].kind /\ queue'[Len(queue')].rev = wire[1].rev
      /\ lastSeq' = seq - Len(wire) + 1
  BY ArrivedItems DEF Ranges
<1>4. Values
  BY TypedValues DEF Ranges
<1>5. Lost' = 0
  BY <1>1, <1>2, <1>3, <1>4 DEF Lost, Values, server
<1>6. lastSeq' # 0
  BY <1>2, <1>3, <1>4 DEF Ranges, WireRanges, Values
<1>7. wire[1].kind \in {"changed", "saved"}
  BY <1>2 DEF Event
<1>8. PollForced.kind = "poll" /\ PollForced.rev = 0
  BY DEF PollForced, None
<1> QED
  BY <1>1, <1>2, <1>3, <1>5, <1>6, <1>7, <1>8

LEMMA RunItems ==
  ASSUME Ranges, Runs
  PROVE  /\ UNCHANGED <<mode, server, wire, link, lastSeq, calls, count, shown, pollAt, got>>
         /\ handling = None /\ ~forced
         /\ Len(queue) \in Nat \ {0} /\ Len(queue') = Len(queue) - 1
         /\ \A j \in 1..Len(queue') : queue'[j] = queue[j + 1]
         /\ Next1 = queue[1]
<1>1. /\ queue # <<>> /\ queue' = Tail(queue) /\ handling = None /\ ~forced
      /\ UNCHANGED <<mode, server, wire, link, lastSeq, calls, count, shown, pollAt, got>>
  BY DEF Runs, HandleOwn, HandleForeign, HandleSaved, HandlePoll, QueueRuns, marks, poll
<1>2. /\ Len(queue) \in Nat \ {0} /\ Len(queue') = Len(queue) - 1
      /\ \A j \in 1..Len(queue') : queue'[j] = queue[j + 1]
      /\ Next1 = queue[1]
  BY <1>1, RunRanges DEF Ranges, server
<1> QED
  BY <1>1, <1>2

LEMMA AsideSame ==
  ASSUME Ranges, Aside
  PROVE  UNCHANGED <<mode, server, wire, link, lastSeq, queue>>
BY DEF Aside, HandledForeign, PollTimer, PollServed, PollRevision, PollRefresh,
       BeginCommit, DropCommit, Resynced, AfterCommit, save, Saved, documentVars

-----------------------------------------------------------------------------
(* Each part of the inductive invariant. *)

\* Nothing comes without a connection.
LEMMA DeafStep ==
  ASSUME Ranges, Deaf, [DocumentNext]_documentVars
  PROVE  Deaf'
<1> SUFFICES ASSUME Steady'
             PROVE  link' = mode'.relay /\ (~link' => queue' = <<>> /\ handling' = None /\ ~forced')
  BY DEF Deaf
<1>1. Steady /\ link' = link /\ ~LinkUp /\ ~LinkDown /\ mode' = mode
  BY SteadyStep, CountersStep
<1>2. link' = mode'.relay
  BY <1>1 DEF Deaf
<1> SUFFICES ASSUME ~link'
             PROVE  queue' = <<>> /\ handling' = None /\ ~forced'
  BY <1>2
<1>3. queue = <<>> /\ handling = None /\ ~forced /\ wire = <<>>
  BY <1>1 DEF Deaf, Ranges, WireRanges
<1>4. ~Runs /\ ~EventArrives /\ ~LoseEvent /\ ~HandledForeign
  BY <1>3 DEF Runs, HandleOwn, HandleForeign, HandleSaved, HandlePoll, QueueRuns, EventArrives, LoseEvent,
              HandledForeign
<1>5. CASE Sends
  BY <1>3, <1>5, SentItems DEF poll
<1>6. CASE Aside
  <2>1. queue' = queue
    BY <1>6, AsideSame
  <2>2. handling' = handling /\ (forced' = forced \/ forced' = FALSE)
    BY <1>4, <1>6 DEF Aside, PollTimer, PollServed, PollRevision, PollRefresh, PollEnds, poll,
         BeginCommit, DropCommit, Resynced, AfterCommit, save, Saved, documentVars
  <2> QED
    BY <1>3, <2>1, <2>2
<1> QED
  BY <1>1, <1>4, <1>5, <1>6, StepKinds

\* Events stay in order, and a jump in the sequence is what was lost.
LEMMA InOrderStep ==
  ASSUME Ranges, Deaf, InOrder, [DocumentNext]_documentVars
  PROVE  InOrder'
<1>1. Values /\ Values' /\ WireRanges /\ WireRanges' /\ Deaf'
  BY RangesStep, TypedValues, TypedValuesNext, DeafStep DEF Ranges
<1>2. ASSUME NEW i \in 1..Len(wire'), NEW j \in 1..Len(wire'), i < j, wire'[j].kind = "changed"
      PROVE  wire'[i].rev < wire'[j].rev
  <2>1. CASE Sends
    <3>1. /\ rev' \in {rev, rev + 1} /\ Len(wire) \in Nat
          /\ ~link => wire' = wire
          /\ link => /\ Len(wire') = Len(wire) + 1
                     /\ \A m \in 1..Len(wire) : wire'[m] = wire[m]
                     /\ wire'[Len(wire) + 1].rev = rev'
                     /\ wire'[Len(wire) + 1].kind = "changed" <=> rev' = rev + 1
      BY <2>1, SentItems
    <3>2. CASE ~link
      BY <1>2, <3>1, <3>2 DEF InOrder
    <3>3. CASE link /\ j \in 1..Len(wire)
      BY <1>2, <3>1, <3>3 DEF InOrder
    <3>4. CASE link /\ j = Len(wire) + 1
      <4>1. i \in 1..Len(wire) /\ wire'[i] = wire[i]
        BY <1>2, <3>1, <3>4
      <4>2. wire[i].rev <= rev /\ wire[i].rev \in Int
        BY <1>1, <4>1 DEF WireRanges
      <4>3. wire'[j].rev = rev + 1
        BY <1>2, <3>1, <3>4
      <4> QED
        BY <1>1, <4>1, <4>2, <4>3 DEF Values
    <3> QED
      BY <1>2, <3>1, <3>2, <3>3, <3>4
  <2>2. CASE LoseEvent \/ EventArrives
    <3>1. /\ Len(wire) \in Nat \ {0} /\ Len(wire') = Len(wire) - 1
          /\ \A m \in 1..Len(wire') : wire'[m] = wire[m + 1]
      BY <2>2, LostItems, ArrivedBoth
    <3>2. i + 1 \in 1..Len(wire) /\ j + 1 \in 1..Len(wire) /\ i + 1 < j + 1
      BY <1>2, <3>1
    <3> QED
      BY <1>2, <3>1, <3>2 DEF InOrder
  <2>3. CASE LinkDown
    <3>1. Len(wire') = 0
      BY <2>3 DEF LinkDown
    <3> QED
      BY <1>2, <3>1
  <2>4. CASE LinkUp \/ Runs \/ Aside
    <3>1. wire' = wire
      BY <2>4, RunItems, AsideSame DEF LinkUp
    <3> QED
      BY <1>2, <3>1 DEF InOrder
  <2> QED
    BY <2>1, <2>2, <2>3, <2>4, StepKinds
<1>3. ASSUME Steady', link'
      PROVE  Lost' >= 0 /\ (lastSeq' = 0 => Lost' = 0) /\ (count'["losses"] = 0 => Lost' = 0)
  <2>1. Steady /\ link /\ ~LinkUp /\ ~LinkDown
    BY <1>3, SteadyStep
  <2>2. /\ Lost >= 0 /\ (lastSeq = 0 => Lost = 0)
        /\ count["losses"] = 0 => Lost = 0
    BY <2>1 DEF InOrder
  <2>3. Lost \in Int
    <3>1. Len(wire) \in Nat
      BY LenProperties DEF Ranges, DocumentTypeOK
    <3> QED
      BY <1>1, <3>1 DEF Lost, Values
  <2>4. count'["losses"] = 0 => count["losses"] = 0 /\ ~LoseEvent
    BY NoLossStep
  <2>5. CASE Sends
    BY <2>1, <2>2, <2>4, <2>5, SentItems
  <2>6. CASE LoseEvent
    BY <2>2, <2>3, <2>4, <2>6, LostItems
  <2>7. CASE EventArrives
    BY <2>7, ArrivedBoth
  <2>8. CASE Runs \/ Aside
    <3>1. UNCHANGED <<wire, seq, lastSeq>>
      BY <2>8, RunItems, AsideSame DEF server
    <3> QED
      BY <2>2, <2>4, <3>1 DEF Lost
  <2> QED
    BY <2>1, <2>5, <2>6, <2>7, <2>8, StepKinds
<1> QED
  BY <1>2, <1>3 DEF InOrder

\* While the timer re-reads, or a forced poll does, nothing else moves what is known.
LEMMA PollsForcedStep ==
  ASSUME Ranges, InOrder, PollsForced, [DocumentNext]_documentVars
  PROVE  PollsForced'
<1> SUFFICES ASSUME Steady', link'
             PROVE  /\ polling' # "no" => forced'
                    /\ forced' => queue' # <<>>
                    /\ queue' # <<>> => queue'[Len(queue')].kind # "poll"
                    /\ count'["losses"] = 0 => polling' = "no" /\ \A j \in 1..Len(queue') : queue'[j].kind # "poll"
  BY DEF PollsForced
<1>1. Steady /\ link /\ ~LinkUp /\ ~LinkDown
  BY SteadyStep
<1>2. /\ polling # "no" => forced
      /\ forced => queue # <<>>
      /\ queue # <<>> => queue[Len(queue)].kind # "poll"
      /\ count["losses"] = 0 => polling = "no" /\ \A j \in 1..Len(queue) : queue[j].kind # "poll"
  BY <1>1 DEF PollsForced
<1>3. count'["losses"] = 0 => count["losses"] = 0 /\ ~LoseEvent
  BY NoLossStep
<1>4. CASE Sends \/ LoseEvent
  <2>1. queue' = queue /\ polling' = polling /\ forced' = forced
    BY <1>4, SentItems, LostItems DEF poll
  <2> QED
    BY <1>2, <1>3, <2>1
<1>5. CASE EventArrives
  <2>1. polling' = polling /\ forced' = forced
    BY <1>5 DEF EventArrives, poll
  <2>2. /\ Len(queue) \in Nat
        /\ \A j \in 1..Len(queue) : queue'[j] = queue[j]
        /\ Len(queue') = Len(queue) + (IF lastSeq # 0 /\ Lost > 0 THEN 2 ELSE 1)
        /\ queue'[Len(queue')].kind # "poll"
    BY <1>5, ArrivedBoth
  <2>3. queue' # <<>>
    BY <2>2
  <2>4. count'["losses"] = 0 => \A j \in 1..Len(queue') : queue'[j].kind # "poll"
    <3> SUFFICES ASSUME count'["losses"] = 0, NEW j \in 1..Len(queue') PROVE queue'[j].kind # "poll"
      OBVIOUS
    <3>1. Lost = 0
      BY <1>1, <1>3 DEF InOrder
    <3>2. j \in 1..Len(queue) \/ j = Len(queue')
      BY <2>2, <3>1
    <3> QED
      BY <1>2, <1>3, <2>2, <3>2
  <2> QED
    BY <1>2, <1>3, <2>1, <2>2, <2>3, <2>4
<1>6. CASE Runs
  <2>1. /\ ~forced /\ Len(queue) \in Nat \ {0} /\ Len(queue') = Len(queue) - 1
        /\ \A j \in 1..Len(queue') : queue'[j] = queue[j + 1]
        /\ Next1 = queue[1] /\ count' = count
    BY <1>6, RunItems
  <2>2. queue \in Seq(Handler) /\ queue' \in Seq(Handler) /\ queue # <<>>
    BY <2>1, RangesStep DEF Ranges, DocumentTypeOK
  <2>3. queue' # <<>> => queue'[Len(queue')] = queue[Len(queue)] /\ Len(queue') >= 1
    <3> SUFFICES ASSUME queue' # <<>> PROVE queue'[Len(queue')] = queue[Len(queue)] /\ Len(queue') >= 1
      OBVIOUS
    <3>1. Len(queue') \in Nat \ {0}
      BY <2>2, EmptySeq, LenProperties
    <3> QED
      BY <2>1, <3>1
  <2>4. queue' # <<>> => queue'[Len(queue')].kind # "poll"
    BY <1>2, <2>2, <2>3
  <2>5. polling = "no"
    BY <1>2, <2>1
  <2>6. CASE HandlePoll
    <3>1. queue[1].kind = "poll"
      BY <2>1, <2>6 DEF HandlePoll
    <3>2. Len(queue) # 1
      BY <1>2, <2>2, <3>1
    <3>3. queue' # <<>>
      <4>1. Len(queue') # 0
        BY <2>1, <3>2
      <4> QED
        BY <4>1
    <3>4. count["losses"] # 0
      BY <1>2, <2>1, <3>1
    <3>5. polling' # "no" => forced'
      BY <2>5, <2>6 DEF HandlePoll
    <3> QED
      BY <2>1, <2>4, <3>3, <3>4, <3>5
  <2>7. CASE ~HandlePoll
    <3>1. polling' = polling /\ forced' = forced
      BY <1>6, <2>7 DEF Runs, HandleOwn, HandleForeign, HandleSaved, poll
    <3>2. count'["losses"] = 0 => \A j \in 1..Len(queue') : queue'[j].kind # "poll"
      BY <1>2, <2>1
    <3> QED
      BY <1>2, <2>1, <2>4, <3>1, <3>2
  <2> QED
    BY <2>6, <2>7
<1>7. CASE Aside
  <2>1. queue' = queue
    BY <1>7, AsideSame
  <2>2. \/ polling' = polling /\ forced' = forced
        \/ PollRevision /\ polling' = "refresh" /\ forced' = forced
        \/ polling' = "no" /\ forced' = FALSE
    BY <1>1, <1>7 DEF Aside, HandledForeign, PollTimer, PollServed, PollRevision, PollRefresh, PollEnds, poll,
         BeginCommit, DropCommit, Resynced, AfterCommit, save, Saved, documentVars
  <2>3. PollRevision => polling # "no"
    BY DEF PollRevision
  <2> QED
    BY <1>2, <1>3, <2>1, <2>2, <2>3
<1> QED
  BY <1>1, <1>4, <1>5, <1>6, <1>7, StepKinds

LEMMA RereadKnownStep ==
  ASSUME Ranges, Began, Deaf, PollsForced, RereadKnown, [DocumentNext]_documentVars
  PROVE  RereadKnown'
<1> SUFFICES ASSUME Steady', CallsOfOurs' = 0, polling' = "refresh"
             PROVE  pollAt' = known'
  BY DEF RereadKnown
<1>1. Steady /\ CallsOfOurs = 0 /\ Quiet /\ ~LinkUp /\ ~LinkDown
  BY SteadyStep, QuietStep
<1>2. CASE PollRevision
  BY <1>2 DEF PollRevision, PollEnds
<1>3. CASE ~PollRevision
  <2>1. polling = "refresh"
    BY <1>1, <1>3 DEF Quiet, External, Poll, ForeignChange, ForeignSave, LoseEvent, EventArrives,
         HandleForeign, HandledForeign, HandleSaved, HandlePoll, PollTimer, PollServed, PollRefresh, PollEnds, poll, documentVars
  <2>2. pollAt = known /\ handling = None /\ ~QueueRuns
    <3>1. CASE link
      BY <1>1, <2>1, <3>1 DEF RereadKnown, PollsForced, QueueRuns, Ranges, DocumentTypeOK
    <3>2. CASE ~link
      BY <1>1, <2>1, <3>2 DEF RereadKnown, Deaf, QueueRuns
    <3> QED
      BY <3>1, <3>2
  <2> QED
    BY <1>1, <1>3, <2>1, <2>2 DEF Quiet, External, Poll, ForeignChange, ForeignSave, LoseEvent, EventArrives,
         HandleForeign, HandledForeign, HandleSaved, HandlePoll, PollTimer, PollServed, PollRefresh, PollEnds, poll, marks, documentVars
<1> QED
  BY <1>2, <1>3

\* The last event under way, or else the last one queued or handled, is of the last
\* revision: sequence numbers without a jump at the end leave nothing out.
LEMMA LatestStep ==
  ASSUME Ranges, InOrder, PollsForced, Latest, [DocumentNext]_documentVars
  PROVE  Latest'
<1> SUFFICES ASSUME Steady', link'
             PROVE  /\ wire' # <<>> => wire'[Len(wire')].rev = rev'
                    /\ wire' = <<>> /\ lastSeq' = seq' =>
                         /\ queue' # <<>> => queue'[Len(queue')].rev = rev'
                         /\ queue' = <<>> /\ handling' # None => handling' = rev'
                         /\ queue' = <<>> /\ handling' = None => known' = rev'
  BY DEF Latest
<1>1. Steady /\ link /\ ~LinkUp /\ ~LinkDown
  BY SteadyStep
<1>2. /\ wire # <<>> => wire[Len(wire)].rev = rev
      /\ wire = <<>> /\ lastSeq = seq =>
           /\ queue # <<>> => queue[Len(queue)].rev = rev
           /\ queue = <<>> /\ handling # None => handling = rev
           /\ queue = <<>> /\ handling = None => known = rev
  BY <1>1 DEF Latest
<1>3. /\ wire \in Seq(Event) /\ queue \in Seq(Handler) /\ Len(wire) \in Nat /\ Len(queue) \in Nat
      /\ wire' \in Seq(Event) /\ queue' \in Seq(Handler) /\ Len(wire') \in Nat /\ Len(queue') \in Nat
      /\ (wire = <<>> <=> Len(wire) = 0) /\ (queue = <<>> <=> Len(queue) = 0)
      /\ (wire' = <<>> <=> Len(wire') = 0) /\ (queue' = <<>> <=> Len(queue') = 0)
  BY RangesStep, EmptySeq, LenProperties DEF Ranges, DocumentTypeOK
<1>4. CASE Sends
  <2>1. Len(wire') = Len(wire) + 1 /\ wire'[Len(wire) + 1].rev = rev'
    BY <1>1, <1>4, SentItems
  <2> QED
    BY <1>3, <2>1
<1>5. CASE LoseEvent
  <2>1. /\ Len(wire) \in Nat \ {0} /\ Len(wire') = Len(wire) - 1
        /\ \A j \in 1..Len(wire') : wire'[j] = wire[j + 1]
        /\ Lost' = Lost + 1 /\ rev' = rev
    BY <1>5, LostItems DEF server
  <2>2. wire' # <<>> => wire'[Len(wire')] = wire[Len(wire)]
    BY <1>3, <2>1
  <2>3. wire' = <<>> => lastSeq' # seq'
    <3>1. Lost >= 0 /\ Lost \in Int
      BY <1>1, <1>3, TypedValues DEF InOrder, Lost, Values, Ranges
    <3>2. Lost' = seq' - Len(wire') - lastSeq' /\ seq' \in Nat /\ lastSeq' \in Nat
      BY RangesStep DEF Lost, Ranges, DocumentTypeOK
    <3> QED
      BY <1>3, <2>1, <3>1, <3>2
  <2> QED
    BY <1>2, <1>3, <2>1, <2>2, <2>3
<1>6. CASE EventArrives
  <2>1. /\ rev' = rev
        /\ Len(wire) \in Nat \ {0} /\ Len(wire') = Len(wire) - 1
        /\ \A j \in 1..Len(wire') : wire'[j] = wire[j + 1]
        /\ queue'[Len(queue')].rev = wire[1].rev
    BY <1>6, ArrivedBoth DEF server
  <2>4. Len(queue') # 0
    <3>1. Len(queue') = Len(queue) + (IF lastSeq # 0 /\ Lost > 0 THEN 2 ELSE 1)
      BY <1>6, ArrivedBoth
    <3> QED
      BY <1>3, <3>1
  <2>2. wire' # <<>> => wire'[Len(wire')] = wire[Len(wire)]
    BY <1>3, <2>1
  <2>3. wire' = <<>> => wire[1] = wire[Len(wire)]
    <3> SUFFICES ASSUME wire' = <<>> PROVE Len(wire) = 1
      OBVIOUS
    <3> QED
      BY <1>3, <2>1
  <2> QED
    BY <1>2, <1>3, <2>1, <2>2, <2>3, <2>4
<1>7. CASE Runs
  <2>1. /\ UNCHANGED <<server, wire, lastSeq>> /\ handling = None /\ ~forced
        /\ Len(queue) \in Nat \ {0} /\ Len(queue') = Len(queue) - 1
        /\ \A j \in 1..Len(queue') : queue'[j] = queue[j + 1]
        /\ Next1 = queue[1]
    BY <1>7, RunItems
  <2>2. queue' # <<>> => queue'[Len(queue')] = queue[Len(queue)]
    BY <1>3, <2>1
  <2>3. queue' = <<>> => queue[Len(queue)] = Next1 /\ ~HandlePoll
    <3> SUFFICES ASSUME queue' = <<>> PROVE queue[Len(queue)] = Next1 /\ ~HandlePoll
      OBVIOUS
    <3>1. Len(queue) = 1
      BY <1>3, <2>1
    <3>2. queue[1].kind # "poll"
      BY <1>1, <1>3, <3>1 DEF PollsForced
    <3> QED
      BY <2>1, <3>1, <3>2 DEF HandlePoll
  <2>4. queue' = <<>> => IF handling' # None THEN handling' = Next1.rev ELSE known' = Next1.rev
    <3> SUFFICES ASSUME queue' = <<>>
                 PROVE  IF handling' # None THEN handling' = Next1.rev ELSE known' = Next1.rev
      OBVIOUS
    <3>1. CASE HandleOwn \/ HandleSaved
      BY <2>1, <3>1 DEF HandleOwn, HandleSaved
    <3>2. CASE HandleForeign
      <4>1. queue[1].kind = "changed" /\ handling' = queue[1].rev
        BY <2>1, <3>2 DEF HandleForeign
      <4>2. queue[1].rev \in 1..rev /\ rev \in Nat
        BY <2>1, <4>1, TypedValues DEF Ranges, QueueRanges, Values
      <4> QED
        BY <2>1, <4>1, <4>2 DEF None
    <3> QED
      BY <1>7, <2>3, <3>1, <3>2 DEF Runs
  <2> QED
    BY <1>2, <1>3, <2>1, <2>2, <2>3, <2>4 DEF server
<1>8. CASE Aside
  <2>1. UNCHANGED <<server, wire, lastSeq, queue>>
    BY <1>8, AsideSame
  <2>2. CASE HandledForeign
    <3>1. handling # None /\ handling' = None /\ known' = handling
      BY <2>2 DEF HandledForeign
    <3> QED
      BY <1>2, <2>1, <3>1 DEF server
  <2>3. CASE PollRevision
    <3>1. queue # <<>>
      BY <1>1, <2>3 DEF PollRevision, PollsForced
    <3> QED
      BY <1>2, <2>1, <3>1 DEF server
  <2>4. CASE ~HandledForeign /\ ~PollRevision
    <3>1. handling' = handling /\ (known' = known \/ known' = rev)
      BY <1>8, <2>4 DEF Aside, PollTimer, PollServed, PollRefresh, marks,
         BeginCommit, DropCommit, Resynced, AfterCommit, save, Saved, documentVars
    <3> QED
      BY <1>2, <2>1, <3>1 DEF server
  <2> QED
    BY <2>2, <2>3, <2>4
<1> QED
  BY <1>1, <1>4, <1>5, <1>6, <1>7, <1>8, StepKinds

\* The timer's poll reads everything up to a revision that is not behind the one it
\* took for known.
LEMMA TimedStep ==
  ASSUME Ranges, Began, Deaf, Timed, [DocumentNext]_documentVars
  PROVE  Timed'
<1> SUFFICES ASSUME Kept', CallsOfOurs' = 0, ~link'
             PROVE  IF polling' = "refresh" THEN got' # None => got' >= known' ELSE 1..known' \subseteq shown'
  BY DEF Timed
<1>1. /\ Steady' /\ Steady /\ ~link /\ ~LinkUp /\ ~LinkDown /\ CallsOfOurs = 0 /\ Quiet
      /\ count["fails"] = 0 /\ ~Once("fails")
  BY SteadyStep, QuietStep, NoFailureStep DEF Kept, Steady
<1>2. IF polling = "refresh" THEN got # None => got >= known ELSE 1..known \subseteq shown
  BY <1>1 DEF Timed, Kept, Steady
<1>3. queue = <<>> /\ handling = None /\ wire = <<>>
  BY <1>1 DEF Deaf, Ranges, WireRanges
<1>4. Values
  BY TypedValues DEF Ranges
<1>5. ForeignChange \/ ForeignSave \/ Poll \/ UNCHANGED documentVars
  BY <1>1, <1>3 DEF Quiet, External, LoseEvent, EventArrives, HandleForeign, HandledForeign, HandleSaved, HandlePoll, QueueRuns
<1>6. CASE ForeignChange \/ ForeignSave \/ UNCHANGED documentVars
  <2>1. UNCHANGED <<known, shown, polling, got>>
    BY <1>6 DEF ForeignChange, ForeignSave, documentVars, marks, poll
  <2> QED
    BY <1>2, <2>1
<1>7. CASE PollTimer
  BY <1>2, <1>7 DEF PollTimer, marks
<1>8. CASE PollServed
  <2>1. rev >= known /\ UNCHANGED <<known, shown, polling>> /\ got' = rev
    BY <1>4, <1>8 DEF PollServed, marks, Values
  <2> QED
    BY <1>2, <2>1
<1>9. CASE PollRevision
  BY <1>2, <1>9 DEF PollRevision, PollEnds, None
<1>10. CASE PollRefresh
  <2>1. polling = "refresh" /\ got # None /\ polling' = "no" /\ known' = known /\ shown' = shown \union 1..got
    BY <1>1, <1>10 DEF PollRefresh, PollEnds, FailsToRead
  <2>2. 1..known \subseteq 1..got
    BY <1>2, <1>4, <2>1 DEF Values, Revs
  <2> QED
    BY <2>1, <2>2
<1> QED
  BY <1>5, <1>6, <1>7, <1>8, <1>9, <1>10 DEF Poll

\* What the file has is at least what the application takes for saved.
LEMMA FileKeptStep ==
  ASSUME Ranges, Began, FileKept, [DocumentNext]_documentVars
  PROVE  FileKept'
<1> SUFFICES ASSUME count'["saves"] = 0 PROVE savedRev' <= onDisk'
  BY DEF FileKept
<1>1. count["saves"] = 0 /\ saveAt = "no"
  <2>1. count["saves"] \in Nat /\ count["saves"] <= count'["saves"]
    BY CountsGrow DEF Bounded
  <2> QED
    BY <2>1 DEF Began
<1>2. savedRev <= onDisk /\ Values /\ onDisk <= rev
  BY <1>1, TypedValues DEF FileKept, Ranges, OtherRanges
<1>3. ~SaveServed /\ ~Saved
  BY <1>1 DEF SaveServed, Saved
<1>4. CASE ForeignSave
  BY <1>2, <1>4 DEF ForeignSave, marks, Values
<1>5. CASE HandleSaved
  <2>1. Next1 = queue[1] /\ Len(queue) \in Nat \ {0} /\ onDisk' = onDisk
    BY <1>5, RunItems DEF Runs, server
  <2>2. queue[1].kind = "saved" /\ savedRev' = queue[1].rev
    BY <1>5, <2>1 DEF HandleSaved
  <2>3. queue[1].rev <= onDisk
    BY <2>1, <2>2 DEF Ranges, QueueRanges
  <2> QED
    BY <2>1, <2>2, <2>3
<1>6. CASE ~ForeignSave /\ ~HandleSaved
  <2>1. savedRev' = savedRev /\ onDisk' = onDisk
    BY <1>3, <1>6 DEF DocumentNext, External, Handle, Poll, OwnCalls, documentVars, server, marks, Changes,
         ForeignChange, LoseEvent, LinkDown, LinkUp, EventArrives,
         HandleOwn, HandleForeign, HandledForeign, HandlePoll,
         PollTimer, PollServed, PollRevision, PollRefresh, PushCommit, DropCommit, Resynced,
         AfterCommit, BeginCommit, Command, save
  <2> QED
    BY <1>2, <2>1
<1> QED
  BY <1>4, <1>5, <1>6

\* A document that is not dirty is known at the revision it was saved at.
LEMMA CleanKnownStep ==
  ASSUME Ranges, Began, Deaf, PollsForced, RereadKnown, CleanKnown, [DocumentNext]_documentVars
  PROVE  CleanKnown'
<1> SUFFICES ASSUME NothingSkipped', ~dirty', polling' # "refresh"
             PROVE  known' = savedRev'
  BY DEF CleanKnown
<1>1. /\ Steady' /\ Steady /\ link' = link /\ ~LinkUp /\ ~LinkDown
      /\ count["fails"] = 0 /\ ~Once("fails")
  BY SteadyStep, NoFailureStep DEF NothingSkipped, Steady
<1>2. \/ CallsOfOurs' = 0 /\ CallsOfOurs = 0
      \/ link' /\ link /\ count'["losses"] = 0 /\ count["losses"] = 0
  BY <1>1, QuietStep, NoLossStep DEF NothingSkipped
<1>3. NothingSkipped
  BY <1>1, <1>2 DEF NothingSkipped, Steady
<1>4. CASE polling = "refresh"
  <2>1. CallsOfOurs' = 0 /\ CallsOfOurs = 0
    BY <1>1, <1>2, <1>4 DEF PollsForced
  <2>2. Quiet
    BY <2>1, QuietStep
  <2>3. PollRefresh
    BY <1>1, <1>4, <2>2 DEF Quiet, External, Poll, ForeignChange, ForeignSave, LoseEvent, EventArrives,
         HandleForeign, HandledForeign, HandleSaved, HandlePoll, PollTimer, PollServed, PollRevision, PollRefresh, poll, documentVars
  <2>4. pollAt = known
    BY <1>1, <1>4, <2>1 DEF RereadKnown
  <2>5. dirty' = (pollAt # savedRev) /\ known' = known /\ savedRev' = savedRev
    BY <1>1, <2>3 DEF PollRefresh, FailsToRead, DirtyAt
  <2> QED
    BY <2>4, <2>5
<1>5. CASE polling # "refresh"
  <2>1. ~dirty => known = savedRev
    BY <1>3, <1>5 DEF CleanKnown
  <2>2. CASE HandleOwn \/ HandledForeign \/ HandleSaved \/ AfterCommit \/ Saved
    <3>1. CASE HandleOwn \/ HandledForeign \/ AfterCommit
      <4>1. savedRev' = savedRev /\ dirty' = (known' # savedRev)
        BY <3>1 DEF HandleOwn, HandledForeign, AfterCommit, DirtyAt
      <4> QED
        BY <4>1
    <3>2. CASE HandleSaved \/ Saved
      BY <3>2 DEF HandleSaved, Saved
    <3> QED
      BY <2>2, <3>1, <3>2
  <2>3. CASE PollRevision
    BY <2>1, <2>3 DEF PollRevision
  <2>4. CASE PollRefresh
    BY <1>5, <2>4 DEF PollRefresh
  <2>5. CASE Resynced \/ PushCommit
    <3>1. (dirty => dirty') /\ known' = known /\ savedRev' = savedRev
      <4>1. CASE Resynced
        BY <1>1, <4>1 DEF Resynced, Reads, FailsToRead
      <4>2. CASE PushCommit
        BY <4>2 DEF PushCommit, Reads
      <4> QED
        BY <2>5, <4>1, <4>2
    <3> QED
      BY <2>1, <3>1
  <2>6. CASE ~(HandleOwn \/ HandledForeign \/ HandleSaved \/ AfterCommit \/ Saved) /\ ~PollRevision /\ ~PollRefresh
             /\ ~(Resynced \/ PushCommit)
    <3>1. UNCHANGED <<known, savedRev, dirty>>
      BY <2>6 DEF DocumentNext, External, Handle, Poll, OwnCalls, documentVars, marks,
         ForeignChange, ForeignSave, LoseEvent, LinkDown, LinkUp, EventArrives,
         HandleForeign, HandlePoll, PollTimer, PollServed, DropCommit, SaveServed, BeginCommit, Command, save
    <3> QED
      BY <2>1, <3>1
  <2> QED
    BY <2>2, <2>3, <2>4, <2>5, <2>6
<1> QED
  BY <1>4, <1>5

\* What the store has read it keeps.
LEMMA ShownGrows ==
  ASSUME [DocumentNext]_documentVars
  PROVE  shown \subseteq shown'
BY DEF DocumentNext, External, Handle, Poll, OwnCalls, documentVars, marks, Reads, FailsToRead,
       ForeignChange, ForeignSave, LoseEvent, LinkDown, LinkUp, EventArrives,
       HandleOwn, HandleForeign, HandledForeign, HandleSaved, HandlePoll,
       PollTimer, PollServed, PollRevision, PollRefresh, PushCommit, DropCommit, Resynced,
       AfterCommit, SaveServed, Saved, BeginCommit, Command, save

\* An event under way or waiting that names a revision, before and after a step.
LEMMA ChangedMoves ==
  ASSUME Ranges, NEW r \in Nat, [DocumentNext]_documentVars
  PROVE  /\ Sends => /\ ChangedIn(queue, r) => ChangedIn(queue', r)
                     /\ ChangedIn(wire, r) => ChangedIn(wire', r)
                     /\ link /\ rev' = rev + 1 => ChangedIn(wire', rev')
         /\ LoseEvent => /\ ChangedIn(queue, r) => ChangedIn(queue', r)
         /\ EventArrives => /\ ChangedIn(queue, r) => ChangedIn(queue', r)
                            /\ ChangedIn(wire, r) => ChangedIn(queue', r) \/ ChangedIn(wire', r)
         /\ Runs => /\ ChangedIn(wire, r) => ChangedIn(wire', r)
                    /\ ChangedIn(queue, r) =>
                         ChangedIn(queue', r) \/ (Next1.kind = "changed" /\ Next1.rev = r)
         /\ Aside => /\ ChangedIn(queue, r) => ChangedIn(queue', r)
                     /\ ChangedIn(wire, r) => ChangedIn(wire', r)
<1>1. CASE Sends
  <2>1. queue' = queue
    BY <1>1, SentItems
  <2>2. /\ Len(wire) \in Nat
        /\ ~link => wire' = wire
        /\ link => /\ Len(wire') = Len(wire) + 1
                   /\ \A j \in 1..Len(wire) : wire'[j] = wire[j]
                   /\ wire'[Len(wire) + 1].rev = rev'
                   /\ wire'[Len(wire) + 1].kind = "changed" <=> rev' = rev + 1
    BY <1>1, SentItems
  <2>3. ChangedIn(wire, r) => ChangedIn(wire', r)
    <3> SUFFICES ASSUME NEW j \in 1..Len(wire), wire[j].kind = "changed", wire[j].rev = r
                 PROVE  ChangedIn(wire', r)
      BY DEF ChangedIn
    <3>1. CASE ~link
      BY <2>2, <3>1 DEF ChangedIn
    <3>2. CASE link
      <4>1. j \in 1..Len(wire') /\ wire'[j] = wire[j]
        BY <2>2, <3>2
      <4> QED
        BY <4>1 DEF ChangedIn
    <3> QED
      BY <3>1, <3>2
  <2>4. link /\ rev' = rev + 1 => ChangedIn(wire', rev')
    <3> SUFFICES ASSUME link, rev' = rev + 1 PROVE ChangedIn(wire', rev')
      OBVIOUS
    <3>1. Len(wire) + 1 \in 1..Len(wire')
      BY <2>2
    <3> QED
      BY <2>2, <3>1 DEF ChangedIn
  <2>5. ~LoseEvent /\ ~EventArrives /\ ~Runs /\ ~Aside
    <3>1. seq' = seq + 1 /\ seq \in Nat
      BY <1>1, SentItems DEF Ranges, DocumentTypeOK
    <3>2. LoseEvent \/ EventArrives \/ Runs \/ Aside => seq' = seq
      BY LostItems, ArrivedBoth, RunItems, AsideSame DEF server
    <3> QED
      BY <3>1, <3>2
  <2> QED
    BY <2>1, <2>3, <2>4, <2>5
<1>2. LoseEvent => (ChangedIn(queue, r) => ChangedIn(queue', r))
  BY LostItems
<1>3. EventArrives => /\ ChangedIn(queue, r) => ChangedIn(queue', r)
                      /\ ChangedIn(wire, r) => ChangedIn(queue', r) \/ ChangedIn(wire', r)
  <2> SUFFICES ASSUME EventArrives
               PROVE  /\ ChangedIn(queue, r) => ChangedIn(queue', r)
                      /\ ChangedIn(wire, r) => ChangedIn(queue', r) \/ ChangedIn(wire', r)
    OBVIOUS
  <2>1. /\ Len(wire) \in Nat \ {0} /\ Len(wire') = Len(wire) - 1
        /\ \A j \in 1..Len(wire') : wire'[j] = wire[j + 1]
        /\ Len(queue) \in Nat /\ Len(queue') \in Nat /\ Len(queue') > Len(queue)
        /\ \A j \in 1..Len(queue) : queue'[j] = queue[j]
        /\ queue'[Len(queue')].kind = wire[1].kind /\ queue'[Len(queue')].rev = wire[1].rev
    BY ArrivedBoth
  <2>2. ASSUME NEW j \in 1..Len(queue), queue[j].kind = "changed", queue[j].rev = r
        PROVE  ChangedIn(queue', r)
    <3>1. j \in 1..Len(queue') /\ queue'[j] = queue[j]
      BY <2>1
    <3> QED
      BY <2>2, <3>1 DEF ChangedIn
  <2>3. ASSUME NEW j \in 1..Len(wire), wire[j].kind = "changed", wire[j].rev = r
        PROVE  ChangedIn(queue', r) \/ ChangedIn(wire', r)
    <3>1. CASE j = 1
      <4>1. Len(queue') \in 1..Len(queue')
        BY <2>1
      <4> QED
        BY <2>1, <2>3, <3>1, <4>1 DEF ChangedIn
    <3>2. CASE j # 1
      <4>1. j - 1 \in 1..Len(wire') /\ wire'[j - 1] = wire[(j - 1) + 1] /\ (j - 1) + 1 = j
        BY <2>1, <3>2
      <4> QED
        BY <2>3, <4>1 DEF ChangedIn
    <3> QED
      BY <3>1, <3>2
  <2> QED
    BY <2>2, <2>3 DEF ChangedIn
<1>4. Runs => /\ ChangedIn(wire, r) => ChangedIn(wire', r)
              /\ ChangedIn(queue, r) => ChangedIn(queue', r) \/ (Next1.kind = "changed" /\ Next1.rev = r)
  <2> SUFFICES ASSUME Runs
               PROVE  /\ ChangedIn(wire, r) => ChangedIn(wire', r)
                      /\ ChangedIn(queue, r) => ChangedIn(queue', r) \/ (Next1.kind = "changed" /\ Next1.rev = r)
    OBVIOUS
  <2>1. /\ wire' = wire
        /\ Len(queue) \in Nat \ {0} /\ Len(queue') = Len(queue) - 1
        /\ \A j \in 1..Len(queue') : queue'[j] = queue[j + 1]
        /\ Next1 = queue[1]
    BY RunItems
  <2>2. ASSUME NEW j \in 1..Len(queue), queue[j].kind = "changed", queue[j].rev = r
        PROVE  ChangedIn(queue', r) \/ (Next1.kind = "changed" /\ Next1.rev = r)
    <3>1. CASE j = 1
      BY <2>1, <2>2, <3>1
    <3>2. CASE j # 1
      <4>1. j - 1 \in 1..Len(queue') /\ queue'[j - 1] = queue[(j - 1) + 1] /\ (j - 1) + 1 = j
        BY <2>1, <3>2
      <4> QED
        BY <2>2, <4>1 DEF ChangedIn
    <3> QED
      BY <3>1, <3>2
  <2> QED
    BY <2>1, <2>2 DEF ChangedIn
<1>5. Aside => /\ ChangedIn(queue, r) => ChangedIn(queue', r)
               /\ ChangedIn(wire, r) => ChangedIn(wire', r)
  BY AsideSame
<1> QED
  BY <1>1, <1>2, <1>3, <1>4, <1>5

\* While no event is lost, a change the store has not read is told by an event, or is
\* one of our own that is about to be read.
LEMMA AnnouncedStep ==
  ASSUME Ranges, Announced, [DocumentNext]_documentVars
  PROVE  Announced'
<1> SUFFICES ASSUME Kept', count'["losses"] = 0, link', NEW r \in 1..rev' \ shown'
             PROVE  IF r \in own' THEN commandAt' = "reading"
                    ELSE ChangedIn(queue', r) \/ handling' = r \/ ChangedIn(wire', r)
  BY DEF Announced
<1>1. /\ Steady /\ link /\ link' = link /\ ~LinkUp /\ ~LinkDown
      /\ count["fails"] = 0 /\ ~Once("fails")
      /\ count["losses"] = 0 /\ ~LoseEvent
  BY SteadyStep, NoFailureStep, NoLossStep DEF Kept, Steady
<1>2. /\ Values /\ shown \subseteq shown' /\ own \subseteq 1..rev /\ Ranges' /\ r \in Nat /\ rev' \in Nat
  BY TypedValues, TypedValuesNext, ShownGrows, RangesStep DEF Ranges, OtherRanges, Values
<1>3. r \in 1..rev \ shown =>
        IF r \in own THEN commandAt = "reading"
        ELSE ChangedIn(queue, r) \/ handling = r \/ ChangedIn(wire, r)
  BY <1>1 DEF Announced, Kept, Steady
<1>4. CASE Sends
  <2>1. /\ rev' \in {rev, rev + 1} /\ handling' = handling
        /\ ChangedIn(queue, r) => ChangedIn(queue', r)
        /\ ChangedIn(wire, r) => ChangedIn(wire', r)
        /\ rev' = rev + 1 => ChangedIn(wire', rev')
    BY <1>1, <1>2, <1>4, SentItems, ChangedMoves
  <2>2. /\ own' = own \/ (own' = own \union {rev'} /\ rev' = rev + 1)
        /\ commandAt' = commandAt \/ commandAt' = "reading"
    BY <1>4 DEF Sends, ForeignChange, ForeignSave, Command, PushCommit, SaveServed, Changes, calls
  <2>3. CASE r \in 1..rev
    <3>1. r \in own' => r \in own
      BY <1>2, <2>2, <2>3 DEF Values
    <3>2. own \subseteq own'
      BY <2>2
    <3> QED
      BY <1>2, <1>3, <2>1, <2>2, <2>3, <3>1, <3>2
  <2>4. CASE r \notin 1..rev
    <3>1. r = rev' /\ rev' = rev + 1
      BY <1>2, <2>1, <2>4 DEF Values
    <3>2. ChangedIn(wire', r)
      BY <2>1, <3>1
    <3>3. r \in own' => Command \/ PushCommit
      <4>1. r \notin own
        BY <1>2, <2>4
      <4> QED
        BY <1>4, <4>1 DEF Sends, ForeignChange, ForeignSave, SaveServed, Changes, server
    <3>4. Command => commandAt' = "reading"
      BY DEF Command
    <3>5. ~PushCommit
      <4> SUFFICES ASSUME PushCommit PROVE r \in shown'
        OBVIOUS
      <4> QED
        BY <3>1 DEF PushCommit, Reads
    <3> QED
      BY <3>2, <3>3, <3>4, <3>5
  <2> QED
    BY <2>3, <2>4
<1>5. CASE EventArrives
  <2>1. UNCHANGED <<rev, own, commandAt, handling>>
    BY <1>5 DEF EventArrives, server, calls
  <2> QED
    BY <1>2, <1>3, <1>5, <2>1, ChangedMoves
<1>6. CASE Runs
  <2>1. UNCHANGED <<rev, own, commandAt>> /\ handling = None /\ Next1 = queue[1] /\ Len(queue) \in Nat \ {0}
    BY <1>6, RunItems DEF server, calls
  <2>2. /\ ChangedIn(wire, r) => ChangedIn(wire', r)
        /\ ChangedIn(queue, r) => ChangedIn(queue', r) \/ (Next1.kind = "changed" /\ Next1.rev = r)
    BY <1>2, <1>6, ChangedMoves
  <2>3. CASE Next1.kind = "changed" /\ Next1.rev = r /\ r \notin own
    <3>1. HandleForeign
      BY <1>6, <2>3 DEF Runs, HandleOwn, HandleSaved, HandlePoll, Ours
    <3> QED
      BY <2>1, <2>3, <3>1 DEF HandleForeign
  <2>4. handling # r
    BY <1>2, <2>1 DEF None
  <2> QED
    BY <1>2, <1>3, <2>1, <2>2, <2>3, <2>4
<1>7. CASE Aside
  <2>1. /\ UNCHANGED <<rev, own>>
        /\ ChangedIn(queue, r) => ChangedIn(queue', r)
        /\ ChangedIn(wire, r) => ChangedIn(wire', r)
    BY <1>2, <1>7, AsideSame, ChangedMoves DEF server
  <2>2. CASE HandledForeign
    <3>1. handling \in shown' /\ commandAt' = commandAt
      BY <1>1, <2>2 DEF HandledForeign, calls, Everything, Ranges, DocumentTypeOK, OtherRanges, Revs, None
    <3> QED
      BY <1>2, <1>3, <2>1, <3>1
  <2>3. CASE Resynced
    <3>1. shown' = shown \union 1..rev
      BY <1>1, <2>3 DEF Resynced, Reads, FailsToRead, Everything
    <3> QED
      BY <2>1, <3>1
  <2>4. CASE ~HandledForeign /\ ~Resynced
    <3>1. handling' = handling /\ (commandAt = "reading" => commandAt' = "reading")
      BY <1>7, <2>4 DEF Aside, PollTimer, PollServed, PollRevision, PollRefresh, calls,
         BeginCommit, DropCommit, AfterCommit, save, Saved, documentVars
    <3> QED
      BY <1>2, <1>3, <2>1, <3>1
  <2> QED
    BY <2>2, <2>3, <2>4
<1> QED
  BY <1>1, <1>4, <1>5, <1>6, <1>7, StepKinds

\* While nothing is called, a change the store has not read waits in the queue or is
\* being read, or nothing that is known or waits is as new and an event, the sequence or
\* a check will tell.
LEMMA CheckedStep ==
  ASSUME Ranges, Began, InOrder, PollsForced, Checked, [DocumentNext]_documentVars
  PROVE  Checked'
<1> SUFFICES ASSUME Kept', CallsOfOurs' = 0, link', NEW r \in 1..rev' \ shown'
             PROVE  \/ ChangedIn(queue', r) \/ handling' = r
                    \/ Reread(r)' \/ ToCome(r)' \/ Asked(r)' \/ ToAsk(r)'
  BY DEF Checked
<1>1. /\ Steady /\ link /\ ~LinkUp /\ ~LinkDown
      /\ count["fails"] = 0 /\ ~Once("fails")
      /\ CallsOfOurs = 0 /\ Silent /\ Silent'
  BY SteadyStep, NoFailureStep, QuietStep DEF Kept, Steady
<1>2. /\ Values /\ shown \subseteq shown' /\ r \in Nat /\ rev' \in Nat /\ Len(queue) \in Nat /\ Len(wire) \in Nat
      /\ \A j \in 1..Len(queue) : queue[j].rev \in 0..rev
      /\ \A j \in 1..Len(wire) : wire[j].rev \in 1..rev
  <2>1. Len(queue) \in Nat /\ Len(wire) \in Nat
    BY LenProperties DEF Ranges, DocumentTypeOK
  <2>2. Values /\ rev' \in Nat /\ shown \subseteq shown'
    BY TypedValues, TypedValuesNext, RangesStep, ShownGrows DEF Ranges, Values
  <2>3. \A j \in 1..Len(queue) : queue[j].rev \in 0..rev
    BY <2>2 DEF Ranges, QueueRanges, Values, None
  <2>4. \A j \in 1..Len(wire) : wire[j].rev \in 1..rev
    BY DEF Ranges, WireRanges
  <2> QED
    BY <2>1, <2>2, <2>3, <2>4
<1>3. r \in 1..rev => ChangedIn(queue, r) \/ handling = r \/ Reread(r) \/ ToCome(r) \/ Asked(r) \/ ToAsk(r)
  BY <1>1, <1>2 DEF Checked, Kept, Steady
<1>4. /\ handling # None => ~forced
      /\ polling # "no" => forced
      /\ handling \in 0..rev /\ r > 0
  BY <1>1, <1>2 DEF Ranges, DocumentTypeOK, OtherRanges, PollsForced, Revs
<1>5. CASE Sends
  <2>1. /\ rev' \in {rev, rev + 1} /\ UNCHANGED <<handling, known, queue, poll>> /\ Lost' = Lost
        /\ ChangedIn(wire, r) => ChangedIn(wire', r)
        /\ rev' = rev + 1 => ChangedIn(wire', rev')
    BY <1>1, <1>2, <1>5, SentItems, ChangedMoves
  <2>2. CASE r \in 1..rev
    BY <1>3, <2>1, <2>2 DEF Reread, ToCome, Asked, ToAsk, Behind, poll
  <2>3. CASE r \notin 1..rev
    <3>1. r = rev' /\ rev' = rev + 1
      BY <1>2, <2>1, <2>3 DEF Values
    <3>2. known < r /\ handling < r /\ \A j \in 1..Len(queue) : queue[j].rev < r
      BY <1>2, <1>4, <3>1 DEF Values
    <3> QED
      BY <2>1, <3>1, <3>2 DEF ToCome, Behind
  <2> QED
    BY <2>2, <2>3
<1>6. CASE LoseEvent
  <2>1. /\ UNCHANGED <<server, queue, handling, marks, poll>>
        /\ Len(wire) \in Nat \ {0} /\ Len(wire') = Len(wire) - 1
        /\ \A j \in 1..Len(wire') : wire'[j] = wire[j + 1]
        /\ Lost' = Lost + 1
    BY <1>6, LostItems
  <2>2. Lost' > 0
    <3>1. Lost >= 0 /\ Lost \in Int
      BY <1>1, <1>2 DEF InOrder, Lost, Values
    <3> QED
      BY <2>1, <3>1
  <2>3. ToCome(r) => ToCome(r)'
    BY <2>1, <2>2 DEF ToCome, Behind, marks
  <2> QED
    BY <1>3, <2>1, <2>3 DEF Reread, Asked, ToAsk, Behind, poll, marks, server
<1>7. CASE EventArrives
  <2>1. /\ UNCHANGED <<server, handling, marks, poll>>
        /\ Len(wire) \in Nat \ {0} /\ Len(wire') = Len(wire) - 1
        /\ \A j \in 1..Len(wire') : wire'[j] = wire[j + 1]
        /\ \A j \in 1..Len(queue) : queue'[j] = queue[j]
        /\ Len(queue') = Len(queue) + (IF lastSeq # 0 /\ Lost > 0 THEN 2 ELSE 1)
        /\ lastSeq # 0 /\ Lost > 0 => queue'[Len(queue) + 1].kind = "poll" /\ queue'[Len(queue) + 1].rev = 0
        /\ queue'[Len(queue')].kind = wire[1].kind /\ queue'[Len(queue')].rev = wire[1].rev
    BY <1>7, ArrivedBoth
  <2>2. ToAsk(r) => ToAsk(r)'
    <3> SUFFICES ASSUME ToAsk(r) PROVE ToAsk(r)'
      OBVIOUS
    <3> PICK p \in 1..Len(queue) : queue[p].kind = "poll" /\ \A j \in 1..(p - 1) : queue[j].rev < r
      BY DEF ToAsk
    <3>1. p \in 1..Len(queue') /\ queue'[p] = queue[p] /\ \A j \in 1..(p - 1) : queue'[j] = queue[j]
      <4>1. Len(queue') >= Len(queue) /\ Len(queue') \in Nat /\ \A j \in 1..(p - 1) : j \in 1..Len(queue)
        BY <1>2, <2>1
      <4> QED
        BY <1>2, <2>1, <4>1
    <3>2. Behind(r)'
      BY <2>1 DEF ToAsk, Behind, marks
    <3> QED
      BY <3>1, <3>2 DEF ToAsk
  <2>3. ChangedIn(queue, r) => ChangedIn(queue', r)
    BY <1>2, <1>7, ChangedMoves
  <2>4. ToCome(r) => ToAsk(r)' \/ ToCome(r)' \/ ChangedIn(queue', r)
    <3> SUFFICES ASSUME ToCome(r) PROVE ToAsk(r)' \/ ToCome(r)' \/ ChangedIn(queue', r)
      OBVIOUS
    <3>1. Behind(r)' /\ \A j \in 1..Len(queue) : queue'[j].rev < r
      BY <2>1 DEF ToCome, Behind, marks
    <3>2. Lost > 0 => lastSeq # 0
      BY <1>1, <1>2 DEF InOrder
    <3>3. CASE Lost > 0
      <4> DEFINE p == Len(queue) + 1
      <4>1. p \in 1..Len(queue') /\ queue'[p].kind = "poll" /\ 1..(p - 1) = 1..Len(queue)
        BY <1>2, <2>1, <3>2, <3>3
      <4> HIDE DEF p
      <4> QED
        BY <3>1, <4>1 DEF ToAsk
    <3>4. CASE ~(Lost > 0)
      <4>1. Len(queue') = Len(queue) + 1
        BY <2>1, <3>4
      <4> PICK m \in 1..Len(wire) : wire[m].kind = "changed" /\ wire[m].rev = r
        BY <3>4 DEF ToCome, ChangedIn
      <4>2. CASE m = 1
        <5>1. Len(queue') \in 1..Len(queue')
          BY <1>2, <4>1
        <5> QED
          BY <2>1, <4>2, <5>1 DEF ChangedIn
      <4>3. CASE m # 1
        <5>1. 1 \in 1..Len(wire) /\ 1 < m
          BY <2>1, <4>3
        <5>2. wire[1].rev < r
          BY <5>1 DEF InOrder
        <5>3. \A j \in 1..Len(queue') : queue'[j].rev < r
          BY <1>2, <2>1, <3>1, <4>1, <5>2
        <5>4. m - 1 \in 1..Len(wire') /\ wire'[m - 1] = wire[(m - 1) + 1] /\ (m - 1) + 1 = m
          BY <2>1, <4>3
        <5>5. ChangedIn(wire', r)
          BY <5>4 DEF ChangedIn
        <5> QED
          BY <3>1, <5>3, <5>5 DEF ToCome
      <4> QED
        BY <4>2, <4>3
    <3> QED
      BY <3>3, <3>4
  <2>5. (Reread(r) => Reread(r)') /\ (Asked(r) => Asked(r)') /\ rev' = rev /\ handling' = handling
    BY <2>1 DEF Reread, Asked, Behind, poll, marks, server
  <2> QED
    BY <1>3, <2>2, <2>3, <2>4, <2>5
<1>8. CASE Runs
  <2>1. /\ UNCHANGED <<server, wire, link, lastSeq, shown, pollAt, got>> /\ handling = None /\ ~forced
        /\ Len(queue) \in Nat \ {0} /\ Len(queue') = Len(queue) - 1
        /\ \A j \in 1..Len(queue') : queue'[j] = queue[j + 1]
        /\ Next1 = queue[1]
    BY <1>8, RunItems
  <2>2. polling = "no" /\ ~Reread(r) /\ ~Asked(r) /\ handling # r
    BY <1>4, <2>1 DEF Reread, Asked, None
  <2>3. r \in 1..rev
    BY <1>2, <2>1 DEF server
  <2>4. ~HandleOwn
    BY <1>1 DEF Silent, HandleOwn, Ours
  <2>5. ChangedIn(queue, r) => ChangedIn(queue', r) \/ handling' = r
    <3>1. ChangedIn(queue, r) => ChangedIn(queue', r) \/ (Next1.kind = "changed" /\ Next1.rev = r)
      BY <1>2, <1>8, ChangedMoves
    <3>2. Next1.kind = "changed" /\ Next1.rev = r => handling' = r
      BY <1>8, <2>4 DEF Runs, HandleForeign, HandleSaved, HandlePoll
    <3> QED
      BY <3>1, <3>2
  \* Whatever the handler at the head takes for known is older.
  <2>6. Behind(r) /\ (queue[1].kind = "poll" \/ queue[1].rev < r) => Behind(r)'
    <3> SUFFICES ASSUME Behind(r), queue[1].kind = "poll" \/ queue[1].rev < r PROVE Behind(r)'
      OBVIOUS
    <3>1. CASE HandleForeign
      BY <2>1, <3>1 DEF HandleForeign, Behind, marks
    <3>2. CASE HandleSaved
      BY <2>1, <3>2 DEF HandleSaved, Behind
    <3>3. CASE HandlePoll
      BY <3>3 DEF HandlePoll, Behind, marks
    <3> QED
      BY <1>8, <2>4, <3>1, <3>2, <3>3 DEF Runs
  <2>7. ToCome(r) => ToCome(r)'
    <3> SUFFICES ASSUME ToCome(r) PROVE ToCome(r)'
      OBVIOUS
    <3>1. Behind(r)' /\ \A j \in 1..Len(queue') : queue'[j].rev < r
      BY <2>1, <2>6 DEF ToCome
    <3>2. Lost' = Lost /\ wire' = wire
      BY <2>1 DEF Lost, server
    <3> QED
      BY <3>1, <3>2 DEF ToCome
  <2>8. ToAsk(r) => ToAsk(r)' \/ Asked(r)'
    <3> SUFFICES ASSUME ToAsk(r) PROVE ToAsk(r)' \/ Asked(r)'
      OBVIOUS
    <3> PICK p \in 1..Len(queue) : queue[p].kind = "poll" /\ \A j \in 1..(p - 1) : queue[j].rev < r
      BY DEF ToAsk
    <3>1. CASE p = 1
      <4>1. HandlePoll
        BY <1>8, <2>1, <3>1 DEF Runs, HandleOwn, HandleForeign, HandleSaved
      <4>2. Behind(r)'
        BY <2>6, <3>1 DEF ToAsk
      <4>3. ~Busy
        BY <1>1, <2>1 DEF Busy, Silent
      <4>4. polling' = "revision"
        BY <2>2, <4>1, <4>3 DEF HandlePoll
      <4>5. got' = None
        BY <2>1, <2>2 DEF Ranges, OtherRanges
      <4> QED
        BY <4>2, <4>4, <4>5 DEF Asked
    <3>2. CASE p # 1
      <4>1. 1 \in 1..(p - 1)
        BY <3>2
      <4>2. Behind(r)'
        BY <2>6, <4>1 DEF ToAsk
      <4>3. /\ p - 1 \in 1..Len(queue') /\ (p - 1) + 1 = p
            /\ \A j \in 1..(p - 1 - 1) : j \in 1..Len(queue') /\ j + 1 \in 1..(p - 1)
        BY <2>1, <3>2
      <4>4. queue'[p - 1].kind = "poll" /\ \A j \in 1..((p - 1) - 1) : queue'[j].rev < r
        BY <2>1, <4>3
      <4> QED
        BY <4>2, <4>3, <4>4 DEF ToAsk
    <3> QED
      BY <3>1, <3>2
  <2> QED
    BY <1>3, <2>2, <2>3, <2>5, <2>7, <2>8
<1>9. CASE Aside
  <2>1. UNCHANGED <<server, wire, lastSeq, queue>>
    BY <1>9, AsideSame
  <2>2. r \in 1..rev /\ r \notin shown /\ Lost' = Lost
    BY <1>2, <2>1 DEF server, Lost
  <2>3. CASE HandledForeign
    <3>1. /\ handling \in shown' /\ known' = handling /\ handling' = None /\ polling # "revision"
          /\ UNCHANGED poll
      BY <1>1, <1>4, <2>3 DEF HandledForeign, AnsweredBefore, Everything, None
    <3>2. handling # r /\ ~Asked(r)
      BY <3>1 DEF Asked
    <3>3. Behind(r) => Behind(r)'
      BY <1>4, <3>1 DEF Behind, None
    <3>4. (ToCome(r) => ToCome(r)') /\ (ToAsk(r) => ToAsk(r)') /\ (Reread(r) => Reread(r)')
      BY <2>1, <2>2, <3>1, <3>3 DEF ToCome, ToAsk, Reread, poll
    <3> QED
      BY <1>3, <2>1, <2>2, <3>2, <3>4
  <2>4. CASE PollServed
    <3>1. UNCHANGED <<handling, known, polling>> /\ got' = rev
      BY <2>4 DEF PollServed, marks
    <3>2. r <= rev /\ got' >= r
      BY <1>2, <2>2, <3>1 DEF Values
    <3> QED
      BY <1>3, <2>1, <2>2, <3>1, <3>2 DEF ToCome, ToAsk, Reread, Asked, Behind
  <2>5. CASE PollRevision
    <3>1. handling' = handling /\ got # None /\ polling = "revision" /\ ~Reread(r)
      BY <2>5 DEF PollRevision, Reread
    <3>2. CASE Moved
      BY <2>5, <3>2 DEF PollRevision, Reread
    <3>3. CASE ~Moved
      <4>1. known' = known /\ got = known
        BY <2>5, <3>3 DEF PollRevision, Moved
      <4>2. ~Asked(r)
        BY <1>2, <3>1, <4>1 DEF Asked, Behind, Values
      <4> QED
        BY <1>3, <2>1, <2>2, <3>1, <4>1, <4>2 DEF ToCome, ToAsk, Behind
    <3> QED
      BY <3>2, <3>3
  <2>6. CASE PollRefresh
    <3>1. /\ UNCHANGED <<handling, known>> /\ got # None /\ polling = "refresh"
          /\ shown' = shown \union 1..got
      BY <1>1, <2>6 DEF PollRefresh, FailsToRead
    <3>2. ~Reread(r) /\ ~Asked(r)
      <4>1. r \notin 1..got
        BY <3>1
      <4> QED
        BY <1>2, <1>4, <3>1, <4>1 DEF Reread, Asked, Values, Revs
    <3> QED
      BY <1>3, <2>1, <2>2, <3>1, <3>2 DEF ToCome, ToAsk, Behind
  <2>7. CASE ~HandledForeign /\ ~PollServed /\ ~PollRevision /\ ~PollRefresh
    <3>1. ~PollTimer
      BY <1>1 DEF PollTimer
    <3>2. UNCHANGED documentVars
      BY <1>1, <1>9, <2>7, <3>1 DEF Aside, Silent, BeginCommit, DropCommit, Resynced, AfterCommit, save, Saved
    <3> QED
      BY <1>3, <2>2, <3>2 DEF ToCome, ToAsk, Reread, Asked, Behind, documentVars, marks, poll, server
  <2> QED
    BY <2>3, <2>4, <2>5, <2>6, <2>7
<1> QED
  BY <1>1, <1>5, <1>6, <1>7, <1>8, <1>9, StepKinds

-----------------------------------------------------------------------------
(* The invariant of the document service, and what follows from it. *)

DocumentInv ==
  /\ Ranges /\ Began /\ Deaf /\ InOrder /\ PollsForced /\ Latest /\ RereadKnown
  /\ Timed /\ Announced /\ Checked /\ CleanKnown /\ FileKept

\* Nothing has happened yet and the store has read the only revision.
LEMMA DocumentInvInit == DocumentInit => DocumentInv
<1> SUFFICES ASSUME DocumentInit PROVE DocumentInv
  OBVIOUS
<1>1. Ranges
  BY RangesInit
<1>2. Len(wire) = 0 /\ Len(queue) = 0 /\ wire = <<>> /\ queue = <<>>
  BY DEF DocumentInit
<1>3. Began /\ Deaf /\ InOrder /\ RereadKnown
  <2>1. Lost = 0
    <3>1. seq = 0 /\ lastSeq = 0
      BY DEF DocumentInit
    <3> QED
      BY ONLY <1>2, <3>1 DEF Lost
  <2>2. InOrder
    BY <1>2, <2>1 DEF InOrder
  <2> QED
    BY <1>2, <2>2 DEF DocumentInit, Began, Deaf, RereadKnown, None
<1>4. PollsForced /\ Latest
  <2>1. PollsForced
    BY <1>2 DEF DocumentInit, PollsForced
  <2>2. Latest
    BY <1>2 DEF DocumentInit, Latest, None
  <2> QED
    BY <2>1, <2>2
<1>5. 1..rev \ shown = {} /\ 1..known \subseteq shown
  BY DEF DocumentInit
<1>6. Timed /\ Announced /\ Checked
  BY <1>5 DEF Timed, Announced, Checked, DocumentInit
<1>7. CleanKnown /\ FileKept
  BY DEF DocumentInit, CleanKnown, FileKept
<1> QED
  BY <1>1, <1>3, <1>4, <1>6, <1>7 DEF DocumentInv

LEMMA DocumentInvStep == DocumentInv /\ [DocumentNext]_documentVars => DocumentInv'
BY RangesStep, BeganStep, DeafStep, InOrderStep, PollsForcedStep, LatestStep, RereadKnownStep,
   TimedStep, AnnouncedStep, CheckedStep, CleanKnownStep, FileKeptStep DEF DocumentInv

LEMMA DocumentInvHolds == DocumentSpec => []DocumentInv
<1>1. DocumentInit => DocumentInv
  BY DocumentInvInit
<1>2. DocumentInv /\ [DocumentNext]_documentVars => DocumentInv'
  BY DocumentInvStep
<1> QED
  BY <1>1, <1>2, PTL DEF DocumentSpec

\* The state of the document service is well typed: in particular what it takes for
\* known or saved is a revision that exists, and no handler runs while the queue waits
\* for a forced poll.
THEOREM DocumentTypeCorrect == DocumentSpec => []DocumentTypeOK
<1>1. DocumentInv => DocumentTypeOK
  BY DEF DocumentInv, Ranges
<1> QED
  BY <1>1, DocumentInvHolds, PTL

\* Once events, handlers, polls and calls have come to rest, the store has read every
\* revision of the document, whatever was lost or done in between (KicadDocumentService's
\* gap and reconnect checks, its handlers and its timer).
THEOREM NothingIsMissed == DocumentSpec => []NothingMissed
<1>1. DocumentInv => NothingMissed
  <2> SUFFICES ASSUME DocumentInv, Settled, NothingSkipped PROVE shown = 1..rev
    BY DEF NothingMissed
  <2>1. /\ queue = <<>> /\ handling = None /\ polling = "no" /\ commandAt = "no" /\ wire = <<>>
        /\ link => lastSeq = seq
        /\ ~link => known = rev
        /\ Len(wire) = 0 /\ Len(queue) = 0
    BY DEF Settled, Idle
  <2>2. shown \subseteq 1..rev /\ Values
    BY TypedValues DEF DocumentInv, Ranges, DocumentTypeOK
  <2>3. Kept /\ Steady
    BY DEF NothingSkipped, Kept, Steady
  <2>4. CASE CallsOfOurs = 0 /\ ~link
    BY <2>1, <2>2, <2>3, <2>4 DEF DocumentInv, Timed
  <2>5. CASE CallsOfOurs = 0 /\ link
    <3> SUFFICES ASSUME NEW r \in 1..rev \ shown PROVE FALSE
      BY <2>2
    <3>1. ChangedIn(queue, r) \/ handling = r \/ Reread(r) \/ ToCome(r) \/ Asked(r) \/ ToAsk(r)
      BY <2>3, <2>5 DEF DocumentInv, Checked
    <3>2. ~ChangedIn(queue, r) /\ ~ChangedIn(wire, r) /\ ~ToAsk(r)
      BY <2>1 DEF ChangedIn, ToAsk
    <3>3. handling # r /\ ~Reread(r) /\ ~Asked(r)
      BY <2>1, <2>2 DEF Reread, Asked, None, Values
    <3>4. ~(Lost > 0)
      BY <2>1, <2>2, <2>5 DEF Lost, Values
    <3> QED
      BY <3>1, <3>2, <3>3, <3>4 DEF ToCome
  <2>6. CASE link /\ count.losses = 0
    <3> SUFFICES ASSUME NEW r \in 1..rev \ shown PROVE FALSE
      BY <2>2
    <3>1. IF r \in own THEN commandAt = "reading" ELSE ChangedIn(queue, r) \/ handling = r \/ ChangedIn(wire, r)
      BY <2>3, <2>6 DEF DocumentInv, Announced
    <3>2. ~ChangedIn(queue, r) /\ ~ChangedIn(wire, r) /\ handling # r
      BY <2>1, <2>2 DEF ChangedIn, None, Values
    <3> QED
      BY <2>1, <3>1, <3>2
  <2> QED
    BY <2>4, <2>5, <2>6 DEF NothingSkipped
<1> QED
  BY <1>1, DocumentInvHolds, PTL

\* And then a document the application calls saved is on disk as it is, unless the
\* application saved it itself (onDocumentSaved, afterCommit and the `dirty` flag).
THEOREM CleanDocumentIsSaved == DocumentSpec => []CleanIsSaved
<1>1. DocumentInv => CleanIsSaved
  <2> SUFFICES ASSUME DocumentInv, Settled, NothingSkipped, ~dirty, count.saves = 0 PROVE onDisk = rev
    BY DEF CleanIsSaved
  <2>1. /\ queue = <<>> /\ handling = None /\ polling = "no" /\ wire = <<>>
        /\ link => lastSeq = seq
        /\ ~link => known = rev
    BY DEF Settled, Idle
  <2>2. Values /\ onDisk <= rev
    BY TypedValues DEF DocumentInv, Ranges, OtherRanges
  <2>3. known = rev
    BY <2>1 DEF NothingSkipped, Steady, DocumentInv, Latest
  <2>4. known = savedRev /\ savedRev <= onDisk
    BY <2>1 DEF DocumentInv, CleanKnown, FileKept
  <2> QED
    BY <2>2, <2>3, <2>4 DEF Values
<1> QED
  BY <1>1, DocumentInvHolds, PTL
=============================================================================
