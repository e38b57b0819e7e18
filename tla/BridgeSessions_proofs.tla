----------------------- MODULE BridgeSessions_proofs -----------------------
(***************************************************************************)
(* Theorems about BridgeSessions for every number of sessions, ids and      *)
(* clients.                                                                 *)
(***************************************************************************)
EXTENDS BridgeSessions, TLAPS

\* TypeOK is not inductive: nothing runs before the spawn, and stop() only
\* caught a process that was there.
Base ==
  /\ TypeOK
  /\ \A s \in Session : /\ call[s] \in {"idle", "checking", "preparing"} => proc[s] = "none"
                        /\ \A w \in By : caught[s][w] => proc[s] # "none"

\* The parts of Base: where the sessions are filed, the other fields, and what
\* the fields of one session say of each other.
Filing == /\ sessions \in [Name -> Session \union {Nobody}]
          /\ \A n \in Name : sessions[n] # Nobody => IdOf[sessions[n]] = n
Calls == /\ call \in [Session -> {"idle", "checking"} \union Starting \union CallOver]
         /\ state \in [Session -> {"starting", "running", "failed", "exited"}]
Processes == /\ proc \in [Session -> {"none", "alive", "dying", "exited"}]
             /\ exitSeen \in [Session -> BOOLEAN]
             /\ transport \in [Session -> {"none", "open", "closed"}]
             /\ clients \in [Session -> SUBSET Client]
             /\ snapshot \subseteq Session /\ reaping \in Session \union {Nobody} /\ timer \in BOOLEAN
Stopping == /\ stopping \in [Session -> BOOLEAN] /\ subscriber \in [Session -> BOOLEAN]
            /\ stop \in [Session -> [By -> {"no", "events", "transport", "exit", "done"}]]
            /\ caught \in [Session -> [By -> BOOLEAN]]
Marks == \A s \in Session :
           /\ (\E w \in By : stop[s][w] # "no") => stopping[s]
           /\ call[s] = "failing" <=> stop[s]["start"] \notin {"no", "done"}
           /\ exitSeen[s] => proc[s] = "exited"
           /\ call[s] \in {"idle", "checking", "preparing"} => proc[s] = "none"
           /\ \A w \in By : caught[s][w] => proc[s] # "none"

LEMMA BaseParts ==
  /\ Base <=> Filing /\ Calls /\ Processes /\ Stopping /\ Marks
  /\ Base' <=> Filing' /\ Calls' /\ Processes' /\ Stopping' /\ Marks'
BY DEF Base, TypeOK, Filing, Calls, Processes, Stopping, Marks

\* Filing a session under its id, or taking it away.
LEMMA FileOne ==
  ASSUME Filing, NEW s \in Session, NEW v \in {s, Nobody},
         sessions' = [sessions EXCEPT ![IdOf[s]] = v]
  PROVE  Filing'
BY BridgeAssumption DEF Filing

\* StopBegins, whoever calls it for a session of the bridge.
LEMMA StopBeginsType ==
  ASSUME Base, NEW s \in Session, NEW w \in By, StopBegins(s, w)
  PROVE  /\ stopping' \in [Session -> BOOLEAN] /\ subscriber' \in [Session -> BOOLEAN]
         /\ stop' \in [Session -> [By -> {"no", "events", "transport", "exit", "done"}]]
         /\ caught' \in [Session -> [By -> BOOLEAN]]
         /\ stop'[s][w] = "events" /\ stopping'[s]
         /\ \A t \in Session, v \in By : <<t, v>> # <<s, w>> => stop'[t][v] = stop[t][v]
         /\ \A t \in Session : t # s => stopping'[t] = stopping[t]
         /\ \A t \in Session, v \in By : caught'[t][v] => caught[t][v] \/ proc[t] # "none"
BY DEF Base, TypeOK, StopBegins

\* Of the sessions a sweep of the reaper destroys none or one that is filed.
LEMMA SweepStops ==
  ASSUME Base, NEW todo \in SUBSET Session, Sweep(todo)
  PROVE  /\ snapshot' \subseteq Session
         /\ \/ \E s \in Session : /\ reaping' = s /\ sessions[IdOf[s]] = s /\ MayFind(s)
                                  /\ Unfile(s) /\ StopBegins(s, "destroy")
            \/ UNCHANGED <<sessions, stopping, stop, caught, subscriber, reaping>>
<1>1. CASE snapshot' = {} /\ UNCHANGED <<sessions, stopping, stop, caught, subscriber, reaping>>
  BY <1>1
<1>2. ASSUME NEW s \in todo, NEW rest \in SUBSET (todo \ {s}),
             MayFind(sessions[IdOf[s]]), snapshot' = rest, reaping' = sessions[IdOf[s]],
             Unfile(s), StopBegins(reaping', "destroy")
      PROVE  /\ snapshot' \subseteq Session
             /\ \E t \in Session : /\ reaping' = t /\ sessions[IdOf[t]] = t /\ MayFind(t)
                                   /\ Unfile(t) /\ StopBegins(t, "destroy")
  <2>1. IdOf[s] \in Name /\ s \in Session
    BY <1>2, BridgeAssumption
  <2>2. reaping' \in Session /\ reaping' # Nobody /\ IdOf[reaping'] = IdOf[s]
    BY <1>2, <2>1 DEF Base, TypeOK, MayFind
  <2>3. Unfile(reaping')
    BY <1>2, <2>2 DEF Unfile
  <2> QED
    BY <1>2, <2>1, <2>2, <2>3
<1> QED
  BY <1>1, <1>2 DEF Sweep

\* Every step keeps the types of the fields, and the process where it was
\* spawned (session.ts:103-131).
LEMMA BaseInvariant == Spec => []Base
<1>1. Init => Base
  BY BridgeAssumption DEF Init, Base, TypeOK, By, Starting, CallOver
<1>2. Base /\ [Next]_vars => Base'
  <2> SUFFICES ASSUME Base, [Next]_vars PROVE Base'
    OBVIOUS
  <2> USE BridgeAssumption
  <2>a. "start" \in By /\ "destroy" \in By
    BY DEF By
  <2>b. Filing /\ Calls /\ Processes /\ Stopping /\ Marks
    BY BaseParts
  <2>1. CASE UNCHANGED vars
    BY <2>1 DEF Base, TypeOK, vars, process, reaper
  <2>2. ASSUME NEW s \in Session, Create(s) PROVE Base'
    BY <2>2 DEF Create, Goes, Base, TypeOK, process, reaper, Starting, CallOver
  <2>3. ASSUME NEW s \in Session, Register(s) PROVE Base'
    <3>1. Filing'
      BY <2>3, BaseParts, FileOne DEF Register, Filing
    <3>2. Calls' /\ Processes' /\ Stopping'
      BY <2>3, <2>b DEF Register, Goes, Calls, Processes, Stopping, process, reaper, Starting, CallOver
    <3>3. Marks'
      BY <2>3, <2>b DEF Register, Goes, Calls, Marks, process
    <3> QED
      BY <3>1, <3>2, <3>3, BaseParts
  <2>4. ASSUME NEW s \in Session, Spawn(s) PROVE Base'
    <3>1. Filing'
      BY <2>4, BaseParts, FileOne DEF Spawn, Unfile, Filing
    <3>2. Calls' /\ Processes' /\ Stopping'
      BY <2>4, BaseParts DEF Spawn, Goes, Calls, Processes, Stopping, reaper, Starting, CallOver
    <3>3. UNCHANGED <<exitSeen, stopping, stop, caught>> /\ call[s] = "preparing" /\ proc[s] = "none"
      BY <2>4, <2>b DEF Spawn, Marks
    <3>4. \/ proc' = [proc EXCEPT ![s] = "alive"] /\ call' = [call EXCEPT ![s] = "socket"]
          \/ proc' = proc /\ call' = [call EXCEPT ![s] = "threw"]
      BY <2>4 DEF Spawn, Goes
    <3>5. ASSUME NEW t \in Session, t # s PROVE call'[t] = call[t] /\ proc'[t] = proc[t]
      BY <3>4, <3>5, <2>b DEF Calls, Processes
    <3>6. call'[s] \in {"socket", "threw"} /\ proc'[s] \in {"none", "alive"}
      BY <3>3, <3>4, <2>b DEF Calls, Processes
    <3>7. Marks'
      BY <3>3, <3>5, <3>6, <2>b DEF Marks
    <3> QED
      BY <3>1, <3>2, <3>7, BaseParts
  <2>5. ASSUME NEW s \in Session, SocketFound(s) PROVE Base'
    BY <2>5 DEF SocketFound, Proceeds, Goes, Base, TypeOK, process, reaper, Starting, CallOver
  <2>6. ASSUME NEW s \in Session, StartFails(s) PROVE Base'
    BY <2>6, <2>a, StopBeginsType DEF StartFails, Catch, Goes, Base, TypeOK, process, reaper, Starting, CallOver
  <2>7. ASSUME NEW s \in Session, PingAnswered(s) PROVE Base'
    BY <2>7 DEF PingAnswered, Proceeds, Goes, Base, TypeOK, process, reaper, Starting, CallOver
  <2>8. ASSUME NEW s \in Session, Pinged(s) PROVE Base'
    <3>1. Filing' /\ Processes'
      BY <2>8, BaseParts DEF Pinged, Proceeds, Catch, Filing, Processes, process, reaper
    <3>2. Calls'
      BY <2>8, BaseParts DEF Pinged, Proceeds, Catch, Goes, Calls, Starting, CallOver
    <3>3. CASE StillStarting(s)
      BY <2>8, <3>1, <3>2, <3>3, BaseParts DEF Pinged, Proceeds, Goes, Calls, Stopping, Marks, process
    <3>4. CASE ~StillStarting(s)
      <4>1. call[s] = "pinged" /\ Catch(s) /\ UNCHANGED proc /\ UNCHANGED exitSeen
        BY <2>8, <3>4 DEF Pinged, process
      <4>2. Stopping' /\ Marks'
        BY <2>a, <4>1, BaseParts, StopBeginsType DEF Catch, Goes, Calls, Stopping, Marks
      <4> QED
        BY <3>1, <3>2, <4>2, BaseParts
    <3> QED
      BY <3>3, <3>4
  <2>9. ASSUME NEW s \in Session, Subscribe(s) PROVE Base'
    BY <2>9 DEF Subscribe, StillUp, Goes, Base, TypeOK, process, reaper, Starting, CallOver
  <2>10. ASSUME NEW s \in Session, Exit(s) PROVE Base'
    BY <2>10 DEF Exit, Base, TypeOK, reaper
  <2>11. ASSUME NEW s \in Session, OnExit(s) PROVE Base'
    BY <2>11 DEF OnExit, Close, Base, TypeOK, reaper
  <2>12. ASSUME NEW s \in Session, NEW w \in By, StopClosesTransport(s, w) PROVE Base'
    BY <2>12 DEF StopClosesTransport, Close, Base, TypeOK, process, reaper, By
  <2>13. ASSUME NEW s \in Session, NEW w \in By, StopKills(s, w) PROVE Base'
    BY <2>13 DEF StopKills, Kill, Base, TypeOK, reaper, By
  <2>14. ASSUME NEW s \in Session, NEW w \in By, StopEnds(s, w) PROVE Base'
    <3>1. Filing'
      BY <2>14, BaseParts, FileOne DEF StopEnds, Unfile, Filing
    <3>2. Calls'
      BY <2>14, BaseParts DEF StopEnds, Goes, Calls, CallOver
    <3>3. Processes' /\ Stopping'
      BY <2>14, BaseParts DEF StopEnds, AllLeave, Processes, Stopping, process, reaper
    <3>4. Marks'
      BY <2>14, BaseParts DEF StopEnds, NothingToKill, Goes, Calls, Stopping, Marks, process, By
    <3> QED
      BY <3>1, <3>2, <3>3, <3>4, BaseParts
  <2>15. ASSUME NEW c \in Client, Connect(c) \/ Disconnect(c) PROVE Base'
    BY <2>15 DEF Connect, Disconnect, MayFind, Base, TypeOK, process, reaper
  <2>16. ASSUME NEW n \in Name, Destroy(n) PROVE Base'
    <3>1. PICK s \in Session : StopBegins(s, "destroy") /\ sessions' = [sessions EXCEPT ![n] = Nobody]
      BY <2>16, BaseParts DEF Destroy, MayFind, Filing
    <3>2. Filing' /\ Calls' /\ Processes'
      BY <2>16, <3>1, BaseParts DEF Destroy, Filing, Calls, Processes, process, reaper
    <3>3. UNCHANGED <<call, proc, exitSeen>>
      BY <2>16 DEF Destroy, process
    <3>4. Stopping' /\ Marks'
      BY <2>a, <3>1, <3>3, BaseParts, StopBeginsType DEF Stopping, Marks, By
    <3> QED
      BY <3>2, <3>4, BaseParts
  <2>17. CASE DestroyAll
    <3>1. Filing' /\ Calls' /\ Processes'
      BY <2>17, BaseParts DEF DestroyAll, Filing, Calls, Processes, process, reaper
    <3>2. Stopping'
      BY <2>17, <2>a, BaseParts DEF DestroyAll, Stopping, process
    <3>3. Marks'
      BY <2>17, <2>a, BaseParts DEF DestroyAll, Stopping, Marks, process, By
    <3> QED
      BY <3>1, <3>2, <3>3, BaseParts
  <2>18. CASE ReapIdle \/ ReapOn
    <3>1. PICK todo \in SUBSET Session : Sweep(todo)
      BY <2>18 DEF ReapIdle, ReapOn, Base, TypeOK
    <3>2. UNCHANGED <<call, state, process, transport, clients, timer>>
      BY <2>18 DEF ReapIdle, ReapOn
    <3>3. ASSUME NEW s \in Session, reaping' = s, Unfile(s), StopBegins(s, "destroy") PROVE Base'
      <4>1. Filing'
        BY <3>3, BaseParts, FileOne DEF Unfile
      <4>2. Calls' /\ Processes'
        BY <3>1, <3>2, <3>3, BaseParts, SweepStops DEF Calls, Processes, process
      <4>3. Stopping' /\ Marks'
        BY <2>a, <3>2, <3>3, BaseParts, StopBeginsType DEF Stopping, Marks, process, By
      <4> QED
        BY <4>1, <4>2, <4>3, BaseParts
    <3>4. CASE UNCHANGED <<sessions, stopping, stop, caught, subscriber, reaping>>
      BY <3>1, <3>2, <3>4, SweepStops DEF Base, TypeOK, process
    <3> QED
      BY <3>1, <3>3, <3>4, SweepStops
  <2> QED
    BY <2>1, <2>2, <2>3, <2>4, <2>5, <2>6, <2>7, <2>8, <2>9, <2>10, <2>11, <2>12, <2>13, <2>14,
       <2>15, <2>16, <2>17, <2>18 DEF Next, StartSteps, StopSteps
<1>3. QED
  BY <1>1, <1>2, PTL DEF Spec

\* The fields keep their types; an id leads to a session of that id, a session
\* that stops is marked as stopping (session.ts:103-131).
THEOREM TypeCorrect == Spec => []TypeOK
<1>1. Base => TypeOK
  BY DEF Base
<1>2. QED
  BY <1>1, BaseInvariant, PTL

-----------------------------------------------------------------------------
(* Events. *)

\* A subscriber belongs to a session whose start() returned, that runs and does
\* not stop.
SubscriberInv ==
  \A s \in Session : subscriber[s] => state[s] = "running" /\ ~stopping[s] /\ call[s] = "returned"

\* A step that leaves all but one session alone, and that one without subscriber.
LEMMA SubscriberGone ==
  ASSUME SubscriberInv, NEW s \in Session, ~subscriber'[s],
         \A t \in Session : t # s => /\ subscriber'[t] = subscriber[t] /\ state'[t] = state[t]
                                     /\ stopping'[t] = stopping[t] /\ call'[t] = call[t]
  PROVE  SubscriberInv'
BY DEF SubscriberInv

LEMMA SubscriberInvariant == Spec => []SubscriberInv
<1>1. Init => SubscriberInv
  BY DEF Init, SubscriberInv
<1>2. Base /\ SubscriberInv /\ [Next]_vars => SubscriberInv'
  <2> SUFFICES ASSUME Base, SubscriberInv, [Next]_vars PROVE SubscriberInv'
    OBVIOUS
  <2>a. "start" \in By /\ "destroy" \in By
    BY DEF By
  <2>b. Filing /\ Calls /\ Processes /\ Stopping /\ Marks
    BY BaseParts
  <2>c. ASSUME NEW s \in Session, call[s] # "returned" PROVE ~subscriber[s]
    BY <2>c DEF SubscriberInv
  <2>1. CASE UNCHANGED <<subscriber, state, stopping, call>>
    BY <2>1 DEF SubscriberInv
  <2>2. ASSUME NEW s \in Session, Create(s) \/ Register(s) \/ SocketFound(s) \/ PingAnswered(s)
        PROVE  SubscriberInv'
    BY <2>2, <2>b, <2>c, SubscriberGone DEF Create, Register, SocketFound, PingAnswered, Proceeds, Goes, Calls
  <2>3. ASSUME NEW s \in Session, Spawn(s) PROVE SubscriberInv'
    BY <2>3, <2>b, <2>c, SubscriberGone DEF Spawn, Goes, Calls
  <2>4. ASSUME NEW s \in Session, StartFails(s) \/ Pinged(s) PROVE SubscriberInv'
    BY <2>4, <2>b, <2>c, SubscriberGone
       DEF StartFails, Pinged, Proceeds, Catch, StopBegins, Goes, Calls, Stopping
  <2>5. ASSUME NEW s \in Session, Subscribe(s) PROVE SubscriberInv'
    BY <2>5, <2>b DEF Subscribe, StillUp, Goes, Calls, Stopping, SubscriberInv
  <2>6. ASSUME NEW s \in Session, OnExit(s) PROVE SubscriberInv'
    BY <2>6, <2>b, SubscriberGone DEF OnExit, Calls, Stopping
  <2>7. ASSUME NEW s \in Session, NEW w \in By, StopEnds(s, w) PROVE SubscriberInv'
    <3>1. stopping[s] /\ UNCHANGED <<subscriber, stopping>>
      BY <2>7, <2>b DEF StopEnds, NothingToKill, Marks
    <3>2. \A t \in Session : t # s => state'[t] = state[t] /\ call'[t] = call[t]
      BY <2>7, <2>b DEF StopEnds, Goes, Calls
    <3> QED
      BY <3>1, <3>2, SubscriberGone DEF SubscriberInv
  <2>8. ASSUME NEW n \in Name, Destroy(n) PROVE SubscriberInv'
    <3>1. PICK s \in Session : StopBegins(s, "destroy") /\ UNCHANGED <<state, call>>
      BY <2>8, <2>b DEF Destroy, MayFind, Filing
    <3> QED
      BY <2>b, <3>1, SubscriberGone DEF StopBegins, Stopping
  <2>9. CASE DestroyAll
    BY <2>9, <2>b DEF DestroyAll, SubscriberInv
  <2>10. CASE ReapIdle \/ ReapOn
    <3>1. PICK todo \in SUBSET Session : Sweep(todo)
      BY <2>10, <2>b DEF ReapIdle, ReapOn, Filing, Processes
    <3>2. UNCHANGED <<state, call>>
      BY <2>10 DEF ReapIdle, ReapOn
    <3>3. ASSUME NEW s \in Session, StopBegins(s, "destroy") PROVE SubscriberInv'
      BY <2>b, <3>2, <3>3, SubscriberGone DEF StopBegins, Stopping
    <3> QED
      BY <2>1, <3>1, <3>2, <3>3, SweepStops
  <2>11. ASSUME NEW s \in Session, Exit(s) PROVE SubscriberInv'
    BY <2>1, <2>11 DEF Exit
  <2>12. ASSUME NEW s \in Session, NEW w \in By, StopClosesTransport(s, w) \/ StopKills(s, w)
         PROVE  SubscriberInv'
    BY <2>1, <2>12 DEF StopClosesTransport, StopKills
  <2>13. ASSUME NEW c \in Client, Connect(c) \/ Disconnect(c) PROVE SubscriberInv'
    BY <2>1, <2>13 DEF Connect, Disconnect
  <2> QED
    BY <2>1, <2>2, <2>3, <2>4, <2>5, <2>6, <2>7, <2>8, <2>9, <2>10, <2>11, <2>12, <2>13
       DEF Next, StartSteps, StopSteps, vars
<1>3. QED
  BY <1>1, <1>2, BaseInvariant, PTL DEF Spec

\* A subscriber does not outlive the process or the stop: onExit and stop() end it,
\* and startEvents looks again before it subscribes (session.ts:257).
THEOREM NoSubscriberStrays == Spec => []NoStraySubscriber
<1>1. SubscriberInv => NoStraySubscriber
  BY DEF SubscriberInv, NoStraySubscriber
<1>2. QED
  BY <1>1, SubscriberInvariant, PTL

-----------------------------------------------------------------------------
(* The state of a session. *)

\* A session that failed or exited is never shown as running again: start() looks at the
\* state after the ping (session.ts:380).
THEOREM NothingRevives == Spec => NoRevival
<1>1. Base /\ [Next]_vars => [\A s \in Session : state[s] \in {"failed", "exited"} => state'[s] # "running"]_vars
  <2> SUFFICES ASSUME Base, Next, NEW s \in Session, state[s] \in {"failed", "exited"}
               PROVE  state'[s] # "running"
    OBVIOUS
  <2>b. Filing /\ Calls /\ Processes /\ Stopping /\ Marks
    BY BaseParts
  <2>1. CASE UNCHANGED state
    BY <2>1
  <2>2. ASSUME NEW t \in Session, Spawn(t) PROVE state'[s] # "running"
    BY <2>2, <2>b DEF Spawn, Calls
  <2>3. ASSUME NEW t \in Session, Pinged(t) PROVE state'[s] # "running"
    BY <2>3, <2>b DEF Pinged, StillStarting, Calls
  <2>4. ASSUME NEW t \in Session, OnExit(t) PROVE state'[s] # "running"
    BY <2>4, <2>b DEF OnExit, Calls
  <2>5. ASSUME NEW t \in Session, NEW w \in By, StopEnds(t, w) PROVE state'[s] # "running"
    BY <2>5, <2>b DEF StopEnds, Calls
  <2> QED
    BY <2>1, <2>2, <2>3, <2>4, <2>5
       DEF Next, StartSteps, StopSteps, Create, Register, SocketFound, StartFails, PingAnswered,
           Subscribe, Exit, StopClosesTransport, StopKills, Connect, Disconnect, Destroy,
           DestroyAll, ReapIdle, ReapOn
<1>2. QED
  BY <1>1, BaseInvariant, PTL DEF Spec, NoRevival

-----------------------------------------------------------------------------
(* Where a session can be found, and what is left of it.                     *)
(*                                                                           *)
(* Two things are assumed, which the code does not enforce: no two create()   *)
(* calls ask for the same id, and nobody destroys or connects to a session    *)
(* before its spawn (session.ts:565-590: two awaits lie between the check of   *)
(* the id and the filing, and the session is filed before it is started).      *)
(* Without either the invariants fail.                                        *)

Separate == /\ ~Early
            /\ \A s, t \in Session : IdOf[s] = IdOf[t] => s = t

\* What every session keeps to: it is filed from the spawn to its end, a stop that began
\* caught the process, one that is done has seen it exit, and clients are of a session
\* that is filed or still stops.
FiledOne(s) ==
  /\ call[s] \in {"idle", "checking", "preparing"} =>
       clients[s] = {} /\ stop[s]["start"] = "no" /\ stop[s]["destroy"] = "no"
  /\ call[s] \in {"idle", "checking", "threw"} => sessions[IdOf[s]] # s
  /\ call[s] \in (Starting \ {"preparing"}) \union {"returned"} => proc[s] # "none"
  /\ call[s] = "threw" => proc[s] = "none" \/ stop[s]["start"] = "done"
  /\ \A w \in By : stop[s][w] # "no" => caught[s][w]
  /\ \A w \in By : stop[s][w] = "done" => proc[s] = "exited"
  /\ stop[s]["destroy"] # "no" => sessions[IdOf[s]] # s
  /\ call[s] \in Starting \union {"returned"} /\ stop[s]["destroy"] = "no" => sessions[IdOf[s]] = s
  /\ clients[s] # {} => sessions[IdOf[s]] = s \/ Stops(s)
FiledInv == \A s \in Session : FiledOne(s)

\* A step of one session, which may file it or take it away.
LEMMA StepOfOne ==
  ASSUME Separate, Filing, FiledInv, NEW s \in Session, FiledOne(s)',
         sessions' = sessions \/ \E v : sessions' = [sessions EXCEPT ![IdOf[s]] = v],
         \A t \in Session : t # s => /\ call'[t] = call[t] /\ proc'[t] = proc[t]
                                     /\ stop'[t] = stop[t] /\ caught'[t] = caught[t]
                                     /\ clients'[t] = clients[t]
  PROVE  FiledInv'
<1> SUFFICES ASSUME NEW t \in Session, t # s PROVE FiledOne(t)'
  BY DEF FiledInv
<1>1. sessions'[IdOf[t]] = sessions[IdOf[t]]
  BY BridgeAssumption DEF Separate, Filing
<1>2. FiledOne(t)
  BY DEF FiledInv
<1> QED
  BY <1>1, <1>2 DEF FiledOne, Stops

\* destroy() of a session that is filed.
LEMMA DestroyFiled ==
  ASSUME Separate, Filing, Calls, Processes, Stopping, Marks, FiledInv, NEW s \in Session,
         sessions[IdOf[s]] = s, MayFind(s), Unfile(s), StopBegins(s, "destroy"),
         UNCHANGED <<call, proc, clients>>
  PROVE  FiledInv'
<1>1. FiledOne(s) /\ call[s] # "preparing" /\ IdOf[s] \in Name /\ s # Nobody
  BY BridgeAssumption DEF FiledInv, Separate, MayFind
<1>2. call[s] \notin {"idle", "checking", "preparing", "threw"} /\ proc[s] # "none"
  BY <1>1 DEF FiledOne, Calls, CallOver
<1>3. stop'[s]["destroy"] = "events" /\ stop'[s]["start"] = stop[s]["start"] /\ caught'[s]["destroy"]
  BY <1>2 DEF StopBegins, Stopping, By
<1>4. caught'[s]["start"] = caught[s]["start"] /\ sessions'[IdOf[s]] = Nobody
  BY <1>1 DEF StopBegins, Stopping, By, Unfile, Filing
<1>5. FiledOne(s)'
  BY <1>1, <1>2, <1>3, <1>4 DEF FiledOne, Stops, By
<1> QED
  BY <1>5, StepOfOne DEF Unfile, StopBegins, Stopping

LEMMA FiledInvariant ==
  ASSUME Separate
  PROVE  Spec => []FiledInv
<1>1. Init => FiledInv
  BY BridgeAssumption DEF Init, FiledInv, FiledOne, Stops, Starting, By
<1>2. Base /\ FiledInv /\ [Next]_vars => FiledInv'
  <2> SUFFICES ASSUME Base, FiledInv, [Next]_vars PROVE FiledInv'
    OBVIOUS
  <2>b. Filing /\ Calls /\ Processes /\ Stopping /\ Marks
    BY BaseParts
  <2>c. \A s \in Session : FiledOne(s) /\ IdOf[s] \in Name /\ s # Nobody
    BY BridgeAssumption DEF FiledInv
  <2>1. CASE UNCHANGED <<sessions, call, proc, stop, caught, clients>>
    BY <2>1 DEF FiledInv, FiledOne, Stops
  <2>2. ASSUME NEW s \in Session, Create(s) PROVE FiledInv'
    <3>1. FiledOne(s)'
      BY <2>2, <2>b, <2>c DEF Create, Goes, Calls, Marks, FiledOne, Stops, process, Starting
    <3> QED
      BY <2>2, <2>b, <3>1, StepOfOne DEF Create, Goes, Calls, process
  <2>3. ASSUME NEW s \in Session, Register(s) PROVE FiledInv'
    <3>1. FiledOne(s)'
      BY <2>3, <2>b, <2>c DEF Register, Goes, Calls, Filing, Marks, FiledOne, Stops, process, Starting
    <3> QED
      BY <2>3, <2>b, <3>1, StepOfOne DEF Register, Goes, Calls, process
  <2>4. ASSUME NEW s \in Session, Spawn(s) PROVE FiledInv'
    <3>1. FiledOne(s)'
      BY <2>4, <2>b, <2>c DEF Spawn, Goes, Unfile, Calls, Filing, Processes, Marks, FiledOne, Stops, Starting
    <3> QED
      BY <2>4, <2>b, <3>1, StepOfOne DEF Spawn, Goes, Unfile, Calls, Processes
  <2>5. ASSUME NEW s \in Session, SocketFound(s) \/ PingAnswered(s) PROVE FiledInv'
    <3>1. FiledOne(s)'
      BY <2>5, <2>b, <2>c DEF SocketFound, PingAnswered, Proceeds, Goes, Calls, FiledOne, Stops, process, Starting
    <3> QED
      BY <2>5, <2>b, <3>1, StepOfOne DEF SocketFound, PingAnswered, Proceeds, Goes, Calls, process
  <2>6. ASSUME NEW s \in Session, call[s] \in {"socket", "pinging", "pinged"}, Catch(s),
               UNCHANGED <<proc, clients>>
        PROVE  FiledInv'
    <3>1. proc[s] # "none" /\ stop[s]["start"] \in {"no", "done"}
      BY <2>6, <2>b, <2>c DEF FiledOne, Marks, Starting
    <3>2. /\ stop'[s]["start"] = "events" /\ caught'[s]["start"]
          /\ stop'[s]["destroy"] = stop[s]["destroy"] /\ caught'[s]["destroy"] = caught[s]["destroy"]
          /\ call'[s] = "failing" /\ UNCHANGED <<sessions, proc, clients>>
      BY <2>6, <2>b, <3>1 DEF Catch, StopBegins, Goes, Calls, Stopping, By
    <3>3. FiledOne(s)'
      BY <2>6, <2>c, <3>1, <3>2 DEF FiledOne, Stops, Starting, By
    <3> QED
      BY <2>6, <2>b, <3>3, StepOfOne DEF Catch, StopBegins, Goes, Calls, Stopping
  <2>7. ASSUME NEW s \in Session, StartFails(s) \/ Pinged(s) PROVE FiledInv'
    <3>1. CASE Pinged(s) /\ StillStarting(s)
      <4>1. FiledOne(s)'
        BY <3>1, <2>b, <2>c DEF Pinged, Proceeds, Goes, Calls, FiledOne, Stops, process, Starting
      <4> QED
        BY <3>1, <2>b, <4>1, StepOfOne DEF Pinged, Proceeds, Goes, Calls, process
    <3>2. CASE StartFails(s) \/ ~StillStarting(s)
      BY <2>6, <2>7, <3>2 DEF StartFails, Pinged, process
    <3> QED
      BY <2>7, <3>1, <3>2
  <2>8. ASSUME NEW s \in Session, Subscribe(s) PROVE FiledInv'
    <3>1. FiledOne(s)'
      BY <2>8, <2>b, <2>c DEF Subscribe, Goes, Calls, FiledOne, Stops, process, Starting
    <3> QED
      BY <2>8, <2>b, <3>1, StepOfOne DEF Subscribe, Goes, Calls, process
  <2>9. ASSUME NEW s \in Session, Exit(s) PROVE FiledInv'
    <3>1. FiledOne(s)'
      BY <2>9, <2>b, <2>c DEF Exit, Processes, FiledOne, Stops
    <3> QED
      BY <2>9, <2>b, <3>1, StepOfOne DEF Exit, Processes
  <2>10. ASSUME NEW s \in Session, NEW w \in By, StopClosesTransport(s, w) PROVE FiledInv'
    <3>1. FiledOne(s)'
      BY <2>10, <2>b, <2>c DEF StopClosesTransport, Stopping, FiledOne, Stops, process, By
    <3> QED
      BY <2>10, <2>b, <3>1, StepOfOne DEF StopClosesTransport, Stopping, process
  <2>11. ASSUME NEW s \in Session, NEW w \in By, StopKills(s, w) PROVE FiledInv'
    <3>1. FiledOne(s)'
      BY <2>11, <2>b, <2>c DEF StopKills, Kill, Stopping, Processes, Marks, FiledOne, Stops, By
    <3> QED
      BY <2>11, <2>b, <3>1, StepOfOne DEF StopKills, Kill, Stopping, Processes
  <2>12. ASSUME NEW s \in Session, NEW w \in By, StopEnds(s, w) PROVE FiledInv'
    <3>1. stop'[s][w] = "done" /\ proc'[s] = "exited" /\ clients'[s] = {} /\ UNCHANGED <<proc, caught>>
      BY <2>12, <2>b, <2>c DEF StopEnds, NothingToKill, AllLeave, Stopping, Processes, FiledOne, process
    <3>2. CASE w = "start"
      <4>1. call'[s] = "threw" /\ sessions'[IdOf[s]] = Nobody /\ stop'[s]["destroy"] = stop[s]["destroy"]
        BY <2>12, <3>2, <2>b, <2>c DEF StopEnds, Goes, Unfile, Calls, Filing, Stopping, By
      <4>2. FiledOne(s)'
        BY <2>c, <2>12, <3>1, <3>2, <4>1 DEF FiledOne, Stops, Starting, By, StopEnds, NothingToKill
      <4> QED
        BY <2>12, <2>b, <3>1, <3>2, <4>2, StepOfOne
           DEF StopEnds, AllLeave, Goes, Unfile, Calls, Processes, Stopping
    <3>3. CASE w = "destroy"
      <4>1. UNCHANGED <<call, sessions>> /\ stop'[s]["start"] = stop[s]["start"]
        BY <2>12, <3>3, <2>b DEF StopEnds, Stopping, By
      <4>2. FiledOne(s)'
        BY <2>c, <2>12, <3>1, <3>3, <4>1 DEF FiledOne, Stops, Starting, By, StopEnds, NothingToKill
      <4> QED
        BY <2>12, <2>b, <3>1, <4>1, <4>2, StepOfOne DEF StopEnds, AllLeave, Processes, Stopping
    <3> QED
      BY <3>2, <3>3 DEF By
  <2>13. ASSUME NEW c \in Client, Connect(c) PROVE FiledInv'
    <3>1. PICK n \in Name : /\ MayFind(sessions[n])
                            /\ clients' = [clients EXCEPT ![sessions[n]] = @ \union {c}]
      BY <2>13 DEF Connect
    <3>2. PICK s \in Session : s = sessions[n]
      BY <2>b, <3>1 DEF MayFind, Filing
    <3>3. sessions[IdOf[s]] = s /\ call[s] \notin {"idle", "checking", "preparing"}
      BY <2>b, <2>c, <3>1, <3>2 DEF MayFind, Filing, Separate, FiledOne
    <3>4. UNCHANGED <<sessions, call, proc, stop, caught>> /\ clients' = [clients EXCEPT ![s] = @ \union {c}]
      BY <2>13, <3>1, <3>2 DEF Connect, process
    <3>5. FiledOne(s)'
      BY <2>c, <3>3, <3>4 DEF FiledOne, Stops
    <3> QED
      BY <2>b, <3>4, <3>5, StepOfOne DEF Processes
  <2>14. ASSUME NEW c \in Client, Disconnect(c) PROVE FiledInv'
    <3>1. UNCHANGED <<sessions, call, proc, stop, caught>> /\ clients' = [s \in Session |-> clients[s] \ {c}]
      BY <2>14 DEF Disconnect, process
    <3>2. ASSUME NEW s \in Session PROVE FiledOne(s)'
      BY <2>c, <3>1 DEF FiledOne, Stops
    <3> QED
      BY <3>2 DEF FiledInv
  <2>15. ASSUME NEW n \in Name, Destroy(n) PROVE FiledInv'
    <3>1. PICK s \in Session : s = sessions[n]
      BY <2>15, <2>b DEF Destroy, MayFind, Filing
    <3>2. MayFind(s) /\ IdOf[s] = n /\ sessions[IdOf[s]] = s
      BY <2>15, <2>b, <2>c, <3>1 DEF Destroy, Filing
    <3>3. Unfile(s) /\ StopBegins(s, "destroy") /\ UNCHANGED <<call, proc, clients>>
      BY <2>15, <3>1, <3>2 DEF Destroy, Unfile, process
    <3> QED
      BY <2>b, <3>2, <3>3, DestroyFiled
  <2>16. CASE DestroyAll
    <3> DEFINE all == {sessions[n] : n \in Name} \ {Nobody}
    <3>1. ASSUME NEW s \in Session PROVE FiledOne(s)'
      <4>1. s \in all <=> sessions[IdOf[s]] = s
        BY <2>b, <2>c DEF Filing
      <4>2. s \in all => MayFind(s)
        BY <2>16, <2>c, <4>1 DEF DestroyAll
      <4>3. s \in all => call[s] \notin {"idle", "checking", "preparing", "threw"} /\ proc[s] # "none"
        BY <2>b, <2>c, <4>1, <4>2 DEF MayFind, Separate, FiledOne, Calls, CallOver
      <4>4. sessions'[IdOf[s]] = Nobody /\ UNCHANGED <<call, proc, clients>>
        BY <2>16, <2>c DEF DestroyAll, process
      <4>5. IF s \in all THEN /\ stop'[s] = [stop[s] EXCEPT !["destroy"] = "events"]
                              /\ caught'[s] = [caught[s] EXCEPT !["destroy"] = TRUE]
                         ELSE stop'[s] = stop[s] /\ caught'[s] = caught[s]
        BY <2>16, <4>3 DEF DestroyAll
      <4> HIDE DEF all
      <4>6. CASE s \in all
        <5>1. /\ stop'[s]["destroy"] = "events" /\ stop'[s]["start"] = stop[s]["start"]
              /\ caught'[s]["destroy"] /\ caught'[s]["start"] = caught[s]["start"]
          BY <2>b, <4>5, <4>6 DEF Stopping, By
        <5> QED
          BY <2>c, <4>1, <4>3, <4>4, <4>6, <5>1 DEF FiledOne, Stops, By
      <4>7. CASE s \notin all
        BY <2>c, <4>1, <4>4, <4>5, <4>7 DEF FiledOne, Stops
      <4> QED
        BY <4>6, <4>7
    <3> QED
      BY <3>1 DEF FiledInv
  <2>17. CASE ReapIdle \/ ReapOn
    <3>1. PICK todo \in SUBSET Session : Sweep(todo)
      BY <2>17, <2>b DEF ReapIdle, ReapOn, Filing, Processes
    <3>2. UNCHANGED <<call, proc, clients>>
      BY <2>17 DEF ReapIdle, ReapOn, process
    <3> QED
      BY <2>b, <2>1, <3>1, <3>2, SweepStops, DestroyFiled
  <2>18. ASSUME NEW s \in Session, OnExit(s) PROVE FiledInv'
    BY <2>1, <2>18 DEF OnExit
  <2> QED
    BY <2>1, <2>2, <2>3, <2>4, <2>5, <2>7, <2>8, <2>9, <2>10, <2>11, <2>12, <2>13, <2>14, <2>15,
       <2>16, <2>17, <2>18 DEF Next, StartSteps, StopSteps, vars, process
<1>3. QED
  BY <1>1, <1>2, BaseInvariant, PTL DEF Spec

\* A process whose session is neither starting nor stopping can be found, and so stopped,
\* under its id (session.ts:5: "spawns, supervises and tears sessions down").
THEOREM NothingLeaks ==
  ASSUME Separate
  PROVE  Spec => []NoLeak
<1>1. Base /\ FiledInv => NoLeak
  <2> SUFFICES ASSUME Base, FiledInv, NEW s \in Session,
                      proc[s] = "alive", call[s] \in CallOver, ~Stops(s)
               PROVE  sessions[IdOf[s]] = s
    BY DEF NoLeak
  <2>1. FiledOne(s) /\ Stopping
    BY BaseParts DEF FiledInv
  <2>2. stop[s]["destroy"] = "no" /\ stop[s]["start"] = "no"
    BY <2>1 DEF FiledOne, Stops, Stopping, By
  <2> QED
    BY <2>1, <2>2 DEF FiledOne, CallOver
<1>2. QED
  BY <1>1, BaseInvariant, FiledInvariant, PTL

\* A create() that failed and a destroy() that returned leave no process and no client
\* behind (stop, session.ts:395; start's catch, session.ts:386).
THEOREM EverythingCleanedUp ==
  ASSUME Separate
  PROVE  Spec => []CleanedUp
<1>1. Base /\ FiledInv => CleanedUp
  <2> SUFFICES ASSUME Base, FiledInv, NEW s \in Session, ~Stops(s),
                      call[s] = "threw" \/ stop[s]["destroy"] = "done"
               PROVE  clients[s] = {} /\ proc[s] \in {"none", "exited"}
    BY DEF CleanedUp
  <2>1. FiledOne(s)
    BY DEF FiledInv
  <2> QED
    BY <2>1 DEF FiledOne, By
<1>2. QED
  BY <1>1, BaseInvariant, FiledInvariant, PTL
=============================================================================
