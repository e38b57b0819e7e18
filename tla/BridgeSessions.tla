--------------------------- MODULE BridgeSessions ---------------------------
(***************************************************************************)
(* packages/bridge/src/session.ts: SessionManager and the process-backed    *)
(* Session.  A session is one kicad-cli process with a transport and an     *)
(* event subscriber; create() starts it, destroy(), destroyAll() and the    *)
(* idle reaper stop it, and its process may exit at any time.               *)
(*                                                                         *)
(* A session object is made by one create() call.  Each await ends a step.  *)
(* SSE listeners count as clients.  Processes and sockets are external; the *)
(* bridge relays events, and one sweep of the reaper ends before the next.  *)
(***************************************************************************)
EXTENDS Naturals, FiniteSets

CONSTANTS
  Session,      \* session objects, each of one create() call
  Name, IdOf,   \* the session ids, and the one each create() asks for
  Client,       \* WebSocket and SSE clients
  Nobody,
  Early         \* a session may be destroyed or connected to before its spawn

ASSUME BridgeAssumption ==
  /\ IdOf \in [Session -> Name] /\ Nobody \notin Session /\ Early \in BOOLEAN

VARIABLES
  sessions,   \* SessionManager.sessions: the object filed under each id
  call,       \* where create() and start() of each object are
  state,      \* Session.state
  proc,       \* the process
  exitSeen,   \* onExit has run
  transport, subscriber,
  stopping,
  stop,       \* stop() as called by start() and by destroy(): what it awaits
  caught,     \* that stop() found a process to kill
  clients,
  snapshot,   \* reapIdle: the sessions it has still to look at
  reaping,    \* reapIdle: the session whose destroy() it awaits
  timer       \* the interval of the reaper is set

process == <<proc, exitSeen>>
reaper == <<snapshot, reaping, timer>>
vars == <<sessions, call, state, process, transport, subscriber, stopping, stop, caught, clients, reaper>>

By == {"start", "destroy"}
Starting == {"preparing", "socket", "pinging", "pinged", "info", "failing"}
CallOver == {"returned", "threw"}
Stops(s) == \E w \in By : stop[s][w] \notin {"no", "done"}

TypeOK ==
  /\ sessions \in [Name -> Session \union {Nobody}]
  /\ \A n \in Name : sessions[n] # Nobody => IdOf[sessions[n]] = n
  /\ call \in [Session -> {"idle", "checking"} \union Starting \union CallOver]
  /\ state \in [Session -> {"starting", "running", "failed", "exited"}]
  /\ proc \in [Session -> {"none", "alive", "dying", "exited"}]
  /\ exitSeen \in [Session -> BOOLEAN] /\ stopping \in [Session -> BOOLEAN]
  /\ transport \in [Session -> {"none", "open", "closed"}]
  /\ subscriber \in [Session -> BOOLEAN]
  /\ stop \in [Session -> [By -> {"no", "events", "transport", "exit", "done"}]]
  /\ caught \in [Session -> [By -> BOOLEAN]]
  /\ clients \in [Session -> SUBSET Client]
  /\ \A s \in Session : /\ (\E w \in By : stop[s][w] # "no") => stopping[s]
                        /\ call[s] = "failing" <=> stop[s]["start"] \notin {"no", "done"}
                        /\ exitSeen[s] => proc[s] = "exited"
  /\ snapshot \subseteq Session /\ reaping \in Session \union {Nobody} /\ timer \in BOOLEAN

Init ==
  /\ sessions = [n \in Name |-> Nobody]
  /\ call = [s \in Session |-> "idle"] /\ state = [s \in Session |-> "starting"]
  /\ proc = [s \in Session |-> "none"] /\ exitSeen = [s \in Session |-> FALSE]
  /\ transport = [s \in Session |-> "none"] /\ subscriber = [s \in Session |-> FALSE]
  /\ stopping = [s \in Session |-> FALSE]
  /\ stop = [s \in Session |-> [w \in By |-> "no"]]
  /\ caught = [s \in Session |-> [w \in By |-> FALSE]]
  /\ clients = [s \in Session |-> {}]
  /\ snapshot = {} /\ reaping = Nobody /\ timer = TRUE

Goes(s, l) == call' = [call EXCEPT ![s] = l]
Close(s) == transport' = [transport EXCEPT ![s] = IF @ = "none" THEN @ ELSE "closed"]
Unfile(s) == sessions' = [sessions EXCEPT ![IdOf[s]] = Nobody]

-----------------------------------------------------------------------------
(* stop() *)

\* Up to its first await: it ends the subscriber and looks for a process.
StopBegins(s, w) ==
  /\ stopping' = [stopping EXCEPT ![s] = TRUE]
  /\ stop' = [stop EXCEPT ![s][w] = "events"]
  /\ caught' = [caught EXCEPT ![s][w] = proc[s] # "none"]
  /\ subscriber' = [subscriber EXCEPT ![s] = FALSE]

StopClosesTransport(s, w) ==
  /\ stop[s][w] = "events"
  /\ stop' = [stop EXCEPT ![s][w] = "transport"]
  /\ Close(s)
  /\ UNCHANGED <<sessions, call, state, process, subscriber, stopping, caught, clients, reaper>>

WaitsOnly(s) == UNCHANGED proc   \* mutation: the process is not signalled
Kill(s) == proc' = [proc EXCEPT ![s] = "dying"]
StopKills(s, w) ==
  /\ stop[s][w] = "transport" /\ caught[s][w] /\ proc[s] # "exited"
  /\ stop' = [stop EXCEPT ![s][w] = "exit"]
  /\ Kill(s)
  /\ UNCHANGED <<sessions, call, state, exitSeen, transport, subscriber, stopping, caught, clients, reaper>>

NotAwaited(s, w) == stop[s][w] = "exit"   \* mutation: the exit is not awaited
NothingToKill(s, w) ==
  \/ stop[s][w] = "transport" /\ (~caught[s][w] \/ proc[s] = "exited")
  \/ stop[s][w] = "exit" /\ proc[s] = "exited"

AllLeave(s) == clients' = [clients EXCEPT ![s] = {}]

\* stop() returns: to start(), which fails, or to destroy().
StopEnds(s, w) ==
  /\ NothingToKill(s, w)
  /\ stop' = [stop EXCEPT ![s][w] = "done"]
  /\ AllLeave(s)
  /\ IF w = "start"
     THEN /\ state' = [state EXCEPT ![s] = "failed"]
          /\ Unfile(s) /\ Goes(s, "threw") /\ UNCHANGED reaper
     ELSE /\ reaping' = IF reaping = s THEN Nobody ELSE reaping
          /\ UNCHANGED <<sessions, call, state, snapshot, timer>>
  /\ UNCHANGED <<process, transport, subscriber, stopping, caught>>

-----------------------------------------------------------------------------
(* create() and start() *)

Create(s) ==
  /\ call[s] = "idle"
  /\ Goes(s, IF sessions[IdOf[s]] = Nobody THEN "checking" ELSE "threw")
  /\ UNCHANGED <<sessions, state, process, transport, subscriber, stopping, stop, caught, clients, reaper>>

\* The file was looked for and a port found; the session is filed and starts.
Register(s) ==
  /\ call[s] = "checking"
  /\ \/ Goes(s, "threw") /\ UNCHANGED sessions
     \/ Goes(s, "preparing") /\ sessions' = [sessions EXCEPT ![IdOf[s]] = s]
  /\ UNCHANGED <<state, process, transport, subscriber, stopping, stop, caught, clients, reaper>>

Spawn(s) ==
  /\ call[s] = "preparing"
  /\ \/ /\ proc' = [proc EXCEPT ![s] = "alive"] /\ Goes(s, "socket")
        /\ UNCHANGED <<sessions, state>>
     \/ /\ state' \in {state, [state EXCEPT ![s] = "failed"]}   \* mkdir or the spawn throws
        /\ Unfile(s) /\ Goes(s, "threw") /\ UNCHANGED proc
  /\ UNCHANGED <<exitSeen, transport, subscriber, stopping, stop, caught, clients, reaper>>

\* A step of start() throws: it stops the session first.
ThrowOnly(s) ==   \* mutation: a failed start is not cleaned up
  /\ Goes(s, "threw") /\ Unfile(s)
  /\ UNCHANGED <<stopping, stop, caught, subscriber>>
Catch(s) == Goes(s, "failing") /\ StopBegins(s, "start") /\ UNCHANGED sessions
Proceeds(s, l) == Goes(s, l) /\ UNCHANGED <<sessions, stopping, stop, caught, subscriber>>

SocketFound(s) ==
  /\ call[s] = "socket"
  /\ transport' = [transport EXCEPT ![s] = "open"]
  /\ Proceeds(s, "pinging")
  /\ UNCHANGED <<state, process, clients, reaper>>
\* The process is gone, or a deadline passed.
StartFails(s) ==
  /\ call[s] \in {"socket", "pinging"}
  /\ Catch(s)
  /\ UNCHANGED <<state, process, transport, clients, reaper>>
\* It connected, and the ping was answered.
PingAnswered(s) ==
  /\ call[s] = "pinging" /\ transport[s] = "open" /\ proc[s] # "exited"
  /\ Proceeds(s, "pinged")
  /\ UNCHANGED <<state, process, transport, clients, reaper>>

AlwaysUp(s) == TRUE   \* mutation: the state is not looked at again
StillStarting(s) == state[s] = "starting"
Pinged(s) ==
  /\ call[s] = "pinged"
  /\ IF StillStarting(s) THEN state' = [state EXCEPT ![s] = "running"] /\ Proceeds(s, "info")
     ELSE Catch(s) /\ UNCHANGED state
  /\ UNCHANGED <<process, transport, clients, reaper>>

\* startEvents, after it asked for the events socket.
AnyUp(s) == TRUE   \* mutation: events are subscribed to in any state
StillUp(s) == state[s] = "running" /\ ~stopping[s]
Subscribe(s) ==
  /\ call[s] = "info"
  /\ Goes(s, "returned")
  /\ subscriber' = [subscriber EXCEPT ![s] = @ \/ StillUp(s)]
  /\ UNCHANGED <<sessions, state, process, transport, stopping, stop, caught, clients, reaper>>

-----------------------------------------------------------------------------
(* The process. *)

Exit(s) ==
  /\ proc[s] \in {"alive", "dying"} /\ proc' = [proc EXCEPT ![s] = "exited"]
  /\ UNCHANGED <<sessions, call, state, exitSeen, transport, subscriber, stopping, stop, caught, clients, reaper>>

OnExit(s) ==
  /\ proc[s] = "exited" /\ ~exitSeen[s] /\ exitSeen' = [exitSeen EXCEPT ![s] = TRUE]
  /\ \E after \in {"failed", "exited"} :
       /\ state[s] = "starting" => after = "failed"
       /\ stopping[s] /\ state[s] = "running" => after = "exited"
       /\ state' = [state EXCEPT ![s] = IF @ \in {"starting", "running"} THEN after ELSE @]
  /\ subscriber' = [subscriber EXCEPT ![s] = FALSE]
  /\ Close(s)
  /\ UNCHANGED <<sessions, call, proc, stopping, stop, caught, clients, reaper>>

-----------------------------------------------------------------------------
(* Clients, destroy() and the reaper. *)

MayFind(s) == s # Nobody /\ (Early \/ call[s] # "preparing")

Connect(c) ==
  /\ \A s \in Session : c \notin clients[s]
  /\ \E n \in Name : /\ MayFind(sessions[n])
                     /\ clients' = [clients EXCEPT ![sessions[n]] = @ \union {c}]
  /\ UNCHANGED <<sessions, call, state, process, transport, subscriber, stopping, stop, caught, reaper>>
Disconnect(c) ==
  /\ \E s \in Session : c \in clients[s]
  /\ clients' = [s \in Session |-> clients[s] \ {c}]
  /\ UNCHANGED <<sessions, call, state, process, transport, subscriber, stopping, stop, caught, reaper>>

Destroy(n) ==
  /\ MayFind(sessions[n])
  /\ sessions' = [sessions EXCEPT ![n] = Nobody]
  /\ StopBegins(sessions[n], "destroy")
  /\ UNCHANGED <<call, state, process, transport, clients, reaper>>

DestroyAll ==
  /\ \A n \in Name : sessions[n] # Nobody => MayFind(sessions[n])
  /\ LET all == {sessions[n] : n \in Name} \ {Nobody} IN
     /\ stopping' = [s \in Session |-> s \in all \/ stopping[s]]
     /\ stop' = [s \in Session |-> IF s \in all THEN [stop[s] EXCEPT !["destroy"] = "events"] ELSE stop[s]]
     /\ caught' = [s \in Session |-> IF s \in all THEN [caught[s] EXCEPT !["destroy"] = proc[s] # "none"] ELSE caught[s]]
     /\ subscriber' = [s \in Session |-> s \notin all /\ subscriber[s]]
  /\ sessions' = [n \in Name |-> Nobody] /\ timer' = FALSE
  /\ UNCHANGED <<call, state, process, transport, clients, snapshot, reaping>>

Idle(s) == state[s] # "starting" /\ clients[s] = {}

\* reapIdle up to its next await: of the sessions it has still to look at it
\* skips some and destroys the next one by its id, or it returns.  Any idle
\* session may have been so for too short a time.
Sweep(todo) ==
  \/ \E s \in todo : \E rest \in SUBSET (todo \ {s}) :
       /\ Idle(s) /\ MayFind(sessions[IdOf[s]])
       /\ snapshot' = rest /\ reaping' = sessions[IdOf[s]]
       /\ Unfile(s) /\ StopBegins(reaping', "destroy")
  \/ snapshot' = {} /\ UNCHANGED <<sessions, stopping, stop, caught, subscriber, reaping>>
ReapIdle ==
  /\ timer /\ snapshot = {} /\ reaping = Nobody
  /\ Sweep({sessions[n] : n \in Name} \ {Nobody})
  /\ UNCHANGED <<call, state, process, transport, clients, timer>>
\* destroy() returned to it.
ReapOn ==
  /\ snapshot # {} /\ reaping = Nobody
  /\ Sweep(snapshot)
  /\ UNCHANGED <<call, state, process, transport, clients, timer>>

StopSteps(s, w) == StopClosesTransport(s, w) \/ StopKills(s, w) \/ StopEnds(s, w)
StartSteps(s) == \/ Register(s) \/ Spawn(s) \/ SocketFound(s) \/ StartFails(s)
                 \/ PingAnswered(s) \/ Pinged(s) \/ Subscribe(s)

Next ==
  \/ \E s \in Session : Create(s) \/ StartSteps(s) \/ Exit(s) \/ OnExit(s)
  \/ \E s \in Session, w \in By : StopSteps(s, w)
  \/ \E c \in Client : Connect(c) \/ Disconnect(c)
  \/ \E n \in Name : Destroy(n)
  \/ DestroyAll \/ ReapIdle \/ ReapOn

Spec == Init /\ [][Next]_vars

\* Deadlines pass, a killed process exits and callbacks run; no session has
\* more than finitely many such steps.
Works(s) == \/ StartSteps(s) \/ OnExit(s) \/ (proc[s] = "dying" /\ Exit(s))
            \/ \E w \in By : StopSteps(s, w)
Fairness == \A s \in Session : WF_vars(Works(s))
LiveSpec == Spec /\ Fairness

-----------------------------------------------------------------------------
(* Properties. *)

\* A process whose session is neither starting nor stopping can be found, and
\* so stopped, under its id (session.ts:5: "spawns, supervises and tears
\* sessions down").
NoLeak ==
  \A s \in Session :
    proc[s] = "alive" /\ call[s] \in CallOver /\ ~Stops(s) => sessions[IdOf[s]] = s

\* Events are relayed by running sessions only: a subscriber does not outlive
\* the process or the stop.
NoStraySubscriber == \A s \in Session : subscriber[s] => state[s] = "running" /\ ~stopping[s]

\* create() that failed and destroy() that returned leave no process and no
\* client behind.
CleanedUp ==
  \A s \in Session :
    call[s] \in CallOver /\ (call[s] = "threw" \/ stop[s]["destroy"] = "done") /\ ~Stops(s)
      => clients[s] = {} /\ proc[s] \in {"none", "exited"}

\* A session that failed or exited is never shown as running again.
NoRevival == [][\A s \in Session : state[s] \in {"failed", "exited"} => state'[s] # "running"]_vars

\* Every create() and every destroy() returns: as each session has one of
\* either, there are times when none is under way.
EveryCallEnds == []<>(\A s \in Session : call[s] \in CallOver \union {"idle"} /\ ~Stops(s))
=============================================================================
