---------------------------- MODULE WasmTransport -----------------------------
(* packages/client/src/transport/wasm.ts over KiCad's module, which runs in the same thread
   or in a Worker behind packages/kicad-wasm (worker-client.ts on this side, worker-core.ts
   on the other; postMessage keeps the order both ways). An action is one task or one
   microtask; a message of the worker is a task, so it waits until no microtask is left.
   The module is external: it answers, fails, aborts, or never returns. File operations,
   the start of the worker and the log are left out. *)
EXTENDS Naturals, Sequences

CONSTANTS
  Req,        \* the calls of send(), each made at most once
  Modes       \* whether instance.dispatchAsync may exist

ASSUME WasmAssumption == Modes \subseteq BOOLEAN

VARIABLES
  inWorker,     \* instance.dispatchAsync exists
  owns,         \* opts.ownsInstance
  state, queue, pumping, dispatching,
  eventBuffer,  \* events kept back, each named by the request that caused it
  outcome,      \* the promise of each request
  micro,        \* the microtasks
  seen,         \* callers that have seen their reply
  emitted,      \* requests whose event the listeners have seen
  waiting,      \* client.pending: requests the worker has not answered
  closed,       \* client.closed
  stopping,     \* client.shutdown() waits for the worker
  down,         \* the worker reported its end, or failed to run
  toWorker, fromWorker,
  worker        \* "running", "aborted", "wedged", "stopped" or "terminated"

config == <<inWorker, owns>>
callVars == <<state, queue, pumping, dispatching, eventBuffer, outcome, micro, seen, emitted>>
clientVars == <<waiting, closed, stopping, down>>
workerVars == <<toWorker, fromWorker, worker>>
vars == <<config, callVars, clientVars, workerVars>>

Tasks == {<<"pump">>, <<"flush">>} \union ({"reply", "seen"} \X Req) \union ({"failed"} \X Req \X BOOLEAN)
Messages == {<<"failed">>, <<"exited">>} \union ({"event", "res"} \X Req) \union ({"error"} \X Req \X BOOLEAN)

TypeOK ==
  /\ {inWorker, owns, pumping, dispatching, closed, stopping, down} \subseteq BOOLEAN
  /\ state \in {"open", "closed"}
  /\ {queue, eventBuffer, waiting} \subseteq Seq(Req)
  /\ outcome \in [Req -> {"unsent", "pending", "resolved", "rejected"}]
  /\ micro \in Seq(Tasks)
  /\ seen \subseteq Req /\ emitted \subseteq Req
  /\ toWorker \in Seq({<<"stop">>} \union ({"req"} \X Req))
  /\ fromWorker \in Seq(Messages)
  /\ worker \in {"running", "aborted", "wedged", "stopped", "terminated"}

Init ==
  /\ inWorker \in Modes /\ owns \in BOOLEAN
  /\ state = "open" /\ queue = <<>> /\ pumping = FALSE /\ dispatching = FALSE
  /\ eventBuffer = <<>> /\ micro = <<>>
  /\ outcome = [r \in Req |-> "unsent"]
  /\ seen = {} /\ emitted = {}
  /\ waiting = <<>> /\ closed = FALSE /\ stopping = FALSE /\ down = FALSE
  /\ toWorker = <<>> /\ fromWorker = <<>> /\ worker = "running"

-----------------------------------------------------------------------------
(* The worker's client. *)

isShutDown == closed \/ down

Without(s, i) == SubSeq(s, 1, i - 1) \o SubSeq(s, i + 1, Len(s))

\* mutation: the requests are dropped with the client, and their callers wait.
FailNone(fatal) == <<>>

\* Every request the worker has not answered is rejected, in the order of the map.
FailTasks(fatal) == [i \in DOMAIN waiting |-> <<"failed", waiting[i], fatal>>]

shutdown ==
  IF closed THEN UNCHANGED <<closed, stopping, toWorker, worker>>
  ELSE /\ closed' = TRUE
       /\ stopping' = ~down
       /\ toWorker' = Append(toWorker, <<"stop">>)
       /\ worker' = IF down THEN "terminated" ELSE worker

-----------------------------------------------------------------------------
(* The transport. *)

InQueue(r) == \E i \in DOMAIN queue : queue[i] = r

failAll(out) == [r \in Req |-> IF out[r] = "pending" /\ InQueue(r) THEN "rejected" ELSE out[r]]

\* close() of an open transport. A dispatched request is not rejected here: the client
\* does it once the worker is gone.
doClose(out) ==
  /\ state' = "closed"
  /\ outcome' = failAll(out)
  /\ queue' = <<>> /\ eventBuffer' = <<>>
  /\ IF owns /\ inWorker THEN shutdown ELSE UNCHANGED <<closed, stopping, toWorker, worker>>

schedule(tasks) ==
  /\ pumping' = TRUE
  /\ micro' = IF pumping THEN tasks ELSE Append(tasks, <<"pump">>)

send(r) ==
  /\ outcome[r] = "unsent"
  /\ IF state = "closed"
     THEN outcome' = [outcome EXCEPT ![r] = "rejected"] /\ UNCHANGED <<queue, pumping, micro>>
     ELSE /\ outcome' = [outcome EXCEPT ![r] = "pending"]
          /\ queue' = Append(queue, r)
          /\ schedule(micro)
  /\ UNCHANGED <<config, state, dispatching, eventBuffer, seen, emitted, clientVars, workerVars>>

close ==
  /\ state = "open"
  /\ doClose(outcome)
  /\ UNCHANGED <<config, pumping, dispatching, micro, seen, emitted, waiting, down, fromWorker>>

\* The timer of a request that still waits in the queue.
Timeout(r) ==
  /\ micro = <<>>
  /\ outcome[r] = "pending" /\ InQueue(r)
  /\ outcome' = [outcome EXCEPT ![r] = "rejected"]
  /\ UNCHANGED <<config, state, queue, pumping, dispatching, eventBuffer, micro, seen, emitted,
                 clientVars, workerVars>>

-----------------------------------------------------------------------------
(* The microtasks. *)

Micro(task) == micro # <<>> /\ Head(micro)[1] = task

\* mutation: the events are flushed before the caller has the reply.
FlushFirst(r) == <<<<"flush">>, <<"seen", r>>>>

\* p.resolve() and afterDispatch(): the caller's continuation comes first.
AfterReply(r) == <<<<"seen", r>>, <<"flush">>>>

\* The place of the oldest request that has not timed out.
Oldest(i) == outcome[queue[i]] = "pending" /\ \A k \in 1..(i - 1) : outcome[queue[k]] # "pending"

Pump == Micro("pump") /\ pumping' = FALSE

PumpNothing ==
  /\ Pump
  /\ state = "closed" \/ \A i \in DOMAIN queue : outcome[queue[i]] # "pending"
  /\ queue' = <<>>
  /\ micro' = Tail(micro)
  /\ UNCHANGED <<config, state, dispatching, eventBuffer, outcome, seen, emitted, clientVars, workerVars>>

\* A module in the same thread answers or fails at once; what it published is kept back.
PumpSync(i) ==
  /\ ~inWorker /\ state = "open"
  /\ Pump /\ Oldest(i)
  /\ queue' = SubSeq(queue, i + 1, Len(queue))
  /\ LET r == queue[i] IN
     /\ \/ /\ outcome' = [outcome EXCEPT ![r] = "resolved"]
           /\ \E e \in {<<>>, <<r>>} : eventBuffer' = eventBuffer \o e
           /\ micro' = Tail(micro) \o AfterReply(r)
        \/ /\ outcome' = [outcome EXCEPT ![r] = "rejected"]
           /\ micro' = Append(Tail(micro), <<"flush">>)
           /\ UNCHANGED eventBuffer
  /\ UNCHANGED <<config, state, dispatching, seen, emitted, clientVars, toWorker, fromWorker, worker>>

\* It aborts: the request is rejected and the transport closes.
PumpAborts(i) ==
  /\ ~inWorker /\ state = "open"
  /\ Pump /\ Oldest(i)
  /\ doClose([outcome EXCEPT ![queue[i]] = "rejected"])
  /\ micro' = Tail(micro)
  /\ UNCHANGED <<config, dispatching, seen, emitted, waiting, down, fromWorker>>

\* pumpAsync() up to its await. Nothing looks at `dispatching`: an earlier request may
\* still be with the worker.
PumpAsync(i) ==
  /\ inWorker /\ state = "open"
  /\ Pump /\ Oldest(i)
  /\ queue' = SubSeq(queue, i + 1, Len(queue))
  /\ LET r == queue[i] IN
     IF isShutDown
     THEN micro' = Append(Tail(micro), <<"failed", r, FALSE>>) /\ UNCHANGED <<waiting, toWorker>>
     ELSE /\ waiting' = Append(waiting, r)
          /\ toWorker' = Append(toWorker, <<"req", r>>)
          /\ micro' = Tail(micro)
  /\ dispatching' = TRUE
  /\ UNCHANGED <<config, state, eventBuffer, outcome, seen, emitted, closed, stopping, down,
                 fromWorker, worker>>

\* pumpAsync() goes on with the reply, although the transport may be closed by now.
Replied ==
  /\ Micro("reply")
  /\ LET r == Head(micro)[2] IN
     /\ outcome' = [outcome EXCEPT ![r] = "resolved"]
     /\ micro' = Tail(micro) \o AfterReply(r)
  /\ dispatching' = FALSE
  /\ UNCHANGED <<config, state, queue, pumping, eventBuffer, seen, emitted, clientVars, workerVars>>

\* failDispatch(): an abort closes the transport.
Failed ==
  /\ Micro("failed")
  /\ dispatching' = FALSE
  /\ LET r == Head(micro)[2]
         out == [outcome EXCEPT ![r] = "rejected"]
         fatal == Head(micro)[3]
     IN /\ IF fatal /\ state = "open"
           THEN doClose(out)
           ELSE outcome' = out /\ UNCHANGED <<state, queue, eventBuffer, closed, stopping, toWorker, worker>>
        /\ micro' = IF fatal THEN Tail(micro) ELSE Append(Tail(micro), <<"flush">>)
  /\ UNCHANGED <<config, pumping, seen, emitted, waiting, down, fromWorker>>

Seen ==
  /\ Micro("seen")
  /\ seen' = seen \union {Head(micro)[2]}
  /\ micro' = Tail(micro)
  /\ UNCHANGED <<config, state, queue, pumping, dispatching, eventBuffer, outcome, emitted,
                 clientVars, workerVars>>

\* mutation: the queue is not looked at again.
Forget == micro' = Tail(micro) /\ UNCHANGED pumping
Reschedule == IF queue # <<>> THEN schedule(Tail(micro)) ELSE micro' = Tail(micro) /\ UNCHANGED pumping

Flush ==
  /\ Micro("flush")
  /\ emitted' = emitted \union {eventBuffer[i] : i \in DOMAIN eventBuffer}
  /\ eventBuffer' = <<>>
  /\ Reschedule
  /\ UNCHANGED <<config, state, queue, dispatching, outcome, seen, clientVars, workerVars>>

-----------------------------------------------------------------------------
(* Messages of the worker, and its client's timers. *)

Message(kind) == micro = <<>> /\ fromWorker # <<>> /\ Head(fromWorker)[1] = kind

OnEvent ==
  /\ Message("event")
  /\ fromWorker' = Tail(fromWorker)
  /\ LET r == Head(fromWorker)[2] IN
     IF state = "closed" \/ worker = "terminated" THEN UNCHANGED <<eventBuffer, emitted>>
     ELSE IF dispatching THEN eventBuffer' = Append(eventBuffer, r) /\ UNCHANGED emitted
     ELSE emitted' = emitted \union {r} /\ UNCHANGED eventBuffer
  /\ UNCHANGED <<config, state, queue, pumping, dispatching, outcome, micro, seen, clientVars,
                 toWorker, worker>>

OnAnswer ==
  /\ Message("res") \/ Message("error")
  /\ fromWorker' = Tail(fromWorker)
  /\ LET m == Head(fromWorker)
         r == m[2]
     IN \/ \E i \in DOMAIN waiting :
             /\ waiting[i] = r
             /\ waiting' = Without(waiting, i)
             /\ micro' = IF m[1] = "res" THEN <<<<"reply", r>>>> ELSE <<<<"failed", r, m[3]>>>>
        \/ (\A i \in DOMAIN waiting : waiting[i] # r) /\ UNCHANGED <<waiting, micro>>
  /\ UNCHANGED <<config, state, queue, pumping, dispatching, eventBuffer, outcome, seen, emitted,
                 closed, stopping, down, toWorker, worker>>

\* What the worker has not answered is rejected; nothing is left to wait for.
EndClient(fatal) ==
  /\ micro = <<>> /\ micro' = FailTasks(fatal)
  /\ waiting' = <<>>
  /\ UNCHANGED <<config, state, queue, pumping, dispatching, eventBuffer, outcome, seen, emitted>>

\* "failed" or "exited"; shutdown() has waited for it and terminates the worker.
OnReport ==
  /\ Message("failed") \/ Message("exited")
  /\ fromWorker' = Tail(fromWorker)
  /\ EndClient(Head(fromWorker)[1] = "failed")
  /\ down' = TRUE
  /\ stopping' = FALSE
  /\ worker' = IF stopping THEN "terminated" ELSE worker
  /\ UNCHANGED <<closed, toWorker>>

\* onerror: an uncaught error in the worker. It is not taken for an abort: the transport
\* stays open and rejects what it is given.
OnError ==
  /\ inWorker /\ ~down /\ worker \in {"running", "aborted"}
  /\ EndClient(FALSE)
  /\ down' = TRUE
  /\ stopping' = FALSE
  /\ worker' = IF stopping THEN "terminated" ELSE worker
  /\ UNCHANGED <<closed, toWorker, fromWorker>>

\* shutdown() has waited long enough.
StopTimeout ==
  /\ stopping
  /\ EndClient(FALSE)
  /\ stopping' = FALSE
  /\ worker' = "terminated"
  /\ UNCHANGED <<closed, down, toWorker, fromWorker>>

\* The application ends a wedged worker.
terminate ==
  /\ inWorker /\ ~closed
  /\ EndClient(TRUE)
  /\ closed' = TRUE /\ down' = TRUE
  /\ worker' = "terminated"
  /\ UNCHANGED <<stopping, toWorker, fromWorker>>

-----------------------------------------------------------------------------
(* The worker: one message after the other. *)

Tell(messages) == fromWorker' = fromWorker \o messages

Dispatch ==
  /\ worker \in {"running", "aborted"}
  /\ toWorker # <<>> /\ Head(toWorker)[1] = "req"
  /\ toWorker' = Tail(toWorker)
  /\ LET r == Head(toWorker)[2] IN
     IF worker = "aborted" THEN Tell(<<<<"error", r, FALSE>>>>) /\ UNCHANGED worker
     ELSE \/ /\ \E e \in {<<>>, <<<<"event", r>>>>} : Tell(e \o <<<<"res", r>>>>)
             /\ UNCHANGED worker
          \/ Tell(<<<<"error", r, FALSE>>>>) /\ UNCHANGED worker
          \/ Tell(<<<<"error", r, TRUE>>, <<"failed">>>>) /\ worker' = "aborted"
          \/ worker' = "wedged" /\ UNCHANGED fromWorker
  /\ UNCHANGED <<config, callVars, clientVars>>

\* kiapi_shutdown, which may throw; the port is closed either way.
Stop ==
  /\ worker \in {"running", "aborted"}
  /\ toWorker # <<>> /\ Head(toWorker)[1] = "stop"
  /\ toWorker' = Tail(toWorker)
  /\ worker' = "stopped"
  /\ Tell(<<<<"exited">>>>) \/ (worker = "running" /\ Tell(<<<<"failed">>>>))
  /\ UNCHANGED <<config, callVars, clientVars>>

-----------------------------------------------------------------------------

Microtask ==
  \/ PumpNothing
  \/ \E i \in DOMAIN queue : PumpSync(i) \/ PumpAborts(i) \/ PumpAsync(i)
  \/ Replied \/ Failed \/ Seen \/ Flush

WorkerStep == Dispatch \/ Stop

Next ==
  \/ \E r \in Req : send(r) \/ Timeout(r)
  \/ close \/ terminate
  \/ Microtask
  \/ OnEvent \/ OnAnswer \/ OnReport \/ OnError \/ StopTimeout
  \/ WorkerStep

Spec == Init /\ [][Next]_vars

\* Microtasks and messages are delivered, the worker takes its next message unless the
\* module never returns, and shutdown() waits for a bounded time.
Fairness ==
  /\ WF_vars(Microtask)
  /\ WF_vars(OnEvent \/ OnAnswer \/ OnReport)
  /\ WF_vars(WorkerStep)
  /\ WF_vars(StopTimeout)

LiveSpec == Spec /\ Fairness

-----------------------------------------------------------------------------
(* Properties. *)

\* "A listener never observes an event for a change whose reply the caller has not seen
\* yet" (wasm.ts:10-13). True of a module in the same thread; behind a Worker a second
\* dispatch may overlap the first, whose end then flushes the events of both.
EventsAfterReply == ~inWorker => emitted \subseteq seen

\* Nothing that could happen by itself: no microtask, no message, no timer of shutdown(),
\* and the worker has nothing to do or does nothing any more.
Quiet == /\ micro = <<>> /\ fromWorker = <<>> /\ ~stopping
         /\ toWorker = <<>> \/ worker \notin {"running", "aborted"}

\* A request is never left to its caller alone (the pump is scheduled again after each
\* dispatch, wasm.ts:238, and failAll, worker-client.ts:257, rejects what the worker will not
\* answer): when nothing can happen by itself no promise is open, unless the module
\* never returned and nobody has closed the transport or ended the worker.
NothingStranded == Quiet => \A r \in Req : outcome[r] = "pending" => worker = "wedged" /\ ~closed

\* Every request settles, whatever the module and the worker do, unless the module never
\* returns and nobody closes the transport or ends the worker.
EveryRequestSettles ==
  \A r \in Req : outcome[r] = "pending" ~> outcome[r] # "pending" \/ (worker = "wedged" /\ ~closed)
=============================================================================
