-------------------------- MODULE NngIpcTransport --------------------------
(***************************************************************************)
(* packages/client/src/transport/nng-ipc.ts: the REQ/REP transport that    *)
(* dials kicad-cli's Unix socket.  A FIFO queue of requests, one in flight, *)
(* a set of ids whose replies must be dropped, and a connection that is     *)
(* dialed again after a failure.                                            *)
(*                                                                         *)
(* JavaScript runs one callback at a time, so every event handler is one    *)
(* action.  `conn` names the current Connection object; events of an older  *)
(* one are still delivered and have to be ignored.  A request frame is two  *)
(* pieces, so that a short write can cut it.  The kernel and the KiCad      *)
(* process are external: connections come up, break and stall at will.      *)
(***************************************************************************)
EXTENDS Integers, Sequences, FiniteSets

CONSTANTS
  Req,          \* the calls of send(); each happens at most once
  Conn,         \* Connection objects that may be alive together
  NoReq, NoConn,
  Handshake,    \* the peer's SP handshake
  Garbage,      \* bytes the frame parser rejects
  MaxAttempts,  \* reconnect.maxAttempts; 0 when `reconnect` is off
  OnTimeout,    \* "keep" or "reconnect"
  IdSpace,      \* number of request ids before the counter wraps (2^31 - 1)
  StaleMax,     \* staleIds may hold this many ids (1024)
  StaleEvict,   \* and loses this many when it would hold more (512)
  ShortWrites   \* may the kernel take only part of a write

Ids == 1..IdSpace

ASSUME TransportAssumption ==
  /\ MaxAttempts \in Nat
  /\ OnTimeout \in {"keep", "reconnect"}
  /\ IdSpace \in Nat \ {0}
  /\ StaleMax \in Nat \ {0} /\ StaleMax < IdSpace
  /\ StaleEvict \in 1..StaleMax
  /\ ShortWrites \in BOOLEAN
  /\ NoReq \notin Req /\ NoConn \notin Conn
  /\ Handshake \notin Req /\ Garbage \notin Req /\ Handshake # Garbage

VARIABLES
  state, conn,
  connected,      \* conn.sock # null
  backlog,        \* conn.writeBacklog
  queue, inFlight,
  id,             \* Pending.id of each request; 0 before it is pumped
  nextId, staleIds,
  closedByUser, attempt, reconnectTimer,
  outcome,        \* the promise of each request
  got,            \* history: the request whose reply resolved the promise
  forgot,         \* history: a stale id was evicted before its reply came
  sock,           \* the sockets: "free", "dialing", "up", "greeted" or "ended" by us
  wire,           \* pieces of frames on their way to KiCad
  replies         \* what KiCad has sent and we have not read

clientVars == <<state, conn, connected, queue, inFlight, id, nextId, staleIds, backlog,
                closedByUser, attempt, reconnectTimer, outcome, got, forgot>>
vars == <<clientVars, sock, wire, replies>>

Piece == Req \X {1, 2}
Frame(r) == <<<<r, 1>>, <<r, 2>>>>

TypeOK ==
  /\ state \in {"connecting", "open", "closed"}
  /\ conn \in Conn \union {NoConn}
  /\ connected \in BOOLEAN
  /\ backlog \in Seq(Piece)
  /\ queue \in Seq(Req)
  /\ inFlight \in Req \union {NoReq}
  /\ id \in [Req -> Ids \union {0}]
  /\ nextId \in Ids
  /\ staleIds \subseteq Ids
  /\ closedByUser \in BOOLEAN
  /\ attempt \in 0..MaxAttempts
  /\ reconnectTimer \in BOOLEAN
  /\ outcome \in [Req -> {"unsent", "pending", "resolved", "rejected"}]
  /\ got \in [Req -> Req \union {NoReq}]
  /\ forgot \in BOOLEAN
  /\ sock \in [Conn -> {"free", "dialing", "up", "greeted", "ended"}]
  /\ wire \in [Conn -> Seq(Piece)]
  /\ replies \in [Conn -> Seq(Req \union {Handshake, Garbage})]

Init ==
  /\ state = "connecting"            \* the constructor dials at once
  /\ conn \in Conn /\ connected = FALSE /\ backlog = <<>>
  /\ sock = [c \in Conn |-> IF c = conn THEN "dialing" ELSE "free"]
  /\ queue = <<>> /\ inFlight = NoReq
  /\ id = [r \in Req |-> 0]
  /\ nextId = 1 /\ staleIds = {}
  /\ closedByUser = FALSE /\ attempt = 0 /\ reconnectTimer = FALSE
  /\ outcome = [r \in Req |-> "unsent"]
  /\ got = [r \in Req |-> NoReq] /\ forgot = FALSE
  /\ wire = [c \in Conn |-> <<>>]
  /\ replies = [c \in Conn |-> <<>>]

-----------------------------------------------------------------------------
(* The shared tails of the handlers. *)

WriteAllForgetful(c, bytes, bl) ==   \* mutation: no backlog is kept
  \E n \in 0..Len(bytes) :
    /\ n < Len(bytes) => ShortWrites
    /\ wire' = [wire EXCEPT ![c] = @ \o SubSeq(bytes, 1, n)]
    /\ backlog' = bl

\* What a write adds to the wire; the rest becomes the backlog, replacing
\* whatever the backlog held.
WriteAll(c, bytes, bl) ==
  \E n \in 0..Len(bytes) :
    /\ n < Len(bytes) => ShortWrites
    /\ wire' = [wire EXCEPT ![c] = @ \o SubSeq(bytes, 1, n)]
    /\ backlog' = IF n < Len(bytes) THEN SubSeq(bytes, n + 1, Len(bytes)) ELSE bl

\* The first id from nextId on, cyclically, that is not stale.
Distance(i) == (i - nextId) % IdSpace
FreeIdsUnchecked(stale) == {i \in Ids : Distance(i) = 0}   \* mutation: stale ids are reused
FreeIds(stale) == {i \in Ids \ stale : \A j \in Ids \ stale : Distance(i) <= Distance(j)}

CanPump(st, q, f) == st = "open" /\ f = NoReq /\ q # <<>> /\ conn # NoConn /\ connected

\* pump() with queue q, request f in flight and the given state and stale ids.
Pump(st, q, f, stale) ==
  /\ staleIds' = stale
  /\ IF CanPump(st, q, f)
       THEN \E i \in FreeIds(stale) :
              /\ queue' = Tail(q)
              /\ inFlight' = Head(q)
              /\ id' = [id EXCEPT ![Head(q)] = i]
              /\ nextId' = (i % IdSpace) + 1
              /\ WriteAll(conn, Frame(Head(q)), backlog)
       ELSE /\ queue' = q /\ inFlight' = f
            /\ UNCHANGED <<id, nextId, wire, backlog>>

Rejected(S) == [r \in Req |-> IF r \in S THEN "rejected" ELSE outcome[r]]
InQueue == {queue[k] : k \in DOMAIN queue}
InFlightSet == {inFlight} \ {NoReq}

FailAll == InFlightSet \union InQueue

\* this.conn = null, the socket ended (or already gone) and its backlog lost
LoseConnection == conn' = NoConn /\ connected' = FALSE /\ backlog' = <<>>

Live == {"up", "greeted"}
EndSocket(c) == sock' = [sock EXCEPT ![c] = IF @ \in Live THEN "ended" ELSE @]
FreeSocket(c) == /\ sock' = [sock EXCEPT ![c] = "free"]
                 /\ wire' = [wire EXCEPT ![c] = <<>>]
                 /\ replies' = [replies EXCEPT ![c] = <<>>]

MayRetry == attempt < MaxAttempts

\* The in-flight request is rejected, then afterDisconnect(): another attempt,
\* or every request fails for good.
Disconnect(stale) ==
  /\ LoseConnection
  /\ staleIds' = stale
  /\ inFlight' = NoReq
  /\ IF MayRetry
       THEN /\ attempt' = attempt + 1
            /\ state' = "connecting"
            /\ reconnectTimer' = TRUE
            /\ outcome' = Rejected(InFlightSet)
            /\ UNCHANGED queue
       ELSE /\ outcome' = Rejected(FailAll)
            /\ queue' = <<>>
            /\ state' = "closed"
            /\ UNCHANGED <<attempt, reconnectTimer>>
  /\ UNCHANGED <<id, nextId, closedByUser, got>>

-----------------------------------------------------------------------------
(* Calls of the user. *)

EnqueueFirst(r) == <<r>> \o queue    \* mutation: unshift for push
Enqueue(r) == Append(queue, r)

Send(r) ==
  /\ outcome[r] = "unsent"
  /\ IF closedByUser \/ state = "closed"
       THEN /\ outcome' = [outcome EXCEPT ![r] = "rejected"]
            /\ UNCHANGED <<queue, inFlight, id, nextId, staleIds, wire, backlog>>
       ELSE /\ outcome' = [outcome EXCEPT ![r] = "pending"]
            /\ Pump(state, Enqueue(r), inFlight, staleIds)
  /\ UNCHANGED <<state, conn, connected, closedByUser, attempt, reconnectTimer, got, forgot, sock, replies>>

CancelReconnect == reconnectTimer' = FALSE

Close ==
  /\ ~closedByUser
  /\ closedByUser' = TRUE
  /\ CancelReconnect
  /\ outcome' = Rejected(FailAll)
  /\ queue' = <<>> /\ inFlight' = NoReq
  /\ LoseConnection
  /\ IF conn = NoConn \/ ~connected THEN UNCHANGED sock ELSE EndSocket(conn)
  /\ state' = "closed"
  /\ UNCHANGED <<id, nextId, staleIds, attempt, got, forgot, wire, replies>>

-----------------------------------------------------------------------------
(* Connection lifecycle. *)

\* The reconnect timer fires and dial() starts a new connection.
Redial ==
  /\ reconnectTimer
  /\ reconnectTimer' = FALSE
  /\ \E c \in Conn :
       /\ sock[c] = "free"
       /\ conn' = c
       /\ sock' = [sock EXCEPT ![c] = "dialing"]
  /\ state' = "connecting" /\ connected' = FALSE /\ backlog' = <<>>
  /\ UNCHANGED <<queue, inFlight, id, nextId, staleIds, closedByUser, attempt, outcome, got,
                 forgot, wire, replies>>

\* Bun.connect resolves: adopt the socket unless close() or the connect
\* timeout raced the dial.
Established(c) ==
  /\ sock[c] = "dialing"
  /\ IF conn = c
       THEN /\ sock' = [sock EXCEPT ![c] = "up"]
            /\ connected' = TRUE
       ELSE /\ sock' = [sock EXCEPT ![c] = "ended"]
            /\ UNCHANGED connected
  /\ UNCHANGED <<state, conn, backlog, queue, inFlight, id, nextId, staleIds, closedByUser,
                 attempt, reconnectTimer, outcome, got, forgot, wire, replies>>

ConnectError(c) ==
  /\ sock[c] = "dialing"
  /\ FreeSocket(c)
  /\ IF conn = c THEN Disconnect(staleIds) /\ UNCHANGED forgot ELSE UNCHANGED clientVars

\* The connect timer of the current connection, cleared once the state leaves "connecting".
ConnectTimerUntilDialed == conn # NoConn /\ ~connected   \* mutation: cleared by Bun.connect
ConnectTimerRuns == conn # NoConn /\ state # "open"

ConnectTimeout ==
  /\ ConnectTimerRuns
  /\ Disconnect(staleIds)
  /\ EndSocket(conn)
  /\ UNCHANGED <<forgot, wire, replies>>

\* close, end or error event of a socket
SocketClosed(c) ==
  /\ sock[c] \in Live \union {"ended"}
  /\ FreeSocket(c)
  /\ IF conn = c THEN Disconnect(staleIds) /\ UNCHANGED forgot ELSE UNCHANGED clientVars

-----------------------------------------------------------------------------
(* Data path.  A chunk with several good bodies is handled as a run of       *)
(* single ones; one with a bad frame loses the bodies in front of it.        *)

Consume(c) == replies' = [replies EXCEPT ![c] = Tail(@)]

OnHandshake(c) ==
  /\ sock[c] \in Live \union {"ended"} /\ replies[c] # <<>> /\ Head(replies[c]) = Handshake
  /\ Consume(c)
  /\ IF conn = c /\ state = "connecting"
       THEN /\ attempt' = 0
            /\ state' = "open"
            /\ Pump("open", queue, inFlight, staleIds)
       ELSE UNCHANGED <<attempt, state, queue, inFlight, id, nextId, staleIds, wire, backlog>>
  /\ UNCHANGED <<conn, connected, closedByUser, reconnectTimer, outcome, got, forgot, sock>>

AnyAnswers(m) == inFlight # NoReq      \* mutation: replies are positional
Answers(m) == inFlight # NoReq /\ id[inFlight] = id[m]

OnMessage(c) ==
  /\ sock[c] \in Live \union {"ended"} /\ replies[c] # <<>> /\ Head(replies[c]) \in Req
  /\ Consume(c)
  /\ LET m == Head(replies[c]) IN
     IF conn # c
       THEN UNCHANGED <<outcome, got, queue, inFlight, id, nextId, staleIds, wire, backlog>>
       ELSE IF Answers(m)
              THEN /\ outcome' = [outcome EXCEPT ![inFlight] = "resolved"]
                   /\ got' = [got EXCEPT ![inFlight] = m]
                   /\ Pump(state, queue, NoReq, staleIds)
              ELSE /\ staleIds' = staleIds \ {id[m]}
                   /\ UNCHANGED <<outcome, got, queue, inFlight, id, nextId, wire, backlog>>
  /\ UNCHANGED <<state, conn, connected, closedByUser, attempt, reconnectTimer, forgot, sock>>

OnProtocolError(c) ==
  /\ sock[c] \in Live \union {"ended"}
  /\ \E k \in DOMAIN replies[c] :
       /\ replies[c][k] = Garbage
       /\ replies' = [replies EXCEPT ![c] = SubSeq(@, k + 1, Len(@))]
  /\ IF conn = c THEN Disconnect(staleIds) /\ EndSocket(c) /\ UNCHANGED forgot ELSE UNCHANGED <<clientVars, sock>>
  /\ UNCHANGED wire

OnDrain(c) ==
  /\ conn = c /\ connected /\ backlog # <<>>
  /\ WriteAll(c, backlog, <<>>)
  /\ UNCHANGED <<state, conn, connected, queue, inFlight, id, nextId, staleIds, closedByUser,
                 attempt, reconnectTimer, outcome, got, forgot, sock, replies>>

-----------------------------------------------------------------------------
(* The request timer.  It is armed in pump(), so it runs only in flight.     *)

\* staleIds.add(i), forgetting old ids when there are too many; which ones
\* are the oldest is left open.
Remember(i) ==
  LET S == staleIds \union {i}
  IN  IF Cardinality(S) <= StaleMax THEN {S}
      ELSE {T \in SUBSET S : i \in T /\ Cardinality(T) = Cardinality(S) - StaleEvict}

RequestTimeout ==
  /\ inFlight # NoReq
  /\ \E stale \in Remember(id[inFlight]) :
       /\ forgot' = (forgot \/ ~(staleIds \subseteq stale))
       /\ IF OnTimeout = "reconnect"
            THEN /\ Disconnect(stale)
                 /\ EndSocket(conn)
                 /\ UNCHANGED <<wire, replies>>
            ELSE /\ outcome' = [outcome EXCEPT ![inFlight] = "rejected"]
                 /\ Pump(state, queue, NoReq, stale)
                 /\ UNCHANGED <<state, conn, connected, closedByUser, attempt, reconnectTimer,
                                got, sock, replies>>

-----------------------------------------------------------------------------
(* KiCad's end of the socket (external): it greets, answers whole frames in  *)
(* order, late or never, and may send bytes that are no frame.               *)

Greet(c) ==
  /\ sock[c] = "up"
  /\ sock' = [sock EXCEPT ![c] = "greeted"]
  /\ replies' = [replies EXCEPT ![c] = Append(@, Handshake)]
  /\ UNCHANGED <<clientVars, wire>>

Serve(c) ==
  /\ sock[c] = "greeted" /\ Len(wire[c]) >= 2
  /\ \E r \in Req :
       /\ SubSeq(wire[c], 1, 2) = Frame(r)
       /\ replies' = [replies EXCEPT ![c] = Append(@, r)]
  /\ wire' = [wire EXCEPT ![c] = SubSeq(@, 3, Len(@))]
  /\ UNCHANGED <<clientVars, sock>>

Babble(c) ==
  /\ sock[c] \in Live /\ Garbage \notin {replies[c][k] : k \in DOMAIN replies[c]}
  /\ replies' = [replies EXCEPT ![c] = Append(@, Garbage)]
  /\ UNCHANGED <<clientVars, sock, wire>>

-----------------------------------------------------------------------------
SocketEvent(c) == \/ Established(c) \/ ConnectError(c) \/ SocketClosed(c)
                  \/ OnHandshake(c) \/ OnMessage(c) \/ OnProtocolError(c) \/ OnDrain(c)
KiCad(c) == Greet(c) \/ Serve(c) \/ Babble(c)

Next == \/ \E r \in Req : Send(r)
        \/ Close
        \/ Redial \/ ConnectTimeout \/ RequestTimeout
        \/ \E c \in Conn : SocketEvent(c) \/ KiCad(c)

Spec == Init /\ [][Next]_vars

\* Timers fire and the operating system finishes what it was asked: a dial
\* succeeds or fails, an ended socket reports its close.  Nothing is assumed
\* of KiCad.
Fairness == /\ WF_vars(Redial) /\ WF_vars(ConnectTimeout) /\ WF_vars(RequestTimeout)
            /\ \A c \in Conn : /\ WF_vars(Established(c) \/ ConnectError(c))
                               /\ WF_vars(sock[c] = "ended" /\ SocketClosed(c))
FairSpec == Spec /\ Fairness

-----------------------------------------------------------------------------
(* Properties. *)

\* A promise is resolved with the reply to its own request: a late reply, a
\* reply on an abandoned connection or a reused id never reaches the wrong
\* caller (onMessage, allocId, staleIds).  Once staleIds has overflowed this
\* rests on KiCad not answering 2^31 requests late.
ReplyMatches == \A r \in Req : outcome[r] = "resolved" => (got[r] = r \/ forgot)

\* allocId "skips ids that may still be outstanding on the wire": the request in
\* flight never shares its id with one whose late reply is still awaited.
FreshId == inFlight # NoReq => id[inFlight] \notin staleIds

\* No path forgets pump(): while the transport is open, requests wait only
\* behind one that is in flight, and one in flight has a live connection.
NoLostPump ==
  /\ state = "open" => conn # NoConn /\ connected
  /\ state = "open" /\ queue # <<>> => inFlight # NoReq
  /\ inFlight # NoReq => state = "open"

\* Every unsettled promise is held exactly once, in the queue or in flight, and
\* none is left when the transport is closed (failAll, close, afterDisconnect).
PendingAccounted ==
  /\ \A r \in Req : outcome[r] = "pending" <=> r \in InQueue \union InFlightSet
  /\ \A j, k \in DOMAIN queue : queue[j] = queue[k] => j = k
  /\ inFlight \notin InQueue
  /\ state = "closed" => queue = <<>> /\ inFlight = NoReq

\* The transport is always doing something about a connection it lacks: it is
\* dialing, waiting for the reconnect timer, or closed; and never two at once.
Dialing ==
  /\ state = "connecting" => (reconnectTimer <=> conn = NoConn)
  /\ state # "connecting" => ~reconnectTimer
  /\ state = "closed" => conn = NoConn

\* "Bytes not yet accepted by the kernel; flushed on `drain`" (nng-ipc.ts:65):
\* what is on the wire and in the backlog is a sequence of whole frames.
WellFramed ==
  conn # NoConn =>
    LET s == wire[conn] \o backlog IN
    /\ Len(s) % 2 = 0
    /\ \A k \in 1..(Len(s) \div 2) : \E r \in Req : SubSeq(s, 2 * k - 1, 2 * k) = Frame(r)

\* Requests settle in the order they were sent, each once: the transport
\* implements RequestChannel.
Channel == INSTANCE RequestChannel WITH
             pending <- (IF inFlight = NoReq THEN <<>> ELSE <<inFlight>>) \o queue,
             open <- (state # "closed")
ImplementsChannel == Channel!Spec

\* Every request that was sent is eventually answered or rejected, whatever
\* KiCad does, when reconnecting gives up after finitely many attempts.
EveryRequestSettles == \A r \in Req : outcome[r] = "pending" ~> outcome[r] # "pending"

=============================================================================
