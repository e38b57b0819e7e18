------------------------------ MODULE BridgeRelay ------------------------------
(* WebSocketTransport (packages/client/src/transport/websocket.ts) and the bridge's
   websocket handlers (packages/bridge/src/server.ts), which share the transport of one
   session between all its clients. That transport is the RequestChannel that
   NngIpcTransport implements; KiCad may end, and a new transport take
   its place. Events, keepalive and the other control messages are left out. *)
EXTENDS Naturals, Sequences, FiniteSets

CONSTANTS
  Client,       \* the WebSocket transports of a session
  Req,          \* the calls of send(), each made at most once
  NoReq,
  ClientOf(_),  \* whose call it is
  MaxId,        \* WS_MAX_REQUEST_ID, 2^32 - 2
  MaxRestarts   \* transports that may take the place of one that ended

ASSUME RelayAssumption ==
  /\ NoReq \notin Req
  /\ \A r \in Req : ClientOf(r) \in Client
  /\ MaxId \in Nat \ {0}
  /\ MaxRestarts \in Nat

VARIABLES
  state,     \* the transport of a client
  socket,    \* its WebSocket: "dialing", "up", or "down" once an end or the network ended it
  outcome,   \* the promise of each request
  held,      \* requests that await ready()
  nextId,
  id,        \* the correlation id of a request; 0 before it is allocated
  got,       \* history: the request whose reply resolved the promise
  reused,    \* history: requests given the id of one whose reply may still come
  toBridge,  \* requests on their way, under their ids
  toClient,  \* <<"hello">>, and <<"reply", r>> or <<"error", r>> under the id of r
  queued, answered, running,  \* the session's transport, as RequestChannel has it
  restarts

clientVars == <<state, socket, outcome, held, nextId, id, got, reused>>
channelVars == <<queued, answered, running, restarts>>
vars == <<clientVars, toBridge, toClient, channelVars>>

Channel == INSTANCE RequestChannel WITH pending <- queued, outcome <- answered, open <- running

Outcomes == {"unsent", "pending", "resolved", "rejected"}

TypeOK ==
  /\ state \in [Client -> {"connecting", "open", "closed"}]
  /\ socket \in [Client -> {"dialing", "up", "down"}]
  /\ outcome \in [Req -> Outcomes] /\ answered \in [Req -> Outcomes]
  /\ held \subseteq Req /\ reused \subseteq Req
  /\ nextId \in [Client -> 1..MaxId]
  /\ id \in [Req -> 0..MaxId]
  /\ got \in [Req -> Req \union {NoReq}]
  /\ toBridge \in [Client -> Seq(Req)]
  /\ toClient \in [Client -> Seq({<<"hello">>} \union ({"reply", "error"} \X Req))]
  /\ queued \in Seq(Req) /\ running \in BOOLEAN
  /\ restarts \in 0..MaxRestarts

Init ==
  /\ state = [c \in Client |-> "connecting"]
  /\ socket = [c \in Client |-> "dialing"]
  /\ outcome = [r \in Req |-> "unsent"]
  /\ held = {} /\ reused = {}
  /\ nextId = [c \in Client |-> 1]
  /\ id = [r \in Req |-> 0]
  /\ got = [r \in Req |-> NoReq]
  /\ toBridge = [c \in Client |-> <<>>]
  /\ toClient = [c \in Client |-> <<>>]
  /\ Channel!Init
  /\ restarts = 0

-----------------------------------------------------------------------------
(* The client. *)

\* The pending map of a client.
pending(c) == {r \in Req \ held : ClientOf(r) = c /\ outcome[r] = "pending"}

\* The first id from nextId on, cyclically, that is not pending.
Free(c) ==
  LET Distance(i) == (i + MaxId - nextId[c]) % MaxId
      unused == 1..MaxId \ {id[r] : r \in pending(c)}
  IN {i \in unused : \A k \in unused : Distance(i) <= Distance(k)}

Elements(s) == {s[k] : k \in DOMAIN s}

\* Requests of a client whose reply, or whose request even, is still under way.
Travelling(c) ==
  Elements(toBridge[c]) \union Elements(queued) \union {m[2] : m \in Elements(toClient[c]) \ {<<"hello">>}}

\* send() once the transport is open. A frame for a socket that is down is dropped in
\* silence; the close event is still to come.
Transmit(r) == LET c == ClientOf(r) IN
  \E i \in Free(c) :
    /\ id' = [id EXCEPT ![r] = i]
    /\ nextId' = [nextId EXCEPT ![c] = (i % MaxId) + 1]
    /\ reused' = IF \E q \in Travelling(c) : ClientOf(q) = c /\ id[q] = i THEN reused \union {r} ELSE reused
    /\ toBridge' = IF socket[c] = "up" THEN [toBridge EXCEPT ![c] = Append(@, r)] ELSE toBridge
    /\ outcome' = [outcome EXCEPT ![r] = "pending"]

Reject(r) == /\ outcome' = [outcome EXCEPT ![r] = "rejected"]
             /\ UNCHANGED <<id, nextId, reused, toBridge>>

send(r) == LET c == ClientOf(r) IN
  /\ outcome[r] = "unsent"
  /\ CASE state[c] = "connecting" ->
            /\ held' = held \union {r}
            /\ outcome' = [outcome EXCEPT ![r] = "pending"]
            /\ UNCHANGED <<id, nextId, reused, toBridge>>
       [] state[c] = "open" -> Transmit(r) /\ UNCHANGED held
       [] state[c] = "closed" -> Reject(r) /\ UNCHANGED held
  /\ UNCHANGED <<state, socket, got, toClient, channelVars>>

\* ready() has settled.
Ready(r) == LET c == ClientOf(r) IN
  /\ r \in held
  /\ state[c] # "connecting"
  /\ held' = held \ {r}
  /\ IF state[c] = "open" THEN Transmit(r) ELSE Reject(r)
  /\ UNCHANGED <<state, socket, got, toClient, channelVars>>

\* mutation: the pending requests are forgotten.
FinishOnly(c) == state' = [state EXCEPT ![c] = "closed"] /\ UNCHANGED outcome

finish(c) ==
  /\ state' = [state EXCEPT ![c] = "closed"]
  /\ outcome' = [r \in Req |-> IF r \in pending(c) THEN "rejected" ELSE outcome[r]]

\* close() of the user, or the connect timer: the messages that still come are ignored.
EndSocket(c) ==
  /\ finish(c)
  /\ socket' = [socket EXCEPT ![c] = "down"]
  /\ toClient' = [toClient EXCEPT ![c] = <<>>]
  /\ UNCHANGED <<held, nextId, id, got, reused, toBridge, channelVars>>

close(c) == state[c] # "closed" /\ EndSocket(c)
ConnectTimeout(c) == state[c] = "connecting" /\ EndSocket(c)

\* The close event comes after the messages before it.
OnClose(c) ==
  /\ socket[c] = "down" /\ state[c] # "closed" /\ toClient[c] = <<>>
  /\ finish(c)
  /\ UNCHANGED <<socket, held, nextId, id, got, reused, toBridge, toClient, channelVars>>

RequestTimeout(r) ==
  /\ r \in pending(ClientOf(r))
  /\ outcome' = [outcome EXCEPT ![r] = "rejected"]
  /\ UNCHANGED <<state, socket, held, nextId, id, got, reused, toBridge, toClient, channelVars>>

Receive(c) ==
  /\ toClient[c] # <<>>
  /\ toClient' = [toClient EXCEPT ![c] = Tail(@)]
  /\ UNCHANGED <<socket, held, nextId, id, reused, toBridge, channelVars>>

OnHello(c) ==
  /\ Receive(c)
  /\ Head(toClient[c]) = <<"hello">>
  /\ state' = [state EXCEPT ![c] = IF @ = "connecting" THEN "open" ELSE @]
  /\ UNCHANGED <<outcome, got>>

\* mutation: replies come in the order of the requests.
AnyAnswers(r, q) == TRUE

\* A frame settles the pending request that has its id.
Answers(r, q) == id[r] = id[q]

OnReply(c) ==
  /\ Receive(c)
  /\ Head(toClient[c]) # <<"hello">>
  /\ LET m == Head(toClient[c]) IN
     \/ \E r \in pending(c) :
          /\ Answers(r, m[2])
          /\ outcome' = [outcome EXCEPT ![r] = IF m[1] = "reply" THEN "resolved" ELSE "rejected"]
          /\ got' = [got EXCEPT ![r] = m[2]]
     \/ ~(\E r \in pending(c) : Answers(r, m[2])) /\ UNCHANGED <<outcome, got>>
  /\ UNCHANGED state

-----------------------------------------------------------------------------
(* The network and the bridge. *)

\* The socket opens; the bridge greets.
Opened(c) ==
  /\ socket[c] = "dialing"
  /\ socket' = [socket EXCEPT ![c] = "up"]
  /\ toClient' = [toClient EXCEPT ![c] = <<<<"hello">>>>]
  /\ UNCHANGED <<state, outcome, held, nextId, id, got, reused, toBridge, channelVars>>

\* The connection is lost, with some of what was on its way.
Break(c) ==
  /\ socket[c] # "down"
  /\ socket' = [socket EXCEPT ![c] = "down"]
  /\ \E n \in 0..Len(toBridge[c]) : toBridge' = [toBridge EXCEPT ![c] = SubSeq(@, 1, n)]
  /\ \E n \in 0..Len(toClient[c]) : toClient' = [toClient EXCEPT ![c] = SubSeq(@, 1, n)]
  /\ UNCHANGED <<state, outcome, held, nextId, id, got, reused, channelVars>>

\* if (ws.readyState === 1)
Reachable(r) == socket[ClientOf(r)] = "up"

\* Some places of a sequence, from first to last.
InOrder(S) ==
  {p \in [1..Cardinality(S) -> S] : \A j, k \in 1..Cardinality(S) : j < k => p[j] < p[k]}

\* mutation: a request that fails is not told of.
RepliesOnly(r) == answered'[r] = "resolved"

\* Both callbacks of a request tell its client.
Told(r) == answered'[r] # "pending"

\* The frames the callbacks send for the requests of `s` that the transport settled.
Tell(s) ==
  LET Frame(r) == <<IF answered'[r] = "resolved" THEN "reply" ELSE "error", r>>
      Mine(c) == {k \in DOMAIN s : ClientOf(s[k]) = c /\ Told(s[k]) /\ Reachable(s[k])}
  IN \E place \in [Client -> UNION {InOrder(Mine(c)) : c \in Client}] :
       /\ \A c \in Client : place[c] \in InOrder(Mine(c))
       /\ toClient' = [c \in Client |-> toClient[c] \o [k \in DOMAIN place[c] |-> Frame(s[place[c][k]])]]

OnlyTakes(S) == \A r \in Req \ S : answered[r] = "unsent" => answered'[r] = "unsent"

\* The handler of a binary frame: an error when KiCad does not run, else its transport.
Relay(c) ==
  /\ toBridge[c] # <<>>
  /\ toBridge' = [toBridge EXCEPT ![c] = Tail(@)]
  /\ LET r == Head(toBridge[c]) IN
     \/ /\ running
        /\ Channel!Submit(r) \/ (Channel!Shut /\ OnlyTakes({r}) /\ answered'[r] # "unsent")
        /\ Tell(Append(queued, r))
     \/ /\ ~running
        /\ toClient' = [toClient EXCEPT ![c] = IF socket[c] = "up" THEN Append(@, <<"error", r>>) ELSE @]
        /\ UNCHANGED <<queued, answered, running>>
  /\ UNCHANGED <<clientVars, restarts>>

\* The session's transport answers its oldest request, or closes.
TransportStep ==
  /\ (\E o \in {"resolved", "rejected"} : Channel!Settle(o)) \/ (Channel!Shut /\ OnlyTakes({}))
  /\ Tell(queued)
  /\ UNCHANGED <<clientVars, toBridge, restarts>>

\* KiCad is started again, with a new transport.
Restart ==
  /\ ~running /\ restarts < MaxRestarts
  /\ running' = TRUE
  /\ restarts' = restarts + 1
  /\ UNCHANGED <<clientVars, toBridge, toClient, queued, answered>>

-----------------------------------------------------------------------------

Next ==
  \/ \E r \in Req : send(r) \/ Ready(r) \/ RequestTimeout(r)
  \/ \E c \in Client : \/ close(c) \/ ConnectTimeout(c) \/ OnClose(c) \/ OnHello(c) \/ OnReply(c)
                       \/ Opened(c) \/ Break(c) \/ Relay(c)
  \/ TransportStep \/ Restart

Spec == Init /\ [][Next]_vars

\* Messages arrive, an ended socket reports its close, the connect timer fires, and the
\* session's transport settles what it took. The request timers are not needed.
Fairness ==
  /\ \A c \in Client : /\ WF_vars(ConnectTimeout(c)) /\ WF_vars(OnClose(c))
                       /\ WF_vars(OnHello(c) \/ OnReply(c)) /\ WF_vars(Relay(c))
  /\ \A r \in Req : WF_vars(Ready(r))
  /\ WF_vars(TransportStep)

LiveSpec == Spec /\ Fairness

-----------------------------------------------------------------------------
(* Properties. *)

\* "Several requests may be in flight on one WebSocket; the bridge [...] routes replies
\* back by id" (ws-bridge-protocol.ts:4-6): whoever times out, goes away or shares the
\* session, a promise settles with what became of its own request. Ids come round after
\* 2^32 - 2 requests; one that is given out again while a late reply is still under way
\* is no longer safe, since only pending ids are skipped.
ReplyMatches == \A r \in Req : got[r] \in {NoReq, r} \/ r \in reused

\* A request that was sent is never forgotten, however the clients' sockets, KiCad and the
\* session's transport come and go (server.ts:241-273, websocket.ts:342): it, or its answer,
\* is under way, or the close event of its socket is, which rejects it.
NothingLost ==
  \A r \in Req : outcome[r] = "pending" /\ r \notin held =>
    LET c == ClientOf(r) IN state[c] = "open" /\ (r \in Travelling(c) \/ socket[c] = "down")

\* Every request settles, even without a timeout: the bridge answers each frame, with an
\* error when KiCad fails or does not run, or the socket closes.
EveryRequestSettles == \A r \in Req : outcome[r] = "pending" ~> outcome[r] # "pending"
=============================================================================
