----------------------- MODULE NngIpcTransport_proofs -----------------------
(***************************************************************************)
(* Theorems about NngIpcTransport for every set of requests, every number   *)
(* of reconnect attempts and every size of the id space and the stale set.  *)
(***************************************************************************)
EXTENDS NngIpcTransport, SequenceTheorems, TLAPS

LEMMA FrameType == \A r \in Req : Frame(r) \in Seq(Piece) /\ Len(Frame(r)) = 2
BY DEF Frame, Piece

\* A part of a sequence of pieces is one.
LEMMA SubSeqType ==
  ASSUME NEW S, NEW s \in Seq(S), NEW m \in 1..(Len(s) + 1), NEW n \in 0..Len(s)
  PROVE  SubSeq(s, m, n) \in Seq(S)
<1>1. \A i \in m..n : s[i] \in S
  BY ElementOfSeq, LenProperties
<1> QED
  BY <1>1, SubSeqProperties, LenProperties

LEMMA WriteAllType ==
  ASSUME TypeOK, NEW c \in Conn, NEW bytes \in Seq(Piece), NEW bl \in Seq(Piece),
         WriteAll(c, bytes, bl)
  PROVE  wire' \in [Conn -> Seq(Piece)] /\ backlog' \in Seq(Piece)
<1>1. PICK n \in 0..Len(bytes) :
        /\ wire' = [wire EXCEPT ![c] = @ \o SubSeq(bytes, 1, n)]
        /\ backlog' = IF n < Len(bytes) THEN SubSeq(bytes, n + 1, Len(bytes)) ELSE bl
  BY DEF WriteAll
<1>2. Len(bytes) \in Nat
  BY LenProperties
<1>3. SubSeq(bytes, 1, n) \in Seq(Piece)
  BY <1>2, SubSeqType
<1>4. SubSeq(bytes, n + 1, Len(bytes)) \in Seq(Piece)
  BY <1>2, SubSeqType
<1>5. wire[c] \in Seq(Piece)
  BY DEF TypeOK
<1>6. wire[c] \o SubSeq(bytes, 1, n) \in Seq(Piece)
  BY <1>3, <1>5, ConcatProperties
<1> QED
  BY <1>1, <1>4, <1>6 DEF TypeOK

\* TypeOK is not inductive: a request in flight has been given an id.
TypeInv == TypeOK /\ (inFlight # NoReq => id[inFlight] \in Ids)

\* What pump() leaves behind, whatever it is called with.
LEMMA PumpType ==
  ASSUME TypeOK, NEW st, NEW q \in Seq(Req), NEW f \in Req \union {NoReq}, NEW stale \in SUBSET Ids,
         f # NoReq => id[f] \in Ids,
         Pump(st, q, f, stale)
  PROVE  /\ inFlight' # NoReq => id'[inFlight'] \in Ids
         /\ queue' \in Seq(Req) /\ inFlight' \in Req \union {NoReq}
         /\ id' \in [Req -> Ids \union {0}] /\ nextId' \in Ids /\ staleIds' \subseteq Ids
         /\ wire' \in [Conn -> Seq(Piece)] /\ backlog' \in Seq(Piece)
<1>1. CASE CanPump(st, q, f)
  <2>1. PICK i \in FreeIds(stale) :
          /\ queue' = Tail(q)
          /\ inFlight' = Head(q)
          /\ id' = [id EXCEPT ![Head(q)] = i]
          /\ nextId' = (i % IdSpace) + 1
          /\ WriteAll(conn, Frame(Head(q)), backlog)
    BY <1>1 DEF Pump
  <2>2. Head(q) \in Req /\ Tail(q) \in Seq(Req)
    BY <1>1, HeadTailProperties DEF CanPump
  <2>3. conn \in Conn
    BY <1>1 DEF CanPump, TypeOK
  <2>4. wire' \in [Conn -> Seq(Piece)] /\ backlog' \in Seq(Piece)
    BY <2>1, <2>2, <2>3, WriteAllType, FrameType DEF TypeOK
  <2>5. i \in Ids
    BY <2>1 DEF FreeIds
  <2>6. (i % IdSpace) + 1 \in Ids
    BY <2>5, TransportAssumption DEF Ids
  <2> QED
    BY <2>1, <2>2, <2>4, <2>5, <2>6 DEF Pump, TypeOK
<1>2. CASE ~CanPump(st, q, f)
  BY <1>2 DEF Pump, TypeOK
<1> QED
  BY <1>1, <1>2

LEMMA DisconnectType ==
  ASSUME TypeOK, NEW stale \in SUBSET Ids, Disconnect(stale)
  PROVE  /\ state' \in {"connecting", "closed"} /\ conn' = NoConn /\ connected' = FALSE
         /\ backlog' = <<>> /\ queue' \in Seq(Req) /\ inFlight' = NoReq /\ staleIds' \subseteq Ids
         /\ id' = id /\ nextId' = nextId /\ closedByUser' = closedByUser /\ got' = got
         /\ attempt' \in 0..MaxAttempts /\ reconnectTimer' \in BOOLEAN
         /\ outcome' \in [Req -> {"unsent", "pending", "resolved", "rejected"}]
<1>1. \A S : Rejected(S) \in [Req -> {"unsent", "pending", "resolved", "rejected"}]
  BY DEF Rejected, TypeOK
<1>2. /\ conn' = NoConn /\ connected' = FALSE /\ backlog' = <<>> /\ inFlight' = NoReq
      /\ staleIds' \subseteq Ids
      /\ id' = id /\ nextId' = nextId /\ closedByUser' = closedByUser /\ got' = got
  BY DEF Disconnect, LoseConnection
<1>3. CASE MayRetry
  BY <1>1, <1>2, <1>3, TransportAssumption DEF Disconnect, MayRetry, TypeOK
<1>4. CASE ~MayRetry
  <2>1. queue' \in Seq(Req)
    BY <1>4, EmptySeq DEF Disconnect
  <2> QED
    BY <1>1, <1>2, <1>4, <2>1 DEF Disconnect, TypeOK
<1> QED
  BY <1>3, <1>4

LEMMA SocketTypes ==
  ASSUME TypeOK, NEW c \in Conn
  PROVE  /\ EndSocket(c) => sock' \in [Conn -> {"free", "dialing", "up", "greeted", "ended"}]
         /\ FreeSocket(c) => /\ sock' \in [Conn -> {"free", "dialing", "up", "greeted", "ended"}]
                             /\ wire' \in [Conn -> Seq(Piece)]
                             /\ replies' \in [Conn -> Seq(Req \union {Handshake, Garbage})]
<1>1. <<>> \in Seq(Piece) /\ <<>> \in Seq(Req \union {Handshake, Garbage})
  BY EmptySeq
<1> QED
  BY <1>1 DEF EndSocket, FreeSocket, TypeOK

\* A handler that frees a socket and disconnects if it was the current one.
LEMMA FreeAndDisconnect ==
  ASSUME TypeInv, NEW c \in Conn, FreeSocket(c),
         conn # c => UNCHANGED clientVars,
         conn = c => Disconnect(staleIds) /\ UNCHANGED forgot
  PROVE  TypeInv'
<1>1. staleIds \in SUBSET Ids
  BY DEF TypeInv, TypeOK
<1>2. CASE conn = c
  BY <1>1, <1>2, DisconnectType, SocketTypes, EmptySeq DEF TypeInv, TypeOK
<1>3. CASE conn # c
  BY <1>3, SocketTypes DEF TypeInv, TypeOK, clientVars
<1> QED
  BY <1>2, <1>3

LEMMA EndSocketNoConn ==
  ASSUME TypeOK, EndSocket(conn)
  PROVE  sock' \in [Conn -> {"free", "dialing", "up", "greeted", "ended"}]
BY SocketTypes DEF EndSocket, TypeOK

LEMMA ConsumeType ==
  ASSUME TypeOK, NEW c \in Conn, replies[c] # <<>>, Consume(c)
  PROVE  replies' \in [Conn -> Seq(Req \union {Handshake, Garbage})]
<1>1. Tail(replies[c]) \in Seq(Req \union {Handshake, Garbage})
  BY HeadTailProperties DEF TypeOK
<1> QED
  BY <1>1 DEF Consume, TypeOK

LEMMA RememberType ==
  ASSUME NEW i \in Ids, staleIds \subseteq Ids, NEW stale \in Remember(i)
  PROVE  stale \in SUBSET Ids /\ i \in stale
BY DEF Remember

\* Every step keeps the types of the fields (nng-ipc.ts:95-108) and the id of
\* the request in flight.
LEMMA TypeInvariant == Spec => []TypeInv
<1>1. Init => TypeInv
  <2> SUFFICES ASSUME Init PROVE TypeInv
    OBVIOUS
  <2>1. \A S : <<>> \in Seq(S)
    BY EmptySeq
  <2>2. /\ queue \in Seq(Req) /\ backlog \in Seq(Piece)
        /\ wire \in [Conn -> Seq(Piece)]
        /\ replies \in [Conn -> Seq(Req \union {Handshake, Garbage})]
    BY <2>1 DEF Init
  <2>3. attempt \in 0..MaxAttempts /\ nextId \in Ids
    BY TransportAssumption DEF Init, Ids
  <2> QED
    BY <2>2, <2>3 DEF Init, TypeOK, TypeInv
<1>2. TypeInv /\ [Next]_vars => TypeInv'
  <2> SUFFICES ASSUME TypeInv, [Next]_vars PROVE TypeInv'
    OBVIOUS
  <2> USE DEF TypeInv
  <2>1. CASE UNCHANGED vars
    BY <2>1 DEF TypeOK, vars, clientVars
  <2>2. ASSUME NEW r \in Req, Send(r) PROVE TypeInv'
    <3>1. CASE closedByUser \/ state = "closed"
      BY <2>2, <3>1 DEF Send, TypeOK
    <3>2. CASE ~(closedByUser \/ state = "closed")
      <4>1. Enqueue(r) \in Seq(Req)
        BY DEF Enqueue, TypeOK
      <4>2. Pump(state, Enqueue(r), inFlight, staleIds)
        BY <2>2, <3>2 DEF Send
      <4>3. staleIds \in SUBSET Ids /\ inFlight \in Req \union {NoReq}
        BY DEF TypeOK
      <4>4. /\ queue' \in Seq(Req) /\ inFlight' \in Req \union {NoReq}
            /\ id' \in [Req -> Ids \union {0}] /\ nextId' \in Ids /\ staleIds' \subseteq Ids
            /\ inFlight' # NoReq => id'[inFlight'] \in Ids
            /\ wire' \in [Conn -> Seq(Piece)] /\ backlog' \in Seq(Piece)
        BY <4>1, <4>2, <4>3, PumpType
      <4> QED
        BY <2>2, <3>2, <4>4 DEF Send, TypeOK
    <3> QED
      BY <3>1, <3>2
  <2>3. CASE Close
    <3>1. outcome' \in [Req -> {"unsent", "pending", "resolved", "rejected"}]
      BY <2>3 DEF Close, Rejected, TypeOK
    <3>2. sock' \in [Conn -> {"free", "dialing", "up", "greeted", "ended"}]
      BY <2>3, SocketTypes DEF Close, TypeOK
    <3>3. queue' \in Seq(Req) /\ backlog' \in Seq(Piece)
      BY <2>3, EmptySeq DEF Close, LoseConnection
    <3> QED
      BY <2>3, <3>1, <3>2, <3>3 DEF Close, CancelReconnect, LoseConnection, TypeOK
  <2>4. CASE Redial
    <3>1. backlog' \in Seq(Piece)
      BY <2>4, EmptySeq DEF Redial
    <3> QED
      BY <2>4, <3>1 DEF Redial, TypeOK
  <2>5. CASE ConnectTimeout
    <3>1. Disconnect(staleIds) /\ staleIds \in SUBSET Ids /\ conn \in Conn
      BY <2>5 DEF ConnectTimeout, ConnectTimerRuns, TypeOK
    <3>2. sock' \in [Conn -> {"free", "dialing", "up", "greeted", "ended"}]
      BY <2>5, <3>1, SocketTypes DEF ConnectTimeout
    <3> QED
      BY <2>5, <3>1, <3>2, DisconnectType, EmptySeq DEF ConnectTimeout, TypeOK
  <2>6. CASE RequestTimeout
    <3>1. inFlight \in Req /\ inFlight # NoReq
      BY <2>6 DEF RequestTimeout, TypeOK
    <3>2. PICK stale \in Remember(id[inFlight]) :
            /\ forgot' = (forgot \/ ~(staleIds \subseteq stale))
            /\ IF OnTimeout = "reconnect"
                 THEN /\ Disconnect(stale)
                      /\ EndSocket(conn)
                      /\ UNCHANGED <<wire, replies>>
                 ELSE /\ outcome' = [outcome EXCEPT ![inFlight] = "rejected"]
                      /\ Pump(state, queue, NoReq, stale)
                      /\ UNCHANGED <<state, conn, connected, closedByUser, attempt, reconnectTimer,
                                     got, sock, replies>>
      BY <2>6 DEF RequestTimeout
    <3>3. stale \in SUBSET Ids
      BY <3>1, <3>2, RememberType DEF TypeOK
    <3>4. conn # NoConn => conn \in Conn
      BY DEF TypeOK
    <3>5. CASE OnTimeout = "reconnect"
      <4>1. sock' \in [Conn -> {"free", "dialing", "up", "greeted", "ended"}]
        BY <3>2, <3>5, EndSocketNoConn DEF TypeOK
      <4> QED
        BY <3>2, <3>3, <3>5, <4>1, DisconnectType, EmptySeq DEF TypeOK
    <3>6. CASE OnTimeout # "reconnect"
      <4>1. Pump(state, queue, NoReq, stale)
        BY <3>2, <3>6
      <4>2. /\ queue' \in Seq(Req) /\ inFlight' \in Req \union {NoReq}
            /\ id' \in [Req -> Ids \union {0}] /\ nextId' \in Ids /\ staleIds' \subseteq Ids
            /\ inFlight' # NoReq => id'[inFlight'] \in Ids
            /\ wire' \in [Conn -> Seq(Piece)] /\ backlog' \in Seq(Piece)
        BY <3>3, <4>1, PumpType DEF TypeOK
      <4> QED
        BY <3>1, <3>2, <3>6, <4>2 DEF TypeOK
    <3> QED
      BY <3>5, <3>6
  <2>7. ASSUME NEW c \in Conn, SocketEvent(c) PROVE TypeInv'
    <3>1. CASE Established(c)
      BY <2>7, <3>1 DEF Established, TypeOK
    <3>2. CASE ConnectError(c)
      <4>1. conn # c => UNCHANGED clientVars
        BY <3>2 DEF ConnectError
      <4>2. conn = c => Disconnect(staleIds) /\ UNCHANGED forgot
        BY <3>2 DEF ConnectError
      <4>3. FreeSocket(c)
        BY <3>2 DEF ConnectError
      <4> QED
        BY <4>1, <4>2, <4>3, FreeAndDisconnect
    <3>3. CASE SocketClosed(c)
      <4>1. conn # c => UNCHANGED clientVars
        BY <3>3 DEF SocketClosed
      <4>2. conn = c => Disconnect(staleIds) /\ UNCHANGED forgot
        BY <3>3 DEF SocketClosed
      <4>3. FreeSocket(c)
        BY <3>3 DEF SocketClosed
      <4> QED
        BY <4>1, <4>2, <4>3, FreeAndDisconnect
    <3>4. CASE OnHandshake(c)
      <4>1. replies' \in [Conn -> Seq(Req \union {Handshake, Garbage})]
        BY <3>4, ConsumeType DEF OnHandshake
      <4>2. CASE conn = c /\ state = "connecting"
        <5>1. Pump("open", queue, inFlight, staleIds) /\ attempt' = 0 /\ state' = "open"
          BY <3>4, <4>2 DEF OnHandshake
        <5>2. staleIds \in SUBSET Ids /\ queue \in Seq(Req) /\ inFlight \in Req \union {NoReq}
          BY DEF TypeOK
        <5>3. /\ queue' \in Seq(Req) /\ inFlight' \in Req \union {NoReq}
              /\ id' \in [Req -> Ids \union {0}] /\ nextId' \in Ids /\ staleIds' \subseteq Ids
              /\ inFlight' # NoReq => id'[inFlight'] \in Ids
              /\ wire' \in [Conn -> Seq(Piece)] /\ backlog' \in Seq(Piece)
          BY <5>1, <5>2, PumpType
        <5> QED
          BY <3>4, <4>1, <5>1, <5>3, TransportAssumption DEF OnHandshake, TypeOK
      <4>3. CASE ~(conn = c /\ state = "connecting")
        BY <3>4, <4>1, <4>3 DEF OnHandshake, TypeOK
      <4> QED
        BY <4>2, <4>3
    <3>5. CASE OnMessage(c)
      <4>1. replies' \in [Conn -> Seq(Req \union {Handshake, Garbage})]
        BY <3>5, ConsumeType DEF OnMessage
      <4> DEFINE m == Head(replies[c])
      <4>2. CASE conn = c /\ Answers(m)
        <5>1. /\ outcome' = [outcome EXCEPT ![inFlight] = "resolved"]
              /\ got' = [got EXCEPT ![inFlight] = m]
              /\ Pump(state, queue, NoReq, staleIds)
          BY <3>5, <4>2 DEF OnMessage
        <5>2. staleIds \in SUBSET Ids /\ queue \in Seq(Req)
          BY DEF TypeOK
        <5>3. /\ queue' \in Seq(Req) /\ inFlight' \in Req \union {NoReq}
              /\ id' \in [Req -> Ids \union {0}] /\ nextId' \in Ids /\ staleIds' \subseteq Ids
              /\ inFlight' # NoReq => id'[inFlight'] \in Ids
              /\ wire' \in [Conn -> Seq(Piece)] /\ backlog' \in Seq(Piece)
          BY <5>1, <5>2, PumpType
        <5>4. m \in Req
          BY <3>5 DEF OnMessage
        <5> QED
          BY <3>5, <4>1, <5>1, <5>3, <5>4 DEF OnMessage, TypeOK
      <4>3. CASE ~(conn = c /\ Answers(m))
        <5>1. staleIds' \subseteq Ids /\ UNCHANGED <<outcome, got, queue, inFlight, id, nextId, wire, backlog>>
          BY <3>5, <4>3 DEF OnMessage, TypeOK
        <5> QED
          BY <3>5, <4>1, <5>1 DEF OnMessage, TypeOK
      <4> QED
        BY <4>2, <4>3
    <3>6. CASE OnProtocolError(c)
      <4>1. replies' \in [Conn -> Seq(Req \union {Handshake, Garbage})]
        <5>1. PICK k \in DOMAIN replies[c] :
                replies' = [replies EXCEPT ![c] = SubSeq(@, k + 1, Len(@))]
          BY <3>6 DEF OnProtocolError
        <5>2. replies[c] \in Seq(Req \union {Handshake, Garbage})
          BY DEF TypeOK
        <5>3. Len(replies[c]) \in Nat /\ k \in 1..Len(replies[c])
          BY <5>1, <5>2, LenProperties
        <5>4. SubSeq(replies[c], k + 1, Len(replies[c])) \in Seq(Req \union {Handshake, Garbage})
          BY <5>2, <5>3, SubSeqType
        <5> QED
          BY <5>1, <5>4 DEF TypeOK
      <4>2. CASE conn = c
        <5>1. Disconnect(staleIds) /\ EndSocket(c) /\ UNCHANGED <<forgot, wire>>
          BY <3>6, <4>2 DEF OnProtocolError
        <5>2. staleIds \in SUBSET Ids
          BY DEF TypeOK
        <5> QED
          BY <4>1, <5>1, <5>2, DisconnectType, SocketTypes, EmptySeq DEF TypeOK
      <4>3. CASE conn # c
        BY <3>6, <4>1, <4>3 DEF OnProtocolError, clientVars, TypeOK
      <4> QED
        BY <4>2, <4>3
    <3>7. CASE OnDrain(c)
      <4>1. WriteAll(c, backlog, <<>>) /\ backlog \in Seq(Piece) /\ <<>> \in Seq(Piece)
        BY <3>7, EmptySeq DEF OnDrain, TypeOK
      <4>2. wire' \in [Conn -> Seq(Piece)] /\ backlog' \in Seq(Piece)
        BY <4>1, WriteAllType
      <4> QED
        BY <3>7, <4>2 DEF OnDrain, TypeOK
    <3> QED
      BY <2>7, <3>1, <3>2, <3>3, <3>4, <3>5, <3>6, <3>7 DEF SocketEvent
  <2>8. ASSUME NEW c \in Conn, KiCad(c) PROVE TypeInv'
    <3>1. \A x \in Req \union {Handshake, Garbage} :
            Append(replies[c], x) \in Seq(Req \union {Handshake, Garbage})
      BY DEF TypeOK
    <3>2. CASE Greet(c)
      BY <2>8, <3>1, <3>2 DEF Greet, TypeOK, clientVars
    <3>3. CASE Serve(c)
      <4>1. wire[c] \in Seq(Piece) /\ Len(wire[c]) \in Nat /\ Len(wire[c]) >= 2
        BY <3>3, LenProperties DEF Serve, TypeOK
      <4>2. SubSeq(wire[c], 3, Len(wire[c])) \in Seq(Piece)
        BY <4>1, SubSeqType
      <4> QED
        BY <2>8, <3>1, <3>3, <4>2 DEF Serve, TypeOK, clientVars
    <3>4. CASE Babble(c)
      BY <2>8, <3>1, <3>4 DEF Babble, TypeOK, clientVars
    <3> QED
      BY <2>8, <3>2, <3>3, <3>4 DEF KiCad
  <2> QED
    BY <2>1, <2>2, <2>3, <2>4, <2>5, <2>6, <2>7, <2>8 DEF Next
<1>3. QED
  BY <1>1, <1>2, PTL DEF Spec

\* The state variables keep their types (nng-ipc.ts:95-108): in particular
\* `attempt` never passes maxAttempts and the id counter never leaves its range.
THEOREM TypeCorrect == Spec => []TypeOK
<1>1. TypeInv => TypeOK
  BY DEF TypeInv
<1>2. QED
  BY <1>1, TypeInvariant, PTL

-----------------------------------------------------------------------------
(* The queue and the request in flight. *)

Items(q) == {q[k] : k \in DOMAIN q}
Distinct(q) == \A j, k \in DOMAIN q : q[j] = q[k] => j = k

LEMMA TailItems ==
  ASSUME NEW S, NEW q \in Seq(S), q # <<>>
  PROVE  /\ Items(q) = {Head(q)} \union Items(Tail(q))
         /\ Distinct(q) => Distinct(Tail(q)) /\ Head(q) \notin Items(Tail(q))
<1>1. /\ DOMAIN q = 1..Len(q) /\ Len(q) \in Nat /\ Len(q) >= 1
      /\ DOMAIN Tail(q) = 1..(Len(q) - 1)
  BY LenProperties, HeadTailProperties, EmptySeq
<1>2. \A k \in 1..(Len(q) - 1) : Tail(q)[k] = q[k + 1]
  BY HeadTailProperties, <1>1
<1>3. Head(q) = q[1]
  BY <1>1
<1>4. Items(q) = {Head(q)} \union Items(Tail(q))
  <2>1. ASSUME NEW x \in Items(q) PROVE x \in {Head(q)} \union Items(Tail(q))
    <3>1. PICK k \in 1..Len(q) : x = q[k]
      BY <1>1 DEF Items
    <3>2. CASE k = 1
      BY <1>3, <3>1, <3>2
    <3>3. CASE k # 1
      <4>1. k - 1 \in 1..(Len(q) - 1) /\ Tail(q)[k - 1] = x
        BY <1>1, <1>2, <3>1, <3>3
      <4> QED
        BY <1>1, <4>1 DEF Items
    <3> QED
      BY <3>2, <3>3
  <2>2. ASSUME NEW x \in Items(Tail(q)) PROVE x \in Items(q)
    <3>1. PICK k \in 1..(Len(q) - 1) : x = Tail(q)[k]
      BY <1>1 DEF Items
    <3>2. k + 1 \in 1..Len(q) /\ x = q[k + 1]
      BY <1>1, <1>2, <3>1
    <3> QED
      BY <1>1, <3>2 DEF Items
  <2>3. Head(q) \in Items(q)
    BY <1>1, <1>3 DEF Items
  <2> QED
    BY <2>1, <2>2, <2>3
<1>5. ASSUME Distinct(q) PROVE Distinct(Tail(q)) /\ Head(q) \notin Items(Tail(q))
  <2>1. \A j, k \in 1..(Len(q) - 1) : Tail(q)[j] = Tail(q)[k] => j = k
    <3> SUFFICES ASSUME NEW j \in 1..(Len(q) - 1), NEW k \in 1..(Len(q) - 1),
                        Tail(q)[j] = Tail(q)[k]
                 PROVE  j = k
      OBVIOUS
    <3>1. q[j + 1] = q[k + 1] /\ j + 1 \in 1..Len(q) /\ k + 1 \in 1..Len(q)
      BY <1>1, <1>2
    <3>2. j + 1 = k + 1
      BY <1>1, <1>5, <3>1 DEF Distinct
    <3> QED
      BY <3>2
  <2>2. \A k \in 1..(Len(q) - 1) : Tail(q)[k] # Head(q)
    <3> SUFFICES ASSUME NEW k \in 1..(Len(q) - 1), Tail(q)[k] = Head(q) PROVE FALSE
      OBVIOUS
    <3>1. q[k + 1] = q[1] /\ k + 1 \in 1..Len(q) /\ 1 \in 1..Len(q)
      BY <1>1, <1>2, <1>3
    <3>2. k + 1 = 1
      BY <1>1, <1>5, <3>1 DEF Distinct
    <3> QED
      BY <3>2
  <2> QED
    BY <1>1, <2>1, <2>2 DEF Distinct, Items
<1> QED
  BY <1>4, <1>5

LEMMA AppendItems ==
  ASSUME NEW S, NEW q \in Seq(S), NEW x \in S
  PROVE  /\ Items(Append(q, x)) = Items(q) \union {x}
         /\ Distinct(q) /\ x \notin Items(q) => Distinct(Append(q, x))
<1>1. /\ DOMAIN q = 1..Len(q) /\ Len(q) \in Nat
      /\ DOMAIN Append(q, x) = 1..(Len(q) + 1)
      /\ \A k \in 1..Len(q) : Append(q, x)[k] = q[k]
      /\ Append(q, x)[Len(q) + 1] = x
  BY LenProperties
<1>2. 1..(Len(q) + 1) = 1..Len(q) \union {Len(q) + 1}
  BY <1>1
<1>3. Items(Append(q, x)) = Items(q) \union {x}
  BY <1>1, <1>2 DEF Items
<1>4. ASSUME Distinct(q), x \notin Items(q),
             NEW j \in 1..(Len(q) + 1), NEW k \in 1..(Len(q) + 1),
             Append(q, x)[j] = Append(q, x)[k]
      PROVE  j = k
  <2>1. \A i \in 1..Len(q) : q[i] # x
    BY <1>1, <1>4 DEF Items
  <2> QED
    BY <1>1, <1>2, <1>4, <2>1 DEF Distinct
<1> QED
  BY <1>1, <1>3, <1>4 DEF Distinct

LEMMA PumpSafe ==
  ASSUME TypeInv, NEW st, NEW q \in Seq(Req), NEW f \in Req \union {NoReq}, NEW stale \in SUBSET Ids,
         Distinct(q), f \notin Items(q),
         f # NoReq => st = "open" /\ id[f] \notin stale,
         st = "open" => conn # NoConn /\ connected,
         Pump(st, q, f, stale)
  PROVE  /\ Items(queue') \union ({inFlight'} \ {NoReq}) = Items(q) \union ({f} \ {NoReq})
         /\ Distinct(queue') /\ inFlight' \notin Items(queue')
         /\ st = "open" /\ queue' # <<>> => inFlight' # NoReq
         /\ inFlight' # NoReq => st = "open" /\ id'[inFlight'] \notin staleIds'
<1>1. CASE CanPump(st, q, f)
  <2>1. PICK i \in FreeIds(stale) :
          /\ queue' = Tail(q)
          /\ inFlight' = Head(q)
          /\ id' = [id EXCEPT ![Head(q)] = i]
    BY <1>1 DEF Pump
  <2>2. /\ st = "open" /\ f = NoReq /\ q # <<>> /\ Head(q) \in Req /\ staleIds' = stale
        /\ Items(q) = {Head(q)} \union Items(Tail(q))
        /\ Distinct(Tail(q)) /\ Head(q) \notin Items(Tail(q))
    BY <1>1, TailItems, HeadTailProperties DEF CanPump, Pump
  <2>3. i \notin stale /\ id'[Head(q)] = i
    BY <2>1, <2>2 DEF FreeIds, TypeInv, TypeOK
  <2> QED
    BY <2>1, <2>2, <2>3, TransportAssumption
<1>2. CASE ~CanPump(st, q, f)
  BY <1>2 DEF Pump, CanPump
<1> QED
  BY <1>1, <1>2

-----------------------------------------------------------------------------
(* The safety invariants.  They need each other, and the kernel's view of    *)
(* the current socket.                                                       *)

CurrentSocket ==
  /\ conn # NoConn => IF connected THEN sock[conn] \in Live ELSE sock[conn] = "dialing"
  /\ closedByUser => state = "closed"

SafeInv == NoLostPump /\ Dialing /\ PendingAccounted /\ FreshId /\ CurrentSocket

\* Who is waiting, in the words of the lemmas.
LEMMA Accounted ==
  ASSUME TypeInv
  PROVE  PendingAccounted <=>
           /\ \A r \in Req : outcome[r] = "pending" <=>
                 r \in Items(queue) \union ({inFlight} \ {NoReq})
           /\ Distinct(queue) /\ inFlight \notin Items(queue)
           /\ state = "closed" => queue = <<>> /\ inFlight = NoReq
BY DEF PendingAccounted, Items, Distinct, InQueue, InFlightSet

\* A handler that gives up the current connection.
LEMMA DisconnectSafe ==
  ASSUME TypeInv, TypeInv', SafeInv, NEW stale \in SUBSET Ids, conn # NoConn, Disconnect(stale)
  PROVE  SafeInv'
<1>1. /\ conn' = NoConn /\ inFlight' = NoReq /\ closedByUser' = closedByUser
  BY DEF Disconnect, LoseConnection
<1>2. ~closedByUser /\ ~reconnectTimer
  BY DEF SafeInv, Dialing, CurrentSocket
<1>3. \A r \in Req : outcome[r] = "pending" <=> r \in InQueue \union InFlightSet
  BY DEF SafeInv, PendingAccounted
<1>4. inFlight \notin InQueue /\ NoReq \notin InQueue
  BY TransportAssumption, LenProperties DEF SafeInv, PendingAccounted, TypeInv, TypeOK, InQueue
<1>5. CASE MayRetry
  <2>1. /\ state' = "connecting" /\ reconnectTimer' = TRUE /\ queue' = queue
        /\ outcome' = Rejected(InFlightSet)
    BY <1>5 DEF Disconnect
  <2>2. \A r \in Req : outcome'[r] = "pending" <=> r \in InQueue
    BY <1>3, <1>4, <2>1 DEF Rejected, InFlightSet
  <2>3. InQueue' = InQueue /\ InFlightSet' = {}
    BY <1>1, <2>1 DEF InQueue, InFlightSet
  <2>4. PendingAccounted'
    BY <1>1, <1>4, <2>1, <2>2, <2>3 DEF SafeInv, PendingAccounted
  <2> QED
    BY <1>1, <1>2, <2>1, <2>4 DEF SafeInv, NoLostPump, Dialing, FreshId, CurrentSocket
<1>6. CASE ~MayRetry
  <2>1. /\ state' = "closed" /\ reconnectTimer' = reconnectTimer /\ queue' = <<>>
        /\ outcome' = Rejected(FailAll)
    BY <1>6 DEF Disconnect
  <2>2. \A r \in Req : outcome'[r] # "pending"
    BY <1>3, <2>1 DEF Rejected, FailAll
  <2>3. InQueue' = {} /\ InFlightSet' = {}
    BY <1>1, <2>1 DEF InQueue, InFlightSet
  <2>4. PendingAccounted'
    BY <1>1, <2>1, <2>2, <2>3 DEF PendingAccounted
  <2> QED
    BY <1>1, <1>2, <2>1, <2>4 DEF SafeInv, NoLostPump, Dialing, FreshId, CurrentSocket
<1> QED
  BY <1>5, <1>6

\* A handler that pumps while the connection stays.
LEMMA PumpKeepsSafe ==
  ASSUME TypeInv, TypeInv', SafeInv,
         NEW st \in {"connecting", "open"}, NEW q \in Seq(Req), NEW f \in Req \union {NoReq},
         NEW stale \in SUBSET Ids,
         Distinct(q), f \notin Items(q), f # NoReq => st = "open" /\ id[f] \notin stale,
         st = "open" => conn # NoConn /\ connected,
         Pump(st, q, f, stale), state' = st, ~closedByUser,
         UNCHANGED <<conn, connected, closedByUser, sock>>,
         reconnectTimer' = (st # "open" /\ reconnectTimer),
         st # "open" => state = "connecting",
         \A r \in Req : outcome'[r] = "pending" <=> r \in Items(q) \union ({f} \ {NoReq})
  PROVE  SafeInv'
<1>1. /\ Items(queue') \union ({inFlight'} \ {NoReq}) = Items(q) \union ({f} \ {NoReq})
      /\ Distinct(queue') /\ inFlight' \notin Items(queue')
      /\ st = "open" /\ queue' # <<>> => inFlight' # NoReq
      /\ inFlight' # NoReq => st = "open" /\ id'[inFlight'] \notin staleIds'
  BY PumpSafe
<1>2. PendingAccounted'
  <2>1. Items(queue)' = Items(queue') /\ Distinct(queue)' = Distinct(queue')
    BY DEF Items, Distinct
  <2> QED
    BY <1>1, <2>1 DEF PendingAccounted, Items, Distinct, InQueue, InFlightSet
<1>3. NoLostPump' /\ FreshId'
  BY <1>1 DEF NoLostPump, FreshId
<1>4. Dialing' /\ CurrentSocket'
  BY DEF SafeInv, Dialing, CurrentSocket, TypeInv, TypeOK, Live
<1> QED
  BY <1>2, <1>3, <1>4 DEF SafeInv

\* Steps of the environment, and handlers that find nothing to do.
LEMMA QuietSafe ==
  ASSUME SafeInv, UNCHANGED <<state, conn, connected, queue, inFlight, id, closedByUser,
                              reconnectTimer, outcome>>,
         staleIds' \subseteq staleIds,
         conn # NoConn => (sock'[conn] = sock[conn] \/ {sock[conn], sock'[conn]} \subseteq Live)
  PROVE  SafeInv'
<1>1. NoLostPump' /\ Dialing' /\ FreshId'
  BY DEF SafeInv, NoLostPump, Dialing, FreshId
<1>2. PendingAccounted'
  BY DEF SafeInv, PendingAccounted, InQueue, InFlightSet
<1>3. CurrentSocket'
  BY DEF SafeInv, CurrentSocket, Live
<1> QED
  BY <1>1, <1>2, <1>3 DEF SafeInv

\* The safety invariants of the runs hold for every instance: no pump is lost
\* (nng-ipc.ts:386), every promise is accounted for (failAll, close,
\* afterDisconnect), a connection is always being sought or had, and the id in
\* flight is not a stale one (allocId).
LEMMA SafetyInvariant == Spec => []SafeInv
<1>1. Init => SafeInv
  <2> SUFFICES ASSUME Init PROVE SafeInv
    OBVIOUS
  <2>1. conn # NoConn
    BY TransportAssumption DEF Init
  <2>2. NoLostPump /\ Dialing /\ FreshId /\ CurrentSocket
    BY <2>1 DEF Init, NoLostPump, Dialing, FreshId, CurrentSocket
  <2>3. PendingAccounted
    BY DEF Init, PendingAccounted, InQueue, InFlightSet
  <2> QED
    BY <2>2, <2>3 DEF SafeInv
<1>2. TypeInv /\ TypeInv' /\ SafeInv /\ [Next]_vars => SafeInv'
  <2> SUFFICES ASSUME TypeInv, TypeInv', SafeInv, [Next]_vars PROVE SafeInv'
    OBVIOUS
  <2>a. /\ \A r \in Req : outcome[r] = "pending" <=> r \in Items(queue) \union ({inFlight} \ {NoReq})
        /\ Distinct(queue) /\ inFlight \notin Items(queue)
        /\ state = "closed" => queue = <<>> /\ inFlight = NoReq
    BY Accounted DEF SafeInv
  <2>b. /\ queue \in Seq(Req) /\ inFlight \in Req \union {NoReq} /\ staleIds \in SUBSET Ids
        /\ conn \in Conn \union {NoConn} /\ state \in {"connecting", "open", "closed"}
        /\ outcome \in [Req -> {"unsent", "pending", "resolved", "rejected"}]
        /\ sock \in [Conn -> {"free", "dialing", "up", "greeted", "ended"}]
        /\ reconnectTimer \in BOOLEAN
    BY DEF TypeInv, TypeOK
  <2>c. NoReq \notin Items(queue)
    BY <2>b, TransportAssumption, LenProperties DEF Items
  <2>d. /\ closedByUser => state = "closed"
        /\ state = "open" => conn # NoConn /\ connected
        /\ inFlight # NoReq => state = "open" /\ id[inFlight] \notin staleIds
        /\ conn # NoConn => state # "closed" /\ ~reconnectTimer
        /\ state # "connecting" => ~reconnectTimer
    BY DEF SafeInv, CurrentSocket, NoLostPump, FreshId, Dialing
  <2>1. CASE UNCHANGED vars
    BY <2>1, QuietSafe DEF vars, clientVars
  <2>2. ASSUME NEW r \in Req, Send(r) PROVE SafeInv'
    <3>0. outcome[r] # "pending" /\ r # NoReq
      BY <2>2, TransportAssumption DEF Send
    <3>1. r \notin Items(queue) /\ r # inFlight
      BY <3>0, <2>a
    <3>2. CASE closedByUser \/ state = "closed"
      <4>1. outcome' = [outcome EXCEPT ![r] = "rejected"]
        BY <2>2, <3>2 DEF Send
      <4>2. UNCHANGED <<state, conn, connected, queue, inFlight, id, staleIds, closedByUser,
                        reconnectTimer, sock>>
        BY <2>2, <3>2 DEF Send
      <4>3. \A s \in Req : outcome'[s] = "pending" <=> outcome[s] = "pending"
        BY <2>2, <2>b, <4>1 DEF Send
      <4>4. PendingAccounted'
        BY <4>2, <4>3 DEF SafeInv, PendingAccounted, InQueue, InFlightSet
      <4> QED
        BY <4>2, <4>4 DEF SafeInv, NoLostPump, Dialing, FreshId, CurrentSocket
    <3>3. CASE ~(closedByUser \/ state = "closed")
      <4> DEFINE q == Append(queue, r)
      <4>1. /\ q \in Seq(Req) /\ Items(q) = Items(queue) \union {r} /\ Distinct(q)
        BY <2>a, <2>b, <3>1, AppendItems
      <4>2. /\ outcome' = [outcome EXCEPT ![r] = "pending"]
            /\ Pump(state, q, inFlight, staleIds)
            /\ UNCHANGED <<state, conn, connected, closedByUser, reconnectTimer, sock>>
        BY <2>2, <3>3 DEF Send, Enqueue
      <4>3. \A s \in Req : outcome'[s] = "pending" <=> s \in Items(q) \union ({inFlight} \ {NoReq})
        BY <2>a, <2>b, <4>1, <4>2, TransportAssumption
      <4>4. inFlight \notin Items(q) /\ state \in {"connecting", "open"}
        BY <2>a, <2>b, <3>1, <3>3, <4>1
      <4>5. reconnectTimer' = (state # "open" /\ reconnectTimer)
        BY <2>b, <2>d, <4>2
      <4> HIDE DEF q
      <4> QED
        BY <2>b, <2>d, <3>3, <4>1, <4>2, <4>3, <4>4, <4>5, PumpKeepsSafe
    <3> QED
      BY <3>2, <3>3
  <2>3. CASE Close
    <3>1. /\ state' = "closed" /\ conn' = NoConn /\ inFlight' = NoReq /\ queue' = <<>>
          /\ reconnectTimer' = FALSE /\ outcome' = Rejected(FailAll)
      BY <2>3 DEF Close, LoseConnection, CancelReconnect
    <3>2. \A r \in Req : outcome'[r] # "pending"
      BY <3>1 DEF SafeInv, PendingAccounted, Rejected, FailAll
    <3>3. PendingAccounted'
      BY <3>1, <3>2 DEF PendingAccounted, InQueue, InFlightSet
    <3> QED
      BY <3>1, <3>3 DEF SafeInv, NoLostPump, Dialing, FreshId, CurrentSocket
  <2>4. CASE Redial
    <3>1. PICK c \in Conn : conn' = c /\ sock' = [sock EXCEPT ![c] = "dialing"]
      BY <2>4 DEF Redial
    <3>2. /\ reconnectTimer /\ reconnectTimer' = FALSE /\ state' = "connecting" /\ connected' = FALSE
          /\ UNCHANGED <<queue, inFlight, id, staleIds, closedByUser, outcome>>
      BY <2>4 DEF Redial
    <3>3. state = "connecting" /\ ~closedByUser /\ inFlight = NoReq /\ conn' # NoConn
      BY <2>b, <2>d, <3>1, <3>2, TransportAssumption
    <3>4. PendingAccounted'
      BY <3>2, <3>3 DEF SafeInv, PendingAccounted, InQueue, InFlightSet
    <3>5. CurrentSocket'
      BY <2>b, <3>1, <3>2, <3>3 DEF CurrentSocket
    <3> QED
      BY <3>2, <3>3, <3>4, <3>5 DEF SafeInv, NoLostPump, Dialing, FreshId
  <2>5. CASE ConnectTimeout
    BY <2>5, <2>b, DisconnectSafe DEF ConnectTimeout, ConnectTimerRuns
  <2>6. CASE RequestTimeout
    <3>1. inFlight # NoReq /\ state = "open" /\ conn # NoConn /\ id[inFlight] \in Ids
      BY <2>6, <2>d DEF RequestTimeout, TypeInv
    <3>2. PICK stale \in Remember(id[inFlight]) :
            IF OnTimeout = "reconnect"
              THEN Disconnect(stale)
              ELSE /\ outcome' = [outcome EXCEPT ![inFlight] = "rejected"]
                   /\ Pump(state, queue, NoReq, stale)
                   /\ UNCHANGED <<state, conn, connected, closedByUser, reconnectTimer, sock>>
      BY <2>6 DEF RequestTimeout
    <3>3. stale \in SUBSET Ids
      BY <2>b, <3>1, RememberType
    <3>4. CASE OnTimeout = "reconnect"
      BY <3>1, <3>2, <3>3, <3>4, DisconnectSafe
    <3>5. CASE OnTimeout # "reconnect"
      <4>1. \A r \in Req : outcome'[r] = "pending" <=> r \in Items(queue) \union ({NoReq} \ {NoReq})
        BY <2>a, <2>b, <3>1, <3>2, <3>5
      <4>2. reconnectTimer' = (state # "open" /\ reconnectTimer)
        BY <2>b, <2>d, <3>1, <3>2, <3>5
      <4> QED
        BY <2>a, <2>b, <2>c, <2>d, <3>1, <3>2, <3>3, <3>5, <4>1, <4>2, PumpKeepsSafe
    <3> QED
      BY <3>4, <3>5
  <2>7. ASSUME NEW c \in Conn, SocketEvent(c) PROVE SafeInv'
    <3>1. CASE Established(c)
      <4>1. CASE conn = c
        <5>1. /\ sock' = [sock EXCEPT ![c] = "up"] /\ connected' = TRUE
              /\ UNCHANGED <<state, conn, queue, inFlight, id, staleIds, closedByUser,
                             reconnectTimer, outcome>>
          BY <3>1, <4>1 DEF Established
        <5>2. CurrentSocket'
          BY <2>b, <4>1, <5>1 DEF SafeInv, CurrentSocket, Live
        <5>3. PendingAccounted'
          BY <5>1 DEF SafeInv, PendingAccounted, InQueue, InFlightSet
        <5> QED
          BY <5>1, <5>2, <5>3 DEF SafeInv, NoLostPump, Dialing, FreshId
      <4>2. CASE conn # c
        BY <2>b, <3>1, <4>2, QuietSafe DEF Established
      <4> QED
        BY <4>1, <4>2
    <3>2. CASE ConnectError(c) \/ SocketClosed(c)
      <4>1. CASE conn = c
        BY <2>b, <3>2, <4>1, DisconnectSafe, TransportAssumption DEF ConnectError, SocketClosed
      <4>2. CASE conn # c
        <5>1. UNCHANGED clientVars /\ FreeSocket(c)
          BY <3>2, <4>2 DEF ConnectError, SocketClosed
        <5>2. conn # NoConn => sock'[conn] = sock[conn]
          BY <2>b, <4>2, <5>1 DEF FreeSocket
        <5> QED
          BY <5>1, <5>2, QuietSafe DEF clientVars
      <4> QED
        BY <4>1, <4>2
    <3>3. CASE OnHandshake(c)
      <4>1. CASE conn = c /\ state = "connecting"
        <5>1. /\ Pump("open", queue, inFlight, staleIds) /\ state' = "open"
              /\ UNCHANGED <<conn, connected, closedByUser, reconnectTimer, outcome, sock>>
          BY <3>3, <4>1 DEF OnHandshake
        <5>2. connected /\ conn # NoConn /\ inFlight = NoReq /\ ~closedByUser
          BY <2>d, <3>3, <4>1, TransportAssumption DEF OnHandshake, SafeInv, CurrentSocket, Live
        <5>3. reconnectTimer' = ("open" # "open" /\ reconnectTimer)
          BY <2>b, <2>d, <5>1, <5>2
        <5> QED
          BY <2>a, <2>b, <2>c, <5>1, <5>2, <5>3, PumpKeepsSafe
      <4>2. CASE ~(conn = c /\ state = "connecting")
        BY <3>3, <4>2, QuietSafe DEF OnHandshake
      <4> QED
        BY <4>1, <4>2
    <3>4. CASE OnMessage(c)
      <4> DEFINE m == Head(replies[c])
      <4>1. CASE conn = c /\ Answers(m)
        <5>1. /\ outcome' = [outcome EXCEPT ![inFlight] = "resolved"]
              /\ Pump(state, queue, NoReq, staleIds)
              /\ UNCHANGED <<state, conn, connected, closedByUser, reconnectTimer, sock>>
          BY <3>4, <4>1 DEF OnMessage
        <5>2. inFlight # NoReq /\ state = "open"
          BY <2>d, <4>1 DEF Answers
        <5>3. \A r \in Req : outcome'[r] = "pending" <=> r \in Items(queue) \union ({NoReq} \ {NoReq})
          BY <2>a, <2>b, <5>1, <5>2
        <5>4. reconnectTimer' = (state # "open" /\ reconnectTimer)
          BY <2>b, <2>d, <5>1, <5>2
        <5> QED
          BY <2>a, <2>b, <2>c, <2>d, <5>1, <5>2, <5>3, <5>4, PumpKeepsSafe
      <4>2. CASE ~(conn = c /\ Answers(m))
        BY <3>4, <4>2, QuietSafe DEF OnMessage
      <4> QED
        BY <4>1, <4>2
    <3>5. CASE OnProtocolError(c)
      <4>1. CASE conn = c
        BY <2>b, <3>5, <4>1, DisconnectSafe, TransportAssumption DEF OnProtocolError
      <4>2. CASE conn # c
        BY <3>5, <4>2, QuietSafe DEF OnProtocolError, clientVars
      <4> QED
        BY <4>1, <4>2
    <3>6. CASE OnDrain(c)
      BY <3>6, QuietSafe DEF OnDrain
    <3> QED
      BY <2>7, <3>1, <3>2, <3>3, <3>4, <3>5, <3>6 DEF SocketEvent
  <2>8. ASSUME NEW c \in Conn, KiCad(c) PROVE SafeInv'
    <3>1. UNCHANGED clientVars
      BY <2>8 DEF KiCad, Greet, Serve, Babble
    <3>2. conn # NoConn => (sock'[conn] = sock[conn] \/ {sock[conn], sock'[conn]} \subseteq Live)
      BY <2>8, <2>b DEF KiCad, Greet, Serve, Babble, Live
    <3> QED
      BY <3>1, <3>2, QuietSafe DEF clientVars
  <2> QED
    BY <2>1, <2>2, <2>3, <2>4, <2>5, <2>6, <2>7, <2>8 DEF Next
<1>3. QED
  BY <1>1, <1>2, TypeInvariant, PTL DEF Spec

\* While the transport is open, a queued request waits only behind one in flight
\* that has a live connection (pump, nng-ipc.ts:386).
THEOREM NoPumpIsLost == Spec => []NoLostPump
BY SafetyInvariant, PTL DEF SafeInv

\* Every unsettled promise is in the queue or in flight, once, and a closed
\* transport holds none (failAll, nng-ipc.ts:429).
THEOREM EveryPromiseAccounted == Spec => []PendingAccounted
BY SafetyInvariant, PTL DEF SafeInv

\* A transport that is not open is dialing, or waiting to, or closed (afterDisconnect,
\* nng-ipc.ts:285).
THEOREM AlwaysDialing == Spec => []Dialing
BY SafetyInvariant, PTL DEF SafeInv

\* allocId (nng-ipc.ts:420) never hands out an id whose late reply is awaited.
THEOREM FreshIds == Spec => []FreshId
BY SafetyInvariant, PTL DEF SafeInv

-----------------------------------------------------------------------------
(* Refinement: the transport implements RequestChannel.                      *)

\* The unsettled requests, oldest first, when f is in flight in front of q.
Waiting(f, q) == (IF f = NoReq THEN <<>> ELSE <<f>>) \o q

LEMMA ConsFacts ==
  ASSUME NEW S, NEW q \in Seq(S), NEW x \in S
  PROVE  LET w == <<x>> \o q IN
         w \in Seq(S) /\ w # <<>> /\ Head(w) = x /\ Tail(w) = q
<1> DEFINE w == <<x>> \o q
<1>1. <<x>> \in Seq(S) /\ Len(<<x>>) = 1 /\ <<x>>[1] = x /\ Len(q) \in Nat
  BY LenProperties
<1>2. /\ w \in Seq(S) /\ Len(w) = Len(q) + 1
      /\ \A i \in 1..(Len(q) + 1) : w[i] = IF i <= 1 THEN x ELSE q[i - 1]
  BY <1>1, ConcatProperties
<1> HIDE DEF w
<1>3. w # <<>>
  BY <1>1, <1>2, EmptySeq
<1>4. Head(w) = x
  BY <1>1, <1>2, <1>3
<1>5. /\ Tail(w) \in Seq(S) /\ Len(Tail(w)) = Len(q)
      /\ \A i \in 1..Len(Tail(w)) : Tail(w)[i] = w[i + 1]
  BY <1>1, <1>2, <1>3, HeadTailProperties
<1>6. \A i \in 1..Len(Tail(w)) : Tail(w)[i] = q[i]
  BY <1>1, <1>2, <1>5
<1>7. Tail(w) = q
  BY <1>5, <1>6, SeqEqual
<1> QED
  BY <1>2, <1>3, <1>4, <1>7 DEF w

LEMMA WaitingFacts ==
  ASSUME NEW q \in Seq(Req), NEW f \in Req \union {NoReq}
  PROVE  /\ Waiting(f, q) \in Seq(Req)
         /\ Waiting(NoReq, q) = q
         /\ f # NoReq => Waiting(f, q) # <<>> /\ Head(Waiting(f, q)) = f /\ Tail(Waiting(f, q)) = q
         /\ q # <<>> => Waiting(Head(q), Tail(q)) = q
         /\ \A r \in Req : Waiting(f, Append(q, r)) = Append(Waiting(f, q), r)
<1>1. Waiting(NoReq, q) = q
  BY ConcatEmptySeq DEF Waiting
<1>2. ASSUME f \in Req
      PROVE  /\ Waiting(f, q) \in Seq(Req) /\ Waiting(f, q) # <<>>
             /\ Head(Waiting(f, q)) = f /\ Tail(Waiting(f, q)) = q
  <2>1. Waiting(f, q) = <<f>> \o q
    BY <1>2, TransportAssumption DEF Waiting
  <2> QED
    BY <1>2, <2>1, ConsFacts
<1>3. ASSUME q # <<>> PROVE Waiting(Head(q), Tail(q)) = q
  <2>1. /\ Head(q) \in Req /\ Tail(q) \in Seq(Req) /\ Len(Tail(q)) = Len(q) - 1 /\ Len(q) \in Nat
        /\ Head(q) = q[1] /\ \A i \in 1..Len(Tail(q)) : Tail(q)[i] = q[i + 1]
    BY <1>3, HeadTailProperties, LenProperties
  <2> DEFINE w == <<Head(q)>> \o Tail(q)
  <2>2. Waiting(Head(q), Tail(q)) = w
    BY <2>1, TransportAssumption DEF Waiting
  <2>3. <<Head(q)>> \in Seq(Req) /\ Len(<<Head(q)>>) = 1 /\ <<Head(q)>>[1] = Head(q)
    BY <2>1
  <2>4. /\ w \in Seq(Req) /\ Len(w) = Len(q)
        /\ \A i \in 1..Len(q) : w[i] = IF i <= 1 THEN Head(q) ELSE Tail(q)[i - 1]
    BY <2>1, <2>3, ConcatProperties
  <2>5. \A i \in 1..Len(q) : w[i] = q[i]
    BY <2>1, <2>4
  <2> HIDE DEF w
  <2> QED
    BY <2>2, <2>4, <2>5, SeqEqual
<1>4. ASSUME NEW r \in Req PROVE Waiting(f, Append(q, r)) = Append(Waiting(f, q), r)
  <2>1. Append(q, r) \in Seq(Req) /\ Append(q, r) = q \o <<r>> /\ <<r>> \in Seq(Req)
    BY <1>4, AppendProperties, AppendIsConcat
  <2>2. CASE f = NoReq
    BY <2>1, <2>2, <1>1, ConcatEmptySeq DEF Waiting
  <2>3. CASE f \in Req
    <3>1. Waiting(f, q) = <<f>> \o q /\ Waiting(f, Append(q, r)) = <<f>> \o (q \o <<r>>) /\ <<f>> \in Seq(Req)
      BY <2>1, <2>3, TransportAssumption DEF Waiting
    <3>2. <<f>> \o (q \o <<r>>) = (<<f>> \o q) \o <<r>>
      BY <2>1, <3>1, ConcatAssociative
    <3>3. Append(Waiting(f, q), r) = Waiting(f, q) \o <<r>>
      BY <1>2, <2>3, AppendIsConcat
    <3> QED
      BY <3>1, <3>2, <3>3
  <2> QED
    BY <2>2, <2>3
<1> QED
  BY <1>1, <1>2, <1>3, <1>4, TransportAssumption

\* pump() takes the head of the queue in flight: it changes nobody's turn.
LEMMA PumpKeepsTurns ==
  ASSUME NEW st, NEW q \in Seq(Req), NEW f \in Req \union {NoReq}, NEW stale, Pump(st, q, f, stale)
  PROVE  Waiting(inFlight', queue') = Waiting(f, q)
<1>1. CASE CanPump(st, q, f)
  <2>1. inFlight' = Head(q) /\ queue' = Tail(q) /\ q # <<>> /\ f = NoReq
    BY <1>1 DEF Pump, CanPump
  <2> QED
    BY <2>1, WaitingFacts
<1>2. CASE ~CanPump(st, q, f)
  BY <1>2 DEF Pump
<1> QED
  BY <1>1, <1>2

\* The abstract steps, in the words of the transport.
LEMMA MapSubmit ==
  ASSUME NEW r \in Req, state # "closed", state' # "closed", outcome[r] = "unsent",
         outcome' = [outcome EXCEPT ![r] = "pending"],
         Waiting(inFlight', queue') = Append(Waiting(inFlight, queue), r)
  PROVE  Channel!Next
BY DEF Channel!Next, Channel!Submit, Waiting

LEMMA MapRefuse ==
  ASSUME NEW r \in Req, state = "closed", state' = "closed", outcome[r] = "unsent",
         outcome' = [outcome EXCEPT ![r] = "rejected"],
         UNCHANGED <<inFlight, queue>>
  PROVE  Channel!Next
BY DEF Channel!Next, Channel!Refuse

LEMMA MapSettle ==
  ASSUME TypeOK, NEW o \in {"resolved", "rejected"}, inFlight # NoReq,
         state # "closed", state' # "closed",
         outcome' = [outcome EXCEPT ![inFlight] = o],
         Waiting(inFlight', queue') = queue
  PROVE  Channel!Next
<1>1. /\ Waiting(inFlight, queue) # <<>> /\ Head(Waiting(inFlight, queue)) = inFlight
      /\ Tail(Waiting(inFlight, queue)) = queue
  BY WaitingFacts DEF TypeOK
<1> QED
  BY <1>1 DEF Channel!Next, Channel!Settle, Waiting

LEMMA MapShut ==
  ASSUME TypeOK, PendingAccounted, state # "closed", state' = "closed",
         queue' = <<>>, inFlight' = NoReq, outcome' = Rejected(FailAll)
  PROVE  Channel!Next
<1>1. Rejected(FailAll) = [r \in Req |-> IF outcome[r] = "pending" THEN "rejected" ELSE outcome[r]]
  BY DEF Rejected, FailAll, PendingAccounted
<1>2. Waiting(inFlight', queue') = <<>>
  BY WaitingFacts, EmptySeq
<1> QED
  BY <1>1, <1>2 DEF Channel!Next, Channel!Shut, Channel!Ended, Waiting

LEMMA MapStutter ==
  ASSUME Waiting(inFlight', queue') = Waiting(inFlight, queue), outcome' = outcome,
         (state' = "closed") = (state = "closed")
  PROVE  UNCHANGED Channel!vars
BY DEF Channel!vars, Waiting

\* Losing the connection settles the request in flight, if any, or shuts the channel.
LEMMA DisconnectMaps ==
  ASSUME TypeInv, SafeInv, NEW stale, conn # NoConn, Disconnect(stale)
  PROVE  [Channel!Next]_Channel!vars
<1>1. /\ state # "closed" /\ inFlight' = NoReq /\ TypeOK /\ PendingAccounted
      /\ queue \in Seq(Req) /\ inFlight \in Req \union {NoReq}
  BY DEF TypeInv, TypeOK, SafeInv, Dialing, Disconnect
<1>2. CASE MayRetry
  <2>1. state' # "closed" /\ queue' = queue /\ outcome' = Rejected(InFlightSet)
    BY <1>2 DEF Disconnect
  <2>2. Waiting(inFlight', queue') = queue
    BY <1>1, <2>1, WaitingFacts
  <2>3. CASE inFlight = NoReq
    <3>1. outcome' = outcome
      BY <1>1, <2>1, <2>3 DEF Rejected, InFlightSet, TypeOK
    <3> QED
      BY <1>1, <2>1, <2>2, <2>3, <3>1, MapStutter, WaitingFacts
  <2>4. CASE inFlight # NoReq
    <3>1. outcome' = [outcome EXCEPT ![inFlight] = "rejected"]
      BY <1>1, <2>1, <2>4 DEF Rejected, InFlightSet, TypeOK
    <3> QED
      BY <1>1, <2>1, <2>2, <2>4, <3>1, MapSettle
  <2> QED
    BY <2>3, <2>4
<1>3. CASE ~MayRetry
  <2>1. state' = "closed" /\ queue' = <<>> /\ outcome' = Rejected(FailAll)
    BY <1>3 DEF Disconnect
  <2> QED
    BY <1>1, <2>1, MapShut
<1> QED
  BY <1>2, <1>3

\* Requests settle in the order they were sent, each once, whatever becomes of the
\* connection (nng-ipc.ts: pump, onMessage, onRequestTimeout, afterDisconnect, close):
\* every step of the transport is one of RequestChannel or leaves it as it is.
THEOREM ImplementsRequestChannel == Spec => ImplementsChannel
<1>1. Init => Channel!Init
  <2> SUFFICES ASSUME Init PROVE Channel!Init
    OBVIOUS
  <2>1. <<>> \o queue = <<>> /\ inFlight = NoReq /\ state # "closed"
    BY EmptySeq, ConcatEmptySeq DEF Init
  <2> QED
    BY <2>1 DEF Init, Channel!Init
<1>2. TypeInv /\ SafeInv /\ [Next]_vars => [Channel!Next]_Channel!vars
  <2> SUFFICES ASSUME TypeInv, SafeInv, [Next]_vars PROVE [Channel!Next]_Channel!vars
    OBVIOUS
  <2>a. /\ TypeOK /\ PendingAccounted
        /\ queue \in Seq(Req) /\ inFlight \in Req \union {NoReq} /\ state \in {"connecting", "open", "closed"}
        /\ outcome \in [Req -> {"unsent", "pending", "resolved", "rejected"}]
    BY DEF TypeInv, TypeOK, SafeInv
  <2>b. /\ closedByUser => state = "closed"
        /\ inFlight # NoReq => state = "open" /\ conn # NoConn
        /\ reconnectTimer => state = "connecting"
    BY DEF TypeInv, TypeOK, SafeInv, CurrentSocket, NoLostPump, Dialing
  <2>1. CASE UNCHANGED <<state, queue, inFlight, outcome>>
    BY <2>1, MapStutter
  <2>2. ASSUME NEW r \in Req, Send(r) PROVE Channel!Next
    <3>1. CASE closedByUser \/ state = "closed"
      BY <2>2, <2>b, <3>1, MapRefuse DEF Send
    <3>2. CASE ~(closedByUser \/ state = "closed")
      <4>1. /\ Pump(state, Append(queue, r), inFlight, staleIds)
            /\ outcome[r] = "unsent" /\ outcome' = [outcome EXCEPT ![r] = "pending"] /\ state' = state
        BY <2>2, <3>2 DEF Send, Enqueue
      <4>2. Append(queue, r) \in Seq(Req)
        BY <2>a
      <4>3. Waiting(inFlight', queue') = Waiting(inFlight, Append(queue, r))
        BY <2>a, <4>1, <4>2, PumpKeepsTurns
      <4>4. Waiting(inFlight, Append(queue, r)) = Append(Waiting(inFlight, queue), r)
        BY <2>a, WaitingFacts
      <4> QED
        BY <3>2, <4>1, <4>3, <4>4, MapSubmit
    <3> QED
      BY <3>1, <3>2
  <2>3. CASE Close
    <3>1. /\ state' = "closed" /\ queue' = <<>> /\ inFlight' = NoReq /\ outcome' = Rejected(FailAll)
      BY <2>3 DEF Close, LoseConnection
    <3>2. CASE state = "closed"
      <4>1. queue = <<>> /\ inFlight = NoReq
        BY <2>a, <3>2 DEF PendingAccounted
      <4>2. outcome' = outcome
        BY <2>a, <3>1, <4>1 DEF Rejected, FailAll, InQueue, InFlightSet
      <4> QED
        BY <2>1, <3>1, <3>2, <4>1, <4>2
    <3>3. CASE state # "closed"
      BY <2>a, <3>1, <3>3, MapShut
    <3> QED
      BY <3>2, <3>3
  <2>4. CASE Redial
    BY <2>4, <2>1, <2>b DEF Redial
  <2>5. CASE ConnectTimeout
    BY <2>5, DisconnectMaps DEF ConnectTimeout, ConnectTimerRuns
  <2>6. CASE RequestTimeout
    <3>1. inFlight # NoReq /\ state = "open" /\ conn # NoConn
      BY <2>6, <2>b DEF RequestTimeout
    <3>2. PICK stale \in Remember(id[inFlight]) :
            IF OnTimeout = "reconnect"
              THEN Disconnect(stale)
              ELSE /\ outcome' = [outcome EXCEPT ![inFlight] = "rejected"]
                   /\ Pump(state, queue, NoReq, stale)
                   /\ state' = state
      BY <2>6 DEF RequestTimeout
    <3>3. CASE OnTimeout = "reconnect"
      BY <3>1, <3>2, <3>3, DisconnectMaps
    <3>4. CASE OnTimeout # "reconnect"
      <4>1. Waiting(inFlight', queue') = queue
        BY <2>a, <3>2, <3>4, PumpKeepsTurns, WaitingFacts
      <4> QED
        BY <2>a, <3>1, <3>2, <3>4, <4>1, MapSettle
    <3> QED
      BY <3>3, <3>4
  <2>7. ASSUME NEW c \in Conn, SocketEvent(c) PROVE [Channel!Next]_Channel!vars
    <3>1. CASE Established(c) \/ OnDrain(c)
      BY <3>1, <2>1 DEF Established, OnDrain
    <3>2. CASE ConnectError(c) \/ SocketClosed(c) \/ OnProtocolError(c)
      <4>1. CASE conn = c
        BY <3>2, <4>1, DisconnectMaps, TransportAssumption DEF ConnectError, SocketClosed, OnProtocolError
      <4>2. CASE conn # c
        BY <3>2, <4>2, <2>1 DEF ConnectError, SocketClosed, OnProtocolError, clientVars
      <4> QED
        BY <4>1, <4>2
    <3>3. CASE OnHandshake(c)
      <4>1. CASE conn = c /\ state = "connecting"
        <5>1. Pump("open", queue, inFlight, staleIds) /\ state' = "open" /\ outcome' = outcome
          BY <3>3, <4>1 DEF OnHandshake
        <5> QED
          BY <2>a, <4>1, <5>1, PumpKeepsTurns, MapStutter
      <4>2. CASE ~(conn = c /\ state = "connecting")
        BY <3>3, <4>2, <2>1 DEF OnHandshake
      <4> QED
        BY <4>1, <4>2
    <3>4. CASE OnMessage(c)
      <4>1. CASE conn = c /\ Answers(Head(replies[c]))
        <5>1. /\ outcome' = [outcome EXCEPT ![inFlight] = "resolved"]
              /\ Pump(state, queue, NoReq, staleIds) /\ state' = state
          BY <3>4, <4>1 DEF OnMessage
        <5>2. inFlight # NoReq /\ state # "closed"
          BY <2>b, <4>1 DEF Answers
        <5>3. Waiting(inFlight', queue') = queue
          BY <2>a, <5>1, PumpKeepsTurns, WaitingFacts
        <5> QED
          BY <2>a, <5>1, <5>2, <5>3, MapSettle
      <4>2. CASE ~(conn = c /\ Answers(Head(replies[c])))
        BY <3>4, <4>2, <2>1 DEF OnMessage
      <4> QED
        BY <4>1, <4>2
    <3> QED
      BY <2>7, <3>1, <3>2, <3>3, <3>4 DEF SocketEvent
  <2>8. ASSUME NEW c \in Conn, KiCad(c) PROVE [Channel!Next]_Channel!vars
    BY <2>8, <2>1 DEF KiCad, Greet, Serve, Babble, clientVars
  <2> QED
    BY <2>1, <2>2, <2>3, <2>4, <2>5, <2>6, <2>7, <2>8 DEF Next, vars, clientVars
<1>3. QED
  BY <1>1, <1>2, TypeInvariant, SafetyInvariant, PTL DEF Spec, Channel!Spec, ImplementsChannel

-----------------------------------------------------------------------------
(* What is on the current connection.                                        *)

LEMMA ConcatItems ==
  ASSUME NEW S, NEW s \in Seq(S), NEW t \in Seq(S)
  PROVE  /\ Items(s \o t) = Items(s) \union Items(t)
         /\ Distinct(s \o t) <=> Distinct(s) /\ Distinct(t) /\ Items(s) \intersect Items(t) = {}
<1> DEFINE m == Len(s)
           n == Len(t)
           u == s \o t
<1>1. /\ m \in Nat /\ n \in Nat /\ DOMAIN s = 1..m /\ DOMAIN t = 1..n
      /\ u \in Seq(S) /\ Len(u) = m + n
      /\ \A i \in 1..(m + n) : u[i] = IF i <= m THEN s[i] ELSE t[i - m]
  BY LenProperties, ConcatProperties
<1>2. DOMAIN u = 1..(m + n)
  BY <1>1, LenProperties
<1> HIDE DEF m, n, u
<1>3. /\ \A i \in 1..m : i \in 1..(m + n) /\ u[i] = s[i]
      /\ \A i \in 1..n : m + i \in 1..(m + n) /\ u[m + i] = t[i]
      /\ \A i \in 1..(m + n) : (i \in 1..m /\ u[i] = s[i]) \/ (i - m \in 1..n /\ u[i] = t[i - m])
  BY <1>1
<1>4. Items(u) = Items(s) \union Items(t)
  <2>1. ASSUME NEW x \in Items(u) PROVE x \in Items(s) \union Items(t)
    <3>1. PICK i \in 1..(m + n) : x = u[i]
      BY <1>2 DEF Items
    <3> QED
      BY <1>1, <1>3, <3>1 DEF Items
  <2>2. ASSUME NEW x \in Items(s) PROVE x \in Items(u)
    <3>1. PICK i \in 1..m : x = s[i]
      BY <1>1 DEF Items
    <3> QED
      BY <1>2, <1>3, <3>1 DEF Items
  <2>3. ASSUME NEW x \in Items(t) PROVE x \in Items(u)
    <3>1. PICK i \in 1..n : x = t[i]
      BY <1>1 DEF Items
    <3> QED
      BY <1>2, <1>3, <3>1 DEF Items
  <2> QED
    BY <2>1, <2>2, <2>3
<1>5. ASSUME Distinct(u)
      PROVE  Distinct(s) /\ Distinct(t) /\ Items(s) \intersect Items(t) = {}
  <2>1. \A i, j \in 1..m : s[i] = s[j] => i = j
    BY <1>2, <1>3, <1>5 DEF Distinct
  <2>2. \A i, j \in 1..n : t[i] = t[j] => i = j
    <3> SUFFICES ASSUME NEW i \in 1..n, NEW j \in 1..n, t[i] = t[j] PROVE i = j
      OBVIOUS
    <3>1. m + i = m + j
      BY <1>2, <1>3, <1>5 DEF Distinct
    <3> QED
      BY <1>1, <3>1
  <2>3. \A i \in 1..m, j \in 1..n : s[i] # t[j]
    <3> SUFFICES ASSUME NEW i \in 1..m, NEW j \in 1..n, s[i] = t[j] PROVE FALSE
      OBVIOUS
    <3>1. i = m + j
      BY <1>2, <1>3, <1>5 DEF Distinct
    <3> QED
      BY <1>1, <3>1
  <2> QED
    BY <1>1, <2>1, <2>2, <2>3 DEF Distinct, Items
<1>6. ASSUME Distinct(s), Distinct(t), Items(s) \intersect Items(t) = {},
             NEW i \in 1..(m + n), NEW j \in 1..(m + n), u[i] = u[j]
      PROVE  i = j
  <2>1. \A a \in 1..m, b \in 1..n : s[a] # t[b]
    BY <1>1, <1>6 DEF Items
  <2>2. CASE i \in 1..m /\ j \in 1..m
    BY <1>1, <1>3, <1>6, <2>2 DEF Distinct
  <2>3. CASE i - m \in 1..n /\ j - m \in 1..n /\ i \notin 1..m /\ j \notin 1..m
    <3>1. u[i] = t[i - m] /\ u[j] = t[j - m]
      BY <1>1, <1>3, <1>6, <2>3
    <3>2. i - m = j - m
      BY <1>1, <1>6, <2>3, <3>1 DEF Distinct
    <3> QED
      BY <1>1, <3>2
  <2> QED
    BY <1>1, <1>3, <1>6, <2>1, <2>2, <2>3
<1> QED
  BY <1>2, <1>4, <1>5, <1>6 DEF Distinct, u

\* A sequence is what comes up to a place and what comes after it.
LEMMA SplitSeq ==
  ASSUME NEW S, NEW s \in Seq(S), NEW n \in 0..Len(s)
  PROVE  /\ SubSeq(s, 1, n) \in Seq(S) /\ SubSeq(s, n + 1, Len(s)) \in Seq(S)
         /\ s = SubSeq(s, 1, n) \o SubSeq(s, n + 1, Len(s))
<1>1. Len(s) \in Nat
  BY LenProperties
<1>2. SubSeq(s, 1, n) \in Seq(S) /\ SubSeq(s, n + 1, Len(s)) \in Seq(S)
  BY <1>1, SubSeqType
<1>3. SubSeq(s, 1, Len(s)) = s
  BY SubSeqFull
<1>4. SubSeq(s, 1, n) \o SubSeq(s, n + 1, Len(s)) = SubSeq(s, 1, Len(s))
  <2>1. 1 \in 1..(Len(s) + 1) /\ n \in (1 - 1)..Len(s) /\ Len(s) \in n..Len(s)
    BY <1>1
  <2> QED
    BY <2>1, ConcatAdjacentSubSeq
<1> QED
  BY <1>2, <1>3, <1>4

LEMMA FrameItems ==
  ASSUME NEW r \in Req
  PROVE  /\ Items(Frame(r)) = {<<r, 1>>, <<r, 2>>} /\ Distinct(Frame(r)) /\ Frame(r) \in Seq(Piece)
<1>1. DOMAIN Frame(r) = 1..2 /\ Frame(r)[1] = <<r, 1>> /\ Frame(r)[2] = <<r, 2>>
  BY DEF Frame
<1>2. \A k \in 1..2 : k = 1 \/ k = 2
  OBVIOUS
<1>3. <<r, 1>> # <<r, 2>>
  OBVIOUS
<1> QED
  BY <1>1, <1>2, <1>3, FrameType DEF Items, Distinct

LEMMA EmptyItems == Items(<<>>) = {} /\ Distinct(<<>>)
BY DEF Items, Distinct

\* A write adds its pieces to the wire or keeps them back, each once.
LEMMA WriteAllItems ==
  ASSUME TypeOK, NEW c \in Conn, NEW bytes \in Seq(Piece), NEW bl \in Seq(Piece),
         WriteAll(c, bytes, bl),
         Distinct(wire[c]), Distinct(bytes), Distinct(bl),
         Items(bytes) \intersect Items(wire[c]) = {},
         Items(bl) \intersect Items(wire[c]) = {},
         Items(bytes) \intersect Items(bl) = {}
  PROVE  /\ Distinct(wire'[c]) /\ Distinct(backlog')
         /\ Items(wire'[c]) \intersect Items(backlog') = {}
         /\ Items(wire'[c]) \union Items(backlog') \subseteq Items(wire[c]) \union Items(bytes) \union Items(bl)
         /\ \A d \in Conn : d # c => wire'[d] = wire[d]
<1>1. PICK n \in 0..Len(bytes) :
        /\ wire' = [wire EXCEPT ![c] = @ \o SubSeq(bytes, 1, n)]
        /\ backlog' = IF n < Len(bytes) THEN SubSeq(bytes, n + 1, Len(bytes)) ELSE bl
  BY DEF WriteAll
<1> DEFINE a == SubSeq(bytes, 1, n)
           b == SubSeq(bytes, n + 1, Len(bytes))
           w == wire[c] \o a
<1>2. a \in Seq(Piece) /\ b \in Seq(Piece) /\ bytes = a \o b
  BY SplitSeq
<1>3. wire'[c] = w /\ wire[c] \in Seq(Piece) /\ \A d \in Conn : d # c => wire'[d] = wire[d]
  BY <1>1 DEF TypeOK
<1>4. backlog' = b \/ backlog' = bl
  BY <1>1
<1> HIDE DEF a, b
<1>5. /\ Items(bytes) = Items(a) \union Items(b)
      /\ Distinct(a) /\ Distinct(b) /\ Items(a) \intersect Items(b) = {}
  BY <1>2, ConcatItems
<1>6. Items(w) = Items(wire[c]) \union Items(a) /\ Distinct(w)
  BY <1>2, <1>3, <1>5, ConcatItems
<1> HIDE DEF w
<1> QED
  BY <1>3, <1>4, <1>5, <1>6

\* A reply to r may still come on the current connection.
Pieces == Items(wire[conn]) \union Items(backlog)
Out(r) == r \in Items(replies[conn]) \/ <<r, 1>> \in Pieces

\* No request is answered twice by s.
OnceEach(s) == \A j, k \in DOMAIN s : s[j] = s[k] /\ s[j] \in Req => j = k

\* On the current connection every piece and every reply is there once, a request
\* is written or answered but not both, and each one that is not in flight any more has a
\* stale id, its own one, unless stale ids were forgotten.
Line ==
  /\ Distinct(wire[conn]) /\ Distinct(backlog) /\ Items(wire[conn]) \intersect Items(backlog) = {}
  /\ OnceEach(replies[conn])
  /\ \A r \in Req : r \in Items(replies[conn]) => <<r, 1>> \notin Pieces
  /\ \A p \in Pieces : id[p[1]] # 0
  /\ \A r \in Req : r \in Items(replies[conn]) => id[r] # 0
  /\ \A r \in Req : Out(r) => forgot \/ r = inFlight \/ id[r] \in staleIds
  /\ \A r, s \in Req : Out(r) /\ Out(s) /\ id[r] = id[s] => r = s \/ forgot
LineInv == conn # NoConn => Line

\* Requests get an id when they are written.
Unwritten == \A r \in Req : outcome[r] = "unsent" \/ r \in Items(queue) => id[r] = 0

\* Nothing travels on a socket that is not connected.
Silent == /\ \A c \in Conn : sock[c] \in {"free", "dialing"} => wire[c] = <<>> /\ replies[c] = <<>>
          /\ ~connected => backlog = <<>>

ReplyInv == Unwritten /\ Silent /\ LineInv /\ ReplyMatches

\* pump() with what the handler left of the replies and of the request in flight.
LEMMA PumpLine ==
  ASSUME TypeInv, conn \in Conn,
         Distinct(wire[conn]), Distinct(backlog), Items(wire[conn]) \intersect Items(backlog) = {},
         \A p \in Pieces : id[p[1]] # 0,
         NEW st, NEW q \in Seq(Req), NEW f, NEW stale,
         Distinct(q), \A r \in Req : r \in Items(q) => id[r] = 0,
         Pump(st, q, f, stale), conn' = conn,
         OnceEach(replies'[conn]),
         \A r \in Req : r \in Items(replies'[conn]) => <<r, 1>> \notin Pieces /\ id[r] # 0,
         \A r \in Req : r \in Items(replies'[conn]) \/ <<r, 1>> \in Pieces =>
                         forgot' \/ r = f \/ id[r] \in stale,
         \A r, s \in Req : /\ r \in Items(replies'[conn]) \/ <<r, 1>> \in Pieces
                           /\ s \in Items(replies'[conn]) \/ <<s, 1>> \in Pieces
                           /\ id[r] = id[s]
                           => r = s \/ forgot'
  PROVE  Line' /\ (\A r \in Req : r \in Items(queue') => id'[r] = 0)
<1>1. CASE CanPump(st, q, f)
  <2> DEFINE h == Head(q)
  <2>1. PICK i \in FreeIds(stale) :
          /\ queue' = Tail(q) /\ inFlight' = h /\ id' = [id EXCEPT ![h] = i]
          /\ WriteAll(conn, Frame(h), backlog)
    BY <1>1 DEF Pump
  <2>2. /\ h \in Req /\ h \in Items(q) /\ h \notin Items(Tail(q)) /\ Items(Tail(q)) \subseteq Items(q)
        /\ f = NoReq /\ staleIds' = stale
    BY <1>1, TailItems, HeadTailProperties DEF CanPump, Pump
  <2> HIDE DEF h
  <2>3. i \in Ids /\ i \notin stale /\ i # 0 /\ id[h] = 0 /\ id'[h] = i /\ \A r \in Req : r # h => id'[r] = id[r]
    BY <2>1, <2>2 DEF FreeIds, Ids, TypeInv, TypeOK
  <2>4. /\ Items(Frame(h)) = {<<h, 1>>, <<h, 2>>} /\ Distinct(Frame(h)) /\ Frame(h) \in Seq(Piece)
    BY <2>2, FrameItems
  <2>5. <<h, 1>> \notin Pieces /\ <<h, 2>> \notin Pieces
    <3>1. \A k : <<h, k>>[1] = h
      OBVIOUS
    <3> QED
      BY <2>3, <3>1
  <2>6. /\ Distinct(wire'[conn]) /\ Distinct(backlog')
        /\ Items(wire'[conn]) \intersect Items(backlog') = {}
        /\ Items(wire'[conn]) \union Items(backlog') \subseteq Pieces \union {<<h, 1>>, <<h, 2>>}
    <3>1. Items(Frame(h)) \intersect Items(wire[conn]) = {} /\ Items(Frame(h)) \intersect Items(backlog) = {}
      BY <2>4, <2>5 DEF Pieces
    <3>2. TypeOK /\ backlog \in Seq(Piece)
      BY DEF TypeInv, TypeOK
    <3>3. /\ Distinct(wire'[conn]) /\ Distinct(backlog')
          /\ Items(wire'[conn]) \intersect Items(backlog') = {}
          /\ Items(wire'[conn]) \union Items(backlog') \subseteq Items(wire[conn]) \union Items(Frame(h)) \union Items(backlog)
      BY <2>1, <2>4, <3>1, <3>2, WriteAllItems
    <3> QED
      BY <2>4, <3>3 DEF Pieces
  <2>7. Pieces' = Items(wire'[conn]) \union Items(backlog')
    BY DEF Pieces, Items
  <2>8. Pieces \subseteq Piece
    <3>1. wire[conn] \in Seq(Piece) /\ backlog \in Seq(Piece)
      BY DEF TypeInv, TypeOK
    <3> QED
      BY <3>1, LenProperties DEF Pieces, Items
  <2>9. \A p \in Pieces' : id'[p[1]] # 0
    <3>1. ASSUME NEW p \in Pieces PROVE id'[p[1]] # 0
      <4>1. p[1] \in Req /\ id[p[1]] # 0
        BY <2>8, <3>1 DEF Piece
      <4> QED
        BY <2>3, <4>1
    <3>2. <<h, 1>>[1] = h /\ <<h, 2>>[1] = h
      OBVIOUS
    <3> QED
      BY <2>3, <2>6, <2>7, <3>1, <3>2
  <2>10. \A r \in Req : <<r, 1>> \in Pieces' => <<r, 1>> \in Pieces \/ r = h
    BY <2>6, <2>7
  <2>11. \A r \in Req : Out(r)' => r = h \/ (r # h /\ (r \in Items(replies'[conn]) \/ <<r, 1>> \in Pieces))
    BY <2>10 DEF Out, Items
  <2>12. \A r \in Req : r \in Items(replies'[conn]) => r # h /\ <<r, 1>> \notin Pieces' /\ id'[r] # 0
    BY <2>3, <2>10
  <2>13. ASSUME NEW r \in Req, Out(r)', r # h, ~forgot'
         PROVE  id'[r] = id[r] /\ id[r] \in stale /\ (r \in Items(replies'[conn]) \/ <<r, 1>> \in Pieces)
    <3>1. r \in Items(replies'[conn]) \/ <<r, 1>> \in Pieces
      BY <2>11, <2>13
    <3>2. r # f
      BY <2>2, TransportAssumption
    <3> QED
      BY <2>3, <2>13, <3>1, <3>2
  <2>14. ASSUME NEW r \in Req, NEW s \in Req, Out(r)', Out(s)', id'[r] = id'[s], ~forgot'
         PROVE  r = s
    <3>1. CASE r # h /\ s # h
      <4>1. id[r] = id[s]
        BY <2>13, <2>14, <3>1
      <4> QED
        BY <2>13, <2>14, <3>1, <4>1
    <3>2. CASE r = h /\ s # h
      BY <2>3, <2>13, <2>14, <3>2
    <3>3. CASE r # h /\ s = h
      BY <2>3, <2>13, <2>14, <3>3
    <3> QED
      BY <3>1, <3>2, <3>3
  <2>15. \A r \in Req : r \in Items(queue') => id'[r] = 0
    BY <2>1, <2>2, <2>3
  <2>16. OnceEach(replies[conn])' /\ Items(replies[conn])' = Items(replies'[conn])
    BY DEF OnceEach, Items
  <2>17. (Distinct(wire[conn]) /\ Distinct(backlog) /\ Items(wire[conn]) \intersect Items(backlog) = {})'
    BY <2>6 DEF Distinct, Items
  <2>18. \A r \in Req : Out(r)' => forgot' \/ r = inFlight' \/ id'[r] \in staleIds'
    <3> SUFFICES ASSUME NEW r \in Req, Out(r)', ~forgot', r # h PROVE id'[r] \in stale
      BY <2>1, <2>2
    <3> QED
      BY <2>13
  <2>19. \A r, s \in Req : Out(r)' /\ Out(s)' /\ id'[r] = id'[s] => r = s \/ forgot'
    BY <2>14
  <2>20. \A r \in Req : r \in Items(replies[conn])' => <<r, 1>> \notin Pieces' /\ id'[r] # 0
    BY <2>12, <2>16
  <2>21. Line'
    BY <2>9, <2>16, <2>17, <2>18, <2>19, <2>20 DEF Line
  <2> QED
    BY <2>15, <2>21
<1>2. CASE ~CanPump(st, q, f)
  <2>1. queue' = q /\ inFlight' = f /\ UNCHANGED <<id, wire, backlog>> /\ staleIds' = stale
    BY <1>2 DEF Pump
  <2>2. Pieces' = Pieces /\ \A r \in Req : Out(r)' <=> r \in Items(replies'[conn]) \/ <<r, 1>> \in Pieces
    BY <2>1 DEF Out, Pieces, Items
  <2>3. /\ OnceEach(replies[conn])' /\ Items(replies[conn])' = Items(replies'[conn])
        /\ (Distinct(wire[conn]) /\ Distinct(backlog) /\ Items(wire[conn]) \intersect Items(backlog) = {})'
    BY <2>1 DEF OnceEach, Distinct, Items
  <2> QED
    BY <2>1, <2>2, <2>3 DEF Line
<1> QED
  BY <1>1, <1>2

LEMMA TailOnce ==
  ASSUME NEW S, NEW s \in Seq(S), s # <<>>, OnceEach(s)
  PROVE  /\ OnceEach(Tail(s)) /\ Items(Tail(s)) \subseteq Items(s)
         /\ Head(s) \in Items(s) /\ (Head(s) \in Req => Head(s) \notin Items(Tail(s)))
<1>1. /\ DOMAIN s = 1..Len(s) /\ Len(s) \in Nat /\ Len(s) >= 1 /\ Head(s) = s[1]
      /\ DOMAIN Tail(s) = 1..(Len(s) - 1)
  BY LenProperties, HeadTailProperties, EmptySeq
<1>2. \A k \in 1..(Len(s) - 1) : Tail(s)[k] = s[k + 1] /\ k + 1 \in 1..Len(s)
  BY HeadTailProperties, <1>1
<1>3. Items(s) = {Head(s)} \union Items(Tail(s))
  BY TailItems
<1>4. ASSUME NEW j \in 1..(Len(s) - 1), NEW k \in 1..(Len(s) - 1),
             Tail(s)[j] = Tail(s)[k], Tail(s)[j] \in Req
      PROVE  j = k
  <2>1. j + 1 = k + 1
    BY <1>1, <1>2, <1>4 DEF OnceEach
  <2> QED
    BY <1>1, <2>1
<1>5. ASSUME Head(s) \in Req, Head(s) \in Items(Tail(s)) PROVE FALSE
  <2>1. PICK k \in 1..(Len(s) - 1) : Tail(s)[k] = s[1]
    BY <1>1, <1>5 DEF Items
  <2>2. k + 1 = 1
    BY <1>1, <1>2, <1>5, <2>1 DEF OnceEach
  <2> QED
    BY <1>1, <2>1, <2>2
<1> QED
  BY <1>1, <1>3, <1>4, <1>5 DEF OnceEach

LEMMA AppendOnce ==
  ASSUME NEW S, NEW s \in Seq(S), NEW x \in S, OnceEach(s), x \in Req => x \notin Items(s)
  PROVE  OnceEach(Append(s, x)) /\ Items(Append(s, x)) = Items(s) \union {x}
<1>1. /\ DOMAIN s = 1..Len(s) /\ Len(s) \in Nat
      /\ DOMAIN Append(s, x) = 1..(Len(s) + 1)
      /\ \A k \in 1..Len(s) : Append(s, x)[k] = s[k]
      /\ Append(s, x)[Len(s) + 1] = x
  BY LenProperties
<1>2. 1..(Len(s) + 1) = 1..Len(s) \union {Len(s) + 1}
  BY <1>1
<1>3. x \in Req => \A i \in 1..Len(s) : s[i] # x
  BY <1>1 DEF Items
<1>4. OnceEach(Append(s, x))
  BY <1>1, <1>2, <1>3 DEF OnceEach
<1> QED
  BY <1>4, AppendItems

\* What pump() leaves alone.
LEMMA PumpFrame ==
  ASSUME TypeInv, NEW st, NEW q \in Seq(Req), NEW f, NEW stale, Pump(st, q, f, stale)
  PROVE  /\ \A r \in Req : r # inFlight' => id'[r] = id[r]
         /\ Items(queue') \subseteq Items(q)
         /\ \A c \in Conn : c # conn => wire'[c] = wire[c]
         /\ ~connected => wire' = wire /\ backlog' = backlog
<1>1. CASE CanPump(st, q, f)
  <2>1. PICK i \in FreeIds(stale) :
          /\ queue' = Tail(q) /\ inFlight' = Head(q) /\ id' = [id EXCEPT ![Head(q)] = i]
          /\ WriteAll(conn, Frame(Head(q)), backlog)
    BY <1>1 DEF Pump
  <2>2. connected /\ Items(Tail(q)) \subseteq Items(q)
    BY <1>1, TailItems DEF CanPump
  <2>3. \A c \in Conn : c # conn => wire'[c] = wire[c]
    BY <2>1 DEF WriteAll, TypeInv, TypeOK
  <2> QED
    BY <2>1, <2>2, <2>3 DEF TypeInv, TypeOK
<1>2. CASE ~CanPump(st, q, f)
  BY <1>2 DEF Pump
<1> QED
  BY <1>1, <1>2

-----------------------------------------------------------------------------
(* A reply reaches its own caller.                                           *)

LEMMA StaysUnwritten ==
  ASSUME Unwritten, PendingAccounted', TypeInv',
         \A r \in Req : r # inFlight' => id'[r] = id[r],
         \A r \in Req : outcome'[r] = "unsent" => outcome[r] = "unsent",
         \A r \in Req : r \in Items(queue') => r \in Items(queue) \/ outcome[r] = "unsent"
  PROVE  Unwritten'
<1>1. \A r \in Req : outcome'[r] = "unsent" \/ r \in Items(queue') => r # inFlight'
  BY TransportAssumption DEF PendingAccounted, InQueue, InFlightSet, Items
<1>2. \A r \in Req : r \in Items(queue') <=> r \in Items(queue)'
  BY DEF Items
<1> QED
  BY <1>1, <1>2 DEF Unwritten

LEMMA StaysMatched ==
  ASSUME ReplyMatches, got' = got, forgot => forgot',
         \A r \in Req : outcome'[r] = "resolved" => outcome[r] = "resolved"
  PROVE  ReplyMatches'
BY DEF ReplyMatches

\* Nothing on the current connection changes.
LEMMA StaysInLine ==
  ASSUME LineInv, UNCHANGED <<conn, backlog, id, inFlight, staleIds, forgot>>,
         conn # NoConn => wire'[conn] = wire[conn] /\ replies'[conn] = replies[conn]
  PROVE  LineInv'
<1>1. CASE conn = NoConn
  BY <1>1 DEF LineInv
<1>2. CASE conn # NoConn
  <2>1. Pieces' = Pieces /\ \A r : Out(r)' = Out(r)
    BY <1>2 DEF Pieces, Out, Items
  <2>2. /\ Distinct(wire[conn])' = Distinct(wire[conn]) /\ Distinct(backlog)' = Distinct(backlog)
        /\ Items(wire[conn])' = Items(wire[conn]) /\ Items(backlog)' = Items(backlog)
        /\ Items(replies[conn])' = Items(replies[conn]) /\ OnceEach(replies[conn])' = OnceEach(replies[conn])
    BY <1>2 DEF Items, Distinct, OnceEach
  <2> QED
    BY <1>2, <2>1, <2>2 DEF LineInv, Line
<1> QED
  BY <1>1, <1>2

\* Replies were read or written, pieces were taken, and no request is out that was not.
LEMMA LessInLine ==
  ASSUME Line, conn # NoConn, UNCHANGED <<conn, id, inFlight, forgot>>,
         Distinct(wire'[conn]), Distinct(backlog'), Items(wire'[conn]) \intersect Items(backlog') = {},
         Items(wire'[conn]) \union Items(backlog') \subseteq Pieces,
         OnceEach(replies'[conn]),
         \A r \in Req : r \in Items(replies'[conn]) =>
                          Out(r) /\ <<r, 1>> \notin Items(wire'[conn]) \union Items(backlog'),
         \A r \in Req : Out(r) => \/ forgot \/ r = inFlight \/ id[r] \in staleIds'
                                  \/ /\ r \notin Items(replies'[conn])
                                     /\ <<r, 1>> \notin Items(wire'[conn]) \union Items(backlog')
  PROVE  LineInv'
<1>1. Pieces' = Items(wire'[conn]) \union Items(backlog') /\ Items(replies[conn])' = Items(replies'[conn])
  BY DEF Pieces, Items
<1>2. \A r \in Req : Out(r)' => /\ Out(r)
                                /\ r \in Items(replies'[conn]) \/ <<r, 1>> \in Items(wire'[conn]) \union Items(backlog')
  BY <1>1 DEF Out
<1>3. \A r \in Req : Out(r) => id[r] # 0
  <2>1. \A r : <<r, 1>>[1] = r
    OBVIOUS
  <2> QED
    BY <2>1 DEF Line, Out
<1>4. /\ (Distinct(wire[conn]) /\ Distinct(backlog) /\ Items(wire[conn]) \intersect Items(backlog) = {})'
      /\ OnceEach(replies[conn])'
  BY DEF Distinct, Items, OnceEach
<1>5. \A r \in Req : r \in Items(replies[conn])' => <<r, 1>> \notin Pieces' /\ id'[r] # 0
  BY <1>1, <1>3
<1>6. \A p \in Pieces' : id'[p[1]] # 0
  BY <1>1 DEF Line
<1>7. \A r \in Req : Out(r)' => forgot' \/ r = inFlight' \/ id'[r] \in staleIds'
  BY <1>2
<1>8. \A r, s \in Req : Out(r)' /\ Out(s)' /\ id'[r] = id'[s] => r = s \/ forgot'
  BY <1>2 DEF Line
<1> QED
  BY <1>4, <1>5, <1>6, <1>7, <1>8 DEF LineInv, Line

LEMMA PumpKeepsLine ==
  ASSUME TypeInv, LineInv, conn \in Conn, conn' = conn, forgot => forgot',
         NEW st, NEW q \in Seq(Req), NEW f, NEW stale, Pump(st, q, f, stale),
         Distinct(q), \A r \in Req : r \in Items(q) => id[r] = 0,
         OnceEach(replies'[conn]), Items(replies'[conn]) \subseteq Items(replies[conn]),
         \A r \in Req : r \in Items(replies'[conn]) \/ <<r, 1>> \in Pieces =>
                         forgot' \/ r = f \/ id[r] \in stale
  PROVE  LineInv'
<1>1. Line
  BY TransportAssumption DEF LineInv
<1>2. \A r \in Req : r \in Items(replies'[conn]) => <<r, 1>> \notin Pieces /\ id[r] # 0
  BY <1>1 DEF Line
<1>3. \A r, s \in Req : /\ r \in Items(replies'[conn]) \/ <<r, 1>> \in Pieces
                        /\ s \in Items(replies'[conn]) \/ <<s, 1>> \in Pieces
                        /\ id[r] = id[s]
                        => r = s \/ forgot'
  BY <1>1 DEF Line, Out
<1>4. /\ Distinct(wire[conn]) /\ Distinct(backlog) /\ Items(wire[conn]) \intersect Items(backlog) = {}
      /\ \A p \in Pieces : id[p[1]] # 0
  BY <1>1 DEF Line
<1>5. Line'
  BY <1>2, <1>3, <1>4, PumpLine
<1> QED
  BY <1>5 DEF LineInv

\* A message that is read is not read again.
LEMMA ConsumeOnce ==
  ASSUME TypeInv, NEW c \in Conn, replies[c] # <<>>, Consume(c)
  PROVE  /\ OnceEach(replies[c]) => /\ OnceEach(replies'[c])
                                    /\ Items(replies'[c]) \subseteq Items(replies[c])
                                    /\ Head(replies[c]) \in Items(replies[c])
                                    /\ Head(replies[c]) \in Req => Head(replies[c]) \notin Items(replies'[c])
         /\ \A d \in Conn : d # c => replies'[d] = replies[d]
<1>1. replies'[c] = Tail(replies[c]) /\ replies[c] \in Seq(Req \union {Handshake, Garbage})
  BY DEF Consume, TypeInv, TypeOK
<1>2. \A d \in Conn : d # c => replies'[d] = replies[d]
  BY DEF Consume, TypeInv, TypeOK
<1> QED
  BY <1>1, <1>2, TailOnce

\* The queue has no request twice, and none of them was written.
LEMMA QueueFacts ==
  ASSUME TypeInv, SafeInv, Unwritten
  PROVE  /\ queue \in Seq(Req) /\ Distinct(queue) /\ \A r \in Req : r \in Items(queue) => id[r] = 0
         /\ conn \in Conn \union {NoConn} /\ NoConn \notin Conn /\ NoReq \notin Req
         /\ inFlight # NoReq => inFlight \in Req /\ conn \in Conn /\ connected /\ state = "open"
         /\ connected => conn = NoConn \/ sock[conn] \in Live
         /\ id \in [Req -> Ids \union {0}]
BY Accounted, TransportAssumption DEF SafeInv, Unwritten, TypeInv, TypeOK, NoLostPump, CurrentSocket

-----------------------------------------------------------------------------
LEMMA UnwrittenHolds ==
  ASSUME TypeInv, TypeInv', SafeInv, SafeInv', Unwritten, [Next]_vars PROVE Unwritten'
<1>a. PendingAccounted'
  BY DEF SafeInv
<1>b. queue \in Seq(Req) /\ inFlight \in Req \union {NoReq}
  BY DEF TypeInv, TypeOK
<1>c. \A S : \A r \in Req : Rejected(S)[r] = "unsent" => outcome[r] = "unsent"
  BY DEF Rejected
<1>d. \A stale : Disconnect(stale) =>
        /\ id' = id /\ \A r \in Req : outcome'[r] = "unsent" => outcome[r] = "unsent"
        /\ Items(queue') \subseteq Items(queue)
  <2> SUFFICES ASSUME NEW stale, Disconnect(stale)
               PROVE  /\ id' = id /\ \A r \in Req : outcome'[r] = "unsent" => outcome[r] = "unsent"
                      /\ Items(queue') \subseteq Items(queue)
    OBVIOUS
  <2>1. id' = id /\ (queue' = queue \/ queue' = <<>>)
        /\ (outcome' = Rejected(InFlightSet) \/ outcome' = Rejected(FailAll))
    BY DEF Disconnect
  <2> QED
    BY <2>1, <1>c, EmptyItems
<1>1. CASE UNCHANGED vars
  BY <1>1, <1>a, StaysUnwritten DEF vars, clientVars
<1>2. ASSUME NEW r \in Req, Send(r) PROVE Unwritten'
  <2>1. CASE closedByUser \/ state = "closed"
    <3>1. outcome' = [outcome EXCEPT ![r] = "rejected"] /\ queue' = queue /\ id' = id
      BY <1>2, <2>1 DEF Send
    <3>2. \A s \in Req : outcome'[s] = "unsent" => outcome[s] = "unsent"
      BY <1>2, <3>1 DEF Send
    <3> QED
      BY <1>a, <3>1, <3>2, StaysUnwritten
  <2>2. CASE ~(closedByUser \/ state = "closed")
    <3> DEFINE q == Append(queue, r)
    <3>1. /\ outcome' = [outcome EXCEPT ![r] = "pending"] /\ outcome[r] = "unsent"
          /\ Pump(state, q, inFlight, staleIds)
      BY <1>2, <2>2 DEF Send, Enqueue
    <3>2. q \in Seq(Req) /\ Items(q) = Items(queue) \union {r}
      BY <1>b, AppendItems
    <3> HIDE DEF q
    <3>3. (\A s \in Req : s # inFlight' => id'[s] = id[s]) /\ Items(queue') \subseteq Items(q)
      BY <3>1, <3>2, PumpFrame
    <3>4. \A s \in Req : outcome'[s] = "unsent" => outcome[s] = "unsent"
      BY <3>1 DEF TypeInv, TypeOK
    <3>5. \A s \in Req : s \in Items(queue') => s \in Items(queue) \/ outcome[s] = "unsent"
      BY <3>1, <3>2, <3>3
    <3> QED
      BY <1>a, <3>3, <3>4, <3>5, StaysUnwritten
  <2> QED
    BY <2>1, <2>2
<1>3. CASE Close
  <2>1. id' = id /\ queue' = <<>> /\ outcome' = Rejected(FailAll)
    BY <1>3 DEF Close
  <2> QED
    BY <1>a, <1>c, <2>1, EmptyItems, StaysUnwritten
<1>4. CASE Redial
  BY <1>4, <1>a, StaysUnwritten DEF Redial
<1>5. CASE ConnectTimeout
  BY <1>5, <1>a, <1>d, StaysUnwritten DEF ConnectTimeout
<1>6. CASE RequestTimeout
  <2>1. CASE \E stale : Disconnect(stale)
    BY <2>1, <1>a, <1>d, StaysUnwritten
  <2>2. CASE \E stale : /\ outcome' = [outcome EXCEPT ![inFlight] = "rejected"]
                        /\ Pump(state, queue, NoReq, stale)
    <3>1. (\A s \in Req : s # inFlight' => id'[s] = id[s]) /\ Items(queue') \subseteq Items(queue)
      BY <2>2, <1>b, PumpFrame
    <3>2. \A s \in Req : outcome'[s] = "unsent" => outcome[s] = "unsent"
      BY <2>2 DEF TypeInv, TypeOK
    <3> QED
      BY <1>a, <3>1, <3>2, StaysUnwritten
  <2> QED
    BY <1>6, <2>1, <2>2 DEF RequestTimeout
<1>7. ASSUME NEW c \in Conn, SocketEvent(c) PROVE Unwritten'
  <2>1. CASE Established(c) \/ OnDrain(c)
    BY <2>1, <1>a, StaysUnwritten DEF Established, OnDrain
  <2>2. CASE ConnectError(c) \/ SocketClosed(c) \/ OnProtocolError(c)
    <3>1. Disconnect(staleIds) \/ UNCHANGED clientVars
      BY <2>2 DEF ConnectError, SocketClosed, OnProtocolError
    <3> QED
      BY <3>1, <1>a, <1>d, StaysUnwritten DEF clientVars
  <2>3. CASE OnHandshake(c) \/ OnMessage(c)
    <3>1. \/ Pump("open", queue, inFlight, staleIds) \/ Pump(state, queue, NoReq, staleIds)
          \/ UNCHANGED <<queue, id>>
      BY <2>3 DEF OnHandshake, OnMessage
    <3>2. (\A s \in Req : s # inFlight' => id'[s] = id[s]) /\ Items(queue') \subseteq Items(queue)
      BY <3>1, <1>b, PumpFrame
    <3>3. outcome' = outcome \/ outcome' = [outcome EXCEPT ![inFlight] = "resolved"]
      BY <2>3 DEF OnHandshake, OnMessage
    <3>4. \A s \in Req : outcome'[s] = "unsent" => outcome[s] = "unsent"
      BY <3>3 DEF TypeInv, TypeOK
    <3> QED
      BY <1>a, <3>2, <3>4, StaysUnwritten
  <2> QED
    BY <1>7, <2>1, <2>2, <2>3 DEF SocketEvent
<1>8. ASSUME NEW c \in Conn, KiCad(c) PROVE Unwritten'
  BY <1>8, <1>a, StaysUnwritten DEF KiCad, Greet, Serve, Babble, clientVars
<1> QED
  BY <1>1, <1>2, <1>3, <1>4, <1>5, <1>6, <1>7, <1>8 DEF Next

LEMMA PumpSilent ==
  ASSUME TypeInv, SafeInv, Silent, NEW st, NEW q \in Seq(Req), NEW f, NEW stale, Pump(st, q, f, stale),
         UNCHANGED <<connected, sock>>,
         \A c \in Conn : sock[c] \in {"free", "dialing"} => replies'[c] = replies[c]
  PROVE  Silent'
<1>1. (~connected => wire' = wire /\ backlog' = backlog) /\ \A c \in Conn : c # conn => wire'[c] = wire[c]
  BY PumpFrame
<1>2. connected /\ conn \in Conn => sock[conn] \notin {"free", "dialing"}
  BY TransportAssumption DEF SafeInv, CurrentSocket, Live
<1>3. \A c \in Conn : sock[c] \in {"free", "dialing"} => wire'[c] = wire[c]
  BY <1>1, <1>2
<1> QED
  BY <1>1, <1>3 DEF Silent

LEMMA SilentHolds ==
  ASSUME TypeInv, SafeInv, Silent, [Next]_vars PROVE Silent'
<1>a. /\ queue \in Seq(Req) /\ sock \in [Conn -> {"free", "dialing", "up", "greeted", "ended"}]
      /\ wire \in [Conn -> Seq(Piece)] /\ replies \in [Conn -> Seq(Req \union {Handshake, Garbage})]
  BY DEF TypeInv, TypeOK
<1>b. \A c : EndSocket(c) => \A d \in Conn : sock'[d] \in {"free", "dialing"} => sock[d] = sock'[d]
  BY <1>a DEF EndSocket
<1>c. \A c \in Conn : FreeSocket(c) => \A d \in Conn : sock'[d] \in {"free", "dialing"} =>
        \/ wire'[d] = <<>> /\ replies'[d] = <<>>
        \/ sock[d] = sock'[d] /\ wire'[d] = wire[d] /\ replies'[d] = replies[d]
  BY <1>a DEF FreeSocket
<1>1. CASE UNCHANGED vars
  BY <1>1 DEF Silent, vars, clientVars
<1>2. ASSUME NEW r \in Req, Send(r) PROVE Silent'
  <2>1. CASE closedByUser \/ state = "closed"
    BY <1>2, <2>1 DEF Send, Silent
  <2>2. CASE ~(closedByUser \/ state = "closed")
    <3>1. Pump(state, Append(queue, r), inFlight, staleIds) /\ UNCHANGED <<connected, sock, replies>>
      BY <1>2, <2>2 DEF Send, Enqueue
    <3>2. Append(queue, r) \in Seq(Req)
      BY <1>a, AppendProperties
    <3> QED
      BY <3>1, <3>2, PumpSilent
  <2> QED
    BY <2>1, <2>2
<1>3. CASE Close
  BY <1>3, <1>b DEF Close, LoseConnection, Silent
<1>4. CASE Redial
  <2>1. PICK c \in Conn : sock[c] = "free" /\ sock' = [sock EXCEPT ![c] = "dialing"]
    BY <1>4 DEF Redial
  <2>2. backlog' = <<>> /\ UNCHANGED <<wire, replies>>
    BY <1>4 DEF Redial
  <2> QED
    BY <1>a, <2>1, <2>2 DEF Silent
<1>5. CASE ConnectTimeout
  BY <1>5, <1>b DEF ConnectTimeout, Disconnect, LoseConnection, Silent
<1>6. CASE RequestTimeout
  <2>1. CASE \E stale : Disconnect(stale) /\ EndSocket(conn) /\ UNCHANGED <<wire, replies>>
    BY <2>1, <1>b DEF Disconnect, LoseConnection, Silent
  <2>2. CASE \E stale : Pump(state, queue, NoReq, stale) /\ UNCHANGED <<connected, sock, replies>>
    BY <2>2, <1>a, PumpSilent
  <2> QED
    BY <1>6, <2>1, <2>2 DEF RequestTimeout
<1>7. ASSUME NEW c \in Conn, SocketEvent(c) PROVE Silent'
  <2>1. CASE Established(c)
    <3>1. /\ UNCHANGED <<wire, replies, backlog>> /\ (connected' = TRUE \/ connected' = connected)
          /\ \A d \in Conn : sock'[d] \in {"free", "dialing"} => sock[d] = sock'[d]
      BY <1>a, <2>1 DEF Established
    <3> QED
      BY <3>1 DEF Silent
  <2>2. CASE ConnectError(c) \/ SocketClosed(c)
    <3>1. FreeSocket(c) /\ (backlog' = <<>> \/ UNCHANGED <<backlog, connected>>)
      BY <2>2 DEF ConnectError, SocketClosed, Disconnect, LoseConnection, clientVars
    <3> QED
      BY <1>c, <3>1 DEF Silent
  <2>3. CASE OnProtocolError(c)
    <3>1. PICK k \in DOMAIN replies[c] : replies' = [replies EXCEPT ![c] = SubSeq(@, k + 1, Len(@))]
      BY <2>3 DEF OnProtocolError
    <3>2. (EndSocket(c) \/ sock' = sock) /\ wire' = wire /\ (backlog' = <<>> \/ UNCHANGED <<backlog, connected>>)
      BY <2>3 DEF OnProtocolError, Disconnect, LoseConnection, clientVars
    <3>3. \A d \in Conn : sock'[d] \in {"free", "dialing"} => sock[d] = sock'[d]
      BY <1>b, <3>2
    <3>4. sock[c] \notin {"free", "dialing"}
      BY <2>3 DEF OnProtocolError, Live
    <3>5. \A d \in Conn : d # c => replies'[d] = replies[d]
      BY <1>a, <3>1
    <3> QED
      BY <3>2, <3>3, <3>4, <3>5 DEF Silent
  <2>4. CASE OnHandshake(c) \/ OnMessage(c)
    <3>1. /\ replies' = [replies EXCEPT ![c] = Tail(@)] /\ UNCHANGED <<connected, sock>>
          /\ sock[c] \notin {"free", "dialing"}
      BY <2>4 DEF OnHandshake, OnMessage, Consume, Live
    <3>2. \A d \in Conn : sock[d] \in {"free", "dialing"} => replies'[d] = replies[d]
      BY <1>a, <3>1
    <3>3. \/ Pump("open", queue, inFlight, staleIds) \/ Pump(state, queue, NoReq, staleIds)
          \/ UNCHANGED <<wire, backlog>>
      BY <2>4 DEF OnHandshake, OnMessage
    <3>4. CASE UNCHANGED <<wire, backlog>>
      BY <3>1, <3>2, <3>4 DEF Silent
    <3> QED
      BY <1>a, <3>1, <3>2, <3>3, <3>4, PumpSilent
  <2>5. CASE OnDrain(c)
    <3>1. WriteAll(c, backlog, <<>>) /\ UNCHANGED <<connected, sock, replies>> /\ connected /\ conn = c
      BY <2>5 DEF OnDrain
    <3>2. \A d \in Conn : d # c => wire'[d] = wire[d]
      BY <1>a, <3>1 DEF WriteAll
    <3>3. sock[c] \notin {"free", "dialing"}
      BY <3>1, TransportAssumption DEF SafeInv, CurrentSocket, Live
    <3> QED
      BY <3>1, <3>2, <3>3 DEF Silent
  <2> QED
    BY <1>7, <2>1, <2>2, <2>3, <2>4, <2>5 DEF SocketEvent
<1>8. ASSUME NEW c \in Conn, KiCad(c) PROVE Silent'
  <2>1. UNCHANGED <<connected, backlog>> /\ sock[c] \notin {"free", "dialing"}
    BY <1>8 DEF KiCad, Greet, Serve, Babble, clientVars, Live
  <2>2. \A d \in Conn : d # c => sock'[d] = sock[d] /\ wire'[d] = wire[d] /\ replies'[d] = replies[d]
    BY <1>a, <1>8 DEF KiCad, Greet, Serve, Babble
  <2>3. sock'[c] \notin {"free", "dialing"}
    BY <1>a, <1>8, <2>1 DEF KiCad, Greet, Serve, Babble
  <2> QED
    BY <2>1, <2>2, <2>3 DEF Silent
<1> QED
  BY <1>1, <1>2, <1>3, <1>4, <1>5, <1>6, <1>7, <1>8 DEF Next

\* KiCad takes the first frame from the wire and answers it.
LEMMA ServeInLine ==
  ASSUME TypeInv, Line, conn \in Conn, Serve(conn) PROVE LineInv'
<1>1. PICK r \in Req : /\ SubSeq(wire[conn], 1, 2) = Frame(r)
                       /\ replies' = [replies EXCEPT ![conn] = Append(@, r)]
  BY DEF Serve
<1> DEFINE rest == SubSeq(wire[conn], 3, Len(wire[conn]))
<1>2. /\ wire'[conn] = rest /\ replies'[conn] = Append(replies[conn], r)
      /\ UNCHANGED <<conn, backlog, id, inFlight, forgot, staleIds>>
      /\ wire[conn] \in Seq(Piece) /\ replies[conn] \in Seq(Req \union {Handshake, Garbage})
      /\ Len(wire[conn]) >= 2
  BY <1>1 DEF Serve, clientVars, TypeInv, TypeOK
<1>3. rest \in Seq(Piece) /\ wire[conn] = Frame(r) \o rest
  <2>1. Len(wire[conn]) \in Nat
    BY <1>2, LenProperties
  <2>2. 2 \in 0..Len(wire[conn]) /\ 2 + 1 = 3
    BY <1>2, <2>1
  <2> QED
    BY <1>1, <1>2, <2>2, SplitSeq
<1> HIDE DEF rest
<1>4. /\ Items(wire[conn]) = {<<r, 1>>, <<r, 2>>} \union Items(rest)
      /\ {<<r, 1>>, <<r, 2>>} \intersect Items(rest) = {} /\ Distinct(rest)
  <2>1. Distinct(wire[conn])
    BY DEF Line
  <2> QED
    BY <1>3, <2>1, FrameItems, ConcatItems
<1>5. Out(r) /\ r \notin Items(replies[conn])
  BY <1>4 DEF Line, Out, Pieces
<1>6. OnceEach(replies'[conn]) /\ Items(replies'[conn]) = Items(replies[conn]) \union {r}
  BY <1>2, <1>5, AppendOnce DEF Line
<1>7. /\ Distinct(wire'[conn]) /\ Distinct(backlog') /\ Items(wire'[conn]) \intersect Items(backlog') = {}
      /\ Items(wire'[conn]) \union Items(backlog') \subseteq Pieces
      /\ <<r, 1>> \notin Items(wire'[conn]) \union Items(backlog')
  BY <1>2, <1>4 DEF Line, Pieces
<1>8. \A s \in Req : s \in Items(replies'[conn]) =>
                       Out(s) /\ <<s, 1>> \notin Items(wire'[conn]) \union Items(backlog')
  BY <1>5, <1>6, <1>7 DEF Line, Out
<1>9. \A s \in Req : Out(s) => forgot \/ s = inFlight \/ id[s] \in staleIds'
  BY <1>2 DEF Line
<1> QED
  BY <1>2, <1>6, <1>7, <1>8, <1>9, TransportAssumption, LessInLine

LEMMA LineHolds ==
  ASSUME TypeInv, SafeInv, Unwritten, Silent, LineInv, [Next]_vars PROVE LineInv'
<1>a. /\ queue \in Seq(Req) /\ Distinct(queue) /\ \A r \in Req : r \in Items(queue) => id[r] = 0
      /\ conn \in Conn \union {NoConn} /\ NoConn \notin Conn /\ NoReq \notin Req
      /\ inFlight # NoReq => inFlight \in Req /\ conn \in Conn /\ connected /\ state = "open"
  BY QueueFacts
<1>b. \A stale : Disconnect(stale) => LineInv'
  BY DEF Disconnect, LoseConnection, LineInv
<1>c. /\ wire \in [Conn -> Seq(Piece)] /\ backlog \in Seq(Piece)
      /\ replies \in [Conn -> Seq(Req \union {Handshake, Garbage})]
  BY DEF TypeInv, TypeOK
<1>d. conn \in Conn => Line
  BY <1>a DEF LineInv
<1>1. CASE UNCHANGED vars
  BY <1>1, StaysInLine DEF vars, clientVars
<1>2. ASSUME NEW r \in Req, Send(r) PROVE LineInv'
  <2>1. CASE closedByUser \/ state = "closed" \/ conn = NoConn
    <3>1. /\ UNCHANGED <<conn, forgot, replies>>
          /\ UNCHANGED <<wire, backlog, id, inFlight, staleIds>> \/ conn = NoConn
      BY <1>2, <2>1 DEF Send
    <3> QED
      BY <3>1, StaysInLine DEF LineInv
  <2>2. CASE ~(closedByUser \/ state = "closed" \/ conn = NoConn)
    <3> DEFINE q == Append(queue, r)
    <3>1. Pump(state, q, inFlight, staleIds) /\ UNCHANGED <<conn, forgot, replies>> /\ outcome[r] = "unsent"
      BY <1>2, <2>2 DEF Send, Enqueue
    <3>2. r \notin Items(queue) /\ id[r] = 0
      BY <3>1, Accounted DEF SafeInv, Unwritten
    <3>3. q \in Seq(Req) /\ Distinct(q) /\ \A s \in Req : s \in Items(q) => id[s] = 0
      BY <1>a, <3>2, AppendItems
    <3> HIDE DEF q
    <3>4. conn \in Conn /\ Line
      BY <1>a, <1>d, <2>2
    <3>5. OnceEach(replies'[conn]) /\ Items(replies'[conn]) \subseteq Items(replies[conn])
      BY <3>1, <3>4 DEF Line
    <3>6. \A s \in Req : s \in Items(replies'[conn]) \/ <<s, 1>> \in Pieces =>
                           forgot' \/ s = inFlight \/ id[s] \in staleIds
      BY <3>1, <3>4 DEF Line, Out
    <3> QED
      BY <3>1, <3>3, <3>4, <3>5, <3>6, PumpKeepsLine
  <2> QED
    BY <2>1, <2>2
<1>3. CASE Close
  BY <1>3 DEF Close, LoseConnection, LineInv
<1>4. CASE Redial
  <2>1. PICK c \in Conn : sock[c] = "free" /\ conn' = c
    BY <1>4 DEF Redial
  <2>2. wire'[c] = <<>> /\ replies'[c] = <<>> /\ backlog' = <<>>
    BY <1>4, <2>1 DEF Redial, Silent
  <2>3. Pieces' = {} /\ Items(replies[conn])' = {} /\ \A r \in Req : ~Out(r)'
    BY <2>1, <2>2, EmptyItems DEF Pieces, Out, Items
  <2>4. /\ (Distinct(wire[conn]) /\ Distinct(backlog) /\ Items(wire[conn]) \intersect Items(backlog) = {})'
        /\ OnceEach(replies[conn])'
    BY <2>1, <2>2 DEF Distinct, Items, OnceEach
  <2> QED
    BY <2>3, <2>4 DEF LineInv, Line
<1>5. CASE ConnectTimeout
  BY <1>5, <1>b DEF ConnectTimeout
<1>6. CASE RequestTimeout
  <2>1. inFlight \in Req /\ conn \in Conn /\ Line /\ id[inFlight] \in Ids /\ staleIds \subseteq Ids
    BY <1>6, <1>a, <1>d DEF RequestTimeout, TypeInv, TypeOK
  <2>2. PICK stale \in Remember(id[inFlight]) :
          /\ forgot' = (forgot \/ ~(staleIds \subseteq stale))
          /\ IF OnTimeout = "reconnect" THEN Disconnect(stale)
             ELSE Pump(state, queue, NoReq, stale) /\ UNCHANGED <<conn, replies>>
    BY <1>6 DEF RequestTimeout
  <2>3. CASE OnTimeout = "reconnect"
    BY <1>b, <2>2, <2>3
  <2>4. CASE OnTimeout # "reconnect"
    <3>1. id[inFlight] \in stale /\ (forgot' \/ staleIds \subseteq stale)
      BY <2>1, <2>2, RememberType
    <3>2. OnceEach(replies'[conn]) /\ Items(replies'[conn]) \subseteq Items(replies[conn])
      BY <2>1, <2>2, <2>4 DEF Line
    <3>3. \A s \in Req : s \in Items(replies'[conn]) \/ <<s, 1>> \in Pieces =>
                           forgot' \/ s = NoReq \/ id[s] \in stale
      <4> SUFFICES ASSUME NEW s \in Req, Out(s), ~forgot' PROVE id[s] \in stale
        BY <2>2, <2>4 DEF Out
      <4>1. s = inFlight \/ id[s] \in staleIds
        BY <2>1, <2>2 DEF Line
      <4> QED
        BY <3>1, <4>1
    <3> QED
      BY <1>a, <2>1, <2>2, <2>4, <3>2, <3>3, PumpKeepsLine
  <2> QED
    BY <2>3, <2>4
<1>7. ASSUME NEW c \in Conn, SocketEvent(c) PROVE LineInv'
  <2>1. CASE Established(c)
    BY <2>1, StaysInLine DEF Established
  <2>2. CASE ConnectError(c) \/ SocketClosed(c)
    <3>1. CASE conn = c
      BY <1>b, <2>2, <3>1 DEF ConnectError, SocketClosed
    <3>2. CASE conn # c
      <4>1. UNCHANGED clientVars /\ FreeSocket(c)
        BY <2>2, <3>2 DEF ConnectError, SocketClosed
      <4>2. conn # NoConn => wire'[conn] = wire[conn] /\ replies'[conn] = replies[conn]
        BY <1>a, <1>c, <3>2, <4>1 DEF FreeSocket
      <4> QED
        BY <4>1, <4>2, StaysInLine DEF clientVars
    <3> QED
      BY <3>1, <3>2
  <2>3. CASE OnProtocolError(c)
    <3>1. CASE conn = c
      BY <1>b, <2>3, <3>1 DEF OnProtocolError
    <3>2. CASE conn # c
      <4>1. PICK k \in DOMAIN replies[c] : replies' = [replies EXCEPT ![c] = SubSeq(@, k + 1, Len(@))]
        BY <2>3 DEF OnProtocolError
      <4>2. UNCHANGED clientVars /\ wire' = wire
        BY <2>3, <3>2 DEF OnProtocolError
      <4>3. conn # NoConn => wire'[conn] = wire[conn] /\ replies'[conn] = replies[conn]
        BY <1>a, <1>c, <3>2, <4>1, <4>2
      <4> QED
        BY <4>2, <4>3, StaysInLine DEF clientVars
    <3> QED
      BY <3>1, <3>2
  <2>4. CASE OnHandshake(c) \/ OnMessage(c)
    <3>1. Consume(c) /\ replies[c] # <<>> /\ UNCHANGED <<conn, forgot>>
      BY <2>4 DEF OnHandshake, OnMessage
    <3>2. CASE conn # c
      <4>1. UNCHANGED <<backlog, id, inFlight, staleIds, wire>>
        BY <2>4, <3>2 DEF OnHandshake, OnMessage
      <4>2. conn # NoConn => replies'[conn] = replies[conn]
        BY <1>a, <3>1, <3>2, ConsumeOnce
      <4> QED
        BY <3>1, <4>1, <4>2, StaysInLine
    <3>3. CASE conn = c
      <4> DEFINE m == Head(replies[conn])
      <4>1. Line /\ conn \in Conn /\ conn # NoConn
        BY <1>a, <1>d, <3>3
      <4>2. /\ OnceEach(replies'[conn]) /\ Items(replies'[conn]) \subseteq Items(replies[conn])
            /\ m \in Items(replies[conn]) /\ (m \in Req => m \notin Items(replies'[conn]))
        BY <3>1, <3>3, <4>1, ConsumeOnce DEF Line
      <4>3. \A s \in Req : s \in Items(replies'[conn]) \/ <<s, 1>> \in Pieces =>
                             Out(s) /\ (forgot \/ s = inFlight \/ id[s] \in staleIds)
        BY <4>1, <4>2 DEF Line, Out
      <4>4. CASE Pump("open", queue, inFlight, staleIds)
        BY <1>a, <3>1, <4>1, <4>2, <4>3, <4>4, PumpKeepsLine
      <4>5. CASE OnMessage(c) /\ Answers(m)
        <5>1. Pump(state, queue, NoReq, staleIds) /\ m \in Req /\ id[m] = id[inFlight]
          BY <3>3, <4>5 DEF OnMessage, Answers
        <5>2. \A s \in Req : s \in Items(replies'[conn]) \/ <<s, 1>> \in Pieces =>
                               forgot' \/ s = NoReq \/ id[s] \in staleIds
          <6> SUFFICES ASSUME NEW s \in Req, s \in Items(replies'[conn]) \/ <<s, 1>> \in Pieces,
                              ~forgot, s = inFlight
                       PROVE  FALSE
            BY <3>1, <4>3
          <6>1. Out(m) /\ Out(s)
            BY <4>2, <4>3, <5>1 DEF Out
          <6>2. m = s
            BY <4>1, <5>1, <6>1 DEF Line
          <6>3. <<m, 1>> \notin Pieces
            BY <4>1, <4>2, <5>1 DEF Line
          <6> QED
            BY <4>2, <5>1, <6>2, <6>3
        <5> QED
          BY <1>a, <3>1, <4>1, <4>2, <5>1, <5>2, PumpKeepsLine
      <4>6. CASE /\ UNCHANGED <<wire, backlog, id, inFlight>>
                 /\ staleIds' = staleIds \/ (m \in Req /\ staleIds' = staleIds \ {id[m]})
        <5>1. /\ Distinct(wire'[conn]) /\ Distinct(backlog')
              /\ Items(wire'[conn]) \intersect Items(backlog') = {}
              /\ Items(wire'[conn]) \union Items(backlog') = Pieces
          BY <4>1, <4>6 DEF Line, Pieces
        <5>2. \A s \in Req : s \in Items(replies'[conn]) => Out(s) /\ <<s, 1>> \notin Pieces
          BY <4>1, <4>2 DEF Line, Out
        <5>3. \A s \in Req : Out(s) => \/ forgot \/ s = inFlight \/ id[s] \in staleIds'
                                       \/ s \notin Items(replies'[conn]) /\ <<s, 1>> \notin Pieces
          <6> SUFFICES ASSUME NEW s \in Req, Out(s), ~forgot, s # inFlight, id[s] \notin staleIds'
                       PROVE  s \notin Items(replies'[conn]) /\ <<s, 1>> \notin Pieces
            OBVIOUS
          <6>1. id[s] \in staleIds
            BY <4>1 DEF Line
          <6>2. m \in Req /\ id[s] = id[m] /\ Out(m)
            BY <4>2, <4>6, <6>1 DEF Out
          <6>3. s = m
            BY <4>1, <6>2 DEF Line
          <6> QED
            BY <4>1, <4>2, <6>2, <6>3 DEF Line
        <5> QED
          BY <3>1, <4>1, <4>2, <4>6, <5>1, <5>2, <5>3, LessInLine
      <4> QED
        BY <2>4, <3>3, <4>4, <4>5, <4>6 DEF OnHandshake, OnMessage
    <3> QED
      BY <3>2, <3>3
  <2>5. CASE OnDrain(c)
    <3>1. /\ WriteAll(conn, backlog, <<>>) /\ conn \in Conn /\ Line /\ conn # NoConn
          /\ UNCHANGED <<conn, id, inFlight, forgot, staleIds, replies>>
      BY <1>a, <1>d, <2>5 DEF OnDrain
    <3>2. /\ Distinct(wire'[conn]) /\ Distinct(backlog')
          /\ Items(wire'[conn]) \intersect Items(backlog') = {}
          /\ Items(wire'[conn]) \union Items(backlog') \subseteq Pieces
      <4>1. /\ Distinct(wire[conn]) /\ Distinct(backlog)
            /\ Items(backlog) \intersect Items(wire[conn]) = {}
        BY <3>1 DEF Line
      <4>2. <<>> \in Seq(Piece) /\ TypeOK
        BY EmptySeq DEF TypeInv
      <4>3. /\ Items(<<>>) \intersect Items(wire[conn]) = {} /\ Distinct(<<>>)
            /\ Items(backlog) \intersect Items(<<>>) = {}
        BY EmptyItems
      <4>4. /\ Distinct(wire'[conn]) /\ Distinct(backlog')
            /\ Items(wire'[conn]) \intersect Items(backlog') = {}
            /\ Items(wire'[conn]) \union Items(backlog')
                 \subseteq Items(wire[conn]) \union Items(backlog) \union Items(<<>>)
        BY <1>c, <3>1, <4>1, <4>2, <4>3, WriteAllItems
      <4> QED
        BY <4>4, EmptyItems DEF Pieces
    <3>3. \A s \in Req : s \in Items(replies'[conn]) =>
                           Out(s) /\ <<s, 1>> \notin Items(wire'[conn]) \union Items(backlog')
      BY <3>1, <3>2 DEF Line, Out
    <3>4. \A s \in Req : Out(s) => forgot \/ s = inFlight \/ id[s] \in staleIds'
      BY <3>1 DEF Line
    <3>5. OnceEach(replies'[conn])
      BY <3>1 DEF Line
    <3> QED
      BY <3>1, <3>2, <3>3, <3>4, <3>5, LessInLine
  <2> QED
    BY <1>7, <2>1, <2>2, <2>3, <2>4, <2>5 DEF SocketEvent
<1>8. ASSUME NEW c \in Conn, KiCad(c) PROVE LineInv'
  <2>1. CASE conn # c
    <3>1. UNCHANGED clientVars
      BY <1>8 DEF KiCad, Greet, Serve, Babble
    <3>2. conn # NoConn => wire'[conn] = wire[conn] /\ replies'[conn] = replies[conn]
      BY <1>8, <1>a, <1>c, <2>1 DEF KiCad, Greet, Serve, Babble
    <3> QED
      BY <3>1, <3>2, StaysInLine DEF clientVars
  <2>2. CASE conn = c /\ Serve(c)
    BY <1>d, <2>2, ServeInLine
  <2>3. CASE conn = c /\ ~Serve(c)
    <3>1. PICK x \in {Handshake, Garbage} : replies' = [replies EXCEPT ![c] = Append(@, x)]
      BY <1>8, <2>3 DEF KiCad, Greet, Babble
    <3>2. UNCHANGED <<conn, backlog, id, inFlight, forgot, staleIds, wire>>
      BY <1>8, <2>3 DEF KiCad, Greet, Babble, clientVars
    <3>3. Line /\ conn # NoConn
      BY <1>a, <1>d, <2>3
    <3>4. OnceEach(replies'[conn]) /\ Items(replies'[conn]) = Items(replies[conn]) \union {x} /\ x \notin Req
      <4>1. x \notin Req /\ replies'[conn] = Append(replies[conn], x)
            /\ replies[conn] \in Seq(Req \union {Handshake, Garbage})
        BY <1>c, <2>3, <3>1, TransportAssumption
      <4> QED
        BY <3>3, <4>1, AppendOnce DEF Line
    <3>5. \A s \in Req : s \in Items(replies'[conn]) => Out(s) /\ <<s, 1>> \notin Pieces
      BY <3>3, <3>4 DEF Line, Out
    <3>6. \A s \in Req : Out(s) => forgot \/ s = inFlight \/ id[s] \in staleIds'
      BY <3>2, <3>3 DEF Line
    <3>7. /\ Distinct(wire'[conn]) /\ Distinct(backlog')
          /\ Items(wire'[conn]) \intersect Items(backlog') = {}
          /\ Items(wire'[conn]) \union Items(backlog') = Pieces
      BY <3>2, <3>3 DEF Line, Pieces
    <3> QED
      BY <3>2, <3>3, <3>4, <3>5, <3>6, <3>7, LessInLine
  <2> QED
    BY <2>1, <2>2, <2>3
<1> QED
  BY <1>1, <1>2, <1>3, <1>4, <1>5, <1>6, <1>7, <1>8 DEF Next

LEMMA MatchesHold ==
  ASSUME TypeInv, SafeInv, LineInv, ReplyMatches, [Next]_vars PROVE ReplyMatches'
<1>a. /\ outcome \in [Req -> {"unsent", "pending", "resolved", "rejected"}] /\ got \in [Req -> Req \union {NoReq}]
      /\ \A S : \A r \in Req : Rejected(S)[r] = "resolved" => outcome[r] = "resolved"
  BY DEF TypeInv, TypeOK, Rejected
<1>b. \A stale : Disconnect(stale) => /\ got' = got
                                      /\ \A r \in Req : outcome'[r] = "resolved" => outcome[r] = "resolved"
  BY <1>a DEF Disconnect
<1>1. CASE UNCHANGED vars
  BY <1>1, StaysMatched DEF vars, clientVars
<1>2. ASSUME NEW r \in Req, Send(r) PROVE ReplyMatches'
  <2>1. UNCHANGED <<got, forgot>> /\ \A s \in Req : outcome'[s] = "resolved" => outcome[s] = "resolved"
    BY <1>2, <1>a DEF Send
  <2> QED
    BY <2>1, StaysMatched
<1>3. CASE Close
  BY <1>3, <1>a, StaysMatched DEF Close
<1>4. CASE Redial
  BY <1>4, StaysMatched DEF Redial
<1>5. CASE ConnectTimeout
  BY <1>5, <1>b, StaysMatched DEF ConnectTimeout
<1>6. CASE RequestTimeout
  <2>1. (forgot => forgot') /\ (\/ \E stale : Disconnect(stale)
                                \/ outcome' = [outcome EXCEPT ![inFlight] = "rejected"] /\ got' = got)
    BY <1>6 DEF RequestTimeout
  <2>2. got' = got /\ \A r \in Req : outcome'[r] = "resolved" => outcome[r] = "resolved"
    BY <1>a, <1>b, <2>1
  <2> QED
    BY <2>1, <2>2, StaysMatched
<1>7. ASSUME NEW c \in Conn, SocketEvent(c) PROVE ReplyMatches'
  <2>1. CASE Established(c) \/ OnDrain(c) \/ OnHandshake(c)
    BY <2>1, StaysMatched DEF Established, OnDrain, OnHandshake
  <2>2. CASE ConnectError(c) \/ SocketClosed(c) \/ OnProtocolError(c)
    <3>1. (Disconnect(staleIds) /\ UNCHANGED forgot) \/ UNCHANGED clientVars
      BY <2>2 DEF ConnectError, SocketClosed, OnProtocolError
    <3> QED
      BY <1>b, <3>1, StaysMatched DEF clientVars
  <2>3. CASE OnMessage(c)
    <3> DEFINE m == Head(replies[c])
    <3>1. CASE conn = c /\ Answers(m)
      <4>1. /\ outcome' = [outcome EXCEPT ![inFlight] = "resolved"] /\ forgot' = forgot
            /\ got' = [got EXCEPT ![inFlight] = m] /\ m \in Req /\ replies[c] # <<>>
        BY <2>3, <3>1 DEF OnMessage
      <4>2. Line /\ inFlight \in Req /\ id[inFlight] \notin staleIds /\ id[inFlight] = id[m]
        BY <3>1, TransportAssumption DEF LineInv, Answers, TypeInv, TypeOK, SafeInv, FreshId
      <4>3. Out(m)
        <5>1. replies[c] \in Seq(Req \union {Handshake, Garbage})
          BY DEF TypeInv, TypeOK
        <5>2. m \in Items(replies[c])
          BY <4>1, <5>1, TailItems
        <5> QED
          BY <3>1, <5>2 DEF Out
      <4>4. m = inFlight \/ forgot
        BY <4>1, <4>2, <4>3 DEF Line
      <4> QED
        BY <1>a, <4>1, <4>2, <4>4 DEF ReplyMatches
    <3>2. CASE ~(conn = c /\ Answers(m))
      BY <2>3, <3>2, StaysMatched DEF OnMessage
    <3> QED
      BY <3>1, <3>2
  <2> QED
    BY <1>7, <2>1, <2>2, <2>3 DEF SocketEvent
<1>8. ASSUME NEW c \in Conn, KiCad(c) PROVE ReplyMatches'
  BY <1>8, StaysMatched DEF KiCad, Greet, Serve, Babble, clientVars
<1> QED
  BY <1>1, <1>2, <1>3, <1>4, <1>5, <1>6, <1>7, <1>8 DEF Next

\* What is on the line and what has an id agree (pump, onMessage, the request timer).
LEMMA ReplyInvariant == Spec => []ReplyInv
<1>1. Init => ReplyInv
  <2> SUFFICES ASSUME Init PROVE ReplyInv
    OBVIOUS
  <2>1. Unwritten /\ Silent /\ ReplyMatches
    BY DEF Init, Unwritten, Silent, ReplyMatches
  <2>2. wire[conn] = <<>> /\ replies[conn] = <<>> /\ backlog = <<>>
    BY DEF Init
  <2>3. Pieces = {} /\ Items(replies[conn]) = {} /\ \A r \in Req : ~Out(r)
    BY <2>2, EmptyItems DEF Pieces, Out
  <2>4. Distinct(wire[conn]) /\ Distinct(backlog) /\ OnceEach(replies[conn])
        /\ Items(wire[conn]) \intersect Items(backlog) = {}
    BY <2>2 DEF Distinct, OnceEach, Items
  <2> QED
    BY <2>1, <2>3, <2>4 DEF ReplyInv, LineInv, Line
<1>2. TypeInv /\ TypeInv' /\ SafeInv /\ SafeInv' /\ ReplyInv /\ [Next]_vars => ReplyInv'
  BY UnwrittenHolds, SilentHolds, LineHolds, MatchesHold DEF ReplyInv
<1> QED
  BY <1>1, <1>2, TypeInvariant, SafetyInvariant, PTL DEF Spec

\* A promise is resolved with the reply to its own request (onMessage, nng-ipc.ts:347;
\* allocId, :420), until a stale id had to be forgotten.
THEOREM RepliesMatch == Spec => []ReplyMatches
BY ReplyInvariant, PTL DEF ReplyInv

-----------------------------------------------------------------------------
(* Framing, when a request timeout drops the connection: nothing of a frame  *)
(* is left behind by the time the next one is written.                       *)

\* The current connection carries at most the frame of the request in flight.
OneFrame ==
  conn # NoConn =>
    /\ Items(replies[conn]) \intersect Req \subseteq {inFlight}
    /\ \/ wire[conn] = <<>> /\ backlog = <<>>
       \/ inFlight # NoReq /\ wire[conn] \o backlog = Frame(inFlight)

\* A write to a connection without a backlog keeps all its pieces in order.
LEMMA WriteAllJoins ==
  ASSUME TypeOK, NEW c \in Conn, NEW bytes \in Seq(Piece), WriteAll(c, bytes, <<>>)
  PROVE  wire'[c] \o backlog' = wire[c] \o bytes
<1>1. PICK n \in 0..Len(bytes) :
        /\ wire' = [wire EXCEPT ![c] = @ \o SubSeq(bytes, 1, n)]
        /\ backlog' = IF n < Len(bytes) THEN SubSeq(bytes, n + 1, Len(bytes)) ELSE <<>>
  BY DEF WriteAll
<1> DEFINE a == SubSeq(bytes, 1, n)
           b == SubSeq(bytes, n + 1, Len(bytes))
<1>2. a \in Seq(Piece) /\ b \in Seq(Piece) /\ bytes = a \o b
  BY SplitSeq
<1>3. wire[c] \in Seq(Piece) /\ wire'[c] = wire[c] \o a
  BY <1>1 DEF TypeOK
<1>4. backlog' = b
  <2>1. Len(bytes) \in Nat
    BY LenProperties
  <2>2. CASE n < Len(bytes)
    BY <1>1, <2>2
  <2>3. CASE ~(n < Len(bytes))
    <3>1. n = Len(bytes)
      BY <2>1, <2>3
    <3>2. b = <<>>
      BY <2>1, <3>1, SubSeqEmpty
    <3> QED
      BY <1>1, <2>3, <3>2
  <2> QED
    BY <2>2, <2>3
<1> HIDE DEF a, b
<1>5. (wire[c] \o a) \o b = wire[c] \o (a \o b)
  <2>1. \A s, t, u \in Seq(Piece) : (s \o t) \o u = s \o (t \o u)
    BY ConcatAssociative
  <2> QED
    BY <1>2, <1>3, <2>1
<1> QED
  BY <1>2, <1>3, <1>4, <1>5

LEMMA PumpOneFrame ==
  ASSUME TypeInv, conn \in Conn, conn' = conn,
         NEW st, NEW q \in Seq(Req), NEW f \in Req \union {NoReq}, NEW stale, Pump(st, q, f, stale),
         Items(replies'[conn]) \intersect Req \subseteq {f},
         \/ wire[conn] = <<>> /\ backlog = <<>>
         \/ f # NoReq /\ wire[conn] \o backlog = Frame(f)
  PROVE  OneFrame'
<1>1. CASE CanPump(st, q, f)
  <2>1. inFlight' = Head(q) /\ Head(q) \in Req /\ WriteAll(conn, Frame(Head(q)), backlog)
    BY <1>1, HeadTailProperties DEF Pump, CanPump
  <2>2. f = NoReq /\ wire[conn] = <<>> /\ backlog = <<>>
    BY <1>1 DEF CanPump
  <2>3. wire'[conn] \o backlog' = <<>> \o Frame(Head(q)) /\ Frame(Head(q)) \in Seq(Piece)
    BY <2>1, <2>2, FrameType, WriteAllJoins DEF TypeInv
  <2>4. wire'[conn] \o backlog' = Frame(Head(q))
    BY <2>3, ConcatEmptySeq
  <2>5. Items(replies[conn])' \intersect Req = {} /\ inFlight' # NoReq
    <3>1. Items(replies[conn])' = Items(replies'[conn])
      BY DEF Items
    <3> QED
      BY <2>1, <2>2, <3>1, TransportAssumption
  <2>6. (wire[conn] \o backlog = Frame(inFlight))'
    <3>1. Frame(inFlight)' = Frame(Head(q))
      BY <2>1 DEF Frame
    <3> QED
      BY <2>4, <3>1
  <2>7. (Items(replies[conn]) \intersect Req \subseteq {inFlight})'
    BY <2>5
  <2> QED
    BY <2>5, <2>6, <2>7, Zenon DEF OneFrame
<1>2. CASE ~CanPump(st, q, f)
  <2>1. inFlight' = f /\ UNCHANGED <<wire, backlog>>
    BY <1>2 DEF Pump
  <2> QED
    BY <2>1 DEF OneFrame, Items
<1> QED
  BY <1>1, <1>2

LEMMA OneFrameHolds ==
  ASSUME OnTimeout = "reconnect", TypeInv, SafeInv, Silent, LineInv, OneFrame, [Next]_vars
  PROVE  OneFrame'
<1>a. /\ queue \in Seq(Req) /\ inFlight \in Req \union {NoReq}
      /\ conn \in Conn \union {NoConn} /\ NoConn \notin Conn /\ NoReq \notin Req
      /\ inFlight # NoReq => conn \in Conn
      /\ wire \in [Conn -> Seq(Piece)] /\ backlog \in Seq(Piece)
      /\ replies \in [Conn -> Seq(Req \union {Handshake, Garbage})]
  BY TransportAssumption DEF TypeInv, TypeOK, SafeInv, NoLostPump
<1>b. \A stale : Disconnect(stale) => OneFrame'
  BY DEF Disconnect, LoseConnection, OneFrame
<1>c. ASSUME UNCHANGED <<conn, backlog, inFlight>>,
             conn # NoConn => wire'[conn] = wire[conn] /\ replies'[conn] = replies[conn]
      PROVE  OneFrame'
  BY <1>c DEF OneFrame, Items
<1>1. CASE UNCHANGED vars
  BY <1>1, <1>c DEF vars, clientVars
<1>2. ASSUME NEW r \in Req, Send(r) PROVE OneFrame'
  <2>1. CASE closedByUser \/ state = "closed"
    BY <1>2, <2>1, <1>c DEF Send
  <2>2. CASE conn = NoConn
    BY <1>2, <2>2 DEF Send, OneFrame
  <2>3. CASE ~(closedByUser \/ state = "closed") /\ conn # NoConn
    <3>1. Pump(state, Append(queue, r), inFlight, staleIds) /\ UNCHANGED <<conn, replies>>
      BY <1>2, <2>3 DEF Send, Enqueue
    <3>2. Append(queue, r) \in Seq(Req) /\ conn \in Conn
      BY <1>a, <2>3, AppendProperties
    <3> QED
      BY <1>a, <2>3, <3>1, <3>2, PumpOneFrame DEF OneFrame
  <2> QED
    BY <2>1, <2>2, <2>3
<1>3. CASE Close
  BY <1>3 DEF Close, LoseConnection, OneFrame
<1>4. CASE Redial
  <2>1. PICK c \in Conn : sock[c] = "free" /\ conn' = c
    BY <1>4 DEF Redial
  <2>2. wire'[c] = <<>> /\ replies'[c] = <<>> /\ backlog' = <<>>
    BY <1>4, <2>1 DEF Redial, Silent
  <2> QED
    BY <2>1, <2>2, EmptyItems DEF OneFrame, Items
<1>5. CASE ConnectTimeout
  BY <1>5, <1>b DEF ConnectTimeout
<1>6. CASE RequestTimeout
  BY <1>6, <1>b DEF RequestTimeout
<1>7. ASSUME NEW c \in Conn, SocketEvent(c) PROVE OneFrame'
  <2>1. CASE Established(c)
    BY <2>1, <1>c DEF Established
  <2>2. CASE ConnectError(c) \/ SocketClosed(c)
    <3>1. CASE conn = c
      BY <1>b, <2>2, <3>1 DEF ConnectError, SocketClosed
    <3>2. CASE conn # c
      <4>1. UNCHANGED clientVars /\ FreeSocket(c)
        BY <2>2, <3>2 DEF ConnectError, SocketClosed
      <4>2. conn # NoConn => wire'[conn] = wire[conn] /\ replies'[conn] = replies[conn]
        BY <1>a, <3>2, <4>1 DEF FreeSocket
      <4> QED
        BY <4>1, <4>2, <1>c DEF clientVars
    <3> QED
      BY <3>1, <3>2
  <2>3. CASE OnProtocolError(c)
    <3>1. CASE conn = c
      BY <1>b, <2>3, <3>1 DEF OnProtocolError
    <3>2. CASE conn # c
      <4>1. PICK k \in DOMAIN replies[c] : replies' = [replies EXCEPT ![c] = SubSeq(@, k + 1, Len(@))]
        BY <2>3 DEF OnProtocolError
      <4>2. UNCHANGED clientVars /\ wire' = wire
        BY <2>3, <3>2 DEF OnProtocolError
      <4>3. conn # NoConn => wire'[conn] = wire[conn] /\ replies'[conn] = replies[conn]
        BY <1>a, <3>2, <4>1, <4>2
      <4> QED
        BY <4>2, <4>3, <1>c DEF clientVars
    <3> QED
      BY <3>1, <3>2
  <2>4. CASE OnHandshake(c) \/ OnMessage(c)
    <3>1. Consume(c) /\ replies[c] # <<>> /\ conn' = conn
      BY <2>4 DEF OnHandshake, OnMessage
    <3>2. CASE conn # c
      <4>1. UNCHANGED <<backlog, inFlight, wire>>
        BY <2>4, <3>2 DEF OnHandshake, OnMessage
      <4>2. conn # NoConn => replies'[conn] = replies[conn]
        BY <1>a, <3>1, <3>2, ConsumeOnce
      <4> QED
        BY <3>1, <4>1, <4>2, <1>c
    <3>3. CASE conn = c
      <4> DEFINE m == Head(replies[conn])
      <4>1. Line /\ conn \in Conn /\ conn # NoConn
        BY <1>a, <3>3 DEF LineInv
      <4>2. /\ Items(replies'[conn]) \subseteq Items(replies[conn])
            /\ m \in Items(replies[conn]) /\ (m \in Req => m \notin Items(replies'[conn]))
        BY <3>1, <3>3, <4>1, ConsumeOnce DEF Line
      <4>3. /\ Items(replies'[conn]) \intersect Req \subseteq {inFlight}
            /\ \/ wire[conn] = <<>> /\ backlog = <<>>
               \/ inFlight # NoReq /\ wire[conn] \o backlog = Frame(inFlight)
        BY <4>1, <4>2 DEF OneFrame
      <4>4. CASE OnHandshake(c)
        <5>1. CASE Pump("open", queue, inFlight, staleIds)
          BY <1>a, <3>1, <4>1, <4>3, <5>1, PumpOneFrame
        <5>2. CASE UNCHANGED <<inFlight, wire, backlog>>
          BY <3>1, <4>3, <5>2 DEF OneFrame, Items
        <5> QED
          BY <4>4, <5>1, <5>2 DEF OnHandshake
      <4>5. CASE OnMessage(c)
        <5>1. m \in Req /\ m = inFlight
          BY <3>3, <4>1, <4>2, <4>5 DEF OnMessage, OneFrame
        <5>2. Pump(state, queue, NoReq, staleIds)
          BY <1>a, <3>3, <4>5, <5>1 DEF OnMessage, Answers
        <5>3. Items(replies'[conn]) \intersect Req \subseteq {NoReq}
          BY <4>2, <4>3, <5>1
        <5>4. <<m, 1>> \notin Items(wire[conn]) \union Items(backlog)
          BY <4>1, <4>2, <5>1 DEF Line, Pieces
        <5>5. wire[conn] = <<>> /\ backlog = <<>>
          <6> SUFFICES ASSUME wire[conn] \o backlog = Frame(m) PROVE FALSE
            BY <4>3, <5>1
          <6>1. Items(wire[conn] \o backlog) = Items(wire[conn]) \union Items(backlog)
            <7>1. wire[conn] \in Seq(Piece) /\ backlog \in Seq(Piece)
              BY <1>a, <4>1
            <7>2. \A s, t \in Seq(Piece) : Items(s \o t) = Items(s) \union Items(t)
              BY ConcatItems
            <7> QED
              BY <7>1, <7>2
          <6>2. <<m, 1>> \in Items(Frame(m))
            BY <5>1, FrameItems
          <6> QED
            BY <5>4, <6>1, <6>2, Zenon
        <5> QED
          BY <1>a, <3>1, <4>1, <5>2, <5>3, <5>5, PumpOneFrame
      <4> QED
        BY <2>4, <4>4, <4>5
    <3> QED
      BY <3>2, <3>3
  <2>5. CASE OnDrain(c)
    <3>1. /\ WriteAll(conn, backlog, <<>>) /\ conn \in Conn /\ backlog # <<>>
          /\ UNCHANGED <<conn, inFlight, replies>>
      BY <2>5 DEF OnDrain
    <3>2. wire'[conn] \o backlog' = wire[conn] \o backlog
      BY <1>a, <3>1, WriteAllJoins DEF TypeInv
    <3> QED
      BY <1>a, <3>1, <3>2 DEF OneFrame, Items
  <2> QED
    BY <1>7, <2>1, <2>2, <2>3, <2>4, <2>5 DEF SocketEvent
<1>8. ASSUME NEW c \in Conn, KiCad(c) PROVE OneFrame'
  <2>0. UNCHANGED clientVars
    BY <1>8 DEF KiCad, Greet, Serve, Babble
  <2>1. CASE conn # c
    <3>1. conn # NoConn => wire'[conn] = wire[conn] /\ replies'[conn] = replies[conn]
      BY <1>8, <1>a, <2>1 DEF KiCad, Greet, Serve, Babble
    <3> QED
      BY <2>0, <3>1, <1>c DEF clientVars
  <2>2. CASE conn = c /\ Serve(c)
    <3>1. PICK r \in Req : /\ SubSeq(wire[c], 1, 2) = Frame(r)
                           /\ replies' = [replies EXCEPT ![c] = Append(@, r)]
      BY <2>2 DEF Serve
    <3>2. wire'[c] = SubSeq(wire[c], 3, Len(wire[c])) /\ Len(wire[c]) >= 2 /\ wire[c] \in Seq(Piece)
          /\ replies'[c] = Append(replies[c], r) /\ replies[c] \in Seq(Req \union {Handshake, Garbage})
      BY <1>a, <2>2, <3>1 DEF Serve
    <3>3. wire[c] # <<>> /\ Len(wire[c]) \in Nat /\ Len(backlog) \in Nat
      BY <1>a, <3>2, LenProperties, EmptySeq
    <3>4. inFlight \in Req /\ wire[c] \o backlog = Frame(inFlight)
      BY <1>a, <2>2, <3>3 DEF OneFrame
    <3>5. Len(wire[c]) = 2 /\ backlog = <<>>
      <4>1. Len(wire[c] \o backlog) = Len(wire[c]) + Len(backlog)
        BY <1>a, <3>2, ConcatProperties
      <4>2. Len(wire[c] \o backlog) = 2
        BY <3>4, FrameType, Zenon
      <4>3. Len(wire[c]) = 2 /\ Len(backlog) = 0
        <5>1. \A a, b \in Nat : a >= 2 /\ a + b = 2 => a = 2 /\ b = 0
          OBVIOUS
        <5> QED
          BY <3>2, <3>3, <4>1, <4>2, <5>1, Zenon
      <4> QED
        BY <1>a, <4>3, EmptySeq, Zenon
    <3>6. wire[c] = Frame(inFlight)
      BY <3>2, <3>4, <3>5, ConcatEmptySeq
    <3>7. r = inFlight
      <4>1. SubSeq(wire[c], 1, 2) = wire[c]
        BY <3>2, <3>5, SubSeqFull
      <4>2. Frame(r) = Frame(inFlight)
        BY <3>1, <3>6, <4>1
      <4>3. Frame(r)[1] = <<r, 1>> /\ Frame(inFlight)[1] = <<inFlight, 1>>
        BY DEF Frame
      <4> QED
        BY <4>2, <4>3
    <3>8. wire'[c] = <<>>
      BY <3>2, <3>5, SubSeqEmpty
    <3>9. Items(replies'[c]) = Items(replies[c]) \union {r}
      BY <3>2, AppendItems
    <3> QED
      BY <2>0, <2>2, <3>5, <3>7, <3>8, <3>9 DEF OneFrame, clientVars, Items
  <2>3. CASE conn = c /\ ~Serve(c)
    <3>1. PICK x \in {Handshake, Garbage} : replies' = [replies EXCEPT ![c] = Append(@, x)]
      BY <1>8, <2>3 DEF KiCad, Greet, Babble
    <3>2. wire' = wire /\ x \notin Req
      BY <1>8, <2>3, TransportAssumption DEF KiCad, Greet, Babble
    <3>3. Items(replies'[c]) = Items(replies[c]) \union {x}
      <4>1. replies'[c] = Append(replies[c], x) /\ replies[c] \in Seq(Req \union {Handshake, Garbage})
        BY <1>a, <3>1
      <4> QED
        BY <4>1, AppendItems
    <3> QED
      BY <2>0, <2>3, <3>2, <3>3 DEF OneFrame, clientVars, Items
  <2> QED
    BY <2>1, <2>2, <2>3
<1> QED
  BY <1>1, <1>2, <1>3, <1>4, <1>5, <1>6, <1>7, <1>8 DEF Next

\* When a request timeout drops the connection (onTimeout, nng-ipc.ts:410) the
\* backlog always completes a frame: short writes cannot garble what follows.
THEOREM FramesStayWhole ==
  ASSUME OnTimeout = "reconnect"
  PROVE  Spec => []WellFramed
<1>1. Init => OneFrame
  <2> SUFFICES ASSUME Init PROVE OneFrame
    OBVIOUS
  <2>1. wire[conn] = <<>> /\ backlog = <<>> /\ replies[conn] = <<>>
    BY DEF Init
  <2> QED
    BY <2>1, EmptyItems DEF OneFrame
<1>2. TypeInv /\ SafeInv /\ ReplyInv /\ OneFrame /\ [Next]_vars => OneFrame'
  BY OneFrameHolds DEF ReplyInv
<1>3. TypeInv /\ OneFrame => WellFramed
  <2> SUFFICES ASSUME TypeInv, OneFrame, conn # NoConn
               PROVE  LET s == wire[conn] \o backlog IN
                      /\ Len(s) % 2 = 0
                      /\ \A k \in 1..(Len(s) \div 2) :
                           \E r \in Req : SubSeq(s, 2 * k - 1, 2 * k) = Frame(r)
    BY DEF WellFramed
  <2> DEFINE s == wire[conn] \o backlog
  <2>1. CASE wire[conn] = <<>> /\ backlog = <<>>
    <3>1. s = <<>> /\ Len(s) = 0
      BY <2>1, EmptySeq, ConcatEmptySeq
    <3> QED
      BY <3>1
  <2>2. CASE inFlight # NoReq /\ s = Frame(inFlight)
    <3>1. inFlight \in Req /\ s \in Seq(Piece) /\ Len(s) = 2
      BY <2>2, FrameType DEF TypeInv, TypeOK
    <3>2. SubSeq(s, 1, 2) = Frame(inFlight)
      BY <2>2, <3>1, SubSeqFull
    <3> HIDE DEF s
    <3>3. Len(s) % 2 = 0 /\ \A k \in 1..(Len(s) \div 2) : 2 * k - 1 = 1 /\ 2 * k = 2
      BY <3>1
    <3> QED
      BY <3>1, <3>2, <3>3 DEF s
  <2> QED
    BY <2>1, <2>2 DEF OneFrame
<1> QED
  BY <1>1, <1>2, <1>3, TypeInvariant, SafetyInvariant, ReplyInvariant, PTL DEF Spec
=============================================================================
