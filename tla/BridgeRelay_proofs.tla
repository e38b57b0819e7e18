------------------------- MODULE BridgeRelay_proofs -------------------------
(***************************************************************************)
(* Theorems about BridgeRelay for every set of clients and requests, every  *)
(* size of the id space and any number of restarts.                         *)
(***************************************************************************)
EXTENDS BridgeRelay, SequenceTheorems, FiniteSetTheorems, TLAPS

Frames == {<<"hello">>} \union ({"reply", "error"} \X Req)

-----------------------------------------------------------------------------
(* What is in a sequence. *)

LEMMA FunctionSeq ==
  ASSUME NEW S, NEW n \in Nat, NEW f \in [1..n -> S]
  PROVE  f \in Seq(S) /\ Len(f) = n /\ Elements(f) \subseteq S
BY DEF Elements

LEMMA TailElements ==
  ASSUME NEW S, NEW s \in Seq(S), s # <<>>
  PROVE  /\ Tail(s) \in Seq(S) /\ Head(s) \in S
         /\ Elements(Tail(s)) \subseteq Elements(s) /\ Head(s) \in Elements(s)
<1>1. /\ DOMAIN s = 1..Len(s) /\ Len(s) \in Nat /\ Len(s) >= 1 /\ Head(s) = s[1]
      /\ DOMAIN Tail(s) = 1..(Len(s) - 1) /\ Tail(s) \in Seq(S) /\ Head(s) \in S
  BY LenProperties, HeadTailProperties, EmptySeq
<1>2. \A k \in 1..(Len(s) - 1) : Tail(s)[k] = s[k + 1] /\ k + 1 \in 1..Len(s)
  BY HeadTailProperties, <1>1
<1>3. 1 \in 1..Len(s)
  BY <1>1
<1> QED
  BY <1>1, <1>2, <1>3 DEF Elements

LEMMA AppendElements ==
  ASSUME NEW S, NEW s \in Seq(S), NEW x \in S
  PROVE  Append(s, x) \in Seq(S) /\ Elements(Append(s, x)) = Elements(s) \union {x}
<1>1. /\ DOMAIN s = 1..Len(s) /\ Len(s) \in Nat
      /\ DOMAIN Append(s, x) = 1..(Len(s) + 1) /\ Append(s, x) \in Seq(S)
      /\ \A k \in 1..Len(s) : Append(s, x)[k] = s[k]
      /\ Append(s, x)[Len(s) + 1] = x
  BY LenProperties, AppendProperties
<1>2. 1..(Len(s) + 1) = 1..Len(s) \union {Len(s) + 1}
  BY <1>1
<1> QED
  BY <1>1, <1>2 DEF Elements

LEMMA PrefixElements ==
  ASSUME NEW S, NEW s \in Seq(S), NEW n \in 0..Len(s)
  PROVE  SubSeq(s, 1, n) \in Seq(S) /\ Elements(SubSeq(s, 1, n)) \subseteq Elements(s)
<1>1. DOMAIN s = 1..Len(s) /\ Len(s) \in Nat /\ \A i \in 1..Len(s) : s[i] \in S
  BY LenProperties
<1>2. /\ SubSeq(s, 1, n) \in Seq(S) /\ Len(SubSeq(s, 1, n)) = n
      /\ \A i \in 1..n : SubSeq(s, 1, n)[i] = s[i]
  BY <1>1, SubSeqProperties
<1>3. DOMAIN SubSeq(s, 1, n) = 1..n
  BY <1>2, LenProperties
<1> QED
  BY <1>1, <1>2, <1>3 DEF Elements

LEMMA ConcatElements ==
  ASSUME NEW S, NEW s \in Seq(S), NEW t \in Seq(S)
  PROVE  s \o t \in Seq(S) /\ Elements(s \o t) \subseteq Elements(s) \union Elements(t)
<1> DEFINE m == Len(s)
           n == Len(t)
           u == s \o t
<1>1. /\ m \in Nat /\ n \in Nat /\ DOMAIN s = 1..m /\ DOMAIN t = 1..n
      /\ u \in Seq(S) /\ Len(u) = m + n
      /\ \A i \in 1..(m + n) : u[i] = IF i <= m THEN s[i] ELSE t[i - m]
  BY LenProperties, ConcatProperties
<1>2. DOMAIN u = 1..(m + n)
  BY <1>1, LenProperties
<1> HIDE DEF m, n, u
<1>3. ASSUME NEW i \in 1..(m + n) PROVE u[i] \in Elements(s) \union Elements(t)
  <2>1. CASE i <= m
    <3>1. i \in 1..m /\ u[i] = s[i]
      BY <1>1, <1>3, <2>1
    <3> QED
      BY <1>1, <3>1 DEF Elements
  <2>2. CASE ~(i <= m)
    <3>1. i - m \in 1..n /\ u[i] = t[i - m]
      BY <1>1, <1>3, <2>2
    <3> QED
      BY <1>1, <3>1 DEF Elements
  <2> QED
    BY <2>1, <2>2
<1>4. Elements(u) \subseteq Elements(s) \union Elements(t)
  BY <1>2, <1>3 DEF Elements
<1> QED
  BY <1>1, <1>4 DEF u

\* The frames for some places of a sequence are frames for its elements.
LEMMA OrderedFrames ==
  ASSUME NEW s \in Seq(Req), NEW S \in SUBSET (DOMAIN s), NEW p \in InOrder(S)
  PROVE  /\ DOMAIN p = 1..Cardinality(S) /\ Cardinality(S) \in Nat
         /\ \A k \in DOMAIN p : p[k] \in S
<1>1. DOMAIN s = 1..Len(s) /\ Len(s) \in Nat
  BY LenProperties
<1>2. IsFiniteSet(1..Len(s))
  BY <1>1, FS_Interval
<1>3. IsFiniteSet(S)
  BY <1>1, <1>2, FS_Subset
<1>4. Cardinality(S) \in Nat
  BY <1>3, FS_CardinalityType
<1> QED
  BY <1>4 DEF InOrder

-----------------------------------------------------------------------------
(* What is under way, and under whose id.                                    *)

\* A request waits for a reply.
Waits(r) == r \notin held /\ outcome[r] = "pending"

\* A reply to q may still come to its client.
UnderWay(q) ==
  \/ q \in Elements(toBridge[ClientOf(q)])
  \/ q \in Elements(queued)
  \/ \E k \in {"reply", "error"} : <<k, q>> \in Elements(toClient[ClientOf(q)])

\* Nobody is sent what belongs to another client.
OwnFrames ==
  \A c \in Client : /\ \A r \in Elements(toBridge[c]) : ClientOf(r) = c
                    /\ \A k \in {"reply", "error"}, r \in Req :
                         <<k, r>> \in Elements(toClient[c]) => ClientOf(r) = c

\* Two requests of one client share an id only if the second was given it while a reply to
\* the first was under way.
NoClash ==
  \A q, r \in Req :
    ClientOf(q) = ClientOf(r) /\ UnderWay(q) /\ Waits(r) /\ id[q] = id[r] => q = r \/ r \in reused

RelayInv == TypeOK /\ OwnFrames /\ NoClash /\ ReplyMatches

LEMMA Types ==
  ASSUME TypeOK
  PROVE  /\ \A c \in Client : toBridge[c] \in Seq(Req) /\ toClient[c] \in Seq(Frames)
         /\ queued \in Seq(Req)
         /\ \A c \in Client : Elements(toBridge[c]) \subseteq Req /\ Elements(toClient[c]) \subseteq Frames
         /\ Elements(queued) \subseteq Req
<1>1. /\ \A c \in Client : toBridge[c] \in Seq(Req) /\ toClient[c] \in Seq(Frames)
      /\ queued \in Seq(Req)
  BY DEF TypeOK, Frames
<1>2. \A S : \A s \in Seq(S) : Elements(s) \subseteq S
  BY LenProperties DEF Elements
<1> QED
  BY <1>1, <1>2

LEMMA FrameFacts ==
  /\ \A k \in {"reply", "error"} : \A r : <<k, r>> # <<"hello">> /\ <<k, r>>[1] = k /\ <<k, r>>[2] = r
  /\ \A m \in Frames : m # <<"hello">> =>
       /\ m[1] \in {"reply", "error"} /\ m[2] \in Req /\ m = <<m[1], m[2]>>
<1>1. \A k \in {"reply", "error"} : \A r : <<k, r>>[1] = k /\ <<k, r>>[2] = r /\ <<"hello">>[1] = "hello"
  OBVIOUS
<1>2. \A k \in {"reply", "error"} : k # "hello"
  OBVIOUS
<1>3. \A m \in {"reply", "error"} \X Req : m[1] \in {"reply", "error"} /\ m[2] \in Req /\ m = <<m[1], m[2]>>
  OBVIOUS
<1> QED
  BY <1>1, <1>2, <1>3 DEF Frames

LEMMA TravellingIs ==
  ASSUME TypeOK, NEW q \in Req
  PROVE  q \in Travelling(ClientOf(q)) <=> UnderWay(q)
<1> DEFINE c == ClientOf(q)
<1>1. c \in Client
  BY RelayAssumption
<1>2. q \in {m[2] : m \in Elements(toClient[c]) \ {<<"hello">>}}
      <=> \E k \in {"reply", "error"} : <<k, q>> \in Elements(toClient[c])
  <2>1. ASSUME NEW m \in Elements(toClient[c]) \ {<<"hello">>}, q = m[2]
        PROVE  \E k \in {"reply", "error"} : <<k, q>> \in Elements(toClient[c])
    <3>1. m \in Frames
      BY <1>1, <2>1, Types
    <3> QED
      BY <2>1, <3>1, FrameFacts
  <2>2. ASSUME NEW k \in {"reply", "error"}, <<k, q>> \in Elements(toClient[c])
        PROVE  \E m \in Elements(toClient[c]) \ {<<"hello">>} : q = m[2]
    BY <2>2, FrameFacts
  <2> QED
    BY <2>1, <2>2
<1> QED
  BY <1>2 DEF Travelling, UnderWay

\* The callbacks tell each client about its own requests.
LEMMA TellFrames ==
  ASSUME TypeOK, NEW s \in Seq(Req), Tell(s)
  PROVE  /\ toClient' \in [Client -> Seq(Frames)]
         /\ \A c \in Client : \A m \in Elements(toClient'[c]) :
              \/ m \in Elements(toClient[c])
              \/ \E r \in Elements(s) : ClientOf(r) = c /\ \E k \in {"reply", "error"} : m = <<k, r>>
<1> DEFINE Frame(r) == <<IF answered'[r] = "resolved" THEN "reply" ELSE "error", r>>
           Mine(c) == {k \in DOMAIN s : ClientOf(s[k]) = c /\ Told(s[k]) /\ Reachable(s[k])}
<1>1. PICK place \in [Client -> UNION {InOrder(Mine(c)) : c \in Client}] :
        /\ \A c \in Client : place[c] \in InOrder(Mine(c))
        /\ toClient' = [c \in Client |-> toClient[c] \o [k \in DOMAIN place[c] |-> Frame(s[place[c][k]])]]
  BY DEF Tell
<1>2. ASSUME NEW c \in Client
      PROVE  /\ toClient'[c] \in Seq(Frames)
             /\ \A m \in Elements(toClient'[c]) :
                  \/ m \in Elements(toClient[c])
                  \/ \E r \in Elements(s) : ClientOf(r) = c /\ \E k \in {"reply", "error"} : m = <<k, r>>
  <2> DEFINE p == place[c]
             t == [k \in DOMAIN p |-> Frame(s[p[k]])]
             n == Cardinality(Mine(c))
  <2>1. DOMAIN p = 1..n /\ n \in Nat /\ \A k \in DOMAIN p : p[k] \in Mine(c)
    <3>1. Mine(c) \in SUBSET (DOMAIN s) /\ p \in InOrder(Mine(c))
      BY <1>1
    <3> HIDE DEF Mine, p
    <3> QED
      BY <3>1, OrderedFrames
  <2>2. \A k \in DOMAIN p : s[p[k]] \in Elements(s) /\ s[p[k]] \in Req /\ ClientOf(s[p[k]]) = c
    BY <2>1, LenProperties DEF Elements
  <2>3. \A k \in DOMAIN p : Frame(s[p[k]]) \in Frames
    BY <2>2 DEF Frames
  <2>4. \A k \in DOMAIN p : \E r \in Elements(s) : ClientOf(r) = c /\ \E j \in {"reply", "error"} : Frame(s[p[k]]) = <<j, r>>
    BY <2>2
  <2>5. toClient'[c] = toClient[c] \o t
    BY <1>1
  <2> HIDE DEF p, n, Frame, Mine
  <2>6. t \in [1..n -> Frames]
    BY <2>1, <2>3
  <2>7. t \in Seq(Frames)
    BY <2>1, <2>6, FunctionSeq
  <2>8. \A m \in Elements(t) : \E r \in Elements(s) : ClientOf(r) = c /\ \E k \in {"reply", "error"} : m = <<k, r>>
    BY <2>4 DEF Elements
  <2> HIDE DEF t
  <2>9. toClient[c] \o t \in Seq(Frames) /\ Elements(toClient[c] \o t) \subseteq Elements(toClient[c]) \union Elements(t)
    <3>1. toClient[c] \in Seq(Frames)
      BY Types
    <3> QED
      BY <2>7, <3>1, ConcatElements
  <2> QED
    BY <2>5, <2>8, <2>9
<1>3. DOMAIN toClient' = Client /\ toClient' = [c \in Client |-> toClient'[c]]
  BY <1>1
<1> QED
  BY <1>2, <1>3

\* Nothing new is under way, and nobody else waits.
LEMMA StaysClear ==
  ASSUME NoClash, id' = id, reused' = reused,
         \A q \in Req : UnderWay(q)' => UnderWay(q),
         \A r \in Req : Waits(r)' => Waits(r)
  PROVE  NoClash'
BY DEF NoClash

LEMMA SameFrames ==
  ASSUME UNCHANGED <<toBridge, queued, toClient>>
  PROVE  (OwnFrames => OwnFrames') /\ \A q : UnderWay(q)' <=> UnderWay(q)
BY DEF OwnFrames, UnderWay, Elements

\* send() gives a request an id no pending one has.
LEMMA TransmitKeeps ==
  ASSUME TypeOK, OwnFrames, NoClash, NEW r \in Req, Transmit(r),
         UNCHANGED <<queued, toClient>>, \A q \in Req : q # r => (q \in held' <=> q \in held)
  PROVE  /\ outcome' = [outcome EXCEPT ![r] = "pending"]
         /\ id' \in [Req -> 0..MaxId] /\ nextId' \in [Client -> 1..MaxId]
         /\ reused' \subseteq Req /\ reused \subseteq reused' /\ toBridge' \in [Client -> Seq(Req)]
         /\ OwnFrames' /\ NoClash'
<1> DEFINE c == ClientOf(r)
<1>0. c \in Client
  BY RelayAssumption
<1>1. PICK i \in Free(c) :
        /\ id' = [id EXCEPT ![r] = i]
        /\ nextId' = [nextId EXCEPT ![c] = (i % MaxId) + 1]
        /\ reused' = IF \E q \in Travelling(c) : ClientOf(q) = c /\ id[q] = i THEN reused \union {r} ELSE reused
        /\ toBridge' = IF socket[c] = "up" THEN [toBridge EXCEPT ![c] = Append(@, r)] ELSE toBridge
        /\ outcome' = [outcome EXCEPT ![r] = "pending"]
  BY DEF Transmit
<1>2. i \in 1..MaxId /\ \A q \in pending(c) : id[q] # i
  BY <1>1 DEF Free
<1>3. (i % MaxId) + 1 \in 1..MaxId
  BY <1>2, RelayAssumption
<1>4. Append(toBridge[c], r) \in Seq(Req) /\ Elements(Append(toBridge[c], r)) = Elements(toBridge[c]) \union {r}
  BY <1>0, Types, AppendElements
<1>5. /\ toBridge' \in [Client -> Seq(Req)]
      /\ \A d \in Client : Elements(toBridge'[d]) \subseteq Elements(toBridge[d]) \union (IF d = c THEN {r} ELSE {})
  BY <1>0, <1>1, <1>4 DEF TypeOK
<1>6. /\ id' \in [Req -> 0..MaxId] /\ nextId' \in [Client -> 1..MaxId] /\ reused' \subseteq Req
      /\ id'[r] = i /\ \A q \in Req : q # r => id'[q] = id[q]
  BY <1>1, <1>2, <1>3, RelayAssumption DEF TypeOK
<1>7. OwnFrames'
  <2>1. \A d : Elements(toBridge[d])' = Elements(toBridge'[d]) /\ Elements(toClient[d])' = Elements(toClient[d])
    BY DEF Elements
  <2> QED
    BY <1>5, <2>1 DEF OwnFrames
<1>8. \A q \in Req : UnderWay(q)' => q = r \/ UnderWay(q)
  <2> SUFFICES ASSUME NEW q \in Req, UnderWay(q)', q # r PROVE UnderWay(q)
    OBVIOUS
  <2>1. ClientOf(q) \in Client
    BY RelayAssumption
  <2>2. Elements(toBridge[ClientOf(q)])' = Elements(toBridge'[ClientOf(q)])
    BY DEF Elements
  <2>3. Elements(queued)' = Elements(queued) /\ Elements(toClient[ClientOf(q)])' = Elements(toClient[ClientOf(q)])
    BY DEF Elements
  <2> QED
    BY <1>5, <2>1, <2>2, <2>3 DEF UnderWay
<1>9. \A q \in Req : Waits(q)' => q = r \/ Waits(q)
  BY <1>1 DEF Waits, TypeOK
<1>10. \A q \in Req : Waits(q) /\ ClientOf(q) = c => id[q] # i
  BY <1>2 DEF Waits, pending
<1>11. \A q \in Req : UnderWay(q) /\ ClientOf(q) = c /\ id[q] = i => r \in reused'
  BY <1>1, TravellingIs
<1>12. reused \subseteq reused'
  BY <1>1
<1>13. NoClash'
  <2> SUFFICES ASSUME NEW q \in Req, NEW s \in Req, ClientOf(q) = ClientOf(s),
                      UnderWay(q)', Waits(s)', id'[q] = id'[s], q # s
               PROVE  s \in reused'
    BY DEF NoClash
  <2>1. CASE s = r
    BY <1>6, <1>8, <1>11, <2>1
  <2>2. CASE s # r /\ q = r
    BY <1>6, <1>9, <1>10, <2>2
  <2>3. CASE s # r /\ q # r
    BY <1>6, <1>8, <1>9, <1>12, <2>3 DEF NoClash
  <2> QED
    BY <2>1, <2>2, <2>3
<1> QED
  BY <1>1, <1>5, <1>6, <1>7, <1>12, <1>13

\* Frames that leave the queues bring nothing under way.
LEMMA FewerFrames ==
  ASSUME OwnFrames,
         \A c \in Client : Elements(toBridge'[c]) \subseteq Elements(toBridge[c]),
         \A c \in Client : \A k \in {"reply", "error"}, r \in Req :
           <<k, r>> \in Elements(toClient'[c]) =>
             <<k, r>> \in Elements(toClient[c]) \/ (ClientOf(r) = c /\ UnderWay(r)),
         \A r \in Req : r \in Elements(queued') => UnderWay(r)
  PROVE  OwnFrames' /\ \A q \in Req : UnderWay(q)' => UnderWay(q)
<1>1. \A c : Elements(toBridge[c])' = Elements(toBridge'[c]) /\ Elements(toClient[c])' = Elements(toClient'[c])
  BY DEF Elements
<1>2. Elements(queued)' = Elements(queued')
  BY DEF Elements
<1>3. OwnFrames'
  BY <1>1 DEF OwnFrames, Elements
<1>4. ASSUME NEW q \in Req, UnderWay(q)' PROVE UnderWay(q)
  <2>1. ClientOf(q) \in Client
    BY RelayAssumption
  <2>2. CASE q \in Elements(toBridge'[ClientOf(q)])
    BY <2>1, <2>2 DEF UnderWay
  <2>3. CASE q \in Elements(queued')
    BY <2>3
  <2>4. CASE \E k \in {"reply", "error"} : <<k, q>> \in Elements(toClient'[ClientOf(q)])
    BY <2>1, <2>4 DEF UnderWay
  <2> QED
    BY <1>1, <1>2, <1>4, <2>2, <2>3, <2>4 DEF UnderWay
<1> QED
  BY <1>3, <1>4

-----------------------------------------------------------------------------
(* The steps. *)

\* A step of one client that ends waits and takes no message but the oldest, if at all.
LEMMA ClientStep ==
  ASSUME TypeOK, OwnFrames, NoClash, UNCHANGED <<id, reused, toBridge, queued>>,
         \A c \in Client : Elements(toClient'[c]) \subseteq Elements(toClient[c]),
         \A r \in Req : Waits(r)' => Waits(r)
  PROVE  OwnFrames' /\ NoClash'
<1>1. \A r \in Req : r \in Elements(queued') => UnderWay(r)
  BY DEF UnderWay
<1>2. OwnFrames' /\ \A q \in Req : UnderWay(q)' => UnderWay(q)
  BY <1>1, FewerFrames
<1> QED
  BY <1>2, StaysClear

LEMMA FinishFacts ==
  ASSUME TypeOK, NEW c \in Client, finish(c), held' = held
  PROVE  /\ state' \in [Client -> {"connecting", "open", "closed"}] /\ outcome' \in [Req -> Outcomes]
         /\ \A r \in Req : Waits(r)' => Waits(r)
<1>1. \A r \in Req : outcome'[r] = "pending" => outcome[r] = "pending"
  BY DEF finish
<1>2. state' \in [Client -> {"connecting", "open", "closed"}] /\ outcome' \in [Req -> Outcomes]
  BY DEF finish, TypeOK, Outcomes
<1> QED
  BY <1>1, <1>2 DEF Waits

LEMMA ReceiveFacts ==
  ASSUME TypeOK, NEW c \in Client, Receive(c)
  PROVE  /\ toClient' \in [Client -> Seq(Frames)] /\ Head(toClient[c]) \in Frames
         /\ Head(toClient[c]) \in Elements(toClient[c])
         /\ \A d \in Client : Elements(toClient'[d]) \subseteq Elements(toClient[d])
<1>1. toClient[c] # <<>> /\ toClient' = [toClient EXCEPT ![c] = Tail(@)]
  BY DEF Receive
<1>2. toClient \in [Client -> Seq(Frames)]
  BY DEF TypeOK, Frames
<1>3. /\ Tail(toClient[c]) \in Seq(Frames) /\ Head(toClient[c]) \in Frames
      /\ Elements(Tail(toClient[c])) \subseteq Elements(toClient[c]) /\ Head(toClient[c]) \in Elements(toClient[c])
  BY <1>1, <1>2, TailElements
<1> QED
  BY <1>1, <1>2, <1>3

\* What the transport of the session may do with what it holds, when it takes the requests S.
LEMMA ChannelFacts ==
  ASSUME TypeOK, NEW S \in SUBSET Req,
         \/ \E r \in S : Channel!Submit(r)
         \/ \E o \in {"resolved", "rejected"} : Channel!Settle(o)
         \/ Channel!Shut
  PROVE  /\ queued' \in Seq(Req) /\ answered' \in [Req -> Outcomes] /\ running' \in BOOLEAN
         /\ Elements(queued') \subseteq Elements(queued) \union S
<1>a. queued \in Seq(Req) /\ answered \in [Req -> Outcomes] /\ running \in BOOLEAN
  BY DEF TypeOK
<1>1. ASSUME NEW r \in S, Channel!Submit(r)
      PROVE  /\ queued' \in Seq(Req) /\ answered' \in [Req -> Outcomes] /\ running' \in BOOLEAN
             /\ Elements(queued') \subseteq Elements(queued) \union S
  <2>1. /\ queued' = Append(queued, r) /\ answered' = [answered EXCEPT ![r] = "pending"]
        /\ running' = running
    BY <1>1 DEF Channel!Submit
  <2>2. Append(queued, r) \in Seq(Req) /\ Elements(Append(queued, r)) = Elements(queued) \union {r}
    BY <1>a, AppendElements
  <2> QED
    BY <1>a, <2>1, <2>2 DEF Outcomes
<1>2. ASSUME NEW o \in {"resolved", "rejected"}, Channel!Settle(o)
      PROVE  /\ queued' \in Seq(Req) /\ answered' \in [Req -> Outcomes] /\ running' \in BOOLEAN
             /\ Elements(queued') \subseteq Elements(queued) \union S
  <2>1. /\ queued # <<>> /\ queued' = Tail(queued) /\ answered' = [answered EXCEPT ![Head(queued)] = o]
        /\ running' = running
    BY <1>2 DEF Channel!Settle
  <2>2. Tail(queued) \in Seq(Req) /\ Elements(Tail(queued)) \subseteq Elements(queued)
    BY <1>a, <2>1, TailElements
  <2> QED
    BY <1>a, <2>1, <2>2 DEF Outcomes
<1>3. CASE Channel!Shut
  <2>1. running' = FALSE /\ queued' = <<>> /\ \E out : answered' = Channel!Ended(out)
                                                      /\ \A r \in Req : out[r] \in Outcomes
    <3>1. /\ \A r \in Req : answered[r] \in Outcomes /\ [answered EXCEPT ![r] = "pending"] \in [Req -> Outcomes]
          /\ \A o \in {"resolved", "rejected"} : [answered EXCEPT ![Head(queued)] = o] \in [Req -> Outcomes]
      BY <1>a DEF Outcomes
    <3> QED
      BY <1>3, <3>1 DEF Channel!Shut
  <2>2. answered' \in [Req -> Outcomes]
    BY <2>1 DEF Channel!Ended, Outcomes
  <2>3. <<>> \in Seq(Req) /\ Elements(<<>>) = {}
    BY EmptySeq DEF Elements
  <2> QED
    BY <2>1, <2>2, <2>3
<1> QED
  BY <1>1, <1>2, <1>3

\* The callbacks have told the clients about requests that were under way.
LEMMA ChannelStep ==
  ASSUME TypeOK, OwnFrames, NoClash, NEW s \in Seq(Req), Tell(s),
         \A r \in Elements(s) : UnderWay(r),
         queued' \in Seq(Req), Elements(queued') \subseteq Elements(s),
         \A c \in Client : Elements(toBridge'[c]) \subseteq Elements(toBridge[c]),
         UNCHANGED <<id, reused, held, outcome>>
  PROVE  toClient' \in [Client -> Seq(Frames)] /\ OwnFrames' /\ NoClash'
<1>1. /\ toClient' \in [Client -> Seq(Frames)]
      /\ \A c \in Client : \A m \in Elements(toClient'[c]) :
              \/ m \in Elements(toClient[c])
              \/ \E r \in Elements(s) : ClientOf(r) = c /\ \E k \in {"reply", "error"} : m = <<k, r>>
  BY TellFrames
<1>2. \A c \in Client : \A k \in {"reply", "error"}, r \in Req :
        <<k, r>> \in Elements(toClient'[c]) =>
          <<k, r>> \in Elements(toClient[c]) \/ (ClientOf(r) = c /\ UnderWay(r))
  <2> SUFFICES ASSUME NEW c \in Client, NEW k \in {"reply", "error"}, NEW r \in Req,
                      <<k, r>> \in Elements(toClient'[c]), <<k, r>> \notin Elements(toClient[c])
               PROVE  ClientOf(r) = c /\ UnderWay(r)
    OBVIOUS
  <2>1. PICK q \in Elements(s) : ClientOf(q) = c /\ \E j \in {"reply", "error"} : <<k, r>> = <<j, q>>
    BY <1>1
  <2>2. q = r
    BY <2>1
  <2> QED
    BY <2>1, <2>2
<1>3. \A r \in Req : r \in Elements(queued') => UnderWay(r)
  OBVIOUS
<1>4. OwnFrames' /\ \A q \in Req : UnderWay(q)' => UnderWay(q)
  BY <1>2, <1>3, FewerFrames
<1>5. \A r \in Req : Waits(r)' => Waits(r)
  BY DEF Waits
<1> QED
  BY <1>1, <1>4, <1>5, StaysClear

LEMMA StaysOwn ==
  ASSUME ReplyMatches, got' = got, reused \subseteq reused' PROVE ReplyMatches'
BY DEF ReplyMatches

\* A reply on its way names a pending request that has its id: the same one, or one that
\* was given a used id (send, websocket.ts:213; onMessage, :283; message, server.ts:241).
LEMMA RelayInvariant == Spec => []RelayInv
<1>1. Init => RelayInv
  <2> SUFFICES ASSUME Init PROVE RelayInv
    OBVIOUS
  <2>1. \A S : <<>> \in Seq(S) /\ Elements(<<>>) = {}
    BY EmptySeq DEF Elements
  <2>2. toBridge \in [Client -> Seq(Req)] /\ toClient \in [Client -> Seq(Frames)] /\ queued \in Seq(Req)
    BY <2>1 DEF Init, Channel!Init
  <2>3. TypeOK
    BY <2>2, RelayAssumption DEF Init, Channel!Init, TypeOK, Outcomes, Frames
  <2>4. OwnFrames
    BY <2>1 DEF Init, OwnFrames
  <2>5. NoClash
    BY DEF Init, NoClash, Waits
  <2>6. ReplyMatches
    BY DEF Init, ReplyMatches
  <2> QED
    BY <2>3, <2>4, <2>5, <2>6 DEF RelayInv
<1>2. RelayInv /\ [Next]_vars => RelayInv'
  <2> SUFFICES ASSUME RelayInv, [Next]_vars PROVE RelayInv'
    OBVIOUS
  <2>a. TypeOK /\ OwnFrames /\ NoClash /\ ReplyMatches
    BY DEF RelayInv
  <2>b. /\ toClient \in [Client -> Seq(Frames)] /\ queued \in Seq(Req)
        /\ toBridge \in [Client -> Seq(Req)]
    BY <2>a DEF TypeOK, Frames
  <2>1. CASE UNCHANGED vars
    <3>1. TypeOK'
      BY <2>1, <2>a DEF vars, clientVars, channelVars, TypeOK
    <3>2. OwnFrames' /\ NoClash'
      BY <2>1, <2>a, ClientStep DEF vars, clientVars, channelVars, Waits
    <3>3. ReplyMatches'
      BY <2>1, <2>a, StaysOwn DEF vars, clientVars
    <3> QED
      BY <3>1, <3>2, <3>3 DEF RelayInv
  <2>2. ASSUME NEW r \in Req, send(r) \/ Ready(r) PROVE RelayInv'
    <3>0. UNCHANGED <<state, socket, got, toClient, queued, answered, running, restarts>>
      BY <2>2 DEF send, Ready, channelVars
    <3>1. CASE Transmit(r) /\ (held' = held \/ held' = held \ {r})
      <4>1. \A q \in Req : q # r => (q \in held' <=> q \in held)
        BY <3>1
      <4>2. /\ outcome' = [outcome EXCEPT ![r] = "pending"]
            /\ id' \in [Req -> 0..MaxId] /\ nextId' \in [Client -> 1..MaxId]
            /\ reused' \subseteq Req /\ reused \subseteq reused' /\ toBridge' \in [Client -> Seq(Req)]
            /\ OwnFrames' /\ NoClash'
        BY <2>a, <3>0, <3>1, <4>1, TransmitKeeps
      <4>3. TypeOK'
        BY <2>a, <3>0, <3>1, <4>2 DEF TypeOK, Outcomes
      <4>4. ReplyMatches'
        BY <2>a, <3>0, <4>2, StaysOwn
      <4> QED
        BY <4>2, <4>3, <4>4 DEF RelayInv
    <3>2. CASE Reject(r) /\ (held' = held \/ held' = held \ {r})
      <4>1. outcome' = [outcome EXCEPT ![r] = "rejected"] /\ UNCHANGED <<id, nextId, reused, toBridge>>
        BY <3>2 DEF Reject
      <4>2. \A q \in Req : Waits(q)' => Waits(q)
        BY <2>a, <3>2, <4>1 DEF Waits, TypeOK
      <4>3. OwnFrames' /\ NoClash'
        BY <2>a, <3>0, <4>1, <4>2, ClientStep
      <4>4. TypeOK'
        BY <2>a, <3>0, <3>2, <4>1 DEF TypeOK, Outcomes
      <4>5. ReplyMatches'
        BY <2>a, <3>0, <4>1, StaysOwn
      <4> QED
        BY <4>3, <4>4, <4>5 DEF RelayInv
    <3>3. CASE /\ held' = held \union {r} /\ outcome' = [outcome EXCEPT ![r] = "pending"]
               /\ UNCHANGED <<id, nextId, reused, toBridge>>
      <4>1. \A q \in Req : Waits(q)' => Waits(q)
        BY <2>a, <3>3 DEF Waits, TypeOK
      <4>2. OwnFrames' /\ NoClash'
        BY <2>a, <3>0, <3>3, <4>1, ClientStep
      <4>3. TypeOK'
        BY <2>a, <3>0, <3>3 DEF TypeOK, Outcomes
      <4>4. ReplyMatches'
        BY <2>a, <3>0, <3>3, StaysOwn
      <4> QED
        BY <4>2, <4>3, <4>4 DEF RelayInv
    <3>4. state[ClientOf(r)] \in {"connecting", "open", "closed"}
      BY <2>a, RelayAssumption DEF TypeOK
    <3> QED
      BY <2>2, <3>1, <3>2, <3>3, <3>4 DEF send, Ready
  <2>3. ASSUME NEW r \in Req, RequestTimeout(r) PROVE RelayInv'
    <3>1. /\ outcome' = [outcome EXCEPT ![r] = "rejected"]
          /\ UNCHANGED <<state, socket, held, nextId, id, got, reused, toBridge, toClient,
                         queued, answered, running, restarts>>
      BY <2>3 DEF RequestTimeout, channelVars
    <3>2. \A q \in Req : Waits(q)' => Waits(q)
      BY <2>a, <3>1 DEF Waits, TypeOK
    <3>3. OwnFrames' /\ NoClash'
      BY <2>a, <3>1, <3>2, ClientStep
    <3>4. TypeOK' /\ ReplyMatches'
      BY <2>a, <3>1, StaysOwn DEF TypeOK, Outcomes
    <3> QED
      BY <3>3, <3>4 DEF RelayInv
  <2>4. ASSUME NEW c \in Client, close(c) \/ ConnectTimeout(c) \/ OnClose(c) PROVE RelayInv'
    <3>1. /\ finish(c) /\ (socket' = socket \/ socket' = [socket EXCEPT ![c] = "down"])
          /\ toClient' = toClient \/ toClient' = [toClient EXCEPT ![c] = <<>>]
          /\ UNCHANGED <<held, nextId, id, got, reused, toBridge, queued, answered, running, restarts>>
      BY <2>4 DEF close, ConnectTimeout, EndSocket, OnClose, channelVars
    <3>2. /\ state' \in [Client -> {"connecting", "open", "closed"}] /\ outcome' \in [Req -> Outcomes]
          /\ \A r \in Req : Waits(r)' => Waits(r)
      BY <2>a, <3>1, FinishFacts
    <3>3. /\ toClient' \in [Client -> Seq(Frames)]
          /\ \A d \in Client : Elements(toClient'[d]) \subseteq Elements(toClient[d])
      <4>1. <<>> \in Seq(Frames) /\ Elements(<<>>) = {}
        BY EmptySeq DEF Elements
      <4> QED
        BY <2>b, <3>1, <4>1
    <3>4. OwnFrames' /\ NoClash'
      BY <2>a, <3>1, <3>2, <3>3, ClientStep
    <3>5. TypeOK'
      BY <2>a, <3>1, <3>2, <3>3 DEF TypeOK, Frames
    <3>6. ReplyMatches'
      BY <2>a, <3>1, StaysOwn
    <3> QED
      BY <3>4, <3>5, <3>6 DEF RelayInv
  <2>5. ASSUME NEW c \in Client, OnHello(c) PROVE RelayInv'
    <3>1. /\ Receive(c) /\ state' = [state EXCEPT ![c] = IF @ = "connecting" THEN "open" ELSE @]
          /\ UNCHANGED <<socket, held, nextId, id, got, reused, toBridge, outcome,
                         queued, answered, running, restarts>>
      BY <2>5 DEF OnHello, Receive, channelVars
    <3>2. /\ toClient' \in [Client -> Seq(Frames)]
          /\ \A d \in Client : Elements(toClient'[d]) \subseteq Elements(toClient[d])
      BY <2>a, <3>1, ReceiveFacts
    <3>3. OwnFrames' /\ NoClash'
      BY <2>a, <3>1, <3>2, ClientStep DEF Waits
    <3>4. TypeOK'
      BY <2>a, <3>1, <3>2 DEF TypeOK, Frames
    <3>5. ReplyMatches'
      BY <2>a, <3>1, StaysOwn
    <3> QED
      BY <3>3, <3>4, <3>5 DEF RelayInv
  <2>6. ASSUME NEW c \in Client, OnReply(c) PROVE RelayInv'
    <3> DEFINE m == Head(toClient[c])
    <3>1. /\ Receive(c) /\ m # <<"hello">>
          /\ UNCHANGED <<state, socket, held, nextId, id, reused, toBridge, queued, answered, running, restarts>>
      BY <2>6 DEF OnReply, Receive, channelVars
    <3>2. /\ toClient' \in [Client -> Seq(Frames)] /\ m \in Frames /\ m \in Elements(toClient[c])
          /\ \A d \in Client : Elements(toClient'[d]) \subseteq Elements(toClient[d])
      BY <2>a, <3>1, ReceiveFacts
    <3>3. m[1] \in {"reply", "error"} /\ m[2] \in Req /\ m = <<m[1], m[2]>>
      BY <3>1, <3>2, FrameFacts
    <3> HIDE DEF m
    <3>4. ClientOf(m[2]) = c /\ UnderWay(m[2])
      <4>1. <<m[1], m[2]>> \in Elements(toClient[c])
        BY <3>2, <3>3
      <4>2. ClientOf(m[2]) = c
        BY <2>a, <3>3, <4>1 DEF OwnFrames
      <4> QED
        BY <3>3, <4>1, <4>2 DEF UnderWay
    <3>5. CASE UNCHANGED <<outcome, got>>
      <4>1. OwnFrames' /\ NoClash'
        BY <2>a, <3>1, <3>2, <3>5, ClientStep DEF Waits
      <4>2. TypeOK' /\ ReplyMatches'
        BY <2>a, <3>1, <3>2, <3>5, StaysOwn DEF TypeOK, Frames
      <4> QED
        BY <4>1, <4>2 DEF RelayInv
    <3>6. ASSUME NEW r \in pending(c), id[r] = id[m[2]],
                 outcome' = [outcome EXCEPT ![r] = IF m[1] = "reply" THEN "resolved" ELSE "rejected"],
                 got' = [got EXCEPT ![r] = m[2]]
          PROVE  RelayInv'
      <4>1. r \in Req /\ ClientOf(r) = c /\ Waits(r)
        BY <3>6 DEF pending, Waits
      <4>2. m[2] = r \/ r \in reused
        BY <2>a, <3>3, <3>4, <3>6, <4>1 DEF NoClash
      <4>3. ReplyMatches'
        BY <2>a, <3>1, <3>6, <4>2 DEF ReplyMatches, TypeOK
      <4>4. \A q \in Req : Waits(q)' => Waits(q)
        BY <2>a, <3>1, <3>6 DEF Waits, TypeOK
      <4>5. OwnFrames' /\ NoClash'
        BY <2>a, <3>1, <3>2, <4>4, ClientStep
      <4>6. TypeOK'
        BY <2>a, <3>1, <3>2, <3>3, <3>6 DEF TypeOK, Frames, Outcomes
      <4> QED
        BY <4>3, <4>5, <4>6 DEF RelayInv
    <3> QED
      BY <2>6, <3>5, <3>6 DEF OnReply, Answers, m
  <2>7. ASSUME NEW c \in Client, Opened(c) PROVE RelayInv'
    <3>1. /\ socket' = [socket EXCEPT ![c] = "up"] /\ toClient' = [toClient EXCEPT ![c] = <<<<"hello">>>>]
          /\ UNCHANGED <<state, outcome, held, nextId, id, got, reused, toBridge, queued, answered,
                         running, restarts>>
      BY <2>7 DEF Opened, channelVars
    <3>2. <<<<"hello">>>> \in Seq(Frames) /\ Elements(<<<<"hello">>>>) = {<<"hello">>}
      <4>1. /\ DOMAIN <<<<"hello">>>> = {1} /\ <<<<"hello">>>>[1] = <<"hello">>
            /\ <<"hello">> \in Frames
        BY DEF Frames
      <4> QED
        BY <4>1 DEF Elements
    <3>3. toClient' \in [Client -> Seq(Frames)] /\ \A d \in Client :
            Elements(toClient'[d]) \subseteq Elements(toClient[d]) \union {<<"hello">>}
      BY <2>b, <3>1, <3>2
    <3>4. OwnFrames' /\ \A q \in Req : UnderWay(q)' => UnderWay(q)
      <4>1. \A d \in Client : \A k \in {"reply", "error"}, r \in Req :
              <<k, r>> \in Elements(toClient'[d]) => <<k, r>> \in Elements(toClient[d])
        BY <3>3, FrameFacts
      <4>2. \A r \in Req : r \in Elements(queued') => UnderWay(r)
        BY <3>1 DEF UnderWay
      <4> QED
        BY <2>a, <3>1, <4>1, <4>2, FewerFrames
    <3>5. NoClash'
      BY <2>a, <3>1, <3>4, StaysClear DEF Waits
    <3>6. TypeOK'
      BY <2>a, <3>1, <3>3 DEF TypeOK, Frames
    <3>7. ReplyMatches'
      BY <2>a, <3>1, StaysOwn
    <3> QED
      BY <3>4, <3>5, <3>6, <3>7 DEF RelayInv
  <2>8. ASSUME NEW c \in Client, Break(c) PROVE RelayInv'
    <3>1. PICK m \in 0..Len(toBridge[c]), n \in 0..Len(toClient[c]) :
            /\ toBridge' = [toBridge EXCEPT ![c] = SubSeq(@, 1, m)]
            /\ toClient' = [toClient EXCEPT ![c] = SubSeq(@, 1, n)]
            /\ socket' = [socket EXCEPT ![c] = "down"]
            /\ UNCHANGED <<state, outcome, held, nextId, id, got, reused, queued, answered, running, restarts>>
      BY <2>8 DEF Break, channelVars
    <3>2. /\ SubSeq(toBridge[c], 1, m) \in Seq(Req)
          /\ Elements(SubSeq(toBridge[c], 1, m)) \subseteq Elements(toBridge[c])
          /\ SubSeq(toClient[c], 1, n) \in Seq(Frames)
          /\ Elements(SubSeq(toClient[c], 1, n)) \subseteq Elements(toClient[c])
      BY <2>a, Types, PrefixElements
    <3>3. /\ toBridge' \in [Client -> Seq(Req)] /\ toClient' \in [Client -> Seq(Frames)]
          /\ \A d \in Client : Elements(toBridge'[d]) \subseteq Elements(toBridge[d])
                               /\ Elements(toClient'[d]) \subseteq Elements(toClient[d])
      BY <2>b, <3>1, <3>2
    <3>4. OwnFrames' /\ \A q \in Req : UnderWay(q)' => UnderWay(q)
      <4>1. \A r \in Req : r \in Elements(queued') => UnderWay(r)
        BY <3>1 DEF UnderWay
      <4> QED
        BY <2>a, <3>3, <4>1, FewerFrames
    <3>5. NoClash'
      BY <2>a, <3>1, <3>4, StaysClear DEF Waits
    <3>6. TypeOK'
      BY <2>a, <3>1, <3>3 DEF TypeOK, Frames
    <3>7. ReplyMatches'
      BY <2>a, <3>1, StaysOwn
    <3> QED
      BY <3>4, <3>5, <3>6, <3>7 DEF RelayInv
  <2>9. ASSUME NEW c \in Client, Relay(c) PROVE RelayInv'
    <3>1. PICK r : r = Head(toBridge[c])
      OBVIOUS
    <3>2. /\ toBridge[c] # <<>> /\ toBridge' = [toBridge EXCEPT ![c] = Tail(@)]
          /\ UNCHANGED <<state, socket, outcome, held, nextId, id, got, reused, restarts>>
      BY <2>9 DEF Relay, clientVars
    <3>3. /\ Tail(toBridge[c]) \in Seq(Req) /\ r \in Req
          /\ Elements(Tail(toBridge[c])) \subseteq Elements(toBridge[c]) /\ r \in Elements(toBridge[c])
      BY <2>a, <3>1, <3>2, Types, TailElements
    <3>4. ClientOf(r) = c /\ UnderWay(r)
      BY <2>a, <3>3 DEF OwnFrames, UnderWay
    <3>5. /\ toBridge' \in [Client -> Seq(Req)]
          /\ \A d \in Client : Elements(toBridge'[d]) \subseteq Elements(toBridge[d])
      BY <2>b, <3>2, <3>3
    <3>6. ReplyMatches'
      BY <2>a, <3>2, StaysOwn
    <3>7. CASE (Channel!Submit(r) \/ Channel!Shut) /\ Tell(Append(queued, r))
      <4> DEFINE s == Append(queued, r)
      <4>1. s \in Seq(Req) /\ Elements(s) = Elements(queued) \union {r}
        BY <2>b, <3>3, AppendElements
      <4>2. /\ queued' \in Seq(Req) /\ answered' \in [Req -> Outcomes] /\ running' \in BOOLEAN
            /\ Elements(queued') \subseteq Elements(queued) \union {r}
        <5>1. {r} \in SUBSET Req
          BY <3>3
        <5>2. (\E q \in {r} : Channel!Submit(q)) \/ Channel!Shut
          BY <3>7
        <5> QED
          BY <2>a, <5>1, <5>2, ChannelFacts
      <4>3. \A q \in Elements(s) : UnderWay(q)
        BY <3>4, <4>1 DEF UnderWay
      <4> HIDE DEF s
      <4>4. toClient' \in [Client -> Seq(Frames)] /\ OwnFrames' /\ NoClash'
        BY <2>a, <3>2, <3>5, <3>7, <4>1, <4>2, <4>3, ChannelStep DEF s
      <4>5. TypeOK'
        BY <2>a, <3>2, <3>5, <4>2, <4>4 DEF TypeOK, Frames
      <4> QED
        BY <3>6, <4>4, <4>5 DEF RelayInv
    <3>8. CASE /\ toClient' = [toClient EXCEPT ![c] = IF socket[c] = "up" THEN Append(@, <<"error", r>>) ELSE @]
               /\ UNCHANGED <<queued, answered, running>>
      <4>1. <<"error", r>> \in Frames
        BY <3>3 DEF Frames
      <4>2. /\ Append(toClient[c], <<"error", r>>) \in Seq(Frames)
            /\ Elements(Append(toClient[c], <<"error", r>>)) = Elements(toClient[c]) \union {<<"error", r>>}
        <5>1. toClient[c] \in Seq(Frames)
          BY <2>b
        <5> HIDE DEF Frames
        <5>2. \A s \in Seq(Frames), x \in Frames :
                /\ Append(s, x) \in Seq(Frames)
                /\ Elements(Append(s, x)) = Elements(s) \union {x}
          BY AppendElements
        <5> QED
          BY <4>1, <5>1, <5>2
      <4>3. /\ toClient' \in [Client -> Seq(Frames)]
            /\ \A d \in Client : Elements(toClient'[d]) \subseteq
                                   Elements(toClient[d]) \union (IF d = c THEN {<<"error", r>>} ELSE {})
        BY <2>b, <3>8, <4>2
      <4>4. \A d \in Client : \A k \in {"reply", "error"}, q \in Req :
              <<k, q>> \in Elements(toClient'[d]) =>
                <<k, q>> \in Elements(toClient[d]) \/ (ClientOf(q) = d /\ UnderWay(q))
        <5> SUFFICES ASSUME NEW d \in Client, NEW k \in {"reply", "error"}, NEW q \in Req,
                            <<k, q>> \in Elements(toClient'[d]), <<k, q>> \notin Elements(toClient[d])
                     PROVE  ClientOf(q) = d /\ UnderWay(q)
          OBVIOUS
        <5>1. d = c /\ <<k, q>> = <<"error", r>>
          BY <4>3
        <5>2. q = r
          BY <5>1
        <5> QED
          BY <3>4, <5>1, <5>2
      <4>5. \A q \in Req : q \in Elements(queued') => UnderWay(q)
        BY <3>8 DEF UnderWay
      <4>6. OwnFrames' /\ \A q \in Req : UnderWay(q)' => UnderWay(q)
        BY <2>a, <3>5, <4>4, <4>5, FewerFrames
      <4>7. NoClash'
        BY <2>a, <3>2, <4>6, StaysClear DEF Waits
      <4>8. TypeOK'
        BY <2>a, <3>2, <3>5, <3>8, <4>3 DEF TypeOK, Frames
      <4> QED
        BY <3>6, <4>6, <4>7, <4>8 DEF RelayInv
    <3> QED
      BY <2>9, <3>1, <3>7, <3>8 DEF Relay
  <2>10. CASE TransportStep
    <3>1. /\ (\E o \in {"resolved", "rejected"} : Channel!Settle(o)) \/ Channel!Shut
          /\ Tell(queued)
          /\ UNCHANGED <<state, socket, outcome, held, nextId, id, got, reused, toBridge, restarts>>
      BY <2>10 DEF TransportStep, clientVars
    <3>2. /\ queued' \in Seq(Req) /\ answered' \in [Req -> Outcomes] /\ running' \in BOOLEAN
          /\ Elements(queued') \subseteq Elements(queued) \union {}
      <4>1. {} \in SUBSET Req
        OBVIOUS
      <4> QED
        BY <2>a, <3>1, <4>1, ChannelFacts
    <3>3. \A q \in Elements(queued) : UnderWay(q)
      BY DEF UnderWay
    <3>4. toClient' \in [Client -> Seq(Frames)] /\ OwnFrames' /\ NoClash'
      BY <2>a, <2>b, <3>1, <3>2, <3>3, ChannelStep
    <3>5. TypeOK'
      BY <2>a, <3>1, <3>2, <3>4 DEF TypeOK, Frames
    <3>6. ReplyMatches'
      BY <2>a, <3>1, StaysOwn
    <3> QED
      BY <3>4, <3>5, <3>6 DEF RelayInv
  <2>11. CASE Restart
    <3>1. /\ restarts' = restarts + 1 /\ restarts < MaxRestarts /\ running' = TRUE
          /\ UNCHANGED <<state, socket, outcome, held, nextId, id, got, reused, toBridge, toClient, queued, answered>>
      BY <2>11 DEF Restart, clientVars
    <3>2. OwnFrames' /\ NoClash'
      BY <2>a, <3>1, ClientStep DEF Waits
    <3>3. TypeOK'
      BY <2>a, <3>1, RelayAssumption DEF TypeOK
    <3>4. ReplyMatches'
      BY <2>a, <3>1, StaysOwn
    <3> QED
      BY <3>2, <3>3, <3>4 DEF RelayInv
  <2> QED
    BY <2>1, <2>2, <2>3, <2>4, <2>5, <2>6, <2>7, <2>8, <2>9, <2>10, <2>11 DEF Next
<1> QED
  BY <1>1, <1>2, PTL DEF Spec

\* A promise settles with what became of its own request, unless its id was given out while
\* a reply to the id's previous request was still under way (onMessage, websocket.ts:283;
\* message, server.ts:241).
THEOREM RepliesMatch == Spec => []ReplyMatches
BY RelayInvariant, PTL DEF RelayInv

\* Every step keeps the types of the fields (websocket.ts:62-92).
THEOREM TypeCorrect == Spec => []TypeOK
BY RelayInvariant, PTL DEF RelayInv

-----------------------------------------------------------------------------
(* Nothing is lost. *)

\* Two pending requests of a client have different ids.
OneId ==
  \A q, r \in Req : Waits(q) /\ Waits(r) /\ ClientOf(q) = ClientOf(r) /\ id[q] = id[r] => q = r

\* The bridge greets a client once its socket is open, and only then its transport opens.
Greeted ==
  \A c \in Client : socket[c] = "dialing" => state[c] # "open" /\ <<"hello">> \notin Elements(toClient[c])

Delivered ==
  \A r \in Req : Waits(r) =>
    /\ state[ClientOf(r)] = "open"
    /\ UnderWay(r) \/ socket[ClientOf(r)] = "down"

LossInv == OneId /\ Greeted /\ Delivered

LEMMA ElementsNext ==
  /\ \A c : Elements(toBridge[c])' = Elements(toBridge'[c]) /\ Elements(toClient[c])' = Elements(toClient'[c])
  /\ Elements(queued)' = Elements(queued')
BY DEF Elements

LEMMA HeadOrTail ==
  ASSUME NEW S, NEW s \in Seq(S), s # <<>>
  PROVE  Elements(s) \subseteq Elements(Tail(s)) \union {Head(s)}
<1>1. /\ DOMAIN s = 1..Len(s) /\ Len(s) \in Nat /\ Len(s) >= 1 /\ Head(s) = s[1]
      /\ DOMAIN Tail(s) = 1..(Len(s) - 1)
  BY LenProperties, HeadTailProperties, EmptySeq
<1>2. \A k \in 1..(Len(s) - 1) : Tail(s)[k] = s[k + 1]
  BY HeadTailProperties, <1>1
<1>3. ASSUME NEW k \in 1..Len(s), k # 1 PROVE s[k] \in Elements(Tail(s))
  <2>1. k - 1 \in 1..(Len(s) - 1)
    BY <1>1, <1>3
  <2>2. Tail(s)[k - 1] = s[k]
    BY <1>2, <2>1
  <2> QED
    BY <1>1, <2>1, <2>2 DEF Elements
<1> QED
  BY <1>1, <1>3 DEF Elements

LEMMA ConcatHolds ==
  ASSUME NEW S, NEW s \in Seq(S), NEW t \in Seq(S)
  PROVE  Elements(s) \subseteq Elements(s \o t) /\ Elements(t) \subseteq Elements(s \o t)
<1> DEFINE m == Len(s)
           n == Len(t)
           u == s \o t
<1>1. /\ m \in Nat /\ n \in Nat /\ DOMAIN s = 1..m /\ DOMAIN t = 1..n
      /\ u \in Seq(S) /\ Len(u) = m + n
      /\ \A i \in 1..(m + n) : u[i] = IF i <= m THEN s[i] ELSE t[i - m]
  BY LenProperties, ConcatProperties
<1>2. DOMAIN u = 1..(m + n)
  BY <1>1, LenProperties
<1> HIDE DEF m, n, u
<1>3. ASSUME NEW i \in 1..m PROVE s[i] \in Elements(u)
  <2>1. i \in 1..(m + n) /\ u[i] = s[i]
    BY <1>1, <1>3
  <2> QED
    BY <1>2, <2>1 DEF Elements
<1>4. ASSUME NEW i \in 1..n PROVE t[i] \in Elements(u)
  <2>1. i + m \in 1..(m + n) /\ ~(i + m <= m) /\ (i + m) - m = i
    BY <1>1, <1>4
  <2>2. u[i + m] = t[i]
    BY <1>1, <2>1
  <2> QED
    BY <1>2, <2>1, <2>2 DEF Elements
<1> QED
  BY <1>1, <1>3, <1>4 DEF Elements, u

\* InOrder leaves no place out.
LEMMA InOrderIsOnto ==
  ASSUME NEW s \in Seq(Req), NEW S \in SUBSET (DOMAIN s), NEW p \in InOrder(S), NEW x \in S
  PROVE  \E k \in DOMAIN p : p[k] = x
<1> DEFINE n == Cardinality(S)
<1>1. DOMAIN s = 1..Len(s) /\ Len(s) \in Nat /\ IsFiniteSet(1..Len(s))
  BY LenProperties, FS_Interval
<1>2. IsFiniteSet(S)
  BY <1>1, FS_Subset
<1>3. n \in Nat
  BY <1>2, FS_CardinalityType
<1>4. p \in [1..n -> S] /\ \A j, k \in 1..n : j < k => p[j] < p[k]
  BY DEF InOrder
<1>5. \A k \in 1..n : p[k] \in Nat
  BY <1>1, <1>4
<1> HIDE DEF n
<1>6. ASSUME NEW j \in 1..n, NEW k \in 1..n, p[j] = p[k] PROVE j = k
  <2>1. ~(j < k) /\ ~(k < j)
    BY <1>4, <1>5, <1>6
  <2> QED
    BY <1>3, <2>1
<1>7. p \in Injection(1..n, S)
  BY <1>4, <1>6 DEF Injection, IsInjective
<1>8. Cardinality(1..n) = Cardinality(S)
  BY <1>3, FS_Interval DEF n
<1>9. p \in Surjection(1..n, S)
  BY <1>2, <1>7, <1>8, FS_Injection
<1> QED
  BY <1>4, <1>9 DEF Surjection

\* The callbacks send a frame for each settled request whose client can be reached.
LEMMA TellAll ==
  ASSUME TypeOK, NEW s \in Seq(Req), Tell(s)
  PROVE  /\ \A c \in Client : Elements(toClient[c]) \subseteq Elements(toClient'[c])
         /\ \A r \in Elements(s) : Told(r) /\ Reachable(r) =>
              \E k \in {"reply", "error"} : <<k, r>> \in Elements(toClient'[ClientOf(r)])
<1> DEFINE Frame(r) == <<IF answered'[r] = "resolved" THEN "reply" ELSE "error", r>>
           Mine(c) == {k \in DOMAIN s : ClientOf(s[k]) = c /\ Told(s[k]) /\ Reachable(s[k])}
<1>1. PICK place \in [Client -> UNION {InOrder(Mine(c)) : c \in Client}] :
        /\ \A c \in Client : place[c] \in InOrder(Mine(c))
        /\ toClient' = [c \in Client |-> toClient[c] \o [k \in DOMAIN place[c] |-> Frame(s[place[c][k]])]]
  BY DEF Tell
<1>2. ASSUME NEW c \in Client
      PROVE  /\ Elements(toClient[c]) \subseteq Elements(toClient'[c])
             /\ \A r \in Elements(s) : ClientOf(r) = c /\ Told(r) /\ Reachable(r) =>
                  \E k \in {"reply", "error"} : <<k, r>> \in Elements(toClient'[c])
  <2> DEFINE p == place[c]
             t == [k \in DOMAIN p |-> Frame(s[p[k]])]
             n == Cardinality(Mine(c))
  <2>1. Mine(c) \in SUBSET (DOMAIN s) /\ p \in InOrder(Mine(c))
    BY <1>1
  <2>2. /\ DOMAIN p = 1..n /\ n \in Nat /\ \A k \in DOMAIN p : p[k] \in Mine(c)
        /\ \A x \in Mine(c) : \E k \in DOMAIN p : p[k] = x
    <3> HIDE DEF Mine, p
    <3> QED
      BY <2>1, OrderedFrames, InOrderIsOnto
  <2>3. \A k \in DOMAIN p : s[p[k]] \in Req
    BY <2>2, LenProperties
  <2>4. \A k \in DOMAIN p : Frame(s[p[k]]) \in Frames
    BY <2>3 DEF Frames
  <2>5. toClient'[c] = toClient[c] \o t
    BY <1>1
  <2>6. \A r \in Elements(s) : ClientOf(r) = c /\ Told(r) /\ Reachable(r) => \E x \in Mine(c) : s[x] = r
    BY DEF Elements
  <2>7. \A r : \E j \in {"reply", "error"} : Frame(r) = <<j, r>>
    OBVIOUS
  <2> HIDE DEF p, n, Frame, Mine
  <2>8. t \in [1..n -> Frames] /\ DOMAIN t = DOMAIN p /\ \A k \in DOMAIN p : t[k] = Frame(s[p[k]])
    BY <2>2, <2>4
  <2>9. t \in Seq(Frames)
    BY <2>2, <2>8, FunctionSeq
  <2>10. \A r \in Elements(s) : ClientOf(r) = c /\ Told(r) /\ Reachable(r) =>
           \E k \in {"reply", "error"} : <<k, r>> \in Elements(t)
    <3> SUFFICES ASSUME NEW r \in Elements(s), ClientOf(r) = c /\ Told(r) /\ Reachable(r)
                 PROVE  \E k \in {"reply", "error"} : <<k, r>> \in Elements(t)
      OBVIOUS
    <3>1. PICK x \in Mine(c) : s[x] = r
      BY <2>6
    <3>2. PICK k \in DOMAIN p : p[k] = x
      BY <2>2
    <3>3. t[k] = Frame(r) /\ k \in DOMAIN t
      BY <2>8, <3>1, <3>2
    <3>4. t[k] \in Elements(t)
      BY <3>3 DEF Elements
    <3> QED
      BY <2>7, <3>3, <3>4
  <2> HIDE DEF t
  <2>11. /\ Elements(toClient[c]) \subseteq Elements(toClient[c] \o t)
         /\ Elements(t) \subseteq Elements(toClient[c] \o t)
    <3>1. toClient[c] \in Seq(Frames)
      BY Types
    <3> QED
      BY <2>9, <3>1, ConcatHolds
  <2> QED
    BY <2>5, <2>10, <2>11
<1>3. \A r \in Elements(s) : ClientOf(r) \in Client
  BY LenProperties, RelayAssumption DEF Elements
<1> QED
  BY <1>2, <1>3

\* A transport that closes leaves no request pending.
LEMMA AllTold == ASSUME Channel!Shut PROVE \A r \in Req : Told(r)
<1>1. \E out : answered' = Channel!Ended(out)
  BY DEF Channel!Shut
<1> QED
  BY <1>1 DEF Channel!Ended, Told

\* What the session's transport holds stays there or is told of.
LEMMA HeldOrTold ==
  ASSUME TypeOK, NEW r \in Req, r \in Elements(queued),
         \/ \E q \in Req : Channel!Submit(q)
         \/ \E o \in {"resolved", "rejected"} : Channel!Settle(o)
         \/ Channel!Shut
  PROVE  r \in Elements(queued') \/ Told(r)
<1>a. queued \in Seq(Req) /\ answered \in [Req -> Outcomes]
  BY DEF TypeOK
<1>1. ASSUME NEW q \in Req, Channel!Submit(q) PROVE r \in Elements(queued')
  <2>1. queued' = Append(queued, q)
    BY <1>1 DEF Channel!Submit
  <2>2. Elements(Append(queued, q)) = Elements(queued) \union {q}
    BY <1>a, AppendElements
  <2> QED
    BY <2>1, <2>2
<1>2. ASSUME NEW o \in {"resolved", "rejected"}, Channel!Settle(o) PROVE r \in Elements(queued') \/ Told(r)
  <2>1. queued # <<>> /\ queued' = Tail(queued) /\ answered' = [answered EXCEPT ![Head(queued)] = o]
    BY <1>2 DEF Channel!Settle
  <2>2. Elements(queued) \subseteq Elements(Tail(queued)) \union {Head(queued)}
    BY <1>a, <2>1, HeadOrTail
  <2>3. r = Head(queued) => answered'[r] = o
    BY <1>a, <2>1
  <2> QED
    BY <2>1, <2>2, <2>3 DEF Told
<1>3. CASE Channel!Shut
  BY <1>3, AllTold
<1> QED
  BY <1>1, <1>2, <1>3

\* Nobody new waits, and what is under way stays so while its socket lives.
LEMMA StayDelivered ==
  ASSUME Delivered,
         \A r \in Req : Waits(r)' =>
           /\ Waits(r) /\ state'[ClientOf(r)] = state[ClientOf(r)]
           /\ UnderWay(r) => UnderWay(r)' \/ socket'[ClientOf(r)] = "down"
           /\ socket[ClientOf(r)] = "down" => socket'[ClientOf(r)] = "down"
  PROVE  Delivered'
BY DEF Delivered

LEMMA StayOne ==
  ASSUME OneId, id' = id, \A r \in Req : Waits(r)' => Waits(r)
  PROVE  OneId'
BY DEF OneId

LEMMA StayGreeted ==
  ASSUME Greeted,
         \A c \in Client : socket'[c] = "dialing" =>
           /\ socket[c] = "dialing"
           /\ state'[c] = "open" => state[c] = "open" \/ <<"hello">> \in Elements(toClient[c])
           /\ <<"hello">> \in Elements(toClient'[c]) => <<"hello">> \in Elements(toClient[c])
  PROVE  Greeted'
BY ElementsNext DEF Greeted

\* A request of another client is under way as before.
LEMMA OthersUnderWay ==
  ASSUME NEW r \in Req, UnderWay(r),
         toBridge'[ClientOf(r)] = toBridge[ClientOf(r)], toClient'[ClientOf(r)] = toClient[ClientOf(r)],
         queued' = queued
  PROVE  UnderWay(r)'
BY ElementsNext DEF UnderWay

\* send() gives an id that no pending request of the client has, and its frame goes out or
\* the close event comes.
LEMMA LossByTransmit ==
  ASSUME TypeOK, LossInv, NEW r \in Req, Transmit(r), state[ClientOf(r)] = "open",
         UNCHANGED <<state, socket, toClient, queued>>,
         \A q \in Req : q # r => (q \in held' <=> q \in held)
  PROVE  LossInv'
<1> DEFINE c == ClientOf(r)
<1>0. c \in Client /\ OneId /\ Greeted /\ Delivered
  BY RelayAssumption DEF LossInv
<1>1. PICK i \in Free(c) :
        /\ id' = [id EXCEPT ![r] = i]
        /\ toBridge' = IF socket[c] = "up" THEN [toBridge EXCEPT ![c] = Append(@, r)] ELSE toBridge
        /\ outcome' = [outcome EXCEPT ![r] = "pending"]
  BY DEF Transmit
<1>2. \A q \in pending(c) : id[q] # i
  BY <1>1 DEF Free
<1>3. \A q \in Req : Waits(q)' => q = r \/ Waits(q)
  BY <1>1 DEF Waits, TypeOK
<1>4. \A q \in Req : Waits(q) /\ ClientOf(q) = c => id[q] # i
  BY <1>2 DEF Waits, pending
<1>5. id'[r] = i /\ \A q \in Req : q # r => id'[q] = id[q]
  BY <1>1 DEF TypeOK
<1>6. OneId'
  BY <1>0, <1>3, <1>4, <1>5 DEF OneId
<1>7. Greeted'
  BY <1>0, StayGreeted
<1>8. Elements(Append(toBridge[c], r)) = Elements(toBridge[c]) \union {r}
  BY <1>0, Types, AppendElements
<1>9. /\ \A d \in Client : Elements(toBridge[d]) \subseteq Elements(toBridge'[d])
      /\ socket[c] = "up" => r \in Elements(toBridge'[c])
  BY <1>0, <1>1, <1>8 DEF TypeOK
<1>10. socket[c] \in {"up", "down"}
  BY <1>0 DEF Greeted, TypeOK
<1>11. ASSUME NEW q \in Req, Waits(q)'
       PROVE  state'[ClientOf(q)] = "open" /\ (UnderWay(q)' \/ socket'[ClientOf(q)] = "down")
  <2>1. CASE q = r
    BY <1>9, <1>10, <2>1, ElementsNext DEF UnderWay
  <2>2. CASE q # r
    <3>1. state[ClientOf(q)] = "open" /\ (UnderWay(q) \/ socket[ClientOf(q)] = "down")
      BY <1>0, <1>3, <1>11, <2>2 DEF Delivered
    <3>2. UnderWay(q) => UnderWay(q)'
      BY <1>9, ElementsNext, RelayAssumption DEF UnderWay
    <3> QED
      BY <3>1, <3>2
  <2> QED
    BY <2>1, <2>2
<1>12. Delivered'
  BY <1>11 DEF Delivered
<1> QED
  BY <1>6, <1>7, <1>12 DEF LossInv

\* Nothing moves but a request that stops waiting or does not wait yet.
LEMMA LossByCall ==
  ASSUME LossInv, UNCHANGED <<state, socket, id, toBridge, toClient, queued>>,
         \A r \in Req : Waits(r)' => Waits(r)
  PROVE  LossInv'
<1>1. OneId /\ Greeted /\ Delivered
  BY DEF LossInv
<1>2. \A r \in Req : UnderWay(r) => UnderWay(r)'
  BY ElementsNext DEF UnderWay
<1> QED
  BY <1>1, <1>2, StayOne, StayGreeted, StayDelivered DEF LossInv

\* finish() leaves none of its client's requests waiting.
LEMMA LossByFinish ==
  ASSUME TypeOK, LossInv, NEW c \in Client, finish(c),
         socket' = socket \/ socket' = [socket EXCEPT ![c] = "down"],
         toClient' = toClient \/ toClient' = [toClient EXCEPT ![c] = <<>>],
         UNCHANGED <<held, id, toBridge, queued>>
  PROVE  LossInv'
<1>0. OneId /\ Greeted /\ Delivered
  BY DEF LossInv
<1>1. /\ state' = [state EXCEPT ![c] = "closed"]
      /\ outcome' = [r \in Req |-> IF r \in pending(c) THEN "rejected" ELSE outcome[r]]
  BY DEF finish
<1>2. \A r \in Req : Waits(r)' => Waits(r) /\ ClientOf(r) # c
  BY <1>1 DEF Waits, pending
<1>3. \A d \in Client : d # c => state'[d] = state[d] /\ socket'[d] = socket[d] /\ toClient'[d] = toClient[d]
  BY <1>1 DEF TypeOK
<1>4. OneId'
  BY <1>0, <1>2, StayOne
<1>5. Greeted'
  <2>1. socket'[c] = "dialing" => socket[c] = "dialing"
    BY DEF TypeOK
  <2>2. state'[c] = "closed"
    BY <1>1 DEF TypeOK
  <2>3. Elements(toClient'[c]) \subseteq Elements(toClient[c])
    <3>1. Elements(<<>>) = {}
      BY EmptySeq DEF Elements
    <3> QED
      BY <3>1 DEF TypeOK
  <2> QED
    BY <1>0, <1>3, <2>1, <2>2, <2>3, StayGreeted
<1>6. \A r \in Req : Waits(r)' /\ UnderWay(r) => UnderWay(r)'
  BY <1>2, <1>3, OthersUnderWay, RelayAssumption
<1>7. Delivered'
  BY <1>0, <1>2, <1>3, <1>6, StayDelivered, RelayAssumption
<1> QED
  BY <1>4, <1>5, <1>7 DEF LossInv

LEMMA ReceiveLeaves ==
  ASSUME TypeOK, NEW c \in Client, Receive(c)
  PROVE  /\ \A d \in Client : d # c => toClient'[d] = toClient[d]
         /\ Elements(toClient[c]) \subseteq Elements(toClient'[c]) \union {Head(toClient[c])}
<1>1. toClient \in [Client -> Seq(Frames)] /\ toClient[c] # <<>> /\ toClient' = [toClient EXCEPT ![c] = Tail(@)]
  BY DEF Receive, TypeOK, Frames
<1>2. Elements(toClient[c]) \subseteq Elements(Tail(toClient[c])) \union {Head(toClient[c])}
  BY <1>1, HeadOrTail
<1> QED
  BY <1>1, <1>2

LEMMA LossByHello ==
  ASSUME TypeOK, LossInv, NEW c \in Client, OnHello(c)
  PROVE  LossInv'
<1>0. OneId /\ Greeted /\ Delivered
  BY DEF LossInv
<1>1. /\ Receive(c) /\ Head(toClient[c]) = <<"hello">>
      /\ state' = [state EXCEPT ![c] = IF @ = "connecting" THEN "open" ELSE @]
      /\ UNCHANGED <<socket, outcome, held, id, toBridge, queued>>
  BY DEF OnHello, Receive, channelVars
<1>2. /\ \A d \in Client : d # c => toClient'[d] = toClient[d]
      /\ Elements(toClient[c]) \subseteq Elements(toClient'[c]) \union {<<"hello">>}
      /\ Elements(toClient'[c]) \subseteq Elements(toClient[c]) /\ <<"hello">> \in Elements(toClient[c])
  BY <1>1, ReceiveLeaves, ReceiveFacts
<1>3. OneId'
  BY <1>0, <1>1, StayOne DEF Waits
<1>4. Greeted'
  <2>1. \A d \in Client : d # c => state'[d] = state[d]
    BY <1>1 DEF TypeOK
  <2> QED
    BY <1>0, <1>1, <1>2, <2>1, StayGreeted
<1>5. \A r \in Req : UnderWay(r) => UnderWay(r)'
  <2> SUFFICES ASSUME NEW r \in Req, UnderWay(r) PROVE UnderWay(r)'
    OBVIOUS
  <2>1. ClientOf(r) \in Client /\ UNCHANGED <<toBridge, queued>>
    BY <1>1, RelayAssumption
  <2>2. \A k \in {"reply", "error"} : <<k, r>> # <<"hello">>
    BY FrameFacts
  <2>3. \A k \in {"reply", "error"} : <<k, r>> \in Elements(toClient[ClientOf(r)]) => <<k, r>> \in Elements(toClient'[ClientOf(r)])
    BY <1>2, <2>1, <2>2
  <2> QED
    BY <2>1, <2>3, ElementsNext DEF UnderWay
<1>6. Delivered'
  <2> SUFFICES ASSUME NEW r \in Req, Waits(r)' PROVE state'[ClientOf(r)] = "open" /\ (UnderWay(r)' \/ socket'[ClientOf(r)] = "down")
    BY DEF Delivered
  <2>1. Waits(r)
    BY <1>1 DEF Waits
  <2>2. state[ClientOf(r)] = "open" /\ (UnderWay(r) \/ socket[ClientOf(r)] = "down")
    BY <1>0, <2>1 DEF Delivered
  <2>3. state'[ClientOf(r)] = "open"
    BY <1>1, <2>2, RelayAssumption DEF TypeOK
  <2> QED
    BY <1>1, <1>5, <2>2, <2>3
<1> QED
  BY <1>3, <1>4, <1>6 DEF LossInv

\* The frame of a request that waits settles it: nobody else has its id.
LEMMA LossByReply ==
  ASSUME TypeOK, LossInv, OwnFrames, NEW c \in Client, OnReply(c)
  PROVE  LossInv'
<1>0. OneId /\ Greeted /\ Delivered
  BY DEF LossInv
<1> DEFINE m == Head(toClient[c])
<1>1. Receive(c) /\ m # <<"hello">> /\ UNCHANGED <<state, socket, held, id, toBridge, queued>>
  BY DEF OnReply, Receive, channelVars
<1>2. /\ \A d \in Client : d # c => toClient'[d] = toClient[d]
      /\ Elements(toClient[c]) \subseteq Elements(toClient'[c]) \union {m}
      /\ Elements(toClient'[c]) \subseteq Elements(toClient[c])
      /\ m \in Elements(toClient[c]) /\ m \in Frames
  BY <1>1, ReceiveLeaves, ReceiveFacts
<1>3. m[1] \in {"reply", "error"} /\ m[2] \in Req /\ m = <<m[1], m[2]>>
  BY <1>1, <1>2, FrameFacts
<1>4. \/ \E r \in pending(c) :
           /\ id[r] = id[m[2]]
           /\ outcome' = [outcome EXCEPT ![r] = IF m[1] = "reply" THEN "resolved" ELSE "rejected"]
      \/ ~(\E r \in pending(c) : id[r] = id[m[2]]) /\ outcome' = outcome
  BY DEF OnReply, Answers
<1> HIDE DEF m
<1>5. \A r \in Req : Waits(r)' => Waits(r)
  BY <1>1, <1>4 DEF Waits, TypeOK, pending
<1>p. PICK p \in Req : p = m[2]
  BY <1>3
<1>6. ~(Waits(p)')
  <2> SUFFICES ASSUME Waits(p) PROVE ~(Waits(p)')
    BY <1>5
  <2>1. ClientOf(p) = c
    <3>1. <<m[1], p>> \in Elements(toClient[c])
      BY <1>2, <1>3, <1>p
    <3> QED
      BY <1>3, <3>1 DEF OwnFrames
  <2>2. p \in pending(c)
    BY <1>3, <2>1 DEF Waits, pending
  <2>3. PICK r \in pending(c) :
          /\ id[r] = id[p]
          /\ outcome' = [outcome EXCEPT ![r] = IF m[1] = "reply" THEN "resolved" ELSE "rejected"]
    BY <1>4, <1>p, <2>2
  <2>4. r = p
    BY <1>0, <1>3, <2>1, <2>3 DEF OneId, pending, Waits
  <2>5. outcome'[p] # "pending"
    BY <1>3, <2>3, <2>4 DEF TypeOK
  <2> QED
    BY <2>5 DEF Waits
<1>7. OneId' /\ Greeted'
  BY <1>0, <1>1, <1>2, <1>5, StayOne, StayGreeted
<1>8. ASSUME NEW r \in Req, Waits(r)', UnderWay(r) PROVE UnderWay(r)'
  <2>1. ClientOf(r) \in Client /\ r # p /\ UNCHANGED <<toBridge, queued>>
    BY <1>1, <1>6, <1>8, RelayAssumption
  <2>2. \A k \in {"reply", "error"} : <<k, r>> # m
    BY <1>3, <1>p, <2>1, FrameFacts
  <2>3. \A k \in {"reply", "error"} : <<k, r>> \in Elements(toClient[ClientOf(r)]) => <<k, r>> \in Elements(toClient'[ClientOf(r)])
    BY <1>2, <2>1, <2>2
  <2> QED
    BY <1>8, <2>1, <2>3, ElementsNext DEF UnderWay
<1>9. Delivered'
  BY <1>0, <1>1, <1>5, <1>8, StayDelivered
<1> QED
  BY <1>7, <1>9 DEF LossInv

\* A socket that opens belongs to a client none of whose requests waits yet.
LEMMA LossByOpened ==
  ASSUME TypeOK, LossInv, NEW c \in Client, Opened(c)
  PROVE  LossInv'
<1>0. OneId /\ Greeted /\ Delivered
  BY DEF LossInv
<1>1. /\ socket[c] = "dialing"
      /\ socket' = [socket EXCEPT ![c] = "up"] /\ toClient' = [toClient EXCEPT ![c] = <<<<"hello">>>>]
      /\ UNCHANGED <<state, outcome, held, id, toBridge, queued>>
  BY DEF Opened, channelVars
<1>2. \A d \in Client : d # c => socket'[d] = socket[d] /\ toClient'[d] = toClient[d]
  BY <1>1 DEF TypeOK
<1>3. socket'[c] = "up"
  BY <1>1 DEF TypeOK
<1>4. \A r \in Req : Waits(r)' => Waits(r) /\ ClientOf(r) # c
  BY <1>0, <1>1 DEF Waits, Delivered, Greeted
<1>5. OneId'
  BY <1>0, <1>1, <1>4, StayOne
<1>6. Greeted'
  BY <1>0, <1>1, <1>2, <1>3, StayGreeted
<1>7. \A r \in Req : Waits(r)' /\ UnderWay(r) => UnderWay(r)'
  BY <1>1, <1>2, <1>4, OthersUnderWay, RelayAssumption
<1>8. Delivered'
  BY <1>0, <1>1, <1>2, <1>4, <1>7, StayDelivered, RelayAssumption
<1> QED
  BY <1>5, <1>6, <1>8 DEF LossInv

\* What a lost connection takes with it is of clients whose close event is to come.
LEMMA LossByBreak ==
  ASSUME TypeOK, LossInv, NEW c \in Client, Break(c)
  PROVE  LossInv'
<1>0. OneId /\ Greeted /\ Delivered
  BY DEF LossInv
<1>1. PICK m \in 0..Len(toBridge[c]), n \in 0..Len(toClient[c]) :
        /\ toBridge' = [toBridge EXCEPT ![c] = SubSeq(@, 1, m)]
        /\ toClient' = [toClient EXCEPT ![c] = SubSeq(@, 1, n)]
        /\ socket' = [socket EXCEPT ![c] = "down"]
        /\ UNCHANGED <<state, outcome, held, id, queued>>
  BY DEF Break, channelVars
<1>2. \A d \in Client : d # c => socket'[d] = socket[d] /\ toClient'[d] = toClient[d] /\ toBridge'[d] = toBridge[d]
  BY <1>1 DEF TypeOK
<1>3. socket'[c] = "down"
  BY <1>1 DEF TypeOK
<1>4. \A r \in Req : Waits(r)' => Waits(r)
  BY <1>1 DEF Waits
<1>5. OneId'
  BY <1>0, <1>1, <1>4, StayOne
<1>6. Greeted'
  BY <1>0, <1>1, <1>2, <1>3, StayGreeted
<1>7. \A r \in Req : UnderWay(r) => UnderWay(r)' \/ socket'[ClientOf(r)] = "down"
  BY <1>1, <1>2, <1>3, OthersUnderWay, RelayAssumption
<1>8. Delivered'
  BY <1>0, <1>1, <1>2, <1>3, <1>4, <1>7, StayDelivered, RelayAssumption
<1> QED
  BY <1>5, <1>6, <1>8 DEF LossInv

\* The session's transport keeps what it holds or tells of it.
LEMMA LossByChannel ==
  ASSUME TypeOK, LossInv, NEW s \in Seq(Req), Tell(s),
         \A r \in Elements(s) : r \in Elements(queued') \/ Told(r),
         \A r \in Req : UnderWay(r) =>
           \/ r \in Elements(toBridge'[ClientOf(r)])
           \/ r \in Elements(s)
           \/ \E k \in {"reply", "error"} : <<k, r>> \in Elements(toClient[ClientOf(r)]),
         UNCHANGED <<state, socket, outcome, held, id>>
  PROVE  LossInv'
<1>0. OneId /\ Greeted /\ Delivered
  BY DEF LossInv
<1>1. /\ \A c \in Client : Elements(toClient[c]) \subseteq Elements(toClient'[c])
      /\ \A r \in Elements(s) : Told(r) /\ Reachable(r) =>
           \E k \in {"reply", "error"} : <<k, r>> \in Elements(toClient'[ClientOf(r)])
  BY TellAll
<1>2. \A r \in Req : Waits(r)' => Waits(r)
  BY DEF Waits
<1>3. OneId'
  BY <1>0, <1>2, StayOne
<1>4. Greeted'
  <2>1. \A c \in Client : <<"hello">> \in Elements(toClient'[c]) => <<"hello">> \in Elements(toClient[c])
    BY TellFrames, FrameFacts
  <2> QED
    BY <1>0, <2>1, StayGreeted
<1>5. ASSUME NEW r \in Req, Waits(r)', UnderWay(r) PROVE UnderWay(r)' \/ socket'[ClientOf(r)] = "down"
  <2>1. ClientOf(r) \in Client
    BY RelayAssumption
  <2>2. state[ClientOf(r)] = "open"
    BY <1>0, <1>2, <1>5 DEF Delivered
  <2>3. socket[ClientOf(r)] \in {"up", "down"}
    BY <1>0, <2>1, <2>2 DEF Greeted, TypeOK
  <2>4. CASE r \in Elements(toBridge'[ClientOf(r)])
    BY <2>4, ElementsNext DEF UnderWay
  <2>5. CASE r \in Elements(s)
    <3>1. CASE r \in Elements(queued')
      BY <3>1, ElementsNext DEF UnderWay
    <3>2. CASE Told(r) /\ Reachable(r)
      <4>1. \E k \in {"reply", "error"} : <<k, r>> \in Elements(toClient'[ClientOf(r)])
        BY <1>1, <2>5, <3>2
      <4> QED
        BY <4>1, ElementsNext DEF UnderWay
    <3>3. CASE Told(r) /\ ~Reachable(r)
      BY <2>3, <3>3 DEF Reachable
    <3> QED
      BY <2>5, <3>1, <3>2, <3>3
  <2>6. CASE \E k \in {"reply", "error"} : <<k, r>> \in Elements(toClient[ClientOf(r)])
    <3>1. \E k \in {"reply", "error"} : <<k, r>> \in Elements(toClient'[ClientOf(r)])
      BY <1>1, <2>1, <2>6
    <3> QED
      BY <3>1, ElementsNext DEF UnderWay
  <2> QED
    BY <1>5, <2>4, <2>5, <2>6
<1>6. Delivered'
  BY <1>0, <1>2, <1>5, StayDelivered
<1> QED
  BY <1>3, <1>4, <1>6 DEF LossInv

LEMMA LossByTransport ==
  ASSUME TypeOK, LossInv, TransportStep
  PROVE  LossInv'
<1>1. /\ (\E o \in {"resolved", "rejected"} : Channel!Settle(o)) \/ Channel!Shut
      /\ Tell(queued)
      /\ UNCHANGED <<state, socket, outcome, held, id, toBridge>>
  BY DEF TransportStep, clientVars
<1>2. queued \in Seq(Req) /\ Elements(queued) \subseteq Req
  BY Types
<1>3. \A r \in Elements(queued) : r \in Elements(queued') \/ Told(r)
  BY <1>1, <1>2, HeldOrTold
<1>4. \A r \in Req : UnderWay(r) =>
        \/ r \in Elements(toBridge'[ClientOf(r)])
        \/ r \in Elements(queued)
        \/ \E k \in {"reply", "error"} : <<k, r>> \in Elements(toClient[ClientOf(r)])
  BY <1>1 DEF UnderWay
<1> QED
  BY <1>1, <1>2, <1>3, <1>4, LossByChannel

\* The handler passes the frame on, or answers it when KiCad does not run.
LEMMA LossByRelay ==
  ASSUME TypeOK, LossInv, OwnFrames, NEW c \in Client, Relay(c)
  PROVE  LossInv'
<1>0. OneId /\ Greeted /\ Delivered
  BY DEF LossInv
<1>1. PICK r : r = Head(toBridge[c])
  OBVIOUS
<1>2. /\ toBridge[c] # <<>> /\ toBridge' = [toBridge EXCEPT ![c] = Tail(@)]
      /\ UNCHANGED <<state, socket, outcome, held, id>>
  BY DEF Relay, clientVars
<1>a. toBridge[c] \in Seq(Req) /\ queued \in Seq(Req) /\ Elements(queued) \subseteq Req
  BY Types
<1>3. /\ r \in Req /\ r \in Elements(toBridge[c])
      /\ Elements(toBridge[c]) \subseteq Elements(Tail(toBridge[c])) \union {r}
  BY <1>1, <1>2, <1>a, TailElements, HeadOrTail
<1>4. ClientOf(r) = c
  BY <1>3 DEF OwnFrames
<1>5. /\ \A d \in Client : d # c => toBridge'[d] = toBridge[d]
      /\ Elements(toBridge[c]) \subseteq Elements(toBridge'[c]) \union {r}
  BY <1>2, <1>3 DEF TypeOK
<1>6. CASE (Channel!Submit(r) \/ Channel!Shut) /\ Tell(Append(queued, r))
  <2> DEFINE s == Append(queued, r)
  <2>1. s \in Seq(Req) /\ Elements(s) = Elements(queued) \union {r}
    BY <1>3, <1>a, AppendElements
  <2>2. r \in Elements(queued') \/ Told(r)
    <3>1. CASE Channel!Submit(r)
      BY <2>1, <3>1 DEF Channel!Submit
    <3>2. CASE Channel!Shut
      BY <1>3, <3>2, AllTold
    <3> QED
      BY <1>6, <3>1, <3>2
  <2>3. \A q \in Elements(s) : q \in Elements(queued') \/ Told(q)
    <3>1. \A q \in Elements(queued) : q \in Elements(queued') \/ Told(q)
      BY <1>3, <1>6, <1>a, HeldOrTold
    <3> QED
      BY <2>1, <2>2, <3>1
  <2>4. \A q \in Req : UnderWay(q) =>
          \/ q \in Elements(toBridge'[ClientOf(q)])
          \/ q \in Elements(s)
          \/ \E k \in {"reply", "error"} : <<k, q>> \in Elements(toClient[ClientOf(q)])
    BY <1>5, <2>1, RelayAssumption DEF UnderWay
  <2> HIDE DEF s
  <2>5. Tell(s)
    BY <1>6 DEF s
  <2> QED
    BY <1>2, <2>1, <2>3, <2>4, <2>5, LossByChannel
<1>7. CASE /\ toClient' = [toClient EXCEPT ![c] = IF socket[c] = "up" THEN Append(@, <<"error", r>>) ELSE @]
           /\ UNCHANGED <<queued, answered, running>>
  <2> DEFINE e == <<"error", r>>
  <2>0. e \in Frames /\ e # <<"hello">>
    BY <1>3, FrameFacts DEF Frames
  <2>1. Elements(Append(toClient[c], e)) = Elements(toClient[c]) \union {e}
    <3>1. toClient[c] \in Seq(Frames)
      BY Types
    <3> HIDE DEF Frames, e
    <3> QED
      BY <2>0, <3>1, AppendElements
  <2>2. /\ \A d \in Client : d # c => toClient'[d] = toClient[d]
        /\ Elements(toClient[c]) \subseteq Elements(toClient'[c])
        /\ Elements(toClient'[c]) \subseteq Elements(toClient[c]) \union {e}
        /\ socket[c] = "up" => e \in Elements(toClient'[c])
    BY <1>7, <2>1 DEF TypeOK
  <2>3. \A q \in Req : Waits(q)' => Waits(q)
    BY <1>2 DEF Waits
  <2>4. OneId'
    BY <1>0, <1>2, <2>3, StayOne
  <2>5. Greeted'
    BY <1>0, <1>2, <2>0, <2>2, StayGreeted
  <2>6. ASSUME NEW q \in Req, Waits(q)', UnderWay(q) PROVE UnderWay(q)' \/ socket'[ClientOf(q)] = "down"
    <3>1. CASE q = r
      <4>1. state[c] = "open"
        BY <1>0, <1>4, <2>3, <2>6, <3>1 DEF Delivered
      <4>2. socket[c] \in {"up", "down"}
        BY <1>0, <4>1 DEF Greeted, TypeOK
      <4>3. socket[c] = "up" => \E k \in {"reply", "error"} : <<k, r>> \in Elements(toClient'[c])
        BY <2>2
      <4> QED
        BY <1>2, <1>4, <3>1, <4>2, <4>3, ElementsNext DEF UnderWay
    <3>2. CASE q # r
      <4>1. /\ Elements(toBridge[ClientOf(q)]) \subseteq Elements(toBridge'[ClientOf(q)]) \union {r}
            /\ Elements(toClient[ClientOf(q)]) \subseteq Elements(toClient'[ClientOf(q)])
        BY <1>5, <2>2, RelayAssumption
      <4> QED
        BY <1>7, <2>6, <3>2, <4>1, ElementsNext DEF UnderWay
    <3> QED
      BY <3>1, <3>2
  <2>7. Delivered'
    BY <1>0, <1>2, <2>3, <2>6, StayDelivered
  <2> QED
    BY <2>4, <2>5, <2>7 DEF LossInv
<1> QED
  BY <1>1, <1>6, <1>7 DEF Relay

\* Nothing of a request is lost while somebody waits for it (send, websocket.ts:213;
\* onMessage, :283; onClose, :342; message, server.ts:241).
LEMMA NothingLostStep == RelayInv /\ LossInv /\ [Next]_vars => LossInv'
<1> SUFFICES ASSUME RelayInv, LossInv, [Next]_vars PROVE LossInv'
  OBVIOUS
<1>0. TypeOK /\ OwnFrames
  BY DEF RelayInv
<1>1. CASE UNCHANGED vars
  BY <1>1, LossByCall DEF vars, clientVars, channelVars, Waits
<1>2. ASSUME NEW r \in Req, send(r) \/ Ready(r) PROVE LossInv'
  <2>0. UNCHANGED <<state, socket, toClient, queued>>
    BY <1>2 DEF send, Ready, channelVars
  <2>1. CASE Transmit(r) /\ state[ClientOf(r)] = "open" /\ (held' = held \/ held' = held \ {r})
    <3>1. \A q \in Req : q # r => (q \in held' <=> q \in held)
      BY <2>1
    <3> QED
      BY <1>0, <2>0, <2>1, <3>1, LossByTransmit
  <2>2. CASE Reject(r) /\ (held' = held \/ held' = held \ {r})
    <3>1. outcome' = [outcome EXCEPT ![r] = "rejected"] /\ UNCHANGED <<id, toBridge>>
      BY <2>2 DEF Reject
    <3>2. \A q \in Req : Waits(q)' => Waits(q)
      BY <1>0, <2>2, <3>1 DEF Waits, TypeOK
    <3> QED
      BY <2>0, <3>1, <3>2, LossByCall
  <2>3. CASE /\ held' = held \union {r} /\ outcome' = [outcome EXCEPT ![r] = "pending"]
             /\ UNCHANGED <<id, nextId, reused, toBridge>>
    <3>1. \A q \in Req : Waits(q)' => Waits(q)
      BY <1>0, <2>3 DEF Waits, TypeOK
    <3> QED
      BY <2>0, <2>3, <3>1, LossByCall
  <2>4. state[ClientOf(r)] \in {"connecting", "open", "closed"}
    BY <1>0, RelayAssumption DEF TypeOK
  <2> QED
    BY <1>2, <2>1, <2>2, <2>3, <2>4 DEF send, Ready
<1>3. ASSUME NEW r \in Req, RequestTimeout(r) PROVE LossInv'
  <2>1. /\ outcome' = [outcome EXCEPT ![r] = "rejected"]
        /\ UNCHANGED <<state, socket, held, id, toBridge, toClient, queued>>
    BY <1>3 DEF RequestTimeout, channelVars
  <2>2. \A q \in Req : Waits(q)' => Waits(q)
    BY <1>0, <2>1 DEF Waits, TypeOK
  <2> QED
    BY <2>1, <2>2, LossByCall
<1>4. ASSUME NEW c \in Client, close(c) \/ ConnectTimeout(c) \/ OnClose(c) PROVE LossInv'
  <2>1. /\ finish(c) /\ (socket' = socket \/ socket' = [socket EXCEPT ![c] = "down"])
        /\ toClient' = toClient \/ toClient' = [toClient EXCEPT ![c] = <<>>]
        /\ UNCHANGED <<held, id, toBridge, queued>>
    BY <1>4 DEF close, ConnectTimeout, EndSocket, OnClose, channelVars
  <2> QED
    BY <1>0, <2>1, LossByFinish
<1>5. ASSUME NEW c \in Client, OnHello(c) PROVE LossInv'
  BY <1>0, <1>5, LossByHello
<1>6. ASSUME NEW c \in Client, OnReply(c) PROVE LossInv'
  BY <1>0, <1>6, LossByReply
<1>7. ASSUME NEW c \in Client, Opened(c) PROVE LossInv'
  BY <1>0, <1>7, LossByOpened
<1>8. ASSUME NEW c \in Client, Break(c) PROVE LossInv'
  BY <1>0, <1>8, LossByBreak
<1>9. ASSUME NEW c \in Client, Relay(c) PROVE LossInv'
  BY <1>0, <1>9, LossByRelay
<1>10. CASE TransportStep
  BY <1>0, <1>10, LossByTransport
<1>11. CASE Restart
  BY <1>11, LossByCall DEF Restart, clientVars, Waits
<1> QED
  BY <1>1, <1>2, <1>3, <1>4, <1>5, <1>6, <1>7, <1>8, <1>9, <1>10, <1>11 DEF Next

\* A request that was sent, or its answer, is under way, or the close event of its socket
\* is, however clients, sockets, KiCad and the transports of the session come and go
\* (websocket.ts:213, :283, :342; server.ts:241).
THEOREM NothingIsLost == Spec => []NothingLost
<1>1. Init => LossInv
  BY EmptySeq DEF Init, LossInv, OneId, Greeted, Delivered, Waits, Elements
<1>2. RelayInv /\ LossInv => NothingLost
  <2> SUFFICES ASSUME RelayInv, LossInv, NEW r \in Req, outcome[r] = "pending", r \notin held
               PROVE  /\ state[ClientOf(r)] = "open"
                      /\ r \in Travelling(ClientOf(r)) \/ socket[ClientOf(r)] = "down"
    BY DEF NothingLost
  <2>1. Waits(r) /\ Delivered /\ TypeOK
    BY DEF Waits, LossInv, RelayInv
  <2> QED
    BY <2>1, TravellingIs DEF Delivered
<1> QED
  BY <1>1, <1>2, NothingLostStep, RelayInvariant, PTL DEF Spec
=============================================================================
