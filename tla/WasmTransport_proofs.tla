------------------------ MODULE WasmTransport_proofs ------------------------
(***************************************************************************)
(* Theorems about WasmTransport for every set of requests: the types; a     *)
(* module in the same thread shows no event before the reply that caused    *)
(* it; and no request is left to its caller alone.                          *)
(***************************************************************************)
EXTENDS WasmTransport, SequenceTheorems, TLAPS

Entries(s) == {s[i] : i \in DOMAIN s}

LEMMA EntriesOfConcat ==
  ASSUME NEW S, NEW s \in Seq(S), NEW t \in Seq(S)
  PROVE  s \o t \in Seq(S) /\ Entries(s \o t) \subseteq Entries(s) \union Entries(t)
<1> DEFINE m == Len(s)
           n == Len(t)
           u == s \o t
<1>1. /\ m \in Nat /\ n \in Nat /\ DOMAIN s = 1..m /\ DOMAIN t = 1..n
      /\ u \in Seq(S) /\ Len(u) = m + n
      /\ \A i \in 1..(m + n) : u[i] = IF i <= m THEN s[i] ELSE t[i - m]
  BY LenProperties, ConcatProperties
<1>2. DOMAIN u = 1..(m + n)
  BY <1>1, LenProperties
<1> HIDE DEF m, n, u
<1>3. ASSUME NEW x \in Entries(u) PROVE x \in Entries(s) \union Entries(t)
  <2>1. PICK i \in 1..(m + n) : x = u[i]
    BY <1>2, <1>3 DEF Entries
  <2>2. CASE i <= m
    <3>1. i \in 1..m /\ x = s[i]
      BY <1>1, <2>1, <2>2
    <3> QED
      BY <1>1, <3>1 DEF Entries
  <2>3. CASE ~(i <= m)
    <3>1. i - m \in 1..n /\ x = t[i - m]
      BY <1>1, <2>1, <2>3
    <3> QED
      BY <1>1, <3>1 DEF Entries
  <2> QED
    BY <2>2, <2>3
<1> QED
  BY <1>1, <1>3 DEF u

\* Short sequences, written out.
LEMMA Two ==
  ASSUME NEW S, NEW s \in Seq(S), NEW a \in S, NEW b \in S, Len(s) = 2, s[1] = a, s[2] = b
  PROVE  s = <<a, b>>
<1>1. <<a, b>> \in Seq(S) /\ Len(<<a, b>>) = 2 /\ <<a, b>>[1] = a /\ <<a, b>>[2] = b
  OBVIOUS
<1>2. \A i \in 1..2 : i = 1 \/ i = 2
  OBVIOUS
<1>3. \A i \in 1..Len(s) : s[i] = <<a, b>>[i]
  BY <1>1, <1>2
<1> QED
  BY <1>1, <1>3, SeqEqual

LEMMA Three ==
  ASSUME NEW S, NEW s \in Seq(S), NEW a \in S, NEW b \in S, NEW c \in S,
         Len(s) = 3, s[1] = a, s[2] = b, s[3] = c
  PROVE  s = <<a, b, c>>
<1>1. /\ <<a, b, c>> \in Seq(S) /\ Len(<<a, b, c>>) = 3
      /\ <<a, b, c>>[1] = a /\ <<a, b, c>>[2] = b /\ <<a, b, c>>[3] = c
  OBVIOUS
<1>2. \A i \in 1..3 : i = 1 \/ i = 2 \/ i = 3
  OBVIOUS
<1>3. \A i \in 1..Len(s) : s[i] = <<a, b, c>>[i]
  BY <1>1, <1>2
<1> QED
  BY <1>1, <1>3, SeqEqual

LEMMA AppendToOne ==
  ASSUME NEW a, NEW b PROVE Append(<<a>>, b) = <<a, b>>
<1> DEFINE S == {a, b}
           u == Append(<<a>>, b)
<1>1. <<a>> \in Seq(S) /\ Len(<<a>>) = 1 /\ <<a>>[1] = a /\ a \in S /\ b \in S
  OBVIOUS
<1> HIDE DEF S
<1>2. u \in Seq(S) /\ Len(u) = 2 /\ u[1] = a /\ u[2] = b
  BY <1>1, AppendProperties
<1> HIDE DEF u
<1>3. u = <<a, b>>
  BY <1>1, <1>2, Two
<1> QED
  BY <1>3 DEF u

LEMMA AppendToTwo ==
  ASSUME NEW a, NEW b, NEW c PROVE Append(<<a, b>>, c) = <<a, b, c>>
<1> DEFINE S == {a, b, c}
           u == Append(<<a, b>>, c)
<1>1. /\ <<a, b>> \in Seq(S) /\ Len(<<a, b>>) = 2 /\ <<a, b>>[1] = a /\ <<a, b>>[2] = b
      /\ a \in S /\ b \in S /\ c \in S
  OBVIOUS
<1> HIDE DEF S
<1>2. u \in Seq(S) /\ Len(u) = 3 /\ u[1] = a /\ u[2] = b /\ u[3] = c
  BY <1>1, AppendProperties
<1> HIDE DEF u
<1>3. u = <<a, b, c>>
  BY <1>1, <1>2, Three
<1> QED
  BY <1>3 DEF u

-----------------------------------------------------------------------------
(* The microtasks of a module in the same thread: the end of one reply, and  *)
(* a pump at the very end when one is due.                                   *)

PumpTask == <<"pump">>
FlushTask == <<"flush">>
SeenTask(r) == <<"seen", r>>

Idle == micro = IF pumping THEN <<PumpTask>> ELSE <<>>
Flushing == micro = IF pumping THEN <<FlushTask, PumpTask>> ELSE <<FlushTask>>
Replying(r) == micro = IF pumping THEN <<SeenTask(r), FlushTask, PumpTask>> ELSE <<SeenTask(r), FlushTask>>

\* What is left of a reply; the events that wait belong to callers who have seen theirs,
\* or will before the flush.
Ending ==
  \/ (Idle \/ Flushing) /\ Entries(eventBuffer) \subseteq seen
  \/ \E r \in Req : Replying(r) /\ Entries(eventBuffer) \subseteq seen \union {r}

SyncInv ==
  ~inWorker =>
    /\ toWorker = <<>> /\ fromWorker = <<>> /\ ~stopping
    /\ pumping \in BOOLEAN /\ eventBuffer \in Seq(Req) /\ queue \in Seq(Req)
    /\ emitted \subseteq seen
    /\ Ending

\* The task in front tells which shape it is, and what is left is the next one.
LEMMA Front ==
  /\ Micro("pump") /\ Idle => pumping /\ Tail(micro) = <<>>
  /\ Micro("flush") /\ Flushing => Tail(micro) = IF pumping THEN <<PumpTask>> ELSE <<>>
  /\ \A r : Micro("seen") /\ Replying(r) =>
       /\ Head(micro)[2] = r
       /\ Tail(micro) = IF pumping THEN <<FlushTask, PumpTask>> ELSE <<FlushTask>>
<1>1. \A r : SeenTask(r)[1] = "seen" /\ SeenTask(r)[2] = r
  BY DEF SeenTask
<1>3. \A a, b, c : /\ Tail(<<a>>) = <<>> /\ Tail(<<a, b>>) = <<b>> /\ Tail(<<a, b, c>>) = <<b, c>>
                   /\ Head(<<a>>) = a /\ Head(<<a, b>>) = a /\ Head(<<a, b, c>>) = a
  OBVIOUS
<1>4. Micro("pump") /\ Idle => pumping /\ Tail(micro) = <<>>
  BY <1>3 DEF Micro, Idle
<1>5. Flushing => Tail(micro) = IF pumping THEN <<PumpTask>> ELSE <<>>
  BY <1>3 DEF Flushing
<1>6. ASSUME NEW r, Replying(r)
      PROVE  /\ Head(micro)[2] = r
             /\ Tail(micro) = IF pumping THEN <<FlushTask, PumpTask>> ELSE <<FlushTask>>
  BY <1>1, <1>3, <1>6 DEF Replying
<1> QED
  BY <1>4, <1>5, <1>6

LEMMA OtherFront ==
  /\ Micro("pump") => ~Flushing /\ \A r : ~Replying(r)
  /\ Micro("flush") => ~Idle /\ \A r : ~Replying(r)
  /\ Micro("seen") => ~Idle /\ ~Flushing
  /\ Idle \/ Flushing \/ (\E r \in Req : Replying(r)) => ~Micro("reply") /\ ~Micro("failed")
<1>1. \A r : SeenTask(r)[1] = "seen"
  BY DEF SeenTask
<1>2. PumpTask[1] = "pump" /\ FlushTask[1] = "flush"
  BY DEF PumpTask, FlushTask
<1>3. \A a, b, c : Head(<<a>>) = a /\ Head(<<a, b>>) = a /\ Head(<<a, b, c>>) = a
  OBVIOUS
<1>4. Idle => ~Micro("flush") /\ ~Micro("seen") /\ ~Micro("reply") /\ ~Micro("failed")
  BY <1>2, <1>3 DEF Micro, Idle
<1>5. Flushing => ~Micro("pump") /\ ~Micro("seen") /\ ~Micro("reply") /\ ~Micro("failed")
  BY <1>2, <1>3 DEF Micro, Flushing
<1>6. \A r : Replying(r) => ~Micro("pump") /\ ~Micro("flush") /\ ~Micro("reply") /\ ~Micro("failed")
  BY <1>1, <1>3 DEF Micro, Replying
<1> QED
  BY <1>4, <1>5, <1>6

LEMMA Schedules ==
  ASSUME pumping \in BOOLEAN, schedule(micro)
  PROVE  /\ Idle => Idle'
         /\ Flushing => Flushing'
         /\ \A r : Replying(r) => Replying(r)'
         /\ pumping' = TRUE
<1>1. Append(<<>>, PumpTask) = <<PumpTask>> /\ Append(<<FlushTask>>, PumpTask) = <<FlushTask, PumpTask>>
  BY AppendToOne
<1>2. \A r : Append(<<SeenTask(r), FlushTask>>, PumpTask) = <<SeenTask(r), FlushTask, PumpTask>>
  BY AppendToTwo
<1> QED
  BY <1>1, <1>2 DEF schedule, Idle, Flushing, Replying, PumpTask

-----------------------------------------------------------------------------
LEMMA Synchronous == Spec => []SyncInv
<1>1. Init => SyncInv
  <2> SUFFICES ASSUME Init PROVE SyncInv
    OBVIOUS
  <2>1. eventBuffer \in Seq(Req) /\ queue \in Seq(Req) /\ Entries(eventBuffer) = {}
    BY EmptySeq DEF Init, Entries
  <2> QED
    BY <2>1 DEF Init, SyncInv, Ending, Idle
<1>2. SyncInv /\ [Next]_vars => SyncInv'
  <2> SUFFICES ASSUME SyncInv, [Next]_vars, ~inWorker' PROVE SyncInv'
    BY DEF SyncInv
  <2>a. inWorker' = inWorker
    BY DEF Next, vars, config, Microtask, WorkerStep, send, Timeout, close, terminate,
           PumpNothing, PumpSync, PumpAborts, PumpAsync, Replied, Failed, Seen, Flush,
           OnEvent, OnAnswer, OnReport, OnError, StopTimeout, EndClient, Dispatch, Stop
  <2>b. /\ ~inWorker /\ toWorker = <<>> /\ fromWorker = <<>> /\ ~stopping
        /\ pumping \in BOOLEAN /\ eventBuffer \in Seq(Req) /\ queue \in Seq(Req)
        /\ emitted \subseteq seen /\ Ending
    BY <2>a DEF SyncInv
  <2>c. ~Micro("reply") /\ ~Micro("failed")
    BY <2>b, OtherFront DEF Ending
  \* A step that leaves the microtasks and the worker alone.
  <2>d. ASSUME UNCHANGED <<toWorker, fromWorker, stopping, pumping, eventBuffer, micro, emitted, seen>>,
               queue' \in Seq(Req)
        PROVE  SyncInv'
    <3>1. Ending'
      BY <2>b, <2>d DEF Ending, Idle, Flushing, Replying, Entries
    <3> QED
      BY <2>b, <2>d, <3>1 DEF SyncInv
  <2>1. CASE UNCHANGED vars
    BY <2>1, <2>b, <2>d DEF vars, callVars, clientVars, workerVars
  <2>2. ASSUME NEW r \in Req, send(r) PROVE SyncInv'
    <3>1. CASE state = "closed"
      BY <2>2, <2>b, <2>d, <3>1 DEF send, clientVars, workerVars
    <3>2. CASE state # "closed"
      <4>1. /\ queue' = Append(queue, r) /\ schedule(micro)
            /\ UNCHANGED <<toWorker, fromWorker, stopping, eventBuffer, emitted, seen>>
        BY <2>2, <3>2 DEF send, clientVars, workerVars
      <4>2. queue' \in Seq(Req)
        BY <2>b, <4>1, AppendProperties
      <4>3. Ending'
        <5>1. Entries(eventBuffer)' = Entries(eventBuffer)
          BY <4>1 DEF Entries
        <5>2. CASE (Idle \/ Flushing) /\ Entries(eventBuffer) \subseteq seen
          <6>1. Idle' \/ Flushing'
            BY <2>b, <4>1, <5>2, Schedules
          <6>2. (Entries(eventBuffer) \subseteq seen)'
            BY <4>1, <5>1, <5>2
          <6> QED
            BY <6>1, <6>2 DEF Ending
        <5>3. CASE \E s \in Req : Replying(s) /\ Entries(eventBuffer) \subseteq seen \union {s}
          <6>1. PICK s \in Req : Replying(s) /\ Entries(eventBuffer) \subseteq seen \union {s}
            BY <5>3
          <6>2. Replying(s)'
            BY <2>b, <4>1, <6>1, Schedules
          <6>3. (Entries(eventBuffer) \subseteq seen \union {s})'
            BY <4>1, <5>1, <6>1
          <6> QED
            BY <6>2, <6>3 DEF Ending
        <5> QED
          BY <2>b, <5>2, <5>3 DEF Ending
      <4> QED
        BY <2>b, <4>1, <4>2, <4>3, Schedules DEF SyncInv
    <3> QED
      BY <3>1, <3>2
  <2>3. ASSUME NEW r \in Req, Timeout(r) PROVE SyncInv'
    BY <2>3, <2>b, <2>d DEF Timeout, clientVars, workerVars
  <2>4. CASE close
    <3>1. /\ queue' = <<>> /\ eventBuffer' = <<>>
          /\ UNCHANGED <<toWorker, fromWorker, stopping, pumping, micro, emitted, seen>>
      BY <2>4, <2>b DEF close, doClose
    <3>2. queue' \in Seq(Req) /\ eventBuffer' \in Seq(Req) /\ Entries(eventBuffer)' = {}
      BY <3>1, EmptySeq DEF Entries
    <3>3. Ending'
      BY <2>b, <3>1, <3>2 DEF Ending, Idle, Flushing, Replying
    <3> QED
      BY <2>b, <3>1, <3>2, <3>3 DEF SyncInv
  <2>5. CASE PumpNothing
    <3>1. /\ queue' = <<>> /\ micro' = Tail(micro) /\ pumping' = FALSE /\ Micro("pump")
          /\ UNCHANGED <<toWorker, fromWorker, stopping, eventBuffer, emitted, seen>>
      BY <2>5 DEF PumpNothing, Pump, clientVars, workerVars
    <3>2. Idle /\ Entries(eventBuffer) \subseteq seen
      BY <2>b, <3>1, OtherFront DEF Ending
    <3>3. micro' = <<>>
      BY <3>1, <3>2, Front
    <3>4. Ending' /\ queue' \in Seq(Req)
      BY <3>1, <3>2, <3>3, EmptySeq DEF Ending, Idle, Entries
    <3> QED
      BY <2>b, <3>1, <3>4 DEF SyncInv
  <2>6. ASSUME NEW i \in DOMAIN queue, PumpSync(i) PROVE SyncInv'
    <3>1. /\ queue' = SubSeq(queue, i + 1, Len(queue)) /\ pumping' = FALSE /\ Micro("pump")
          /\ UNCHANGED <<toWorker, fromWorker, stopping, emitted, seen>>
      BY <2>6 DEF PumpSync, Pump, clientVars
    <3>2. Idle /\ Entries(eventBuffer) \subseteq seen
      BY <2>b, <3>1, OtherFront DEF Ending
    <3>3. Tail(micro) = <<>>
      BY <3>1, <3>2, Front
    <3>4. queue[i] \in Req /\ queue' \in Seq(Req)
      <4>1. i \in 1..Len(queue) /\ Len(queue) \in Nat /\ \A k \in 1..Len(queue) : queue[k] \in Req
        BY <2>b, LenProperties
      <4>2. \A k \in (i + 1)..Len(queue) : queue[k] \in Req
        BY <4>1
      <4> QED
        BY <3>1, <4>1, <4>2, SubSeqProperties
    <3>r. PICK r \in Req : r = queue[i]
      BY <3>4
    <3>5. CASE /\ \E e \in {<<>>, <<r>>} : eventBuffer' = eventBuffer \o e
               /\ micro' = Tail(micro) \o AfterReply(r)
      <4>1. PICK e \in {<<>>, <<r>>} : eventBuffer' = eventBuffer \o e
        BY <3>5
      <4>2. e \in Seq(Req) /\ Entries(e) \subseteq {r}
        <5>1. <<>> \in Seq(Req) /\ Entries(<<>>) = {}
          BY EmptySeq DEF Entries
        <5>2. <<r>> \in Seq(Req) /\ Entries(<<r>>) = {r}
          <6>1. DOMAIN <<r>> = {1} /\ <<r>>[1] = r /\ <<r>> \in Seq(Req)
            OBVIOUS
          <6> QED
            BY <6>1 DEF Entries
        <5> QED
          BY <5>1, <5>2
      <4>3. eventBuffer' \in Seq(Req) /\ Entries(eventBuffer') \subseteq seen \union {r}
        BY <2>b, <3>2, <4>1, <4>2, EntriesOfConcat
      <4>4. micro' = <<SeenTask(r), FlushTask>>
        <5>1. AfterReply(r) = <<SeenTask(r), FlushTask>> /\ AfterReply(r) \in Seq({SeenTask(r), FlushTask})
          BY DEF AfterReply, SeenTask, FlushTask
        <5> QED
          BY <3>3, <3>5, <5>1, ConcatEmptySeq
      <4>5. Replying(r)'
        BY <3>1, <4>4 DEF Replying
      <4>6. Ending'
        BY <3>1, <3>4, <4>3, <4>5 DEF Ending, Entries
      <4> QED
        BY <2>b, <3>1, <3>4, <4>3, <4>6 DEF SyncInv
    <3>6. CASE micro' = Append(Tail(micro), <<"flush">>) /\ UNCHANGED eventBuffer
      <4>1. micro' = <<FlushTask>>
        <5>1. Append(<<>>, FlushTask) = <<FlushTask>>
          OBVIOUS
        <5> QED
          BY <3>3, <3>6, <5>1 DEF FlushTask
      <4>2. Ending'
        BY <3>1, <3>2, <3>6, <4>1 DEF Ending, Flushing, Entries
      <4> QED
        BY <2>b, <3>1, <3>4, <3>6, <4>2 DEF SyncInv
    <3> QED
      BY <2>6, <3>r, <3>5, <3>6 DEF PumpSync
  <2>7. ASSUME NEW i \in DOMAIN queue, PumpAborts(i) PROVE SyncInv'
    <3>1. /\ queue' = <<>> /\ eventBuffer' = <<>> /\ micro' = Tail(micro) /\ pumping' = FALSE /\ Micro("pump")
          /\ UNCHANGED <<toWorker, fromWorker, stopping, emitted, seen>>
      BY <2>7, <2>b DEF PumpAborts, Pump, doClose
    <3>2. Idle
      BY <2>b, <3>1, OtherFront DEF Ending
    <3>3. micro' = <<>>
      BY <3>1, <3>2, Front
    <3>4. eventBuffer' \in Seq(Req) /\ queue' \in Seq(Req) /\ Entries(eventBuffer)' = {}
      BY <3>1, EmptySeq DEF Entries
    <3>5. Ending'
      BY <3>1, <3>3, <3>4 DEF Ending, Idle
    <3> QED
      BY <2>b, <3>1, <3>4, <3>5 DEF SyncInv
  <2>8. CASE Seen
    <3>1. /\ seen' = seen \union {Head(micro)[2]} /\ micro' = Tail(micro) /\ Micro("seen")
          /\ UNCHANGED <<toWorker, fromWorker, stopping, pumping, eventBuffer, emitted, queue>>
      BY <2>8 DEF Seen, clientVars, workerVars
    <3>2. PICK r \in Req : Replying(r) /\ Entries(eventBuffer) \subseteq seen \union {r}
      BY <2>b, <3>1, OtherFront DEF Ending
    <3>3. Head(micro)[2] = r /\ Flushing'
      BY <3>1, <3>2, Front DEF Flushing
    <3>4. Ending'
      BY <3>1, <3>2, <3>3 DEF Ending, Entries
    <3> QED
      BY <2>b, <3>1, <3>4 DEF SyncInv
  <2>9. CASE Flush
    <3>1. /\ emitted' = emitted \union Entries(eventBuffer) /\ eventBuffer' = <<>> /\ Micro("flush")
          /\ UNCHANGED <<toWorker, fromWorker, stopping, seen, queue>> /\ Reschedule
      BY <2>9 DEF Flush, clientVars, workerVars, Entries
    <3>2. Flushing /\ Entries(eventBuffer) \subseteq seen
      BY <2>b, <3>1, OtherFront DEF Ending
    <3>3. Tail(micro) = IF pumping THEN <<PumpTask>> ELSE <<>>
      BY <3>1, <3>2, Front
    <3>4. Idle' /\ pumping' \in BOOLEAN
      <4>1. Append(<<>>, PumpTask) = <<PumpTask>>
        OBVIOUS
      <4> QED
        BY <2>b, <3>1, <3>3, <4>1 DEF Reschedule, schedule, Idle, PumpTask
    <3>5. eventBuffer' \in Seq(Req) /\ Entries(eventBuffer)' = {}
      BY <3>1, EmptySeq DEF Entries
    <3>6. Ending'
      BY <3>4, <3>5 DEF Ending
    <3> QED
      BY <2>b, <3>1, <3>2, <3>4, <3>5, <3>6 DEF SyncInv
  <2>10. ~OnEvent /\ ~OnAnswer /\ ~OnReport /\ ~OnError /\ ~StopTimeout /\ ~terminate /\ ~WorkerStep
         /\ ~Replied /\ ~Failed /\ \A i \in DOMAIN queue : ~PumpAsync(i)
    BY <2>b, <2>c DEF OnEvent, OnAnswer, OnReport, OnError, StopTimeout, terminate, WorkerStep,
                      Dispatch, Stop, Message, Replied, Failed, PumpAsync
  <2> QED
    BY <2>1, <2>2, <2>3, <2>4, <2>5, <2>6, <2>7, <2>8, <2>9, <2>10 DEF Next, Microtask
<1> QED
  BY <1>1, <1>2, PTL DEF Spec

\* A listener never sees an event before the caller has seen the reply to the request that
\* caused it (afterDispatch, wasm.ts:235), when the module runs in the transport's own thread.
THEOREM EventsWait == Spec => []EventsAfterReply
<1>1. SyncInv => EventsAfterReply
  BY DEF SyncInv, EventsAfterReply
<1> QED
  BY <1>1, Synchronous, PTL

-----------------------------------------------------------------------------
(* What is in a sequence. *)

LEMMA EmptyEntries ==
  ASSUME NEW S, NEW s \in Seq(S)
  PROVE  <<>> \in Seq(S) /\ Entries(<<>>) = {} /\ (s # <<>> => Entries(s) # {})
<1>1. <<>> \in Seq(S) /\ Entries(<<>>) = {}
  BY EmptySeq DEF Entries
<1>2. ASSUME s # <<>> PROVE s[1] \in Entries(s)
  BY <1>2, LenProperties, EmptySeq DEF Entries
<1> QED
  BY <1>1, <1>2

LEMMA OneEntry ==
  ASSUME NEW S, NEW x \in S PROVE <<x>> \in Seq(S) /\ Entries(<<x>>) = {x}
<1>1. DOMAIN <<x>> = {1} /\ <<x>>[1] = x /\ <<x>> \in Seq(S)
  OBVIOUS
<1> QED
  BY <1>1 DEF Entries

LEMMA AppendEntries ==
  ASSUME NEW S, NEW s \in Seq(S), NEW x \in S
  PROVE  Append(s, x) \in Seq(S) /\ Entries(Append(s, x)) = Entries(s) \union {x}
<1>1. /\ DOMAIN s = 1..Len(s) /\ Len(s) \in Nat
      /\ DOMAIN Append(s, x) = 1..(Len(s) + 1) /\ Append(s, x) \in Seq(S)
      /\ \A k \in 1..Len(s) : Append(s, x)[k] = s[k]
      /\ Append(s, x)[Len(s) + 1] = x
  BY LenProperties, AppendProperties
<1>2. 1..(Len(s) + 1) = 1..Len(s) \union {Len(s) + 1}
  BY <1>1
<1> QED
  BY <1>1, <1>2 DEF Entries

LEMMA TailEntries ==
  ASSUME NEW S, NEW s \in Seq(S), s # <<>>
  PROVE  /\ Tail(s) \in Seq(S) /\ Head(s) \in S
         /\ Entries(s) = {Head(s)} \union Entries(Tail(s))
<1>1. /\ DOMAIN s = 1..Len(s) /\ Len(s) \in Nat /\ Len(s) >= 1 /\ Head(s) = s[1]
      /\ DOMAIN Tail(s) = 1..(Len(s) - 1) /\ Tail(s) \in Seq(S) /\ Head(s) \in S
  BY LenProperties, HeadTailProperties, EmptySeq
<1>2. \A k \in 1..(Len(s) - 1) : Tail(s)[k] = s[k + 1] /\ k + 1 \in 1..Len(s)
  BY HeadTailProperties, <1>1
<1>3. 1 \in 1..Len(s) /\ \A k \in 1..Len(s) : k = 1 \/ k - 1 \in 1..(Len(s) - 1)
  BY <1>1
<1>4. ASSUME NEW x \in Entries(s) PROVE x \in {Head(s)} \union Entries(Tail(s))
  <2>1. PICK k \in 1..Len(s) : x = s[k]
    BY <1>1, <1>4 DEF Entries
  <2>2. CASE k = 1
    BY <1>1, <2>1, <2>2
  <2>3. CASE k # 1
    <3>1. k - 1 \in 1..(Len(s) - 1) /\ (k - 1) + 1 = k
      BY <1>1, <1>3, <2>3
    <3>2. Tail(s)[k - 1] = x
      BY <1>2, <2>1, <3>1
    <3> QED
      BY <1>1, <3>1, <3>2 DEF Entries
  <2> QED
    BY <2>2, <2>3
<1>5. Head(s) \in Entries(s) /\ Entries(Tail(s)) \subseteq Entries(s)
  BY <1>1, <1>2, <1>3 DEF Entries
<1> QED
  BY <1>1, <1>4, <1>5

LEMMA ConcatHasBoth ==
  ASSUME NEW S, NEW s \in Seq(S), NEW t \in Seq(S)
  PROVE  s \o t \in Seq(S) /\ Entries(s \o t) = Entries(s) \union Entries(t)
<1>1. /\ DOMAIN s = 1..Len(s) /\ DOMAIN t = 1..Len(t) /\ Len(s) \in Nat /\ Len(t) \in Nat
      /\ s \o t \in Seq(S) /\ Len(s \o t) = Len(s) + Len(t)
      /\ \A i \in 1..(Len(s) + Len(t)) : (s \o t)[i] = IF i <= Len(s) THEN s[i] ELSE t[i - Len(s)]
  BY LenProperties, ConcatProperties
<1>2. DOMAIN (s \o t) = 1..(Len(s) + Len(t))
  BY <1>1, LenProperties
<1>3. \A k \in 1..Len(s) : k \in DOMAIN (s \o t) /\ (s \o t)[k] = s[k]
  BY <1>1, <1>2
<1>4. ASSUME NEW k \in 1..Len(t)
      PROVE  Len(s) + k \in DOMAIN (s \o t) /\ (s \o t)[Len(s) + k] = t[k]
  <2>1. Len(s) + k \in 1..(Len(s) + Len(t)) /\ ~(Len(s) + k <= Len(s)) /\ (Len(s) + k) - Len(s) = k
    BY <1>1
  <2> QED
    BY <1>1, <1>2, <2>1
<1>5. Entries(s) \subseteq Entries(s \o t)
  BY <1>1, <1>3 DEF Entries
<1>6. ASSUME NEW x \in Entries(t) PROVE x \in Entries(s \o t)
  <2>1. PICK k \in 1..Len(t) : x = t[k]
    BY <1>1, <1>6 DEF Entries
  <2> QED
    BY <1>4, <2>1 DEF Entries
<1> QED
  BY <1>1, <1>5, <1>6, EntriesOfConcat

\* What follows the place i.
LEMMA RestEntries ==
  ASSUME NEW S, NEW s \in Seq(S), NEW i \in DOMAIN s
  PROVE  /\ SubSeq(s, i + 1, Len(s)) \in Seq(S) /\ s[i] \in S
         /\ Entries(SubSeq(s, i + 1, Len(s))) \subseteq Entries(s)
         /\ \A k \in DOMAIN s : k <= i \/ s[k] \in Entries(SubSeq(s, i + 1, Len(s)))
<1> DEFINE t == SubSeq(s, i + 1, Len(s))
<1>1. DOMAIN s = 1..Len(s) /\ Len(s) \in Nat /\ i \in 1..Len(s) /\ \A k \in 1..Len(s) : s[k] \in S
  BY LenProperties
<1>2. /\ t \in Seq(S) /\ Len(t) = Len(s) - i
      /\ \A k \in 1..(Len(s) - i) : t[k] = s[i + k]
  <2>1. \A k \in (i + 1)..Len(s) : s[k] \in S
    BY <1>1
  <2>2. Len(t) = (IF i + 1 <= Len(s) + 1 THEN Len(s) - (i + 1) + 1 ELSE 0) /\ t \in Seq(S)
        /\ \A k \in 1..(Len(s) - (i + 1) + 1) : t[k] = s[(i + 1) + k - 1]
    BY <1>1, <2>1, SubSeqProperties
  <2>3. Len(s) - (i + 1) + 1 = Len(s) - i /\ i + 1 <= Len(s) + 1
    BY <1>1
  <2>4. \A k \in 1..(Len(s) - i) : (i + 1) + k - 1 = i + k
    BY <1>1
  <2> QED
    BY <2>2, <2>3, <2>4
<1>3. DOMAIN t = 1..(Len(s) - i)
  BY <1>2, LenProperties
<1>4. \A k \in 1..(Len(s) - i) : i + k \in 1..Len(s)
  BY <1>1
<1>5. \A k \in 1..Len(s) : k <= i \/ (k - i \in 1..(Len(s) - i) /\ i + (k - i) = k)
  BY <1>1
<1>6. Entries(t) \subseteq Entries(s)
  BY <1>1, <1>2, <1>3, <1>4 DEF Entries
<1>7. ASSUME NEW k \in DOMAIN s, ~(k <= i) PROVE s[k] \in Entries(t)
  <2>1. k - i \in 1..(Len(s) - i) /\ i + (k - i) = k
    BY <1>1, <1>5, <1>7
  <2>2. t[k - i] = s[k]
    BY <1>2, <2>1
  <2> QED
    BY <1>3, <2>1, <2>2 DEF Entries
<1> QED
  BY <1>1, <1>2, <1>6, <1>7

LEMMA WithoutEntries ==
  ASSUME NEW S, NEW s \in Seq(S), NEW i \in DOMAIN s
  PROVE  /\ Without(s, i) \in Seq(S) /\ Entries(Without(s, i)) \subseteq Entries(s)
         /\ \A x \in Entries(s) : x = s[i] \/ x \in Entries(Without(s, i))
<1> DEFINE t == SubSeq(s, i + 1, Len(s))
           u == SubSeq(s, 1, i - 1)
<1>1. DOMAIN s = 1..Len(s) /\ Len(s) \in Nat /\ i \in 1..Len(s) /\ \A k \in 1..Len(s) : s[k] \in S
  BY LenProperties
<1>2. u \in Seq(S) /\ Len(u) = i - 1 /\ \A k \in 1..(i - 1) : u[k] = s[k] /\ k \in 1..Len(s)
  <2>1. i - 1 \in 0..Len(s) /\ \A k \in 1..(i - 1) : k \in 1..Len(s)
    BY <1>1
  <2> QED
    BY <1>1, <2>1, SubSeqProperties
<1>3. DOMAIN u = 1..(i - 1)
  BY <1>2, LenProperties
<1>4. Without(s, i) \in Seq(S) /\ Entries(Without(s, i)) = Entries(u) \union Entries(t)
  <2>1. Without(s, i) = u \o t /\ t \in Seq(S)
    BY RestEntries DEF Without
  <2> HIDE DEF t, u
  <2> QED
    BY <1>2, <2>1, ConcatHasBoth
<1>5. Entries(u) \subseteq Entries(s)
  BY <1>1, <1>2, <1>3 DEF Entries
<1>6. ASSUME NEW k \in 1..Len(s), k # i PROVE s[k] \in Entries(u) \/ s[k] \in Entries(t)
  <2>1. CASE k <= i
    <3>1. k \in 1..(i - 1)
      BY <1>1, <1>6, <2>1
    <3> QED
      BY <1>2, <1>3, <3>1 DEF Entries
  <2>2. CASE ~(k <= i)
    BY <1>1, <2>2, RestEntries
  <2> QED
    BY <2>1, <2>2
<1>7. ASSUME NEW x \in Entries(s) PROVE x = s[i] \/ x \in Entries(Without(s, i))
  <2>1. PICK k \in 1..Len(s) : x = s[k]
    BY <1>1, <1>7 DEF Entries
  <2> QED
    BY <1>4, <1>6, <2>1
<1> QED
  BY <1>4, <1>5, <1>7, RestEntries

-----------------------------------------------------------------------------
(* Types. *)

Orders == {<<"stop">>} \union ({"req"} \X Req)

LEMMA Members ==
  /\ PumpTask \in Tasks /\ FlushTask \in Tasks
  /\ \A r \in Req : /\ SeenTask(r) \in Tasks /\ <<"reply", r>> \in Tasks
                    /\ \A f \in BOOLEAN : <<"failed", r, f>> \in Tasks
BY DEF PumpTask, FlushTask, SeenTask, Tasks

LEMMA SentMembers ==
  /\ <<"failed">> \in Messages /\ <<"exited">> \in Messages
  /\ \A r \in Req : /\ <<"event", r>> \in Messages /\ <<"res", r>> \in Messages
                    /\ \A f \in BOOLEAN : <<"error", r, f>> \in Messages
                    /\ <<"req", r>> \in Orders
  /\ <<"stop">> \in Orders
BY DEF Messages, Orders

LEMMA TaskKinds ==
  ASSUME NEW t \in Tasks
  PROVE  /\ t[1] \in {"reply", "seen"} => t[2] \in Req /\ t = <<t[1], t[2]>>
         /\ t[1] = "failed" => t[2] \in Req /\ t[3] \in BOOLEAN /\ t = <<"failed", t[2], t[3]>>
         /\ t[1] = "pump" => t = PumpTask
         /\ t[1] = "flush" => t = FlushTask
BY DEF Tasks, PumpTask, FlushTask

LEMMA MessageKinds ==
  ASSUME NEW m \in Messages
  PROVE  /\ m[1] \in {"event", "res"} => m[2] \in Req /\ m = <<m[1], m[2]>>
         /\ m[1] = "error" => m[2] \in Req /\ m[3] \in BOOLEAN /\ m = <<"error", m[2], m[3]>>
         /\ m[1] = "failed" => m = <<"failed">>
         /\ m[1] = "exited" => m = <<"exited">>
BY DEF Messages

LEMMA OrderKinds ==
  ASSUME NEW o \in Orders
  PROVE  /\ o[1] = "req" => o[2] \in Req /\ o = <<"req", o[2]>>
         /\ o[1] = "stop" => o = <<"stop">>
BY DEF Orders

LEMMA Fields ==
  ASSUME TypeOK
  PROVE  /\ queue \in Seq(Req) /\ eventBuffer \in Seq(Req) /\ waiting \in Seq(Req)
         /\ micro \in Seq(Tasks) /\ toWorker \in Seq(Orders) /\ fromWorker \in Seq(Messages)
         /\ inWorker \in BOOLEAN /\ pumping \in BOOLEAN /\ stopping \in BOOLEAN
         /\ closed \in BOOLEAN /\ down \in BOOLEAN
         /\ outcome \in [Req -> {"unsent", "pending", "resolved", "rejected"}]
BY DEF TypeOK, Orders

\* The requests of an ended client, as microtasks.
LEMMA FailTasksType ==
  ASSUME waiting \in Seq(Req), NEW f \in BOOLEAN
  PROVE  /\ FailTasks(f) \in Seq(Tasks)
         /\ Entries(FailTasks(f)) = {<<"failed", r, f>> : r \in Entries(waiting)}
<1>1. DOMAIN waiting = 1..Len(waiting) /\ Len(waiting) \in Nat /\ \A i \in 1..Len(waiting) : waiting[i] \in Req
  BY LenProperties
<1>2. FailTasks(f) \in [1..Len(waiting) -> Tasks]
  BY <1>1, Members DEF FailTasks
<1>3. FailTasks(f) \in Seq(Tasks)
  BY <1>1, <1>2, SeqDef
<1>4. DOMAIN FailTasks(f) = DOMAIN waiting /\ \A i \in DOMAIN waiting : FailTasks(f)[i] = <<"failed", waiting[i], f>>
  BY DEF FailTasks
<1> QED
  BY <1>3, <1>4 DEF Entries

\* What is left of the microtasks.
LEMMA RestType ==
  ASSUME TypeOK, micro # <<>>
  PROVE  /\ Head(micro) \in Tasks /\ Tail(micro) \in Seq(Tasks)
         /\ Entries(micro) = {Head(micro)} \union Entries(Tail(micro))
BY Fields, TailEntries

\* doClose() of a transport.
LEMMA CloseType ==
  ASSUME TypeOK, NEW out \in [Req -> {"unsent", "pending", "resolved", "rejected"}], doClose(out)
  PROVE  /\ state' = "closed" /\ queue' = <<>> /\ eventBuffer' = <<>> /\ <<>> \in Seq(Req)
         /\ outcome' \in [Req -> {"unsent", "pending", "resolved", "rejected"}]
         /\ {closed', stopping'} \subseteq BOOLEAN
         /\ toWorker' \in Seq(Orders)
         /\ worker' \in {"running", "aborted", "wedged", "stopped", "terminated"}
<1>1. <<>> \in Seq(Req)
  BY EmptySeq
<1>2. outcome' \in [Req -> {"unsent", "pending", "resolved", "rejected"}]
  BY DEF doClose, failAll
<1>3. Append(toWorker, <<"stop">>) \in Seq(Orders)
  BY Fields, SentMembers, AppendEntries
<1>4. /\ {closed', stopping'} \subseteq BOOLEAN /\ toWorker' \in Seq(Orders)
      /\ worker' \in {"running", "aborted", "wedged", "stopped", "terminated"}
  BY <1>3, Fields DEF doClose, shutdown, TypeOK
<1> QED
  BY <1>1, <1>2, <1>4 DEF doClose

\* The parts of TypeOK, as one reads them.
Configured == inWorker \in BOOLEAN /\ owns \in BOOLEAN /\ seen \subseteq Req /\ emitted \subseteq Req
CallTypes == /\ state \in {"open", "closed"} /\ pumping \in BOOLEAN /\ dispatching \in BOOLEAN
             /\ queue \in Seq(Req) /\ eventBuffer \in Seq(Req) /\ micro \in Seq(Tasks)
             /\ outcome \in [Req -> {"unsent", "pending", "resolved", "rejected"}]
ClientTypes == waiting \in Seq(Req) /\ closed \in BOOLEAN /\ stopping \in BOOLEAN /\ down \in BOOLEAN
WorkerTypes == /\ toWorker \in Seq(Orders) /\ fromWorker \in Seq(Messages)
               /\ worker \in {"running", "aborted", "wedged", "stopped", "terminated"}

LEMMA TypeParts == TypeOK <=> Configured /\ CallTypes /\ ClientTypes /\ WorkerTypes
BY DEF TypeOK, Configured, CallTypes, ClientTypes, WorkerTypes, Orders

LEMMA TypePartsNext == TypeOK' <=> Configured' /\ CallTypes' /\ ClientTypes' /\ WorkerTypes'
BY DEF TypeOK, Configured, CallTypes, ClientTypes, WorkerTypes, Orders

LEMMA MicrotaskType ==
  ASSUME TypeOK, Microtask
  PROVE  TypeOK'
<1>1. Configured /\ CallTypes /\ ClientTypes /\ WorkerTypes
  BY TypeParts
<1>2. Len(micro) \in Nat /\ queue \in Seq(Req) /\ \A i \in DOMAIN queue : queue[i] \in Req
  BY <1>1, LenProperties DEF CallTypes
<1>3. \A s \in Seq(Tasks) : s \o <<>> = s /\ \A t \in Tasks : Append(s, t) \in Seq(Tasks)
  BY AppendProperties, ConcatEmptySeq
<1>4. \A s \in Seq(Tasks), r \in Req : s \o AfterReply(r) \in Seq(Tasks)
  <2>1. \A r \in Req : AfterReply(r) \in Seq(Tasks)
    <3> SUFFICES ASSUME NEW r \in Req PROVE AfterReply(r) \in Seq(Tasks)
      OBVIOUS
    <3>1. SeenTask(r) \in Tasks /\ FlushTask \in Tasks
      BY Members
    <3>2. <<SeenTask(r), FlushTask>> \in Seq(Tasks)
      BY <3>1
    <3> QED
      BY <3>2 DEF AfterReply, SeenTask, FlushTask
  <2> QED
    BY <2>1, ConcatProperties
<1>5. CASE PumpNothing
  <2>1. CallTypes'
    BY <1>1, <1>5, RestType, EmptySeq DEF PumpNothing, Pump, Micro, CallTypes
  <2> QED
    BY <1>1, <1>5, <2>1, TypePartsNext DEF PumpNothing, Configured, ClientTypes, WorkerTypes, config, clientVars, workerVars
<1>6. ASSUME NEW i \in DOMAIN queue, PumpSync(i) PROVE TypeOK'
  <2>1. Tail(micro) \in Seq(Tasks) /\ queue[i] \in Req /\ queue' \in Seq(Req) /\ FlushTask \in Tasks
    BY <1>2, <1>6, RestType, RestEntries, Members DEF PumpSync, Pump, Micro
  <2>2. micro' \in Seq(Tasks)
    BY <1>3, <1>4, <1>6, <2>1 DEF PumpSync, FlushTask
  <2>3. eventBuffer' \in Seq(Req)
    <3>1. <<>> \in Seq(Req) /\ <<queue[i]>> \in Seq(Req) /\ eventBuffer \in Seq(Req)
      BY <1>1, <2>1, EmptySeq, OneEntry DEF CallTypes
    <3>2. \A e \in {<<>>, <<queue[i]>>} : eventBuffer \o e \in Seq(Req)
      BY <3>1, ConcatProperties
    <3> QED
      BY <1>6, <3>1, <3>2 DEF PumpSync
  <2>4. /\ UNCHANGED <<state, dispatching, inWorker, owns, seen, emitted>> /\ pumping' = FALSE
        /\ UNCHANGED <<clientVars, workerVars>>
    BY <1>6 DEF PumpSync, Pump, config, workerVars
  <2>5. outcome' \in [Req -> {"unsent", "pending", "resolved", "rejected"}]
    BY <1>1, <1>6, <2>1 DEF PumpSync, CallTypes
  <2> QED
    BY <1>1, <2>1, <2>2, <2>3, <2>4, <2>5, TypePartsNext
       DEF Configured, CallTypes, ClientTypes, WorkerTypes, clientVars, workerVars
<1>7. ASSUME NEW i \in DOMAIN queue, PumpAborts(i) PROVE TypeOK'
  <2>1. [outcome EXCEPT ![queue[i]] = "rejected"] \in [Req -> {"unsent", "pending", "resolved", "rejected"}]
    BY <1>1, <1>2 DEF CallTypes
  <2>2. doClose([outcome EXCEPT ![queue[i]] = "rejected"]) /\ micro' = Tail(micro) /\ Tail(micro) \in Seq(Tasks)
    BY <1>7, RestType DEF PumpAborts, Pump, Micro
  <2>3. UNCHANGED <<config, dispatching, seen, emitted, waiting, down, fromWorker>> /\ pumping' = FALSE
    BY <1>7 DEF PumpAborts, Pump
  <2>4. CallTypes' /\ ClientTypes' /\ WorkerTypes'
    BY <1>1, <2>1, <2>2, <2>3, CloseType DEF CallTypes, ClientTypes, WorkerTypes
  <2> QED
    BY <1>1, <2>3, <2>4, TypePartsNext DEF Configured, config
<1>8. ASSUME NEW i \in DOMAIN queue, PumpAsync(i) PROVE TypeOK'
  <2>1. Tail(micro) \in Seq(Tasks) /\ queue[i] \in Req /\ queue' \in Seq(Req)
    BY <1>2, <1>8, RestType, RestEntries DEF PumpAsync, Pump, Micro
  <2>2. <<"failed", queue[i], FALSE>> \in Tasks /\ <<"req", queue[i]>> \in Orders
    BY <2>1, Members, SentMembers
  <2>3. /\ micro' \in Seq(Tasks) /\ waiting' \in Seq(Req) /\ toWorker' \in Seq(Orders)
    <3>1. Append(Tail(micro), <<"failed", queue[i], FALSE>>) \in Seq(Tasks)
      BY <1>3, <2>1, <2>2
    <3>2. Append(waiting, queue[i]) \in Seq(Req) /\ waiting \in Seq(Req)
      BY <1>1, <2>1, AppendProperties DEF ClientTypes
    <3>3. Append(toWorker, <<"req", queue[i]>>) \in Seq(Orders) /\ toWorker \in Seq(Orders)
      BY <1>1, <2>2, AppendProperties DEF WorkerTypes
    <3> QED
      BY <1>8, <2>1, <3>1, <3>2, <3>3 DEF PumpAsync
  <2>4. /\ pumping' = FALSE /\ dispatching' = TRUE
        /\ UNCHANGED <<config, state, eventBuffer, outcome, seen, emitted, closed, stopping, down, fromWorker, worker>>
    BY <1>8 DEF PumpAsync, Pump
  <2> QED
    BY <1>1, <2>1, <2>3, <2>4, TypePartsNext DEF Configured, CallTypes, ClientTypes, WorkerTypes, config
<1>9. CASE Replied
  <2>1. Tail(micro) \in Seq(Tasks) /\ Head(micro)[2] \in Req
    BY <1>9, RestType, TaskKinds DEF Replied, Micro
  <2>2. CallTypes'
    BY <1>1, <1>4, <1>9, <2>1 DEF Replied, CallTypes
  <2> QED
    BY <1>1, <1>9, <2>2, TypePartsNext DEF Replied, Configured, ClientTypes, WorkerTypes, config, clientVars, workerVars
<1>10. CASE Failed
  <2> DEFINE r == Head(micro)[2]
             out == [outcome EXCEPT ![r] = "rejected"]
  <2>1. Tail(micro) \in Seq(Tasks) /\ r \in Req /\ Head(micro)[3] \in BOOLEAN /\ FlushTask \in Tasks
    BY <1>10, RestType, TaskKinds, Members DEF Failed, Micro
  <2>2. out \in [Req -> {"unsent", "pending", "resolved", "rejected"}]
    BY <1>1, <2>1 DEF CallTypes
  <2>3. micro' \in Seq(Tasks)
    BY <1>3, <1>10, <2>1 DEF Failed, FlushTask
  <2>4. UNCHANGED <<config, pumping, seen, emitted, waiting, down, fromWorker>> /\ dispatching' = FALSE
    BY <1>10 DEF Failed
  <2>5. \/ doClose(out)
        \/ outcome' = out /\ UNCHANGED <<state, queue, eventBuffer, closed, stopping, toWorker, worker>>
    BY <1>10 DEF Failed
  <2> HIDE DEF out
  <2>6. CASE doClose(out)
    BY <1>1, <2>2, <2>3, <2>4, <2>6, CloseType, TypePartsNext
       DEF Configured, CallTypes, ClientTypes, WorkerTypes, config
  <2>7. CASE outcome' = out /\ UNCHANGED <<state, queue, eventBuffer, closed, stopping, toWorker, worker>>
    BY <1>1, <2>2, <2>3, <2>4, <2>7, TypePartsNext
       DEF Configured, CallTypes, ClientTypes, WorkerTypes, config
  <2> QED
    BY <2>5, <2>6, <2>7
<1>11. CASE Seen
  <2>1. Tail(micro) \in Seq(Tasks) /\ Head(micro)[2] \in Req
    BY <1>11, RestType, TaskKinds DEF Seen, Micro
  <2> QED
    BY <1>1, <1>11, <2>1, TypePartsNext
       DEF Seen, Configured, CallTypes, ClientTypes, WorkerTypes, config, clientVars, workerVars
<1>12. CASE Flush
  <2>1. Tail(micro) \in Seq(Tasks) /\ PumpTask \in Tasks
    BY <1>12, RestType, Members DEF Flush, Micro
  <2>2. micro' \in Seq(Tasks) /\ pumping' \in BOOLEAN
    BY <1>1, <1>3, <1>12, <2>1 DEF Flush, Reschedule, schedule, PumpTask, CallTypes
  <2>3. {eventBuffer[i] : i \in DOMAIN eventBuffer} \subseteq Req /\ <<>> \in Seq(Req)
    BY <1>1, LenProperties, EmptySeq DEF CallTypes
  <2> QED
    BY <1>1, <1>12, <2>2, <2>3, TypePartsNext
       DEF Flush, Configured, CallTypes, ClientTypes, WorkerTypes, config, clientVars, workerVars
<1> QED
  BY <1>5, <1>6, <1>7, <1>8, <1>9, <1>10, <1>11, <1>12 DEF Microtask

LEMMA MessageType ==
  ASSUME TypeOK, OnEvent \/ OnAnswer \/ OnReport \/ OnError \/ StopTimeout \/ terminate
  PROVE  TypeOK'
<1>1. Configured /\ CallTypes /\ ClientTypes /\ WorkerTypes
  BY TypeParts
<1>2. ASSUME fromWorker # <<>>
      PROVE  Head(fromWorker) \in Messages /\ Tail(fromWorker) \in Seq(Messages)
  BY <1>1, <1>2, TailEntries DEF WorkerTypes
<1>3. <<>> \in Seq(Req) /\ \A f \in BOOLEAN : FailTasks(f) \in Seq(Tasks)
  BY <1>1, FailTasksType, EmptySeq DEF ClientTypes
<1>4. CASE OnEvent
  <2>1. Head(fromWorker)[2] \in Req /\ Tail(fromWorker) \in Seq(Messages)
    BY <1>2, <1>4, MessageKinds DEF OnEvent, Message
  <2>2. Append(eventBuffer, Head(fromWorker)[2]) \in Seq(Req)
    BY <1>1, <2>1, AppendProperties DEF CallTypes
  <2>3. eventBuffer' \in Seq(Req) /\ emitted' \subseteq Req
    BY <1>1, <1>4, <2>1, <2>2 DEF OnEvent, Configured, CallTypes
  <2> QED
    BY <1>1, <1>4, <2>1, <2>3, TypePartsNext
       DEF OnEvent, Configured, CallTypes, ClientTypes, WorkerTypes, config, clientVars
<1>5. CASE OnAnswer
  <2>1. /\ Head(fromWorker)[2] \in Req /\ Tail(fromWorker) \in Seq(Messages)
        /\ Head(fromWorker)[1] # "res" => Head(fromWorker)[3] \in BOOLEAN
    BY <1>2, <1>5, MessageKinds DEF OnAnswer, Message
  <2>2. \A r \in Req : /\ <<<<"reply", r>>>> \in Seq(Tasks)
                       /\ \A f \in BOOLEAN : <<<<"failed", r, f>>>> \in Seq(Tasks)
    BY Members, OneEntry
  <2>3. \A i \in DOMAIN waiting : Without(waiting, i) \in Seq(Req)
    BY <1>1, WithoutEntries DEF ClientTypes
  <2>4. waiting' \in Seq(Req) /\ micro' \in Seq(Tasks)
    BY <1>1, <1>5, <2>1, <2>2, <2>3 DEF OnAnswer, ClientTypes, CallTypes
  <2> QED
    BY <1>1, <1>5, <2>1, <2>4, TypePartsNext
       DEF OnAnswer, Configured, CallTypes, ClientTypes, WorkerTypes, config
<1>6. CASE OnReport
  BY <1>1, <1>2, <1>3, <1>6, TypePartsNext
     DEF OnReport, Message, EndClient, Configured, CallTypes, ClientTypes, WorkerTypes, config
<1>7. CASE OnError
  BY <1>1, <1>3, <1>7, TypePartsNext
     DEF OnError, EndClient, Configured, CallTypes, ClientTypes, WorkerTypes, config
<1>8. CASE StopTimeout
  BY <1>1, <1>3, <1>8, TypePartsNext
     DEF StopTimeout, EndClient, Configured, CallTypes, ClientTypes, WorkerTypes, config
<1>9. CASE terminate
  BY <1>1, <1>3, <1>9, TypePartsNext
     DEF terminate, EndClient, Configured, CallTypes, ClientTypes, WorkerTypes, config
<1> QED
  BY <1>4, <1>5, <1>6, <1>7, <1>8, <1>9

LEMMA WorkerType ==
  ASSUME TypeOK, WorkerStep
  PROVE  TypeOK'
<1>1. Configured /\ CallTypes /\ ClientTypes /\ WorkerTypes
  BY TypeParts
<1>2. toWorker # <<>> /\ Head(toWorker) \in Orders /\ Tail(toWorker) \in Seq(Orders)
  <2>1. toWorker # <<>>
    BY DEF WorkerStep, Dispatch, Stop
  <2> QED
    BY <1>1, <2>1, TailEntries DEF WorkerTypes
<1>3. ASSUME NEW s \in Seq(Messages), Tell(s) PROVE fromWorker' \in Seq(Messages)
  BY <1>1, <1>3, ConcatProperties DEF Tell, WorkerTypes
<1>4. ASSUME Dispatch PROVE fromWorker' \in Seq(Messages) /\ toWorker' \in Seq(Orders)
                           /\ worker' \in {"running", "aborted", "wedged", "stopped", "terminated"}
                           /\ UNCHANGED <<config, callVars, clientVars>>
  <2>1. PICK r \in Req : r = Head(toWorker)[2]
    BY <1>2, <1>4, OrderKinds DEF Dispatch
  <2>2. /\ <<>> \in Seq(Messages) /\ <<<<"event", r>>>> \in Seq(Messages)
        /\ <<<<"res", r>>>> \in Seq(Messages) /\ <<<<"error", r, FALSE>>>> \in Seq(Messages)
    BY SentMembers, OneEntry, EmptySeq
  <2>3. <<<<"error", r, TRUE>>, <<"failed">>>> \in Seq(Messages)
    <3>1. <<"error", r, TRUE>> \in Messages /\ <<"failed">> \in Messages
      BY SentMembers
    <3> QED
      BY <3>1
  <2>4. \A e \in {<<>>, <<<<"event", r>>>>} : e \o <<<<"res", r>>>> \in Seq(Messages)
    BY <2>2, ConcatProperties
  <2>5. fromWorker' \in Seq(Messages)
    <3>1. CASE UNCHANGED fromWorker
      BY <1>1, <3>1 DEF WorkerTypes
    <3>2. CASE \E s \in Seq(Messages) : Tell(s)
      BY <1>3, <3>2
    <3> QED
      BY <1>4, <2>1, <2>2, <2>3, <2>4, <3>1, <3>2 DEF Dispatch
  <2> QED
    BY <1>1, <1>2, <1>4, <2>5 DEF Dispatch, WorkerTypes
<1>5. ASSUME Stop PROVE fromWorker' \in Seq(Messages) /\ toWorker' \in Seq(Orders)
                       /\ worker' \in {"running", "aborted", "wedged", "stopped", "terminated"}
                       /\ UNCHANGED <<config, callVars, clientVars>>
  <2>1. <<<<"exited">>>> \in Seq(Messages) /\ <<<<"failed">>>> \in Seq(Messages)
    BY SentMembers, OneEntry
  <2> QED
    BY <1>2, <1>3, <1>5, <2>1 DEF Stop
<1> QED
  BY <1>1, <1>4, <1>5, TypePartsNext
     DEF WorkerStep, Configured, CallTypes, ClientTypes, WorkerTypes, config, callVars, clientVars

LEMMA TypeStep == TypeOK /\ [Next]_vars => TypeOK'
<1> SUFFICES ASSUME TypeOK, [Next]_vars PROVE TypeOK'
  OBVIOUS
<1>1. Configured /\ CallTypes /\ ClientTypes /\ WorkerTypes
  BY TypeParts
<1>2. CASE UNCHANGED vars
  BY <1>1, <1>2, TypePartsNext
     DEF vars, config, callVars, clientVars, workerVars, Configured, CallTypes, ClientTypes, WorkerTypes
<1>3. ASSUME NEW r \in Req, send(r) PROVE TypeOK'
  <2>1. Append(queue, r) \in Seq(Req) /\ Append(micro, PumpTask) \in Seq(Tasks)
    BY <1>1, Members, AppendProperties DEF CallTypes
  <2>2. outcome' \in [Req -> {"unsent", "pending", "resolved", "rejected"}]
    BY <1>1, <1>3 DEF send, CallTypes
  <2>3. queue' \in Seq(Req) /\ micro' \in Seq(Tasks) /\ pumping' \in BOOLEAN
    BY <1>1, <1>3, <2>1 DEF send, schedule, PumpTask, CallTypes
  <2> QED
    BY <1>1, <1>3, <2>2, <2>3, TypePartsNext
       DEF send, Configured, CallTypes, ClientTypes, WorkerTypes, config, clientVars, workerVars
<1>4. ASSUME NEW r \in Req, Timeout(r) PROVE TypeOK'
  <2>1. outcome' \in [Req -> {"unsent", "pending", "resolved", "rejected"}]
    BY <1>1, <1>4 DEF Timeout, CallTypes
  <2> QED
    BY <1>1, <1>4, <2>1, TypePartsNext
       DEF Timeout, Configured, CallTypes, ClientTypes, WorkerTypes, config, clientVars, workerVars
<1>5. CASE close
  <2>1. doClose(outcome) /\ UNCHANGED <<config, pumping, dispatching, micro, seen, emitted, waiting, down, fromWorker>>
    BY <1>5 DEF close
  <2>2. outcome \in [Req -> {"unsent", "pending", "resolved", "rejected"}]
    BY <1>1 DEF CallTypes
  <2> QED
    BY <1>1, <2>1, <2>2, CloseType, TypePartsNext
       DEF Configured, CallTypes, ClientTypes, WorkerTypes, config
<1> QED
  BY <1>2, <1>3, <1>4, <1>5, MicrotaskType, MessageType, WorkerType DEF Next

\* The fields of the transport, of the worker's client and of the worker (wasm.ts,
\* worker-client.ts, worker-core.ts) keep their types.
THEOREM TypeCorrect == Spec => []TypeOK
<1>1. Init => TypeOK
  <2>1. \A S : <<>> \in Seq(S)
    BY EmptySeq
  <2> QED
    BY <2>1, WasmAssumption, TypeParts DEF Init, Configured, CallTypes, ClientTypes, WorkerTypes
<1> QED
  BY <1>1, TypeStep, PTL DEF Spec

-----------------------------------------------------------------------------
(* A pending request is in the queue, with the client, or about to settle in a microtask;  *)
(* whatever it waits for is on its way, unless the module never returns.                    *)

Awaited(r) == r \in Entries(waiting)
Settles(t, r) == t[1] \in {"reply", "failed"} /\ t[2] = r
Settling(r) == \E t \in Entries(micro) : Settles(t, r)
Placed == \A r \in Req : outcome[r] = "pending" => InQueue(r) \/ Awaited(r) \/ Settling(r)

\* What ends in a pump.
Busy == \E t \in Entries(micro) : t[1] \in {"pump", "flush", "reply", "failed"}
Pumped == /\ pumping => PumpTask \in Entries(micro)
          /\ queue # <<>> => state = "open" /\ (Busy \/ waiting # <<>>)

\* What the client waits for: the end of the worker, its answer, or its turn with the worker.
Answering(r) == \E m \in Entries(fromWorker) : m[1] \in {"res", "error"} /\ m[2] = r
Ordered(r) == worker \in {"running", "aborted"} /\ <<"req", r>> \in Entries(toWorker)
Served(r) == /\ ~down /\ (closed => stopping)
             /\ closed \/ worker = "wedged" \/ Answering(r) \/ Ordered(r)
AllServed == \A r \in Entries(waiting) : Served(r)
OpenRuns == ~closed => /\ ~stopping /\ worker \notin {"stopped", "terminated"}
                       /\ <<"stop">> \notin Entries(toWorker)

\* A request is in one place, once.
Once == /\ \A i, j \in DOMAIN queue : queue[i] = queue[j] => i = j
        /\ \A i, j \in DOMAIN waiting : waiting[i] = waiting[j] => i = j
        /\ \A r \in Entries(queue) : outcome[r] # "unsent" /\ r \notin Entries(waiting)
        /\ \A r \in Entries(waiting) : outcome[r] # "unsent"

LiveInv == TypeOK /\ Placed /\ Pumped /\ AllServed /\ OpenRuns /\ Once

\* Taking out one place of a sequence without duplicates.
LEMMA WithoutOnce ==
  ASSUME NEW S, NEW s \in Seq(S), NEW i \in DOMAIN s, \A j, k \in DOMAIN s : s[j] = s[k] => j = k
  PROVE  /\ s[i] \notin Entries(Without(s, i))
         /\ \A j, k \in DOMAIN Without(s, i) : Without(s, i)[j] = Without(s, i)[k] => j = k
<1> DEFINE u == SubSeq(s, 1, i - 1)
           t == SubSeq(s, i + 1, Len(s))
           w == Without(s, i)
           n == Len(s)
           At(k) == IF k < i THEN k ELSE k + 1
<1>1. DOMAIN s = 1..n /\ n \in Nat /\ i \in 1..n /\ \A k \in 1..n : s[k] \in S
  BY LenProperties
<1>2. u \in Seq(S) /\ Len(u) = i - 1 /\ \A k \in 1..(i - 1) : u[k] = s[k]
  <2>1. i - 1 \in 0..n /\ \A k \in 1..(i - 1) : k \in 1..n
    BY <1>1
  <2> QED
    BY <1>1, <2>1, SubSeqProperties
<1>3. t \in Seq(S) /\ Len(t) = n - i /\ \A k \in 1..(n - i) : t[k] = s[i + k]
  <2>1. \A k \in (i + 1)..n : s[k] \in S
    BY <1>1
  <2>2. Len(t) = (IF i + 1 <= n + 1 THEN n - (i + 1) + 1 ELSE 0) /\ t \in Seq(S)
        /\ \A k \in 1..(n - (i + 1) + 1) : t[k] = s[(i + 1) + k - 1]
    BY <1>1, <2>1, SubSeqProperties
  <2>3. n - (i + 1) + 1 = n - i /\ i + 1 <= n + 1 /\ \A k \in 1..(n - i) : (i + 1) + k - 1 = i + k
    BY <1>1
  <2> QED
    BY <2>2, <2>3
<1>4. w = u \o t
  BY DEF Without
<1> HIDE DEF u, t, n, w
<1>5. w \in Seq(S) /\ Len(w) = n - 1 /\ \A k \in 1..(n - 1) : w[k] = IF k <= i - 1 THEN u[k] ELSE t[k - (i - 1)]
  <2>1. Len(u) + Len(t) = n - 1
    BY <1>1, <1>2, <1>3
  <2>2. /\ u \o t \in Seq(S) /\ Len(u \o t) = Len(u) + Len(t)
        /\ \A k \in 1..(Len(u) + Len(t)) : (u \o t)[k] = IF k <= Len(u) THEN u[k] ELSE t[k - Len(u)]
    <3>1. u \in Seq(S) /\ t \in Seq(S)
      BY <1>2, <1>3
    <3> QED
      BY ONLY <3>1, ConcatProperties
  <2> QED
    BY <1>2, <1>4, <2>1, <2>2
<1>6. DOMAIN w = 1..(n - 1)
  BY <1>1, <1>5, LenProperties
<1>7. ASSUME NEW k \in 1..(n - 1) PROVE At(k) \in 1..n /\ At(k) # i /\ w[k] = s[At(k)]
  <2>1. CASE k < i
    <3>1. k \in 1..(i - 1) /\ k <= i - 1
      BY <1>1, <2>1
    <3> QED
      BY <1>1, <1>2, <1>5, <2>1, <3>1
  <2>2. CASE ~(k < i)
    <3>1. ~(k <= i - 1) /\ k - (i - 1) \in 1..(n - i) /\ i + (k - (i - 1)) = k + 1 /\ k + 1 \in 1..n /\ k + 1 # i
      BY <1>1, <2>2
    <3> QED
      BY <1>3, <1>5, <2>2, <3>1
  <2> QED
    BY <2>1, <2>2
<1>8. \A j, k \in 1..(n - 1) : At(j) = At(k) => j = k
  BY <1>1
<1> HIDE DEF At
<1>9. \A j, k \in DOMAIN w : w[j] = w[k] => j = k
  BY <1>1, <1>6, <1>7, <1>8
<1>10. s[i] \notin Entries(w)
  BY <1>1, <1>6, <1>7 DEF Entries
<1> QED
  BY <1>9, <1>10 DEF w

LEMMA InQueueIs == ASSUME NEW r PROVE InQueue(r) <=> r \in Entries(queue)
BY DEF InQueue, Entries

LEMMA InQueueIsNext == ASSUME NEW r PROVE InQueue(r)' <=> r \in Entries(queue')
BY DEF InQueue, Entries

\* A microtask leaves those behind it in place.
LEMMA TailKept ==
  ASSUME TypeOK, Microtask
  PROVE  /\ micro # <<>> /\ Head(micro) \in Tasks
         /\ Entries(micro) = {Head(micro)} \union Entries(Tail(micro))
         /\ Entries(Tail(micro)) \subseteq Entries(micro')
         /\ \A i \in DOMAIN queue : PumpSync(i) => FlushTask \in Entries(micro')
         /\ \A i \in DOMAIN queue : PumpAsync(i) /\ isShutDown => <<"failed", queue[i], FALSE>> \in Entries(micro')
         /\ Replied => FlushTask \in Entries(micro')
         /\ Failed => Head(micro)[3] \/ FlushTask \in Entries(micro')
         /\ Flush => /\ queue # <<>> => pumping'
                     /\ pumping' => pumping \/ PumpTask \in Entries(micro')
<1>1. micro # <<>>
  BY DEF Microtask, PumpNothing, PumpSync, PumpAborts, PumpAsync, Pump, Replied, Failed, Seen, Flush, Micro
<1>2. /\ Head(micro) \in Tasks /\ Tail(micro) \in Seq(Tasks)
      /\ Entries(micro) = {Head(micro)} \union Entries(Tail(micro))
  BY <1>1, RestType
<1>r. PICK rest \in Seq(Tasks) : rest = Tail(micro)
  BY <1>2
<1>3. \A t \in Tasks : Entries(Append(rest, t)) = Entries(rest) \union {t}
  BY AppendEntries
<1>4. ASSUME NEW r \in Req
      PROVE  Entries(rest \o AfterReply(r)) = Entries(rest) \union {SeenTask(r), FlushTask}
  <2>1. SeenTask(r) \in Tasks /\ FlushTask \in Tasks
    BY Members
  <2>2. <<SeenTask(r), FlushTask>> \in Seq(Tasks) /\ Entries(<<SeenTask(r), FlushTask>>) = {SeenTask(r), FlushTask}
    <3>1. DOMAIN <<SeenTask(r), FlushTask>> = {1, 2} /\ <<SeenTask(r), FlushTask>> \in Seq(Tasks)
          /\ <<SeenTask(r), FlushTask>>[1] = SeenTask(r) /\ <<SeenTask(r), FlushTask>>[2] = FlushTask
      BY <2>1
    <3> QED
      BY <3>1 DEF Entries
  <2>3. AfterReply(r) = <<SeenTask(r), FlushTask>>
    BY DEF AfterReply, SeenTask, FlushTask
  <2> QED
    <3> DEFINE a == <<SeenTask(r), FlushTask>>
    <3>1. a \in Seq(Tasks) /\ Entries(a) = {SeenTask(r), FlushTask} /\ AfterReply(r) = a
      BY <2>2, <2>3
    <3> HIDE DEF a
    <3> QED
      BY <3>1, ConcatHasBoth
<1>5. \A i \in DOMAIN queue : queue[i] \in Req
  BY Fields, LenProperties
<1>6. ASSUME NEW i \in DOMAIN queue, PumpSync(i)
      PROVE  Entries(Tail(micro)) \subseteq Entries(micro') /\ FlushTask \in Entries(micro')
  <2>1. micro' = rest \o AfterReply(queue[i]) \/ micro' = Append(rest, FlushTask)
    BY <1>r, <1>6 DEF PumpSync, FlushTask
  <2> QED
    BY <1>r, <1>3, <1>4, <1>5, <2>1, Members
<1>7. ASSUME NEW i \in DOMAIN queue, PumpAsync(i)
      PROVE  /\ Entries(Tail(micro)) \subseteq Entries(micro')
             /\ isShutDown => <<"failed", queue[i], FALSE>> \in Entries(micro')
  <2>1. /\ isShutDown => micro' = Append(rest, <<"failed", queue[i], FALSE>>)
        /\ ~isShutDown => micro' = rest
    BY <1>r, <1>7 DEF PumpAsync
  <2>2. <<"failed", queue[i], FALSE>> \in Tasks
    BY <1>5, Members
  <2> QED
    BY <1>r, <1>3, <2>1, <2>2
<1>8. ASSUME Replied PROVE Entries(Tail(micro)) \subseteq Entries(micro') /\ FlushTask \in Entries(micro')
  <2>1. micro' = rest \o AfterReply(Head(micro)[2]) /\ Head(micro)[2] \in Req
    BY <1>r, <1>2, <1>8, TaskKinds DEF Replied, Micro
  <2> QED
    BY <1>r, <1>4, <2>1
<1>9. ASSUME Failed
      PROVE  Entries(Tail(micro)) \subseteq Entries(micro') /\ (Head(micro)[3] \/ FlushTask \in Entries(micro'))
  <2>1. micro' = IF Head(micro)[3] THEN rest ELSE Append(rest, FlushTask)
    BY <1>r, <1>9 DEF Failed, FlushTask
  <2>2. Head(micro)[3] \in BOOLEAN
    BY <1>2, <1>9, TaskKinds DEF Failed, Micro
  <2> QED
    BY <1>r, <1>3, <2>1, <2>2, Members
<1>10. ASSUME Flush
       PROVE  /\ Entries(Tail(micro)) \subseteq Entries(micro') /\ (queue # <<>> => pumping')
              /\ pumping' => pumping \/ PumpTask \in Entries(micro')
  <2>1. \/ micro' = rest /\ pumping' = pumping /\ (queue # <<>> => pumping)
        \/ micro' = Append(rest, PumpTask) /\ pumping'
    BY <1>r, <1>10, Fields DEF Flush, Reschedule, schedule, PumpTask
  <2>2. Entries(Append(rest, PumpTask)) = Entries(rest) \union {PumpTask}
    BY <1>3, Members
  <2>3. CASE micro' = rest /\ pumping' = pumping /\ (queue # <<>> => pumping)
    BY <1>r, <2>3
  <2>4. CASE micro' = Append(rest, PumpTask) /\ pumping'
    <3>1. Entries(micro') = Entries(rest) \union {PumpTask}
      BY <2>2, <2>4, Zenon
    <3> QED
      BY <1>r, <2>4, <3>1
  <2> QED
    BY <2>1, <2>3, <2>4
<1>11. PumpNothing \/ Seen \/ (\E i \in DOMAIN queue : PumpAborts(i)) => micro' = Tail(micro)
  BY DEF PumpNothing, Seen, PumpAborts
<1>12. Entries(Tail(micro)) \subseteq Entries(micro')
  BY <1>6, <1>7, <1>8, <1>9, <1>10, <1>11 DEF Microtask
<1> QED
  BY <1>1, <1>2, <1>6, <1>7, <1>8, <1>9, <1>10, <1>12

\* What a closing transport does to its requests and to the worker.
LEMMA CloseFacts ==
  ASSUME TypeOK, NEW out \in [Req -> {"unsent", "pending", "resolved", "rejected"}], doClose(out)
  PROVE  /\ queue' = <<>>
         /\ \A r \in Req : outcome'[r] = "pending" => out[r] = "pending" /\ ~InQueue(r)
         /\ \/ UNCHANGED <<closed, stopping, toWorker, worker>>
            \/ (~closed /\ closed' = TRUE /\ stopping' = ~down)
<1>1. queue' = <<>>
  BY DEF doClose
<1>2. \A r \in Req : outcome'[r] = "pending" => out[r] = "pending" /\ ~InQueue(r)
  <2>1. outcome' = failAll(out)
    BY DEF doClose
  <2> QED
    BY <2>1 DEF failAll
<1>3. \/ UNCHANGED <<closed, stopping, toWorker, worker>>
      \/ (~closed /\ closed' = TRUE /\ stopping' = ~down)
  <2>1. shutdown \/ UNCHANGED <<closed, stopping, toWorker, worker>>
    BY DEF doClose
  <2>2. ASSUME shutdown
        PROVE  UNCHANGED <<closed, stopping, toWorker, worker>> \/ (~closed /\ closed' = TRUE /\ stopping' = ~down)
    BY <2>2 DEF shutdown
  <2> QED
    BY <2>1, <2>2
<1> QED
  BY <1>1, <1>2, <1>3

\* A request fails, and the transport with it when that ends the module.
LEMMA FailedFacts ==
  ASSUME TypeOK, Failed
  PROVE  /\ Head(micro)[1] = "failed" /\ Head(micro)[2] \in Req /\ Head(micro)[3] \in BOOLEAN
         /\ UNCHANGED <<config, pumping, seen, emitted, waiting, down, fromWorker>>
         /\ \/ doClose([outcome EXCEPT ![Head(micro)[2]] = "rejected"])
            \/ /\ outcome' = [outcome EXCEPT ![Head(micro)[2]] = "rejected"]
               /\ UNCHANGED <<state, queue, eventBuffer, closed, stopping, toWorker, worker>>
               /\ Head(micro)[3] => state # "open"
<1>1. micro # <<>> /\ Head(micro)[1] = "failed"
  BY DEF Failed, Micro
<1>2. Head(micro)[2] \in Req /\ Head(micro)[3] \in BOOLEAN
  BY <1>1, RestType, TaskKinds
<1>3. ASSUME Head(micro)[3], state = "open" PROVE doClose([outcome EXCEPT ![Head(micro)[2]] = "rejected"])
  BY <1>3 DEF Failed
<1>4. ASSUME ~(Head(micro)[3] /\ state = "open")
      PROVE  /\ outcome' = [outcome EXCEPT ![Head(micro)[2]] = "rejected"]
             /\ UNCHANGED <<state, queue, eventBuffer, closed, stopping, toWorker, worker>>
  BY <1>4 DEF Failed
<1>5. UNCHANGED <<config, pumping, seen, emitted, waiting, down, fromWorker>>
  BY DEF Failed
<1> QED
  BY <1>1, <1>2, <1>3, <1>4, <1>5

LEMMA TaskTags ==
  /\ PumpTask[1] = "pump" /\ FlushTask[1] = "flush"
  /\ \A r, f : Settles(<<"failed", r, f>>, r)
  /\ \A r : Settles(<<"reply", r>>, r)
BY DEF PumpTask, FlushTask, Settles

\* Who settles in a microtask behind the one in front still does.
LEMMA StillSettling ==
  ASSUME TypeOK, Microtask, NEW r \in Req, Settling(r), ~Settles(Head(micro), r)
  PROVE  Settling(r)'
<1>1. PICK t \in Entries(micro) : Settles(t, r)
  BY DEF Settling
<1>2. t \in Entries(micro')
  BY <1>1, TailKept
<1> QED
  BY <1>1, <1>2 DEF Settling, Settles

LEMMA PlacedByMicrotask ==
  ASSUME LiveInv, Microtask
  PROVE  Placed'
<1> USE DEF LiveInv
<1>1. ASSUME NEW r \in Req, Settling(r), Head(micro)[1] \notin {"reply", "failed"} PROVE Settling(r)'
  BY <1>1, StillSettling DEF Settles
<1>2. ASSUME NEW r \in Req, Awaited(r), waiting' = waiting PROVE Awaited(r)'
  BY <1>2 DEF Awaited
<1>3. ASSUME NEW r \in Req, InQueue(r), queue' = queue PROVE InQueue(r)'
  BY <1>3, InQueueIs, InQueueIsNext
<1>4. outcome \in [Req -> {"unsent", "pending", "resolved", "rejected"}] /\ queue \in Seq(Req)
      /\ DOMAIN queue = 1..Len(queue) /\ Len(queue) \in Nat
  BY Fields, LenProperties
<1>5. \A i \in DOMAIN queue : queue[i] \in Req
  BY <1>4, LenProperties
<1>6. CASE PumpNothing
  <2> SUFFICES ASSUME NEW r \in Req, outcome'[r] = "pending" PROVE (InQueue(r) \/ Awaited(r) \/ Settling(r))'
    BY DEF Placed
  <2>1. outcome[r] = "pending" /\ waiting' = waiting /\ Head(micro)[1] = "pump"
    BY <1>6 DEF PumpNothing, Pump, Micro, clientVars
  <2>2. ~InQueue(r)
    <3>1. CASE state = "closed"
      BY <3>1 DEF Pumped, InQueue
    <3>2. CASE state # "closed"
      BY <1>6, <2>1, <3>2 DEF PumpNothing, InQueue
    <3> QED
      BY <3>1, <3>2
  <2> QED
    BY <1>1, <1>2, <2>1, <2>2 DEF Placed
<1>7. ASSUME NEW i \in DOMAIN queue, PumpSync(i) PROVE Placed'
  <2> SUFFICES ASSUME NEW r \in Req, outcome'[r] = "pending" PROVE (InQueue(r) \/ Awaited(r) \/ Settling(r))'
    BY DEF Placed
  <2>1. /\ outcome[r] = "pending" /\ r # queue[i] /\ waiting' = waiting /\ Head(micro)[1] = "pump"
        /\ queue' = SubSeq(queue, i + 1, Len(queue)) /\ Oldest(i)
    BY <1>4, <1>5, <1>7 DEF PumpSync, Pump, Micro, clientVars
  <2>2. ASSUME InQueue(r) PROVE InQueue(r)'
    <3>1. PICK k \in DOMAIN queue : queue[k] = r
      BY <2>2 DEF InQueue
    <3>2. ~(k <= i)
      <4>1. k \notin 1..(i - 1) /\ k # i
        BY <2>1, <3>1 DEF Oldest
      <4> QED
        BY <1>4, <4>1
    <3>3. r \in Entries(queue')
      BY <1>4, <2>1, <3>1, <3>2, RestEntries
    <3> QED
      BY <3>3, InQueueIsNext
  <2> QED
    BY <1>1, <1>2, <2>1, <2>2 DEF Placed
<1>8. ASSUME NEW i \in DOMAIN queue, PumpAborts(i) PROVE Placed'
  <2> DEFINE out == [outcome EXCEPT ![queue[i]] = "rejected"]
  <2>1. out \in [Req -> {"unsent", "pending", "resolved", "rejected"}]
    BY <1>4, <1>5
  <2>2. doClose(out) /\ waiting' = waiting /\ Head(micro)[1] = "pump"
    BY <1>8 DEF PumpAborts, Pump, Micro
  <2>3. \A r \in Req : out[r] = "pending" => outcome[r] = "pending"
    BY <1>4
  <2> HIDE DEF out
  <2>4. \A r \in Req : outcome'[r] = "pending" => outcome[r] = "pending" /\ ~InQueue(r)
    BY <2>1, <2>2, <2>3, CloseFacts
  <2> QED
    BY <1>1, <1>2, <2>2, <2>4 DEF Placed
<1>9. ASSUME NEW i \in DOMAIN queue, PumpAsync(i) PROVE Placed'
  <2> SUFFICES ASSUME NEW r \in Req, outcome'[r] = "pending" PROVE (InQueue(r) \/ Awaited(r) \/ Settling(r))'
    BY DEF Placed
  <2>1. /\ outcome[r] = "pending" /\ Head(micro)[1] = "pump"
        /\ queue' = SubSeq(queue, i + 1, Len(queue)) /\ Oldest(i)
    BY <1>9 DEF PumpAsync, Pump, Micro
  <2>2. waiting' = IF isShutDown THEN waiting ELSE Append(waiting, queue[i])
    BY <1>9 DEF PumpAsync
  <2>3. Awaited(r) => Awaited(r)'
    BY <1>5, <2>2, Fields, AppendEntries DEF Awaited
  <2>4. r = queue[i] => Awaited(r)' \/ Settling(r)'
    <3>1. CASE isShutDown
      <4>1. <<"failed", queue[i], FALSE>> \in Entries(micro')
        BY <1>9, <3>1, TailKept
      <4> QED
        BY <4>1, TaskTags DEF Settling, Settles
    <3>2. CASE ~isShutDown
      BY <1>5, <2>2, <3>2, Fields, AppendEntries DEF Awaited
    <3> QED
      BY <3>1, <3>2
  <2>5. ASSUME InQueue(r), r # queue[i] PROVE InQueue(r)'
    <3>1. PICK k \in DOMAIN queue : queue[k] = r
      BY <2>5 DEF InQueue
    <3>2. ~(k <= i)
      <4>1. k \notin 1..(i - 1) /\ k # i
        BY <2>1, <2>5, <3>1 DEF Oldest
      <4> QED
        BY <1>4, <4>1
    <3>3. r \in Entries(queue')
      BY <1>4, <2>1, <3>1, <3>2, RestEntries
    <3> QED
      BY <3>3, InQueueIsNext
  <2> QED
    BY <1>1, <2>1, <2>3, <2>4, <2>5 DEF Placed
<1>10. CASE Replied
  <2> SUFFICES ASSUME NEW r \in Req, outcome'[r] = "pending" PROVE (InQueue(r) \/ Awaited(r) \/ Settling(r))'
    BY DEF Placed
  <2>1. /\ outcome[r] = "pending" /\ r # Head(micro)[2] /\ queue' = queue /\ waiting' = waiting
    BY <1>4, <1>10 DEF Replied, clientVars
  <2>2. Settling(r) => Settling(r)'
    BY <2>1, StillSettling DEF Settles
  <2> QED
    BY <1>2, <1>3, <2>1, <2>2 DEF Placed
<1>11. CASE Failed
  <2> DEFINE out == [outcome EXCEPT ![Head(micro)[2]] = "rejected"]
  <2> SUFFICES ASSUME NEW r \in Req, outcome'[r] = "pending" PROVE (InQueue(r) \/ Awaited(r) \/ Settling(r))'
    BY DEF Placed
  <2>0. Head(micro)[2] \in Req
    BY <1>11, FailedFacts
  <2>1. out \in [Req -> {"unsent", "pending", "resolved", "rejected"}]
    BY <1>4, <2>0
  <2>2. waiting' = waiting /\ (doClose(out) \/ (outcome' = out /\ queue' = queue))
    BY <1>11, FailedFacts
  <2>3. out[r] = "pending" => outcome[r] = "pending" /\ r # Head(micro)[2]
    BY <1>4, <2>0
  <2> HIDE DEF out
  <2>4. outcome[r] = "pending" /\ r # Head(micro)[2] /\ (InQueue(r) => queue' = queue)
    BY <2>1, <2>2, <2>3, CloseFacts
  <2>5. Settling(r) => Settling(r)'
    BY <2>4, StillSettling DEF Settles
  <2> QED
    BY <1>2, <1>3, <2>2, <2>4, <2>5 DEF Placed
<1>12. CASE Seen \/ Flush
  <2>1. outcome' = outcome /\ queue' = queue /\ waiting' = waiting /\ Head(micro)[1] \notin {"reply", "failed"}
    BY <1>12 DEF Seen, Flush, Micro, clientVars
  <2> QED
    BY <1>1, <1>2, <1>3, <2>1 DEF Placed
<1> QED
  BY <1>6, <1>7, <1>8, <1>9, <1>10, <1>11, <1>12 DEF Microtask

LEMMA PumpedByMicrotask ==
  ASSUME LiveInv, Microtask
  PROVE  Pumped'
<1> USE DEF LiveInv
<1>1. ASSUME Head(micro)[1] # "pump", pumping' = pumping
      PROVE  pumping' => PumpTask \in Entries(micro')
  BY <1>1, TailKept, TaskTags DEF Pumped
<1>2. ASSUME FlushTask \in Entries(micro') \/ PumpTask \in Entries(micro') PROVE Busy'
  BY <1>2, TaskTags DEF Busy
<1>3. CASE PumpNothing \/ (\E i \in DOMAIN queue : PumpAborts(i))
  <2>1. queue' = <<>> /\ pumping' = FALSE
    BY <1>3 DEF PumpNothing, PumpAborts, Pump, doClose
  <2> QED
    BY <2>1 DEF Pumped
<1>4. ASSUME NEW i \in DOMAIN queue, PumpSync(i) PROVE Pumped'
  <2>1. pumping' = FALSE /\ state' = "open" /\ FlushTask \in Entries(micro')
    BY <1>4, TailKept DEF PumpSync, Pump
  <2> QED
    BY <1>2, <2>1 DEF Pumped
<1>5. ASSUME NEW i \in DOMAIN queue, PumpAsync(i) PROVE Pumped'
  <2>1. pumping' = FALSE /\ state' = "open"
    BY <1>5 DEF PumpAsync, Pump
  <2>2. Busy' \/ waiting' # <<>>
    <3>1. CASE isShutDown
      <4>1. <<"failed", queue[i], FALSE>> \in Entries(micro')
        BY <1>5, <3>1, TailKept
      <4> QED
        BY <4>1 DEF Busy
    <3>2. CASE ~isShutDown
      <4>1. waiting' = Append(waiting, queue[i]) /\ waiting \in Seq(Req) /\ queue[i] \in Req
        BY <1>5, <3>2, Fields, LenProperties DEF PumpAsync
      <4>2. Entries(waiting') = Entries(waiting) \union {queue[i]}
        BY <4>1, AppendEntries
      <4>3. Entries(<<>>) = {}
        BY DEF Entries
      <4> QED
        BY <4>2, <4>3
    <3> QED
      BY <3>1, <3>2
  <2> QED
    BY <2>1, <2>2 DEF Pumped
<1>6. CASE Replied
  <2>1. /\ pumping' = pumping /\ state' = state /\ queue' = queue /\ Head(micro)[1] = "reply"
        /\ FlushTask \in Entries(micro')
    BY <1>6, TailKept DEF Replied, Micro
  <2> QED
    BY <1>1, <1>2, <2>1 DEF Pumped
<1>7. CASE Failed
  <2>1. /\ pumping' = pumping /\ Head(micro)[1] = "failed"
        /\ Head(micro)[3] \/ FlushTask \in Entries(micro')
        /\ queue' = <<>> \/ (queue' = queue /\ state' = state /\ (Head(micro)[3] => state # "open"))
    <3>1. queue' = <<>> \/ (queue' = queue /\ state' = state /\ (Head(micro)[3] => state # "open"))
      BY <1>7, FailedFacts DEF doClose
    <3> QED
      BY <1>7, <3>1, FailedFacts, TailKept
  <2> QED
    BY <1>1, <1>2, <2>1 DEF Pumped
<1>8. CASE Seen
  <2>1. /\ pumping' = pumping /\ state' = state /\ queue' = queue /\ waiting' = waiting /\ Head(micro)[1] = "seen"
    BY <1>8 DEF Seen, Micro, clientVars
  <2>2. Busy => Busy'
    BY <2>1, TailKept DEF Busy
  <2> QED
    BY <1>1, <2>1, <2>2 DEF Pumped
<1>9. CASE Flush
  <2>1. /\ state' = state /\ queue' = queue /\ Head(micro)[1] = "flush"
        /\ queue # <<>> => pumping'
        /\ pumping' => pumping \/ PumpTask \in Entries(micro')
    BY <1>9, TailKept DEF Flush, Micro
  <2>2. pumping' => PumpTask \in Entries(micro')
    BY <2>1, TailKept, TaskTags DEF Pumped
  <2> QED
    BY <1>2, <2>1, <2>2 DEF Pumped
<1> QED
  BY <1>3, <1>4, <1>5, <1>6, <1>7, <1>8, <1>9 DEF Microtask

\* What the client waits for is served as before, when nothing of it changes.
LEMMA StillServed ==
  ASSUME AllServed, OpenRuns, Entries(waiting') \subseteq Entries(waiting),
         UNCHANGED <<closed, stopping, down, toWorker, fromWorker, worker>>
  PROVE  AllServed' /\ OpenRuns'
<1>1. OpenRuns'
  BY DEF OpenRuns
<1>2. ASSUME NEW r \in Entries(waiting') PROVE Served(r)'
  BY <1>2 DEF AllServed, Served, Answering, Ordered
<1> QED
  BY <1>1, <1>2 DEF AllServed

LEMMA ServedByClose ==
  ASSUME LiveInv, NEW out \in [Req -> {"unsent", "pending", "resolved", "rejected"}], doClose(out),
         UNCHANGED <<waiting, down, fromWorker>>
  PROVE  AllServed' /\ OpenRuns'
<1> USE DEF LiveInv
<1>1. CASE UNCHANGED <<closed, stopping, toWorker, worker>>
  BY <1>1, StillServed
<1>2. CASE ~closed /\ closed' = TRUE /\ stopping' = ~down
  <2>1. OpenRuns'
    BY <1>2 DEF OpenRuns
  <2>2. ASSUME NEW r \in Entries(waiting') PROVE Served(r)'
    <3>1. ~down
      BY <2>2 DEF AllServed, Served
    <3> QED
      BY <1>2, <3>1 DEF Served
  <2> QED
    BY <2>1, <2>2 DEF AllServed
<1> QED
  BY <1>1, <1>2, CloseFacts

LEMMA ServedByMicrotask ==
  ASSUME LiveInv, Microtask
  PROVE  AllServed' /\ OpenRuns'
<1> USE DEF LiveInv
<1>1. outcome \in [Req -> {"unsent", "pending", "resolved", "rejected"}] /\ \A i \in DOMAIN queue : queue[i] \in Req
  BY Fields, LenProperties
<1>2. CASE PumpNothing \/ Replied \/ Seen \/ Flush \/ (\E i \in DOMAIN queue : PumpSync(i))
  BY <1>2, StillServed DEF PumpNothing, Replied, Seen, Flush, PumpSync, clientVars, workerVars
<1>3. ASSUME NEW i \in DOMAIN queue, PumpAborts(i) PROVE AllServed' /\ OpenRuns'
  <2>1. [outcome EXCEPT ![queue[i]] = "rejected"] \in [Req -> {"unsent", "pending", "resolved", "rejected"}]
    BY <1>1
  <2> QED
    BY <1>3, <2>1, ServedByClose DEF PumpAborts
<1>4. CASE Failed
  <2>1. [outcome EXCEPT ![Head(micro)[2]] = "rejected"] \in [Req -> {"unsent", "pending", "resolved", "rejected"}]
    BY <1>1
  <2>2. UNCHANGED <<waiting, down, fromWorker>>
    BY <1>4, FailedFacts
  <2>3. CASE doClose([outcome EXCEPT ![Head(micro)[2]] = "rejected"])
    BY <2>1, <2>2, <2>3, ServedByClose
  <2>4. CASE UNCHANGED <<closed, stopping, toWorker, worker>>
    BY <2>2, <2>4, StillServed
  <2> QED
    BY <1>4, <2>3, <2>4, FailedFacts
<1>5. ASSUME NEW i \in DOMAIN queue, PumpAsync(i) PROVE AllServed' /\ OpenRuns'
  <2>1. UNCHANGED <<closed, stopping, down, fromWorker, worker>>
    BY <1>5 DEF PumpAsync
  <2>2. CASE isShutDown
    <3>1. waiting' = waiting /\ toWorker' = toWorker
      BY <1>5, <2>2 DEF PumpAsync
    <3> QED
      BY <2>1, <3>1, StillServed
  <2>3. CASE ~isShutDown
    <3>q. PICK q \in Req : q = queue[i]
      BY <1>1
    <3>o. PICK o \in Orders : o = <<"req", q>>
      BY SentMembers
    <3>1. /\ waiting' = Append(waiting, q) /\ toWorker' = Append(toWorker, o)
          /\ ~closed /\ ~down
      BY <1>5, <2>3, <3>q, <3>o DEF PumpAsync, isShutDown
    <3>2. Entries(waiting') = Entries(waiting) \union {q} /\ Entries(toWorker') = Entries(toWorker) \union {o}
      BY <3>1, Fields, AppendEntries
    <3>3. OpenRuns'
      <4>1. <<"stop">> # o
        BY <3>o
      <4> QED
        BY <2>1, <3>2, <4>1 DEF OpenRuns
    <3>4. ASSUME NEW r \in Entries(waiting) PROVE Served(r)'
      BY <2>1, <3>2, <3>4 DEF AllServed, Served, Answering, Ordered
    <3>5. Served(q)'
      <4>1. worker = "wedged" \/ worker \in {"running", "aborted"}
        BY <3>1 DEF OpenRuns, TypeOK
      <4> QED
        BY <2>1, <3>o, <3>1, <3>2, <4>1 DEF Served, Ordered
    <3> QED
      BY <3>2, <3>3, <3>4, <3>5 DEF AllServed
  <2> QED
    BY <2>2, <2>3
<1> QED
  BY <1>2, <1>3, <1>4, <1>5 DEF Microtask

-----------------------------------------------------------------------------
(* Messages and timers. *)

\* The end of a client: its requests settle in the next microtasks.
LEMMA PlacedByEnd ==
  ASSUME LiveInv, NEW f \in BOOLEAN, EndClient(f)
  PROVE  /\ Placed' /\ AllServed'
         /\ pumping' => PumpTask \in Entries(micro')
         /\ queue' # <<>> => state' = "open" /\ Busy'
<1> USE DEF LiveInv
<1>1. /\ micro = <<>> /\ waiting' = <<>> /\ micro' = FailTasks(f)
      /\ UNCHANGED <<outcome, queue, state, pumping>>
  BY DEF EndClient
<1>2. /\ Entries(micro) = {} /\ Entries(waiting') = {} /\ waiting \in Seq(Req)
      /\ Entries(micro') = {<<"failed", r, f>> : r \in Entries(waiting)}
  BY <1>1, Fields, FailTasksType, EmptyEntries
<1>3. ASSUME NEW r \in Req, outcome'[r] = "pending" PROVE (InQueue(r) \/ Awaited(r) \/ Settling(r))'
  <2>1. InQueue(r) \/ r \in Entries(waiting)
    BY <1>1, <1>2, <1>3 DEF Placed, Awaited, Settling
  <2>2. InQueue(r) => InQueue(r)'
    BY <1>1, InQueueIs, InQueueIsNext
  <2>3. ASSUME r \in Entries(waiting) PROVE Settling(r)'
    <3>1. <<"failed", r, f>> \in Entries(micro')
      BY <1>2, <2>3
    <3> QED
      BY <3>1 DEF Settling, Settles
  <2> QED
    BY <2>1, <2>2, <2>3
<1>4. AllServed'
  BY <1>2 DEF AllServed
<1>5. ~pumping
  BY <1>2 DEF Pumped
<1>6. ASSUME queue # <<>> PROVE state = "open" /\ Busy'
  <2>1. state = "open" /\ waiting # <<>>
    BY <1>2, <1>6 DEF Pumped, Busy
  <2>2. PICK r : r \in Entries(waiting)
    BY <1>2, <2>1, EmptyEntries
  <2>3. <<"failed", r, f>> \in Entries(micro')
    BY <1>2, <2>2
  <2> QED
    BY <2>1, <2>3 DEF Busy
<1> QED
  BY <1>1, <1>3, <1>4, <1>5, <1>6 DEF Placed

LEMMA LiveByEnd ==
  ASSUME LiveInv, NEW f \in BOOLEAN, EndClient(f), OpenRuns'
  PROVE  Placed' /\ Pumped' /\ AllServed' /\ OpenRuns'
BY PlacedByEnd DEF Pumped

LEMMA LiveByMessage ==
  ASSUME LiveInv, OnEvent \/ OnAnswer \/ OnReport \/ OnError \/ StopTimeout \/ terminate
  PROVE  Placed' /\ Pumped' /\ AllServed' /\ OpenRuns'
<1> USE DEF LiveInv
<1>1. ASSUME fromWorker # <<>>
      PROVE  /\ Head(fromWorker) \in Messages
             /\ Entries(fromWorker) = {Head(fromWorker)} \union Entries(Tail(fromWorker))
  BY <1>1, Fields, TailEntries
<1>2. CASE OnEvent
  <2>1. /\ UNCHANGED <<outcome, queue, state, pumping, micro, waiting, closed, stopping, down, toWorker, worker>>
        /\ fromWorker # <<>> /\ Head(fromWorker)[1] = "event" /\ fromWorker' = Tail(fromWorker)
    BY <1>2 DEF OnEvent, Message, clientVars
  <2>2. Placed' /\ Pumped' /\ OpenRuns'
    BY <2>1 DEF Placed, Pumped, OpenRuns, Awaited, Settling, Settles, InQueue, Busy
  <2>3. ASSUME NEW r, Answering(r) PROVE Answering(r)'
    BY <1>1, <2>1, <2>3 DEF Answering
  <2>4. ASSUME NEW r \in Entries(waiting) PROVE Served(r)'
    BY <2>1, <2>3, <2>4 DEF AllServed, Served, Ordered
  <2> QED
    BY <2>1, <2>2, <2>4 DEF AllServed
<1>3. CASE OnAnswer
  <2>m. fromWorker # <<>> /\ Head(fromWorker)[1] \in {"res", "error"}
    BY <1>3 DEF OnAnswer, Message
  <2>r. PICK r \in Req : r = Head(fromWorker)[2]
    BY <1>1, <2>m, MessageKinds
  <2>1. /\ UNCHANGED <<outcome, queue, state, pumping, closed, stopping, down, toWorker, worker>>
        /\ micro = <<>> /\ fromWorker # <<>> /\ fromWorker' = Tail(fromWorker)
        /\ Head(fromWorker)[1] \in {"res", "error"}
    BY <1>3 DEF OnAnswer, Message
  <2>2. /\ Entries(micro) = {} /\ waiting \in Seq(Req)
        /\ Head(fromWorker)[1] # "res" => Head(fromWorker)[3] \in BOOLEAN
    BY <1>1, <2>1, Fields, EmptyEntries, MessageKinds
  <2>3. OpenRuns' /\ ~pumping
    BY <2>1, <2>2 DEF OpenRuns, Pumped
  <2>4. ASSUME NEW q, q # r, Answering(q) PROVE Answering(q)'
    BY <1>1, <2>r, <2>1, <2>4 DEF Answering
  <2>5. ASSUME NEW q \in Entries(waiting), q # r PROVE Served(q)'
    BY <2>1, <2>4, <2>5 DEF AllServed, Served, Ordered
  <2>6. ASSUME NEW i \in DOMAIN waiting, waiting[i] = r, waiting' = Without(waiting, i),
               micro' = IF Head(fromWorker)[1] = "res" THEN <<<<"reply", r>>>> ELSE <<<<"failed", r, Head(fromWorker)[3]>>>>
        PROVE  Placed' /\ Pumped' /\ AllServed'
    <3>1. /\ Entries(waiting') \subseteq Entries(waiting)
          /\ \A x \in Entries(waiting) : x = r \/ x \in Entries(waiting')
          /\ r \notin Entries(waiting')
      BY <2>2, <2>6, WithoutEntries, WithoutOnce DEF Once
    <3>2. PICK t \in Tasks : micro' = <<t>> /\ t[1] \in {"reply", "failed"} /\ t[2] = r
      BY <2>2, <2>6, Members
    <3>3. Entries(micro') = {t}
      BY <3>2, OneEntry
    <3>4. Busy' /\ Settling(r)'
      BY <3>2, <3>3 DEF Busy, Settling, Settles
    <3>5. Placed'
      BY <2>1, <2>2, <3>1, <3>4 DEF Placed, Awaited, Settling, InQueue
    <3>6. Pumped'
      BY <2>1, <2>2, <2>3, <3>4 DEF Pumped, Busy
    <3>7. ASSUME NEW q \in Entries(waiting') PROVE Served(q)'
      BY <2>5, <3>1, <3>7
    <3> QED
      BY <3>5, <3>6, <3>7 DEF AllServed
  <2>7. ASSUME \A i \in DOMAIN waiting : waiting[i] # r, UNCHANGED <<waiting, micro>>
        PROVE  Placed' /\ Pumped' /\ AllServed'
    <3>1. r \notin Entries(waiting)
      BY <2>7 DEF Entries
    <3>2. AllServed'
      BY <2>5, <2>7, <3>1 DEF AllServed
    <3> QED
      BY <2>1, <2>7, <3>2 DEF Placed, Pumped, Awaited, Settling, Settles, InQueue, Busy
  <2> QED
    BY <1>3, <2>r, <2>3, <2>6, <2>7 DEF OnAnswer
<1>4. CASE OnReport
  <2>1. PICK f \in BOOLEAN : EndClient(f)
    BY <1>4 DEF OnReport
  <2>2. OpenRuns'
    BY <1>4 DEF OnReport, OpenRuns
  <2> QED
    BY <2>1, <2>2, LiveByEnd
<1>5. CASE OnError
  <2>1. OpenRuns'
    BY <1>5 DEF OnError, OpenRuns
  <2> QED
    BY <1>5, <2>1, LiveByEnd DEF OnError
<1>6. CASE StopTimeout
  <2>1. OpenRuns'
    BY <1>6 DEF StopTimeout, OpenRuns
  <2> QED
    BY <1>6, <2>1, LiveByEnd DEF StopTimeout
<1>7. CASE terminate
  <2>1. OpenRuns'
    BY <1>7 DEF terminate, OpenRuns
  <2> QED
    BY <1>7, <2>1, LiveByEnd DEF terminate
<1> QED
  BY <1>2, <1>3, <1>4, <1>5, <1>6, <1>7

-----------------------------------------------------------------------------
(* The remaining actions, and one place for each request. *)

\* Requests that were sent stay sent.
LEMMA StaySent ==
  ASSUME TypeOK, [Next]_vars, NEW r \in Req, outcome[r] # "unsent"
  PROVE  outcome'[r] # "unsent"
<1>1. outcome \in [Req -> {"unsent", "pending", "resolved", "rejected"}]
  BY Fields
<1>2. ASSUME NEW out \in [Req -> {"unsent", "pending", "resolved", "rejected"}], out[r] # "unsent",
             doClose(out)
      PROVE  outcome'[r] # "unsent"
  <2>1. outcome' = failAll(out)
    BY <1>2 DEF doClose
  <2> QED
    BY <1>2, <2>1 DEF failAll
<1>3. CASE outcome' = outcome
  BY <1>3
<1>4. CASE \E q \in Req : send(q) \/ Timeout(q)
  BY <1>1, <1>4 DEF send, Timeout
<1>5. CASE close
  BY <1>1, <1>2, <1>5 DEF close
<1>6. CASE \E i \in DOMAIN queue : PumpSync(i)
  BY <1>1, <1>6 DEF PumpSync
<1>7. ASSUME NEW i \in DOMAIN queue, PumpAborts(i) PROVE outcome'[r] # "unsent"
  <2>1. [outcome EXCEPT ![queue[i]] = "rejected"] \in [Req -> {"unsent", "pending", "resolved", "rejected"}]
        /\ [outcome EXCEPT ![queue[i]] = "rejected"][r] # "unsent"
    BY <1>1
  <2> QED
    BY <1>2, <1>7, <2>1 DEF PumpAborts
<1>8. CASE Replied
  BY <1>1, <1>8 DEF Replied
<1>9. CASE Failed
  <2>1. [outcome EXCEPT ![Head(micro)[2]] = "rejected"] \in [Req -> {"unsent", "pending", "resolved", "rejected"}]
        /\ [outcome EXCEPT ![Head(micro)[2]] = "rejected"][r] # "unsent"
    BY <1>1
  <2>2. doClose([outcome EXCEPT ![Head(micro)[2]] = "rejected"]) \/ outcome' = [outcome EXCEPT ![Head(micro)[2]] = "rejected"]
    BY <1>9, FailedFacts
  <2> QED
    BY <1>2, <2>1, <2>2
<1>10. UNCHANGED vars \/ terminate \/ PumpNothing \/ (\E i \in DOMAIN queue : PumpAsync(i)) \/ Seen \/ Flush
       \/ OnEvent \/ OnAnswer \/ OnReport \/ OnError \/ StopTimeout \/ WorkerStep => outcome' = outcome
  BY DEF vars, callVars, terminate, EndClient, PumpNothing, PumpAsync, Seen, Flush, OnEvent, OnAnswer,
         OnReport, OnError, StopTimeout, WorkerStep, Dispatch, Stop
<1> QED
  BY <1>3, <1>4, <1>5, <1>6, <1>7, <1>8, <1>9, <1>10 DEF Next, Microtask

LEMMA OnceStep ==
  ASSUME LiveInv, [Next]_vars
  PROVE  Once'
<1> USE DEF LiveInv
<1>1. /\ queue \in Seq(Req) /\ waiting \in Seq(Req)
      /\ DOMAIN queue = 1..Len(queue) /\ Len(queue) \in Nat /\ DOMAIN waiting = 1..Len(waiting) /\ Len(waiting) \in Nat
      /\ \A i \in 1..Len(queue) : queue[i] \in Req
      /\ \A i \in 1..Len(waiting) : waiting[i] \in Req
  BY Fields, LenProperties
<1>2. Entries(queue) \subseteq Req /\ Entries(waiting) \subseteq Req
  BY <1>1 DEF Entries
\* The queue may lose some, and the client's requests may.
<1>3. ASSUME \A i, j \in DOMAIN queue' : queue'[i] = queue'[j] => i = j,
             \A i, j \in DOMAIN waiting' : waiting'[i] = waiting'[j] => i = j,
             Entries(queue') \subseteq Entries(queue), Entries(waiting') \subseteq Entries(waiting)
      PROVE  Once'
  BY <1>2, <1>3, StaySent DEF Once
<1>4. Entries(<<>>) = {} /\ DOMAIN <<>> = {}
  BY DEF Entries
\* What follows the place i has no duplicates either.
<1>5. ASSUME NEW i \in DOMAIN queue, queue' = SubSeq(queue, i + 1, Len(queue))
      PROVE  /\ \A j, k \in DOMAIN queue' : queue'[j] = queue'[k] => j = k
             /\ Entries(queue') \subseteq Entries(queue) /\ queue[i] \notin Entries(queue')
  <2>1. Len(queue') = Len(queue) - i /\ queue' \in Seq(Req) /\ \A k \in 1..(Len(queue) - i) : queue'[k] = queue[i + k]
    <3>1. \A k \in (i + 1)..Len(queue) : queue[k] \in Req
      BY <1>1
    <3>2. Len(queue') = (IF i + 1 <= Len(queue) + 1 THEN Len(queue) - (i + 1) + 1 ELSE 0) /\ queue' \in Seq(Req)
          /\ \A k \in 1..(Len(queue) - (i + 1) + 1) : queue'[k] = queue[(i + 1) + k - 1]
      BY <1>1, <1>5, <3>1, SubSeqProperties
    <3>3. /\ Len(queue) - (i + 1) + 1 = Len(queue) - i /\ i + 1 <= Len(queue) + 1
          /\ \A k \in 1..(Len(queue) - i) : (i + 1) + k - 1 = i + k
      BY <1>1
    <3> QED
      BY <3>2, <3>3
  <2>2. DOMAIN queue' = 1..(Len(queue) - i)
    BY <2>1, LenProperties
  <2>3. \A k \in 1..(Len(queue) - i) : i + k \in 1..Len(queue) /\ i + k # i
    BY <1>1
  <2>4. \A j, k \in 1..(Len(queue) - i) : i + j = i + k => j = k
    BY <1>1
  <2>5. \A j, k \in DOMAIN queue' : queue'[j] = queue'[k] => j = k
    BY <1>1, <2>1, <2>2, <2>3, <2>4 DEF Once
  <2>6. queue[i] \notin Entries(queue')
    BY <1>1, <2>1, <2>2, <2>3 DEF Once, Entries
  <2> QED
    BY <1>1, <1>5, <2>5, <2>6, RestEntries
<1>6. CASE queue' = <<>> /\ waiting' = waiting
  BY <1>3, <1>4, <1>6 DEF Once
<1>7. CASE queue' = queue /\ waiting' = waiting
  BY <1>3, <1>7 DEF Once
<1>8. CASE queue' = queue /\ waiting' = <<>>
  BY <1>3, <1>4, <1>8 DEF Once
<1>9. ASSUME NEW r \in Req, send(r) PROVE Once'
  <2>1. CASE state = "closed"
    BY <1>7, <1>9, <2>1 DEF send, clientVars
  <2>2. CASE state # "closed"
    <3>1. queue' = Append(queue, r) /\ waiting' = waiting /\ outcome[r] = "unsent" /\ outcome'[r] = "pending"
      BY <1>9, <2>2, Fields DEF send, clientVars
    <3>2. r \notin Entries(queue) /\ r \notin Entries(waiting)
      BY <3>1 DEF Once
    <3>3. /\ Entries(queue') = Entries(queue) \union {r}
          /\ DOMAIN queue' = 1..(Len(queue) + 1) /\ queue'[Len(queue) + 1] = r
          /\ \A k \in 1..Len(queue) : queue'[k] = queue[k]
      BY <1>1, <3>1, AppendEntries, AppendProperties, LenProperties
    <3>4. ASSUME NEW j \in DOMAIN queue', NEW k \in DOMAIN queue', queue'[j] = queue'[k] PROVE j = k
      <4>1. (j \in 1..Len(queue) \/ j = Len(queue) + 1) /\ (k \in 1..Len(queue) \/ k = Len(queue) + 1)
        BY <1>1, <3>3
      <4>2. \A l \in 1..Len(queue) : queue[l] # r
        BY <1>1, <3>2 DEF Entries
      <4> QED
        BY <1>1, <3>3, <3>4, <4>1, <4>2 DEF Once
    <3>5. \A q \in Entries(queue') : outcome'[q] # "unsent" /\ q \notin Entries(waiting')
      BY <1>2, <3>1, <3>2, <3>3, StaySent DEF Once
    <3>6. \A q \in Entries(waiting') : outcome'[q] # "unsent"
      BY <1>2, <3>1, StaySent DEF Once
    <3> QED
      BY <3>1, <3>4, <3>5, <3>6 DEF Once
  <2> QED
    BY <2>1, <2>2
<1>10. ASSUME NEW i \in DOMAIN queue, PumpSync(i) PROVE Once'
  <2>1. queue' = SubSeq(queue, i + 1, Len(queue)) /\ waiting' = waiting
    BY <1>10 DEF PumpSync, clientVars
  <2> QED
    BY <1>3, <1>5, <2>1 DEF Once
<1>11. ASSUME NEW i \in DOMAIN queue, PumpAsync(i) PROVE Once'
  <2>1. queue' = SubSeq(queue, i + 1, Len(queue)) /\ outcome' = outcome
        /\ waiting' = (IF isShutDown THEN waiting ELSE Append(waiting, queue[i]))
    BY <1>11 DEF PumpAsync
  <2>2. CASE isShutDown
    BY <1>3, <1>5, <2>1, <2>2 DEF Once
  <2>3. CASE ~isShutDown
    <3>q. PICK q \in Req : q = queue[i]
      BY <1>1
    <3>1. waiting' = Append(waiting, q) /\ q \in Entries(queue)
      BY <2>1, <2>3, <3>q DEF Entries
    <3>2. /\ Entries(waiting') = Entries(waiting) \union {q}
          /\ DOMAIN waiting' = 1..(Len(waiting) + 1) /\ waiting'[Len(waiting) + 1] = q
          /\ \A k \in 1..Len(waiting) : waiting'[k] = waiting[k]
      BY <1>1, <3>1, AppendEntries, AppendProperties, LenProperties
    <3>3. q \notin Entries(waiting) /\ outcome[q] # "unsent"
      BY <3>1 DEF Once
    <3>4. ASSUME NEW j \in DOMAIN waiting', NEW k \in DOMAIN waiting', waiting'[j] = waiting'[k] PROVE j = k
      <4>1. (j \in 1..Len(waiting) \/ j = Len(waiting) + 1) /\ (k \in 1..Len(waiting) \/ k = Len(waiting) + 1)
        BY <1>1, <3>2
      <4>2. \A l \in 1..Len(waiting) : waiting[l] # q
        BY <1>1, <3>3 DEF Entries
      <4> QED
        BY <1>1, <3>2, <3>4, <4>1, <4>2 DEF Once
    <3>5. \A r \in Entries(queue') : r \in Entries(queue) /\ r # q
      BY <1>5, <2>1, <3>q
    <3>6. \A r \in Entries(queue') : outcome'[r] # "unsent" /\ r \notin Entries(waiting')
      BY <2>1, <3>2, <3>5 DEF Once
    <3>7. \A r \in Entries(waiting') : outcome'[r] # "unsent"
      BY <2>1, <3>2, <3>3 DEF Once
    <3> QED
      BY <1>5, <2>1, <3>4, <3>6, <3>7 DEF Once
  <2> QED
    BY <2>2, <2>3
<1>12. CASE OnAnswer
  <2>1. queue' = queue
    BY <1>12 DEF OnAnswer
  <2>2. CASE waiting' = waiting
    BY <1>7, <2>1, <2>2
  <2>3. ASSUME NEW i \in DOMAIN waiting, waiting' = Without(waiting, i) PROVE Once'
    <3>1. \A j, k \in DOMAIN waiting' : waiting'[j] = waiting'[k] => j = k
      BY <1>1, <2>3, WithoutOnce DEF Once
    <3>2. Entries(waiting') \subseteq Entries(waiting)
      BY <1>1, <2>3, WithoutEntries
    <3> QED
      BY <1>3, <2>1, <3>1, <3>2 DEF Once
  <2> QED
    BY <1>12, <2>2, <2>3 DEF OnAnswer
<1>13. UNCHANGED vars \/ (\E r \in Req : Timeout(r)) \/ Replied \/ Seen \/ Flush \/ OnEvent \/ WorkerStep
       => queue' = queue /\ waiting' = waiting
  BY DEF vars, callVars, clientVars, Timeout, Replied, Seen, Flush, OnEvent, WorkerStep, Dispatch, Stop
<1>14. close \/ PumpNothing \/ (\E i \in DOMAIN queue : PumpAborts(i)) => queue' = <<>> /\ waiting' = waiting
  BY DEF close, PumpNothing, PumpAborts, doClose, clientVars
<1>15. terminate \/ OnReport \/ OnError \/ StopTimeout => queue' = queue /\ waiting' = <<>>
  BY DEF terminate, OnReport, OnError, StopTimeout, EndClient
<1>16. CASE Failed
  <2>1. waiting' = waiting /\ (queue' = <<>> \/ queue' = queue)
    BY <1>16, FailedFacts DEF doClose
  <2> QED
    BY <1>6, <1>7, <2>1
<1> QED
  BY <1>6, <1>7, <1>8, <1>9, <1>10, <1>11, <1>12, <1>13, <1>14, <1>15, <1>16 DEF Next, Microtask

-----------------------------------------------------------------------------
LEMMA LiveStep == LiveInv /\ [Next]_vars => LiveInv'
<1> SUFFICES ASSUME LiveInv, [Next]_vars PROVE LiveInv'
  OBVIOUS
<1>1. TypeOK' /\ Once'
  BY TypeStep, OnceStep DEF LiveInv
<1> SUFFICES Placed' /\ Pumped' /\ AllServed' /\ OpenRuns'
  BY <1>1 DEF LiveInv
<1> USE DEF LiveInv
<1>2. CASE UNCHANGED vars
  BY <1>2 DEF vars, callVars, clientVars, workerVars, Placed, Pumped, AllServed, OpenRuns, Awaited, Settling,
              Settles, InQueue, Busy, Served, Answering, Ordered
<1>3. ASSUME NEW r \in Req, send(r) PROVE Placed' /\ Pumped' /\ AllServed' /\ OpenRuns'
  <2>1. UNCHANGED <<state, waiting, closed, stopping, down, toWorker, fromWorker, worker>>
    BY <1>3 DEF send, clientVars, workerVars
  <2>2. AllServed' /\ OpenRuns'
    BY <2>1, StillServed
  <2>3. CASE state = "closed"
    <3>1. UNCHANGED <<queue, pumping, micro>> /\ \A q \in Req : outcome'[q] = "pending" => outcome[q] = "pending"
      BY <1>3, <2>3, Fields DEF send
    <3> QED
      BY <2>1, <2>2, <3>1 DEF Placed, Pumped, Awaited, Settling, Settles, InQueue, Busy
  <2>4. CASE state # "closed"
    <3>1. /\ queue' = Append(queue, r) /\ schedule(micro)
          /\ \A q \in Req : outcome'[q] = "pending" => outcome[q] = "pending" \/ q = r
      BY <1>3, <2>4, Fields DEF send
    <3>2. Entries(queue') = Entries(queue) \union {r}
      BY <3>1, Fields, AppendEntries
    <3>3. Entries(micro') = Entries(micro) \union {PumpTask} /\ pumping' = TRUE
      <4>1. Entries(Append(micro, PumpTask)) = Entries(micro) \union {PumpTask}
        BY Fields, Members, AppendEntries
      <4>2. CASE pumping
        BY <3>1, <4>2 DEF schedule, Pumped
      <4>3. CASE ~pumping
        <5>1. micro' = Append(micro, PumpTask) /\ pumping' = TRUE
          BY <3>1, <4>3 DEF schedule, PumpTask
        <5> QED
          BY <4>1, <5>1
      <4> QED
        BY <4>2, <4>3
    <3>4. \A q \in Req : InQueue(q) \/ q = r => InQueue(q)'
      BY <3>2, InQueueIs, InQueueIsNext
    <3>5. Placed'
      BY <2>1, <3>1, <3>3, <3>4 DEF Placed, Awaited, Settling
    <3>6. state' = "open" /\ Busy'
      BY <2>1, <2>4, <3>3, TaskTags DEF Busy, TypeOK
    <3> QED
      BY <2>2, <3>3, <3>5, <3>6 DEF Pumped
  <2> QED
    BY <2>3, <2>4
<1>4. ASSUME NEW r \in Req, Timeout(r) PROVE Placed' /\ Pumped' /\ AllServed' /\ OpenRuns'
  <2>1. UNCHANGED <<state, queue, pumping, micro, waiting, closed, stopping, down, toWorker, fromWorker, worker>>
    BY <1>4 DEF Timeout, clientVars, workerVars
  <2>2. \A q \in Req : outcome'[q] = "pending" => outcome[q] = "pending"
    BY <1>4, Fields DEF Timeout
  <2>3. AllServed' /\ OpenRuns'
    BY <2>1, StillServed
  <2> QED
    BY <2>1, <2>2, <2>3 DEF Placed, Pumped, Awaited, Settling, Settles, InQueue, Busy
<1>5. CASE close
  <2>1. /\ doClose(outcome) /\ UNCHANGED <<waiting, down, fromWorker, pumping, micro>>
        /\ outcome \in [Req -> {"unsent", "pending", "resolved", "rejected"}]
    BY <1>5, Fields DEF close
  <2>2. AllServed' /\ OpenRuns'
    BY <2>1, ServedByClose
  <2>3. queue' = <<>> /\ \A r \in Req : outcome'[r] = "pending" => outcome[r] = "pending" /\ ~InQueue(r)
    BY <2>1, CloseFacts
  <2> QED
    BY <2>1, <2>2, <2>3 DEF Placed, Pumped, Awaited, Settling, Settles
<1>6. CASE Microtask
  BY <1>6, PlacedByMicrotask, PumpedByMicrotask, ServedByMicrotask
<1>7. CASE OnEvent \/ OnAnswer \/ OnReport \/ OnError \/ StopTimeout \/ terminate
  BY <1>7, LiveByMessage
<1>8. CASE WorkerStep
  <2>1. UNCHANGED <<outcome, state, queue, pumping, micro, waiting, closed, stopping, down>>
    BY <1>8 DEF WorkerStep, Dispatch, Stop, callVars, clientVars
  <2>2. Placed' /\ Pumped'
    BY <2>1 DEF Placed, Pumped, Awaited, Settling, Settles, InQueue, Busy
  <2>3. /\ toWorker # <<>> /\ toWorker' = Tail(toWorker) /\ worker \in {"running", "aborted"}
    BY <1>8 DEF WorkerStep, Dispatch, Stop
  <2>4. Head(toWorker) \in Orders /\ Entries(toWorker) = {Head(toWorker)} \union Entries(toWorker')
    BY <2>3, Fields, TailEntries
  <2>5. CASE Stop
    <3>1. closed
      <4>1. Head(toWorker) = <<"stop">>
        BY <2>4, <2>5, OrderKinds DEF Stop
      <4> QED
        BY <2>4, <4>1 DEF OpenRuns
    <3>2. OpenRuns' /\ AllServed'
      BY <2>1, <3>1 DEF OpenRuns, AllServed, Served
    <3> QED
      BY <2>2, <3>2
  <2>6. CASE Dispatch
    <3>r. PICK r \in Req : Head(toWorker) = <<"req", r>>
      BY <2>4, <2>6, OrderKinds DEF Dispatch
    <3>1. OpenRuns'
      <4>1. worker' \in {worker, "aborted", "wedged"}
        BY <2>6 DEF Dispatch
      <4> QED
        BY <2>1, <2>4, <4>1 DEF OpenRuns
    <3>2. /\ Entries(fromWorker) \subseteq Entries(fromWorker')
          /\ worker' = "wedged" \/ (worker' \in {"running", "aborted"} /\ Answering(r)')
      <4>0. fromWorker \in Seq(Messages)
        BY Fields
      <4>1. \A s \in Seq(Messages) : Tell(s) => Entries(fromWorker') = Entries(fromWorker) \union Entries(s)
        BY <4>0, ConcatHasBoth DEF Tell
      <4>2. /\ <<>> \in Seq(Messages) /\ <<<<"event", r>>>> \in Seq(Messages)
            /\ <<<<"res", r>>>> \in Seq(Messages) /\ Entries(<<<<"res", r>>>>) = {<<"res", r>>}
            /\ <<<<"error", r, FALSE>>>> \in Seq(Messages) /\ Entries(<<<<"error", r, FALSE>>>>) = {<<"error", r, FALSE>>}
        BY SentMembers, OneEntry, EmptySeq
      <4>3. \A e \in {<<>>, <<<<"event", r>>>>} :
              /\ e \o <<<<"res", r>>>> \in Seq(Messages)
              /\ <<"res", r>> \in Entries(e \o <<<<"res", r>>>>)
        <5> SUFFICES ASSUME NEW e \in {<<>>, <<<<"event", r>>>>}
                     PROVE  /\ e \o <<<<"res", r>>>> \in Seq(Messages)
                            /\ <<"res", r>> \in Entries(e \o <<<<"res", r>>>>)
          OBVIOUS
        <5> DEFINE last == <<<<"res", r>>>>
        <5>1. e \in Seq(Messages) /\ last \in Seq(Messages) /\ <<"res", r>> \in Entries(last)
          BY <4>2
        <5> HIDE DEF last
        <5>2. e \o last \in Seq(Messages) /\ Entries(e \o last) = Entries(e) \union Entries(last)
          BY ONLY <5>1, ConcatHasBoth
        <5>3. e \o last \in Seq(Messages) /\ <<"res", r>> \in Entries(e \o last)
          BY <5>1, <5>2
        <5> QED
          BY <5>3 DEF last
      <4>4. /\ <<<<"error", r, TRUE>>, <<"failed">>>> \in Seq(Messages)
            /\ <<"error", r, TRUE>> \in Entries(<<<<"error", r, TRUE>>, <<"failed">>>>)
        <5> DEFINE a == <<"error", r, TRUE>>
                   b == <<"failed">>
        <5>1. a \in Messages /\ b \in Messages
          BY SentMembers
        <5> HIDE DEF a, b
        <5>2. <<a, b>> \in Seq(Messages) /\ DOMAIN <<a, b>> = {1, 2} /\ <<a, b>>[1] = a
          BY <5>1
        <5>3. a \in Entries(<<a, b>>)
          BY <5>2 DEF Entries
        <5> QED
          BY <5>2, <5>3 DEF a, b
      <4>5. CASE /\ worker' = "wedged" /\ UNCHANGED fromWorker
        BY <4>5
      <4>6. ASSUME NEW s \in Seq(Messages), Tell(s), worker' \in {"running", "aborted"},
                   NEW m \in Entries(s), m[1] \in {"res", "error"}, m[2] = r
            PROVE  Entries(fromWorker) \subseteq Entries(fromWorker') /\ Answering(r)'
        <5>1. Entries(fromWorker') = Entries(fromWorker) \union Entries(s)
          BY <4>1, <4>6
        <5> QED
          BY <4>6, <5>1 DEF Answering
      <4>7. \/ worker' = "wedged" /\ UNCHANGED fromWorker
            \/ /\ worker' \in {"running", "aborted"}
               /\ \/ \E e \in {<<>>, <<<<"event", r>>>>} : Tell(e \o <<<<"res", r>>>>)
                  \/ Tell(<<<<"error", r, FALSE>>>>)
                  \/ Tell(<<<<"error", r, TRUE>>, <<"failed">>>>)
        <5>1. Head(toWorker)[2] = r
          BY <3>r
        <5>2. CASE worker = "aborted"
          BY <2>3, <2>6, <5>1, <5>2 DEF Dispatch
        <5>3. CASE worker = "running"
          BY <2>3, <2>6, <5>1, <5>3 DEF Dispatch
        <5> QED
          BY <2>3, <5>2, <5>3
      <4>8. \A f : <<"error", r, f>>[1] = "error" /\ <<"error", r, f>>[2] = r
        OBVIOUS
      <4>9. <<"res", r>>[1] = "res" /\ <<"res", r>>[2] = r
        OBVIOUS
      <4>10. ASSUME worker' \in {"running", "aborted"},
                    NEW e \in {<<>>, <<<<"event", r>>>>}, Tell(e \o <<<<"res", r>>>>)
             PROVE  Entries(fromWorker) \subseteq Entries(fromWorker') /\ Answering(r)'
        BY <4>3, <4>6, <4>9, <4>10
      <4>11. ASSUME worker' \in {"running", "aborted"}, Tell(<<<<"error", r, FALSE>>>>)
             PROVE  Entries(fromWorker) \subseteq Entries(fromWorker') /\ Answering(r)'
        BY <4>2, <4>6, <4>8, <4>11
      <4>12. ASSUME worker' \in {"running", "aborted"}, Tell(<<<<"error", r, TRUE>>, <<"failed">>>>)
             PROVE  Entries(fromWorker) \subseteq Entries(fromWorker') /\ Answering(r)'
        BY <4>4, <4>6, <4>8, <4>12
      <4> QED
        BY <4>5, <4>7, <4>10, <4>11, <4>12
    <3>3. ASSUME NEW q \in Entries(waiting) PROVE Served(q)'
      <4>1. CASE closed
        BY <2>1, <3>3, <4>1 DEF AllServed, Served
      <4>2. CASE ~closed
        <5>1. ~down /\ (Answering(q) \/ Ordered(q))
          BY <2>3, <3>3, <4>2 DEF AllServed, Served
        <5>2. Answering(q) => Answering(q)'
          BY <3>2 DEF Answering
        <5>3. CASE q = r
          BY <2>1, <3>2, <4>2, <5>1, <5>3 DEF Served
        <5>4. CASE q # r
          <6>1. Ordered(q) => <<"req", q>> \in Entries(toWorker')
            BY <2>4, <3>r, <5>4 DEF Ordered
          <6> QED
            BY <2>1, <3>2, <4>2, <5>1, <5>2, <6>1 DEF Served, Ordered
        <5> QED
          BY <5>3, <5>4
      <4> QED
        BY <4>1, <4>2
    <3> QED
      BY <2>1, <2>2, <3>1, <3>3 DEF AllServed
  <2> QED
    BY <1>8, <2>5, <2>6 DEF WorkerStep
<1> QED
  BY <1>2, <1>3, <1>4, <1>5, <1>6, <1>7, <1>8 DEF Next

\* pump(), afterDispatch(), failAll() and shutdown() (wasm.ts:173, :235; worker-client.ts:257,
\* :107) leave no request to its caller: when nothing can happen by itself, a promise is open
\* only while a module that never returned is neither closed nor ended.
THEOREM NobodyIsStranded == Spec => []NothingStranded
<1>1. Init => LiveInv
  <2> SUFFICES ASSUME Init PROVE LiveInv
    OBVIOUS
  <2>1. TypeOK /\ \A S : <<>> \in Seq(S)
    <3>1. \A S : <<>> \in Seq(S)
      BY EmptySeq
    <3> QED
      BY <3>1, WasmAssumption, TypeParts DEF Init, Configured, CallTypes, ClientTypes, WorkerTypes
  <2>2. Entries(<<>>) = {} /\ DOMAIN <<>> = {}
    BY DEF Entries
  <2> QED
    BY <2>1, <2>2 DEF Init, LiveInv, Placed, Pumped, AllServed, OpenRuns, Once
<1>2. LiveInv => NothingStranded
  <2> SUFFICES ASSUME LiveInv, Quiet, NEW r \in Req, outcome[r] = "pending" PROVE worker = "wedged" /\ ~closed
    BY DEF NothingStranded
  <2>1. Entries(micro) = {} /\ Entries(fromWorker) = {} /\ waiting \in Seq(Req)
    BY Fields, EmptyEntries DEF LiveInv, Quiet
  <2>2. waiting # <<>>
    <3>1. CASE InQueue(r)
      <4>1. queue # <<>>
        BY <3>1 DEF InQueue
      <4> QED
        BY <2>1, <4>1 DEF LiveInv, Pumped, Busy
    <3>2. CASE Awaited(r)
      <4>1. Entries(<<>>) = {}
        BY DEF Entries
      <4> QED
        BY <3>2, <4>1 DEF Awaited
    <3> QED
      BY <2>1, <3>1, <3>2 DEF LiveInv, Placed, Settling
  <2>3. PICK q : q \in Entries(waiting)
    BY <2>1, <2>2, EmptyEntries
  <2>4. Served(q) /\ ~stopping
    BY <2>3 DEF LiveInv, AllServed, Quiet
  <2>5. ~Answering(q) /\ ~Ordered(q)
    <3>1. ~Answering(q)
      BY <2>1 DEF Answering
    <3>2. Entries(<<>>) = {}
      BY DEF Entries
    <3>3. ~Ordered(q)
      BY <3>2 DEF Ordered, Quiet
    <3> QED
      BY <3>1, <3>3
  <2> QED
    BY <2>4, <2>5 DEF Served
<1> QED
  BY <1>1, <1>2, LiveStep, PTL DEF Spec
=============================================================================
