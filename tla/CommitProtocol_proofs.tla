------------------------ MODULE CommitProtocol_proofs ------------------------
(***************************************************************************)
(* Theorems about CommitProtocol for every set of edits and callers, every  *)
(* merge key and either kind of commit.                                     *)
(***************************************************************************)
EXTENDS CommitProtocol, SequenceTheorems, TLAPS

LEMMA TailType == ASSUME NEW S, NEW s \in Seq(S), s # <<>> PROVE Tail(s) \in Seq(S) /\ Head(s) \in S
BY HeadTailProperties

LEMMA AppendType == ASSUME NEW S, NEW s \in Seq(S), NEW e \in S PROVE Append(s, e) \in Seq(S)
BY AppendProperties

\* Whoever awaits a request that names the commit has its id (commit.ts:138-250).
NeedsId == {"ending", "dropping", "reverting", "stack"}
IdInv == \A c \in Caller : pc[c] \in NeedsId => mode.hasId
TypeInv == TypeOK /\ IdInv

\* A request of a sender keeps the queue of requests one of requests.
LEMMA SendType ==
  ASSUME TypeOK, mode' = mode, NEW s \in Sender, NEW kind \in Kinds, NEW ops \in Seq(Op), Send(s, kind, ops)
  PROVE  wire' \in Seq(Request)'
<1>1. [from |-> s, kind |-> kind, ops |-> ops, live |-> TRUE] \in Request
  BY DEF Request
<1>2. Append(wire, [from |-> s, kind |-> kind, ops |-> ops, live |-> TRUE]) \in Seq(Request)
  BY <1>1, AppendType DEF TypeOK
<1>3. Request' = Request
  BY DEF Request, Kinds
<1> QED
  BY <1>2, <1>3 DEF Send

LEMMA RequestType ==
  ASSUME TypeOK, mode' = mode, NEW c \in Caller, NEW kind \in Kinds, Send(c, kind, <<>>)
  PROVE  wire' \in Seq(Request)'
BY SendType, EmptySeq DEF Sender

LEMMA ConcatOps ==
  ASSUME NEW s \in Seq(Op), NEW t \in Seq(Op), NEW u \in Seq(Op)
  PROVE  s \o t \in Seq(Op) /\ (s \o t) \o u = s \o (t \o u)
BY ConcatAssociative, ConcatProperties

\* How flush() cuts the queue: nothing is lost and nothing moves.
LEMMA BatchIsPrefix ==
  ASSUME NEW q \in Seq(Op), NEW n \in BatchLengths(q)
  PROVE  /\ Split(q, n)[1] \in Seq(Op) /\ Split(q, n)[2] \in Seq(Op)
         /\ Split(q, n)[1] \o Split(q, n)[2] = q
<1>1. n \in 1..Len(q) /\ Len(q) \in Nat
  BY LenProperties DEF BatchLengths
<1>2. Split(q, n)[1] = SubSeq(q, 1, n) /\ Split(q, n)[2] = SubSeq(q, n + 1, Len(q))
  BY DEF Split
<1>3. \A i \in 1..Len(q) : q[i] \in Op
  BY ElementOfSeq
<1>4. SubSeq(q, 1, n) \in Seq(Op)
  BY <1>1, <1>3, SubSeqProperties
<1>5. SubSeq(q, n + 1, Len(q)) \in Seq(Op)
  BY <1>1, <1>3, SubSeqProperties
<1>6. SubSeq(q, 1, n) \o SubSeq(q, n + 1, Len(q)) = SubSeq(q, 1, Len(q))
  BY <1>1, ConcatAdjacentSubSeq
<1>7. SubSeq(q, 1, Len(q)) = q
  BY SubSeqFull
<1> QED
  BY <1>2, <1>4, <1>5, <1>6, <1>7

\* One turn of the flush loop.
LEMMA FlushMoreType ==
  ASSUME TypeOK, mode' = mode, FlushMore
  PROVE  /\ queue' \in Seq(Op) /\ batch' \in Seq(Op) /\ sent' \in Seq(Op)
         /\ wire' \in Seq(Request)'
         /\ sent' \o queue' = sent \o queue
<1>1. CASE queue = <<>>
  <2>1. batch' = <<>> /\ UNCHANGED <<queue, sent, wire>>
    BY <1>1 DEF FlushMore, LoopEnds
  <2>2. <<>> \in Seq(Op) /\ Request' = Request
    BY EmptySeq DEF Request, Kinds
  <2> QED
    BY <2>1, <2>2 DEF TypeOK
<1>2. CASE queue # <<>>
  <2>1. PICK n \in BatchLengths(queue) :
          /\ batch' = Split(queue, n)[1]
          /\ queue' = Split(queue, n)[2]
          /\ sent' = sent \o Split(queue, n)[1]
          /\ Send(Flush, "ops", Split(queue, n)[1])
    BY <1>2 DEF FlushMore, TakeBatch
  <2>2. queue \in Seq(Op) /\ sent \in Seq(Op)
    BY DEF TypeOK
  <2>3. /\ batch' \in Seq(Op) /\ queue' \in Seq(Op) /\ batch' \o queue' = queue
    BY <2>1, <2>2, BatchIsPrefix
  <2>4. sent' \in Seq(Op)
    BY <2>1, <2>2, <2>3, ConcatProperties
  <2>5. sent' \o queue' = sent \o queue
    <3>1. sent' = sent \o batch'
      BY <2>1
    <3>2. (sent \o batch') \o queue' = sent \o (batch' \o queue')
      BY <2>2, <2>3, ConcatOps
    <3> QED
      BY <2>3, <3>1, <3>2
  <2>6. wire' \in Seq(Request)'
    BY <2>1, <2>3, SendType DEF Sender, Kinds
  <2> QED
    BY <2>3, <2>4, <2>5, <2>6
<1> QED
  BY <1>1, <1>2

\* What KiCad makes of a request.
LEMMA PushType ==
  ASSUME TypeOK, NEW by \in {"me", "other", "none"}, NEW ops \in SUBSET Op, Push(by, ops)
  PROVE  undoStack' \in Seq(Entry)
<1>1. [by |-> by, ops |-> ops] \in Entry
  BY DEF Entry
<1> QED
  BY <1>1, AppendType DEF Push, TypeOK

LEMMA PopType ==
  ASSUME TypeOK, undoStack # <<>>, Pop
  PROVE  undoStack' \in Seq(Entry) /\ Newest \in Entry
<1>1. Len(undoStack) \in Nat \ {0} /\ undoStack \in Seq(Entry)
  BY EmptySeq DEF TypeOK
<1>2. \A i \in 1..Len(undoStack) : undoStack[i] \in Entry
  BY <1>1, ElementOfSeq
<1>3. SubSeq(undoStack, 1, Len(undoStack) - 1) \in Seq(Entry)
  BY <1>1, <1>2, SubSeqProperties
<1> QED
  BY <1>1, <1>2, <1>3 DEF Pop, Newest

LEMMA ServeType ==
  ASSUME TypeOK, NEW m, NEW a, Elems(m.ops) \subseteq Op,
         ServeOps(m, a) \/ ServeCommit(m, a) \/ ServeDrop(m, a) \/ ServeStack(m, a) \/ ServeUndo(m, a)
  PROVE  /\ open' \in BOOLEAN /\ applied' \in SUBSET Op /\ undidOther' \in BOOLEAN
         /\ undoStack' \in Seq(Entry)
<1>1. CASE ServeOps(m, a)
  <2>1. PICK S \in SUBSET Elems(m.ops) :
          /\ applied' = IF open THEN applied \union S ELSE applied
          /\ IF open \/ S = {} THEN UNCHANGED undoStack ELSE Push("none", S)
          /\ UNCHANGED <<open, undidOther>>
    BY <1>1 DEF ServeOps
  <2>2. S \in SUBSET Op
    BY <2>1
  <2>3. undoStack' \in Seq(Entry)
    BY <2>1, <2>2, PushType DEF TypeOK
  <2> QED
    BY <2>1, <2>2, <2>3 DEF TypeOK
<1>2. CASE ServeCommit(m, a)
  <2>1. applied \in SUBSET Op
    BY DEF TypeOK
  <2>2. undoStack' \in Seq(Entry)
    BY <1>2, <2>1, PushType DEF ServeCommit, TypeOK
  <2> QED
    BY <1>2, <2>2 DEF ServeCommit, TypeOK
<1>3. CASE ServeDrop(m, a)
  BY <1>3 DEF ServeDrop, TypeOK
<1>4. CASE ServeStack(m, a)
  BY <1>4 DEF ServeStack, TypeOK
<1>5. CASE ServeUndo(m, a)
  <2>1. CASE open \/ foreignOpen \/ undoStack = <<>>
    BY <1>5, <2>1 DEF ServeUndo, TypeOK
  <2>2. CASE ~(open \/ foreignOpen \/ undoStack = <<>>)
    <3>1. undoStack' \in Seq(Entry)
      BY <1>5, <2>2, PopType DEF ServeUndo
    <3> QED
      BY <1>5, <2>2, <3>1 DEF ServeUndo, TypeOK
  <2> QED
    BY <2>1, <2>2
<1> QED
  BY <1>1, <1>2, <1>3, <1>4, <1>5

\* The fields keep their types (commit.ts:80-99), and only a commit with an id
\* makes the requests that name it (commit.ts:138-250).
LEMMA TypeInvariant == Spec => []TypeInv
<1>1. Init => TypeInv
  <2> SUFFICES ASSUME Init PROVE TypeInv
    OBVIOUS
  <2>1. \A S : <<>> \in Seq(S)
    BY EmptySeq
  <2>2. /\ queue \in Seq(Op) /\ batch \in Seq(Op) /\ accepted \in Seq(Op) /\ sent \in Seq(Op)
        /\ wire \in Seq(Request) /\ undoStack \in Seq(Entry)
    BY <2>1 DEF Init
  <2>3. timeouts \in 0..MaxTimeouts /\ foreign \in 0..MaxForeign /\ open \in BOOLEAN
    BY CommitAssumption DEF Init
  <2> QED
    BY <2>2, <2>3 DEF Init, TypeOK, TypeInv, IdInv, NeedsId
<1>2. TypeInv /\ [Next]_vars => TypeInv'
  <2> SUFFICES ASSUME TypeInv, [Next]_vars PROVE TypeInv'
    OBVIOUS
  <2> USE DEF TypeInv
  <2>0. mode' = mode /\ Kinds' = Kinds /\ Request' = Request /\ mode.hasId \in BOOLEAN
    <3>1. mode' = mode
      BY DEF Next, vars, Enqueue, Microtask, FlushReply, CallerSteps, Call, DrainEnds, PushEnds,
             DropEnds, FailEnds, Answered, Timeout, Serve, Lose, ForeignBegins, ForeignPushes
    <3> QED
      BY <3>1, CommitAssumption DEF Kinds, Request, TypeOK
  <2>1. CASE UNCHANGED vars
    BY <2>0, <2>1 DEF TypeOK, IdInv, vars, client, kicad
  <2>2. ASSUME NEW o \in Op, Enqueue(o) PROVE TypeInv'
    <3>1. Append(queue, o) \in Seq(Op) /\ Append(accepted, o) \in Seq(Op)
      BY AppendType DEF TypeOK
    <3>2. queue' \in Seq(Op) /\ accepted' \in Seq(Op)
      BY <2>2, <3>1 DEF Enqueue, TypeOK
    <3> QED
      BY <2>0, <2>2, <3>2 DEF Enqueue, TypeOK, IdInv, kicad
  <2>3. CASE Microtask
    <3>1. queue' \in Seq(Op) /\ batch' \in Seq(Op) /\ sent' \in Seq(Op) /\ wire' \in Seq(Request)
      BY <2>0, <2>3, FlushMoreType DEF Microtask, TypeOK
    <3> QED
      BY <2>0, <2>3, <3>1 DEF Microtask, TypeOK, IdInv, kicad
  <2>4. CASE FlushReply
    <3>1. queue' \in Seq(Op) /\ batch' \in Seq(Op) /\ sent' \in Seq(Op) /\ wire' \in Seq(Request)
      BY <2>0, <2>4, FlushMoreType DEF FlushReply
    <3> QED
      BY <2>0, <2>4, <3>1 DEF FlushReply, TypeOK, IdInv, kicad
  <2>5. ASSUME NEW c \in Caller, CallerSteps(c) PROVE TypeInv'
    <3>1. CASE Call(c)
      <4>1. wire' \in Seq(Request)
        BY <2>0, <3>1, RequestType DEF Call, Silent, Sends, Kinds, TypeOK
      <4> QED
        BY <2>0, <3>1, <4>1 DEF Call, TypeOK, IdInv, NeedsId, kicad, editing, To, Silent, Sends, Waiting, Over
    <3>2. CASE DrainEnds(c)
      BY <2>0, <3>2 DEF DrainEnds, TypeOK, IdInv, NeedsId, kicad, editing, To, Silent, Waiting, Over
    <3>3. CASE PushEnds(c)
      <4>1. wire' \in Seq(Request)
        BY <2>0, <3>3, RequestType DEF PushEnds, Silent, Sends, Kinds, TypeOK
      <4> QED
        BY <2>0, <3>3, <4>1 DEF PushEnds, TypeOK, IdInv, NeedsId, kicad, editing, To, Silent, Sends, Waiting, Over
    <3>4. CASE DropEnds(c)
      <4>1. wire' \in Seq(Request)
        BY <2>0, <3>4, RequestType DEF DropEnds, Silent, Sends, Kinds, TypeOK
      <4> QED
        BY <2>0, <3>4, <4>1 DEF DropEnds, TypeOK, IdInv, NeedsId, kicad, editing, To, Silent, Sends, Waiting, Over
    <3>5. CASE FailEnds(c)
      <4>1. wire' \in Seq(Request)
        BY <2>0, <3>5, RequestType DEF FailEnds, Silent, Sends, Kinds, TypeOK
      <4> QED
        BY <2>0, <3>5, <4>1 DEF FailEnds, TypeOK, IdInv, NeedsId, kicad, editing, To, Silent, Sends, Waiting, Over
    <3>6. CASE Answered(c)
      <4>1. wire' \in Seq(Request)
        <5>1. pc[c] \in NeedsId => mode.hasId
          BY DEF IdInv
        <5> QED
          BY <2>0, <3>6, <5>1, RequestType
             DEF Answered, EndsForGood, DropFails, Proceeds, Silent, Sends, Kinds, NeedsId, TypeOK
      <4>2. pc' \in [Caller -> {"idle", "drain", "drained"} \union Waiting \union Over] /\ IdInv'
        BY <2>0, <3>6 DEF Answered, EndsForGood, DropFails, Proceeds, Silent, Sends, To,
                          TypeOK, IdInv, NeedsId, Waiting, Over
      <4>3. ended' \in BOOLEAN /\ finalizing' \in BOOLEAN /\ goal' \in [Caller -> Goals]
        BY <3>6 DEF Answered, EndsForGood, DropFails, Proceeds, TypeOK, Goals
      <4>4. reply' \in [Sender -> {"none", "ok", "error", "me", "other", "empty"}]
        BY <3>6 DEF Answered, TypeOK
      <4> QED
        BY <2>0, <3>6, <4>1, <4>2, <4>3, <4>4 DEF Answered, TypeOK, editing, kicad
    <3> QED
      BY <2>5, <3>1, <3>2, <3>3, <3>4, <3>5, <3>6 DEF CallerSteps
  <2>6. ASSUME NEW s \in Sender, Timeout(s) PROVE TypeInv'
    <3>1. timeouts' \in 0..MaxTimeouts
      BY <2>6, CommitAssumption DEF Timeout, TypeOK
    <3>2. reply' \in [Sender -> {"none", "ok", "error", "me", "other", "empty"}]
      BY <2>6 DEF Timeout, TypeOK
    <3>3. wire' \in Seq(Request)
      <4>1. wire \in [1..Len(wire) -> Request] /\ Len(wire) \in Nat
        BY LenProperties DEF TypeOK
      <4>2. \A m \in Request : [m EXCEPT !.live = FALSE] \in Request
        BY DEF Request
      <4>3. wire' \in [1..Len(wire) -> Request]
        BY <2>6, <4>1, <4>2 DEF Timeout
      <4> QED
        BY <4>1, <4>3
    <3> QED
      BY <2>0, <2>6, <3>1, <3>2, <3>3 DEF Timeout, TypeOK, IdInv, client, kicad
  <2>7. CASE Serve
    <3>1. wire' \in Seq(Request) /\ Head(wire) \in Request
      BY <2>7, TailType DEF Serve, TypeOK
    <3>2. Elems(Head(wire).ops) \subseteq Op /\ Head(wire).from \in Sender
      <4>1. Head(wire).ops \in Seq(Op) /\ Head(wire).from \in Sender
        BY <3>1 DEF Request
      <4> QED
        BY <4>1, LenProperties, ElementOfSeq DEF Elems
    <3>3. PICK a \in {"ok", "error", "me", "other", "empty"} :
            LET m == Head(wire) IN
            /\ CASE m.kind = "ops" -> ServeOps(m, a)
                 [] m.kind = "commit" -> ServeCommit(m, a)
                 [] m.kind = "drop" -> ServeDrop(m, a)
                 [] m.kind = "stack" -> ServeStack(m, a)
                 [] m.kind = "undo" -> ServeUndo(m, a)
            /\ reply' = IF m.live THEN [reply EXCEPT ![m.from] = a] ELSE reply
      BY <2>7 DEF Serve
    <3>4. Head(wire).kind \in {"ops", "commit", "drop", "stack", "undo"}
      BY <3>1 DEF Request, Kinds
    <3>5. reply' \in [Sender -> {"none", "ok", "error", "me", "other", "empty"}]
      BY <3>2, <3>3 DEF TypeOK
    <3>6. /\ open' \in BOOLEAN /\ applied' \in SUBSET Op /\ undidOther' \in BOOLEAN
          /\ undoStack' \in Seq(Entry)
      BY <3>2, <3>3, <3>4, ServeType
    <3> QED
      BY <2>0, <2>7, <3>1, <3>5, <3>6 DEF Serve, TypeOK, IdInv, client
  <2>8. CASE Lose
    <3>1. wire' \in Seq(Request)
      BY <2>8, TailType DEF Lose, TypeOK
    <3> QED
      BY <2>0, <2>8, <3>1 DEF Lose, TypeOK, IdInv, client, kicad
  <2>9. CASE ForeignBegins
    <3>1. foreign' \in 0..MaxForeign
      BY <2>9, CommitAssumption DEF ForeignBegins, TypeOK
    <3> QED
      BY <2>0, <2>9, <3>1 DEF ForeignBegins, TypeOK, IdInv, client
  <2>10. CASE ForeignPushes
    <3>1. undoStack' \in Seq(Entry)
      BY <2>10, AppendType DEF ForeignPushes, Push, Entry, TypeOK
    <3> QED
      BY <2>0, <2>10, <3>1 DEF ForeignPushes, TypeOK, IdInv, client
  <2> QED
    BY <2>1, <2>2, <2>3, <2>4, <2>5, <2>6, <2>7, <2>8, <2>9, <2>10 DEF Next
<1>3. QED
  BY <1>1, <1>2, PTL DEF Spec

\* Every field of a commit and of KiCad's side of it keeps its type, whatever the
\* callers do and whatever fails (commit.ts:80-99).
THEOREM TypeCorrect == Spec => []TypeOK
BY TypeInvariant, PTL DEF TypeInv

\* Batching never reorders, loses or repeats an edit (flush, commit.ts:297).
THEOREM BatchesKeepOrder == Spec => []OrderKept
<1>1. Init => OrderKept
  BY EmptySeq, ConcatEmptySeq DEF Init, OrderKept
<1>2. TypeInv /\ OrderKept /\ [Next]_vars => OrderKept'
  <2> SUFFICES ASSUME TypeInv, OrderKept, [Next]_vars PROVE OrderKept'
    OBVIOUS
  <2>0. queue \in Seq(Op) /\ sent \in Seq(Op) /\ accepted \in Seq(Op)
    BY DEF TypeInv, TypeOK
  <2>1. ASSUME NEW o \in Op, Enqueue(o) PROVE OrderKept'
    <3>1. CASE ended \/ finalizing
      BY <2>1, <3>1 DEF Enqueue, OrderKept
    <3>2. CASE ~(ended \/ finalizing)
      <4>1. queue' = Append(queue, o) /\ accepted' = Append(accepted, o) /\ sent' = sent
        BY <2>1, <3>2 DEF Enqueue
      <4>2. Append(queue, o) = queue \o <<o>> /\ Append(accepted, o) = accepted \o <<o>>
        BY <2>0, AppendIsConcat
      <4>3. (sent \o queue) \o <<o>> = sent \o (queue \o <<o>>)
        <5>1. <<o>> \in Seq(Op)
          OBVIOUS
        <5> QED
          BY <2>0, <5>1, ConcatOps
      <4> QED
        BY <4>1, <4>2, <4>3 DEF OrderKept
    <3> QED
      BY <3>1, <3>2
  <2>2. CASE Microtask \/ FlushReply
    <3>1. mode' = mode /\ accepted' = accepted
      BY <2>2 DEF Microtask, FlushReply
    <3>2. CASE FlushMore
      BY <3>1, <3>2, FlushMoreType DEF TypeInv, OrderKept
    <3>3. CASE UNCHANGED <<batch, queue, sent, wire>>
      BY <3>1, <3>3 DEF OrderKept
    <3> QED
      BY <2>2, <3>2, <3>3 DEF Microtask, FlushReply
  <2>3. ASSUME NEW c \in Caller, CallerSteps(c) PROVE OrderKept'
    BY <2>3 DEF CallerSteps, Call, DrainEnds, PushEnds, DropEnds, FailEnds, Answered, editing, OrderKept
  <2>4. CASE \/ \E s \in Sender : Timeout(s)
             \/ Serve \/ Lose \/ ForeignBegins \/ ForeignPushes \/ UNCHANGED vars
    BY <2>4 DEF Timeout, Serve, Lose, ForeignBegins, ForeignPushes, vars, client, OrderKept
  <2> QED
    BY <2>1, <2>2, <2>3, <2>4 DEF Next
<1>3. QED
  BY <1>1, <1>2, TypeInvariant, PTL DEF Spec

\* A disciplined caller that has drained the queue finds it empty from then on, and
\* a drop() that returned has ended the commit.
DrainedStates == {"drained", "dropping", "dropped", "abandoned"}
DiscardInv ==
  mode.disciplined =>
    \A c \in Caller : /\ pc[c] \in DrainedStates => queue = <<>> /\ batch = <<>>
                      /\ pc[c] \in {"dropped", "abandoned"} => ended

LEMMA DiscardInvariant == Spec => []DiscardInv
<1>1. Init => DiscardInv
  BY DEF Init, DiscardInv, DrainedStates
<1>2. TypeInv /\ DiscardInv /\ [Next]_vars => DiscardInv'
  <2> SUFFICES ASSUME TypeInv, DiscardInv, [Next]_vars, mode'.disciplined PROVE DiscardInv'
    BY DEF DiscardInv
  <2> USE DEF DrainedStates
  <2>0. pc \in [Caller -> {"idle", "drain", "drained"} \union Waiting \union Over]
    BY DEF TypeInv, TypeOK
  <2>1. ASSUME NEW o \in Op, Enqueue(o) PROVE DiscardInv'
    <3>1. \A c \in Caller : pc'[c] = "idle"
      BY <2>1 DEF Enqueue
    <3> QED
      BY <3>1 DEF DiscardInv
  <2>2. CASE Microtask \/ FlushReply
    <3>1. mode' = mode /\ pc' = pc /\ ended' = ended
      BY <2>2 DEF Microtask, FlushReply
    <3>2. queue = <<>> /\ batch = <<>> => queue' = <<>> /\ batch' = <<>>
      BY <2>2 DEF Microtask, FlushReply, FlushMore, LoopEnds
    <3> QED
      BY <3>1, <3>2 DEF DiscardInv
  <2>3. ASSUME NEW c \in Caller, CallerSteps(c) PROVE DiscardInv'
    <3>0. mode' = mode /\ queue' = queue /\ batch' = batch /\ (ended => ended')
      BY <2>3 DEF CallerSteps, Call, DrainEnds, PushEnds, DropEnds, FailEnds, Answered, editing,
                  EndsForGood, DropFails, Proceeds
    <3>1. \A d \in Caller \ {c} : pc'[d] = pc[d]
      BY <2>0, <2>3 DEF CallerSteps, Call, DrainEnds, PushEnds, DropEnds, FailEnds, Answered,
                        EndsForGood, DropFails, Proceeds, Silent, Sends, To
    <3>2. /\ pc'[c] \in DrainedStates => pc[c] \in DrainedStates \/ (queue = <<>> /\ batch = <<>>)
          /\ pc'[c] \in {"dropped", "abandoned"} => ended'
      <4>1. CASE Call(c)
        BY <2>0, <4>1 DEF Call, Silent, Sends, To
      <4>2. CASE DrainEnds(c)
        BY <2>0, <4>2 DEF DrainEnds, Drained, Silent, To
      <4>3. CASE PushEnds(c)
        BY <2>0, <4>3 DEF PushEnds, Silent, Sends, To
      <4>4. CASE DropEnds(c)
        BY <2>0, <4>4 DEF DropEnds, Silent, Sends, To
      <4>5. CASE FailEnds(c)
        BY <2>0, <4>5 DEF FailEnds, Silent, Sends, To
      <4>6. CASE Answered(c)
        BY <2>0, <4>6 DEF Answered, EndsForGood, DropFails, Proceeds, Silent, Sends, To
      <4> QED
        BY <2>3, <4>1, <4>2, <4>3, <4>4, <4>5, <4>6 DEF CallerSteps
    <3> QED
      BY <3>0, <3>1, <3>2 DEF DiscardInv
  <2>4. CASE \/ \E s \in Sender : Timeout(s)
             \/ Serve \/ Lose \/ ForeignBegins \/ ForeignPushes \/ UNCHANGED vars
    <3>1. UNCHANGED <<mode, client>>
      BY <2>4 DEF Timeout, Serve, Lose, ForeignBegins, ForeignPushes, vars
    <3> QED
      BY <3>1 DEF client, DiscardInv
  <2> QED
    BY <2>1, <2>2, <2>3, <2>4 DEF Next
<1>3. QED
  BY <1>1, <1>2, TypeInvariant, PTL DEF Spec

\* A request that was sent is the last on the wire.
LEMMA LastSent ==
  ASSUME TypeOK, NEW s, NEW kind, NEW ops, Send(s, kind, ops)
  PROVE  wire'[Len(wire')].kind = kind
<1> DEFINE m == [from |-> s, kind |-> kind, ops |-> ops, live |-> TRUE]
           S == Request \union {m}
<1>1. wire \in Seq(S)
  <2>1. wire \in Seq(Request)
    BY DEF TypeOK
  <2> QED
    BY <2>1, SeqMonotonic
<1>2. /\ Len(Append(wire, m)) = Len(wire) + 1
      /\ Append(wire, m)[Len(wire) + 1] = m
  BY <1>1, AppendProperties
<1> QED
  BY <1>2 DEF Send

\* Once drop() returned, confirmed by KiCad or not, disciplined callers send
\* neither an edit nor a commit (commit.ts:177).
THEOREM NothingSentAfterDiscard == Spec => NothingAfterDiscard
<1> DEFINE Step == mode.disciplined /\ (\E c \in Caller : pc[c] \in {"dropped", "abandoned"})
                     /\ Len(wire') > Len(wire) => wire'[Len(wire')].kind \notin {"ops", "commit"}
<1>1. TypeInv /\ DiscardInv /\ [Next]_vars => [Step]_vars
  <2> SUFFICES ASSUME TypeInv, DiscardInv, Next, mode.disciplined, Len(wire') > Len(wire),
                      NEW c \in Caller, pc[c] \in {"dropped", "abandoned"}
               PROVE  wire'[Len(wire')].kind \notin {"ops", "commit"}
    OBVIOUS
  <2>1. queue = <<>> /\ batch = <<>> /\ ended
    BY DEF DiscardInv, DrainedStates
  <2>2. wire' # wire
    <3>1. Len(wire) \in Nat
      BY LenProperties DEF TypeInv, TypeOK
    <3> QED
      BY <3>1
  <2>3. ASSUME NEW o \in Op, Enqueue(o) PROVE FALSE
    BY <2>2, <2>3 DEF Enqueue
  <2>4. CASE Microtask \/ FlushReply
    BY <2>1, <2>2, <2>4 DEF Microtask, FlushReply, FlushMore, LoopEnds
  <2>5. ASSUME NEW d \in Caller, CallerSteps(d) PROVE wire'[Len(wire')].kind \notin {"ops", "commit"}
    <3>1. \E kind \in {"stack", "undo", "drop"} : Send(d, kind, <<>>)
      BY <2>1, <2>2, <2>5
         DEF CallerSteps, Call, DrainEnds, PushEnds, DropEnds, FailEnds, Answered,
             EndsForGood, DropFails, Proceeds, Silent, Sends
    <3> QED
      BY <3>1, LastSent DEF TypeInv
  <2>6. CASE Serve \/ Lose
    <3>1. wire # <<>> /\ wire' = Tail(wire)
      BY <2>6 DEF Serve, Lose
    <3>2. Len(wire') = Len(wire) - 1 /\ Len(wire) \in Nat
      BY <3>1, HeadTailProperties, LenProperties DEF TypeInv, TypeOK
    <3> QED
      BY <3>2
  <2>7. ASSUME NEW s \in Sender, Timeout(s) PROVE FALSE
    <3>1. Len(wire) \in Nat /\ DOMAIN wire = 1..Len(wire)
      BY LenProperties DEF TypeInv, TypeOK
    <3>2. Len(wire') = Len(wire)
      BY <2>7, <3>1 DEF Timeout
    <3> QED
      BY <3>1, <3>2
  <2>8. CASE ForeignBegins \/ ForeignPushes
    BY <2>2, <2>8 DEF ForeignBegins, ForeignPushes
  <2> QED
    BY <2>3, <2>4, <2>5, <2>6, <2>7, <2>8 DEF Next
<1>2. QED
  BY <1>1, TypeInvariant, DiscardInvariant, PTL DEF Spec, NothingAfterDiscard

-----------------------------------------------------------------------------
(* Requests and the answers awaited for them. *)

\* The request a caller awaits at each of its waits.
KindAt(l) ==
  CASE l = "ending" -> "commit" [] l \in {"dropping", "reverting"} -> "drop"
    [] l = "stack" -> "stack" [] l = "undoing" -> "undo" [] OTHER -> "none"

\* A request somebody still waits for is the one its sender waits for now, and has no answer.
Asked(m) ==
  /\ m.from = Flush <=> m.kind = "ops"
  /\ m.live => /\ reply[m.from] = "none"
               /\ IF m.from = Flush THEN batch # <<>> /\ m.ops = batch ELSE m.kind = KindAt(pc[m.from])
AskInv ==
  /\ \A i \in DOMAIN wire : Asked(wire[i])
  /\ \A i, k \in DOMAIN wire : wire[i].live /\ wire[k].live /\ wire[i].from = wire[k].from => i = k
  /\ \A c \in Caller : reply[c] # "none" => pc[c] \in Waiting
  /\ reply[Flush] # "none" => batch # <<>>

LEMMA WireType ==
  ASSUME TypeOK
  PROVE  /\ DOMAIN wire = 1..Len(wire) /\ Len(wire) \in Nat
         /\ \A i \in DOMAIN wire : wire[i] \in Request
<1>1. wire \in Seq(Request)
  BY DEF TypeOK
<1> QED
  BY <1>1, LenProperties, ElementOfSeq

\* What sending, serving and timing out do to the queue of requests.
LEMMA WireGrows ==
  ASSUME TypeOK, NEW s \in Sender, NEW kind \in Kinds, NEW ops \in Seq(Op), Send(s, kind, ops)
  PROVE  \E n \in Nat : /\ DOMAIN wire = 1..n /\ DOMAIN wire' = 1..(n + 1)
                        /\ \A i \in 1..n : wire'[i] = wire[i]
                        /\ wire'[n + 1] = [from |-> s, kind |-> kind, ops |-> ops, live |-> TRUE]
<1>1. PICK m \in Request : m = [from |-> s, kind |-> kind, ops |-> ops, live |-> TRUE]
  BY DEF Request
<1>2. wire \in Seq(Request) /\ wire' = Append(wire, m)
  BY <1>1 DEF TypeOK, Send
<1>3. PICK n \in Nat : n = Len(wire)
  BY <1>2, LenProperties
<1>4. Append(wire, m) \in Seq(Request) /\ Len(Append(wire, m)) = n + 1
      /\ (\A i \in 1..n : Append(wire, m)[i] = wire[i]) /\ Append(wire, m)[n + 1] = m
  BY <1>1, <1>2, <1>3, AppendProperties
<1>5. DOMAIN wire = 1..n /\ DOMAIN Append(wire, m) = 1..(n + 1)
  BY <1>2, <1>3, <1>4, LenProperties
<1> QED
  BY <1>1, <1>2, <1>4, <1>5

LEMMA WireShrinks ==
  ASSUME TypeOK, wire # <<>>, wire' = Tail(wire)
  PROVE  \E n \in Nat : /\ DOMAIN wire = 1..(n + 1) /\ DOMAIN wire' = 1..n
                        /\ \A i \in 1..n : wire'[i] = wire[i + 1]
                        /\ Head(wire) = wire[1] /\ wire[1] \in Request
<1>1. wire \in Seq(Request)
  BY DEF TypeOK
<1>2. /\ Head(wire) = wire[1] /\ Head(wire) \in Request
      /\ Tail(wire) \in Seq(Request) /\ Len(Tail(wire)) = Len(wire) - 1
      /\ \A i \in 1..Len(Tail(wire)) : Tail(wire)[i] = wire[i + 1]
  BY <1>1, HeadTailProperties
<1>3. Len(wire) \in Nat /\ DOMAIN wire = 1..Len(wire) /\ Len(Tail(wire)) \in Nat
      /\ DOMAIN Tail(wire) = 1..Len(Tail(wire))
  BY <1>1, <1>2, LenProperties
<1>4. Len(wire) = Len(Tail(wire)) + 1
  BY <1>2, <1>3
<1> QED
  BY <1>2, <1>3, <1>4

LEMMA WireFades ==
  ASSUME TypeOK, NEW s \in Sender, Timeout(s)
  PROVE  /\ DOMAIN wire' = DOMAIN wire
         /\ \A i \in DOMAIN wire :
              /\ wire'[i].from = wire[i].from /\ wire'[i].kind = wire[i].kind /\ wire'[i].ops = wire[i].ops
              /\ wire'[i].live <=> wire[i].live /\ wire[i].from # s
<1>1. wire' = [i \in DOMAIN wire |->
                 IF wire[i].from = s THEN [wire[i] EXCEPT !.live = FALSE] ELSE wire[i]]
  BY DEF Timeout
<1>2. \A i \in DOMAIN wire : wire[i] \in Request
  BY WireType
<1> QED
  BY <1>1, <1>2 DEF Request

\* A step of a caller moves that caller only, after its answer came if it awaited one,
\* and sends what it waits for then.
LEMMA CallerMoves ==
  ASSUME TypeInv, AskInv, NEW c \in Caller, CallerSteps(c)
  PROVE  /\ UNCHANGED <<mode, editing, timeouts, kicad>>
         /\ pc' = [pc EXCEPT ![c] = pc'[c]]
         /\ reply' = [reply EXCEPT ![c] = "none"]
         /\ pc[c] \in Waiting => reply[c] # "none"
         /\ \/ wire' = wire /\ pc'[c] \notin Waiting
            \/ pc'[c] \in Waiting /\ KindAt(pc'[c]) \in Kinds \ {"ops"} /\ Send(c, KindAt(pc'[c]), <<>>)
<1>0. /\ pc \in [Caller -> {"idle", "drain", "drained"} \union Waiting \union Over]
      /\ reply \in [Sender -> {"none", "ok", "error", "me", "other", "empty"}]
      /\ c \in Sender
      /\ reply[c] # "none" => pc[c] \in Waiting
      /\ pc[c] \in NeedsId => mode.hasId
  BY DEF TypeInv, TypeOK, AskInv, IdInv, Sender
<1>1. CASE Call(c)
  <2>1. pc[c] = "idle"
    BY <1>1 DEF Call
  <2> QED
    BY <1>0, <1>1, <2>1 DEF Call, Silent, Sends, To, KindAt, Kinds, Waiting
<1>2. CASE DrainEnds(c)
  <2>1. pc[c] = "drain"
    BY <1>2 DEF DrainEnds
  <2> QED
    BY <1>0, <1>2, <2>1 DEF DrainEnds, Silent, To, KindAt, Kinds, Waiting
<1>3. CASE PushEnds(c)
  BY <1>0, <1>3 DEF PushEnds, Silent, Sends, To, KindAt, Kinds, Waiting
<1>4. CASE DropEnds(c)
  BY <1>0, <1>4 DEF DropEnds, Silent, Sends, To, KindAt, Kinds, Waiting
<1>5. CASE FailEnds(c)
  BY <1>0, <1>5 DEF FailEnds, Silent, Sends, To, KindAt, Kinds, Waiting
<1>6. CASE Answered(c)
  <2>1. UNCHANGED <<mode, editing, timeouts, kicad>> /\ reply' = [reply EXCEPT ![c] = "none"] /\ reply[c] # "none"
    BY <1>6 DEF Answered
  <2>2. /\ pc' = [pc EXCEPT ![c] = pc'[c]]
        /\ \/ wire' = wire /\ pc'[c] \notin Waiting
           \/ pc'[c] \in Waiting /\ KindAt(pc'[c]) \in Kinds \ {"ops"} /\ Send(c, KindAt(pc'[c]), <<>>)
    BY <1>0, <1>6 DEF Answered, EndsForGood, DropFails, Proceeds, Silent, Sends, To, KindAt, Kinds, NeedsId, Waiting
  <2> QED
    BY <2>1, <2>2
<1> QED
  BY <1>1, <1>2, <1>3, <1>4, <1>5, <1>6 DEF CallerSteps

\* One turn of the flush loop ends it or sends the edits it awaits from then on.
LEMMA FlushMoves ==
  ASSUME TypeOK, mode' = mode, FlushMore
  PROVE  \/ queue = <<>> /\ queue' = <<>> /\ batch' = <<>> /\ wire' = wire
         \/ queue # <<>> /\ batch' \in Seq(Op) /\ batch' # <<>> /\ Send(Flush, "ops", batch')
<1>1. CASE queue = <<>>
  BY <1>1 DEF FlushMore, LoopEnds
<1>2. CASE queue # <<>>
  <2>1. PICK n \in BatchLengths(queue) :
          /\ batch' = Split(queue, n)[1]
          /\ Send(Flush, "ops", Split(queue, n)[1])
    BY <1>2 DEF FlushMore, TakeBatch
  <2>2. n \in 1..Len(queue) /\ queue \in Seq(Op) /\ Len(queue) \in Nat
    BY LenProperties DEF BatchLengths, TypeOK
  <2>3. batch' = SubSeq(queue, 1, n) /\ batch' \in Seq(Op)
    BY <2>1, <2>2, BatchIsPrefix DEF Split
  <2>4. \A i \in 1..n : queue[i] \in Op
    BY <2>2, ElementOfSeq
  <2>5. Len(SubSeq(queue, 1, n)) = n
    BY <2>2, <2>4, SubSeqProperties
  <2> QED
    BY <1>2, <2>1, <2>2, <2>3, <2>5, EmptySeq
<1> QED
  BY <1>1, <1>2

LEMMA AskFlush ==
  ASSUME TypeInv, AskInv, mode' = mode, pc' = pc, FlushMore,
         \/ batch = <<>> /\ reply' = reply
         \/ reply[Flush] # "none" /\ reply' = [reply EXCEPT ![Flush] = "none"]
  PROVE  AskInv'
<1>0. /\ reply \in [Sender -> {"none", "ok", "error", "me", "other", "empty"}]
      /\ Flush \in Sender /\ Caller \subseteq Sender /\ Flush \notin Caller
      /\ reply[Flush] # "none" => batch # <<>>
  BY CommitAssumption DEF TypeInv, TypeOK, AskInv, Sender
<1>1. reply'[Flush] = "none" /\ \A c \in Caller : reply'[c] = reply[c]
  BY <1>0
<1>2. \A i \in DOMAIN wire : wire[i] \in Request
  BY WireType DEF TypeInv
<1>3. \A i \in DOMAIN wire : ~(wire[i].live /\ wire[i].from = Flush)
  BY <1>0 DEF AskInv, Asked
<1>4. \A c \in Caller : reply'[c] # "none" => pc'[c] \in Waiting
  BY <1>1 DEF AskInv
<1>5. ASSUME NEW i \in DOMAIN wire
      PROVE  /\ wire[i].from = Flush <=> wire[i].kind = "ops"
             /\ wire[i].live => /\ wire[i].from # Flush /\ reply'[wire[i].from] = "none"
                                /\ wire[i].kind = KindAt(pc'[wire[i].from])
  <2>1. Asked(wire[i]) /\ wire[i].from \in Sender
    BY <1>2, <1>5 DEF AskInv, Request
  <2> QED
    BY <1>0, <1>1, <1>3, <2>1 DEF Asked, Sender
<1>6. CASE batch' = <<>> /\ wire' = wire
  <2>1. \A i \in DOMAIN wire' : Asked(wire[i])'
    BY <1>5, <1>6 DEF Asked
  <2> QED
    BY <1>1, <1>4, <1>6, <2>1 DEF AskInv
<1>7. CASE batch' \in Seq(Op) /\ batch' # <<>> /\ Send(Flush, "ops", batch')
  <2>1. PICK n \in Nat :
          /\ DOMAIN wire = 1..n /\ DOMAIN wire' = 1..(n + 1)
          /\ \A i \in 1..n : wire'[i] = wire[i]
          /\ wire'[n + 1] = [from |-> Flush, kind |-> "ops", ops |-> batch', live |-> TRUE]
    BY <1>0, <1>7, WireGrows DEF TypeInv, Kinds
  <2>2. \A i \in 1..n : Asked(wire[i])'
    BY <1>5, <2>1 DEF Asked
  <2>3. Asked(wire[n + 1])'
    BY <1>1, <1>7, <2>1 DEF Asked
  <2>4. \A i \in 1..(n + 1) : i \in 1..n \/ i = n + 1
    OBVIOUS
  <2>5. \A i \in DOMAIN wire' : Asked(wire[i])'
    BY <2>1, <2>2, <2>3, <2>4
  <2>6. \A i, k \in DOMAIN wire' :
          wire'[i].live /\ wire'[k].live /\ wire'[i].from = wire'[k].from => i = k
    BY <1>3, <2>1, <2>4 DEF AskInv
  <2> QED
    BY <1>1, <1>4, <2>5, <2>6 DEF AskInv
<1> QED
  BY <1>6, <1>7, FlushMoves DEF TypeInv

LEMMA AskCaller ==
  ASSUME TypeInv, AskInv, NEW c \in Caller, CallerSteps(c)
  PROVE  AskInv'
<1>0. /\ pc \in [Caller -> {"idle", "drain", "drained"} \union Waiting \union Over]
      /\ reply \in [Sender -> {"none", "ok", "error", "me", "other", "empty"}]
      /\ c \in Sender /\ Caller \subseteq Sender /\ Flush \notin Caller /\ c # Flush
  BY CommitAssumption DEF TypeInv, TypeOK, Sender
<1>1. /\ mode' = mode /\ batch' = batch
      /\ pc' = [pc EXCEPT ![c] = pc'[c]]
      /\ reply' = [reply EXCEPT ![c] = "none"]
      /\ pc[c] \in Waiting => reply[c] # "none"
      /\ \/ wire' = wire /\ pc'[c] \notin Waiting
         \/ pc'[c] \in Waiting /\ KindAt(pc'[c]) \in Kinds \ {"ops"} /\ Send(c, KindAt(pc'[c]), <<>>)
  BY CallerMoves DEF editing
<1>2. \A i \in DOMAIN wire : wire[i] \in Request
  BY WireType DEF TypeInv
<1>3. ASSUME NEW i \in DOMAIN wire PROVE ~(wire[i].live /\ wire[i].from = c)
  <2> SUFFICES ASSUME wire[i].live, wire[i].from = c PROVE FALSE
    OBVIOUS
  <2>1. wire[i].kind = KindAt(pc[c]) /\ reply[c] = "none"
    BY <1>0 DEF AskInv, Asked
  <2>2. wire[i].kind # "none"
    BY <1>2 DEF Request, Kinds
  <2>3. pc[c] \in Waiting
    BY <2>1, <2>2 DEF KindAt, Waiting
  <2> QED
    BY <1>1, <2>1, <2>3
<1>4. ASSUME NEW i \in DOMAIN wire PROVE (Asked(wire[i]) /\ Asked(wire[i])') \/ wire' # wire
  <2>1. wire[i].from \in Sender /\ Asked(wire[i])
    BY <1>2 DEF AskInv, Request
  <2>2. wire[i].live => wire[i].from # c
    BY <1>3
  <2> QED
    BY <1>0, <1>1, <2>1, <2>2 DEF Asked, Sender
<1>5. /\ \A d \in Caller : reply'[d] # "none" => pc'[d] \in Waiting
      /\ reply'[Flush] # "none" => batch' # <<>>
  <2>1. \A d \in Caller : d = c \/ (reply'[d] = reply[d] /\ pc'[d] = pc[d])
    BY <1>0, <1>1
  <2>2. reply'[c] = "none" /\ reply'[Flush] = reply[Flush]
    BY <1>0, <1>1 DEF Sender
  <2> QED
    BY <1>1, <2>1, <2>2 DEF AskInv
<1>6. CASE wire' = wire
  BY <1>4, <1>5, <1>6 DEF AskInv
<1>7. CASE pc'[c] \in Waiting /\ KindAt(pc'[c]) \in Kinds \ {"ops"} /\ Send(c, KindAt(pc'[c]), <<>>)
  <2>1. PICK n \in Nat :
          /\ DOMAIN wire = 1..n /\ DOMAIN wire' = 1..(n + 1)
          /\ \A i \in 1..n : wire'[i] = wire[i]
          /\ wire'[n + 1] = [from |-> c, kind |-> KindAt(pc'[c]), ops |-> <<>>, live |-> TRUE]
    <3>1. <<>> \in Seq(Op) /\ KindAt(pc'[c]) \in Kinds
      BY <1>7, EmptySeq
    <3> QED
      BY <1>0, <1>7, <3>1, WireGrows DEF TypeInv
  <2>2. ASSUME NEW i \in 1..n PROVE Asked(wire[i])'
    <3>1. wire[i].from \in Sender /\ Asked(wire[i]) /\ wire'[i] = wire[i]
      BY <1>2, <2>1 DEF AskInv, Request
    <3>2. wire[i].live => wire[i].from # c
      BY <1>3, <2>1
    <3> QED
      BY <1>0, <1>1, <3>1, <3>2 DEF Asked, Sender
  <2>3. Asked(wire[n + 1])'
    BY <1>0, <1>1, <1>7, <2>1 DEF Asked
  <2>4. \A i \in 1..(n + 1) : i \in 1..n \/ i = n + 1
    OBVIOUS
  <2>5. \A i \in DOMAIN wire' : Asked(wire[i])'
    BY <2>1, <2>2, <2>3, <2>4
  <2>6. \A i, k \in DOMAIN wire' :
          wire'[i].live /\ wire'[k].live /\ wire'[i].from = wire'[k].from => i = k
    BY <1>3, <2>1, <2>4 DEF AskInv
  <2> QED
    BY <1>5, <2>5, <2>6 DEF AskInv
<1> QED
  BY <1>1, <1>6, <1>7

LEMMA AskTimeout ==
  ASSUME TypeInv, AskInv, NEW s \in Sender, Timeout(s)
  PROVE  AskInv'
<1>1. /\ DOMAIN wire' = DOMAIN wire
      /\ \A i \in DOMAIN wire :
           /\ wire'[i].from = wire[i].from /\ wire'[i].kind = wire[i].kind /\ wire'[i].ops = wire[i].ops
           /\ wire'[i].live <=> wire[i].live /\ wire[i].from # s
  BY WireFades DEF TypeInv
<1>2. /\ reply \in [Sender -> {"none", "ok", "error", "me", "other", "empty"}]
      /\ reply' = [reply EXCEPT ![s] = "error"] /\ batch' = batch /\ pc' = pc
      /\ IF s = Flush THEN batch # <<>> ELSE pc[s] \in Waiting
      /\ Flush \in Sender /\ Caller \subseteq Sender /\ Flush \notin Caller
  BY CommitAssumption DEF Timeout, client, TypeInv, TypeOK, Sender
<1>3. \A i \in DOMAIN wire : wire[i].from \in Sender
  BY WireType DEF TypeInv, Request
<1>4. ASSUME NEW i \in DOMAIN wire PROVE Asked(wire[i])'
  <2>1. Asked(wire[i])
    BY DEF AskInv
  <2>2. wire'[i].live => wire[i].live /\ reply'[wire[i].from] = reply[wire[i].from]
    BY <1>1, <1>2, <1>3
  <2> QED
    BY <1>1, <1>2, <2>1, <2>2 DEF Asked
<1>5. \A i, k \in DOMAIN wire : wire'[i].live /\ wire'[k].live /\ wire'[i].from = wire'[k].from => i = k
  BY <1>1 DEF AskInv
<1>6. /\ \A c \in Caller : reply'[c] # "none" => pc'[c] \in Waiting
      /\ reply'[Flush] # "none" => batch' # <<>>
  BY <1>2 DEF AskInv
<1> QED
  BY <1>1, <1>4, <1>5, <1>6 DEF AskInv

LEMMA AskTaken ==
  ASSUME TypeInv, AskInv, wire # <<>>, wire' = Tail(wire), UNCHANGED client,
         \/ reply' = reply
         \/ Head(wire).live /\ \E a : reply' = [reply EXCEPT ![Head(wire).from] = a]
  PROVE  AskInv'
<1>1. PICK n \in Nat : /\ DOMAIN wire = 1..(n + 1) /\ DOMAIN wire' = 1..n
                       /\ \A i \in 1..n : wire'[i] = wire[i + 1]
                       /\ Head(wire) = wire[1] /\ wire[1] \in Request
  BY WireShrinks DEF TypeInv
<1>2. /\ reply \in [Sender -> {"none", "ok", "error", "me", "other", "empty"}]
      /\ batch' = batch /\ pc' = pc /\ pc \in [Caller -> {"idle", "drain", "drained"} \union Waiting \union Over]
      /\ Flush \in Sender /\ Caller \subseteq Sender /\ Flush \notin Caller
  BY CommitAssumption DEF client, TypeInv, TypeOK, Sender
<1>3. \A i \in DOMAIN wire : wire[i].from \in Sender /\ wire[i].kind \in Kinds
  BY WireType DEF TypeInv, Request
<1>4. PICK f \in Sender : f = Head(wire).from
  BY <1>1, <1>3
<1>5. \/ reply' = reply
      \/ wire[1].live /\ \A s \in Sender \ {f} : reply'[s] = reply[s]
  BY <1>1, <1>2, <1>4
<1>6. ASSUME NEW i \in 1..n PROVE Asked(wire[i])'
  <2>1. i + 1 \in DOMAIN wire /\ 1 \in DOMAIN wire /\ i + 1 # 1 /\ wire'[i] = wire[i + 1]
    BY <1>1
  <2>2. Asked(wire[i + 1])
    BY <2>1 DEF AskInv
  <2>3. wire[i + 1].live => reply'[wire[i + 1].from] = reply[wire[i + 1].from]
    <3>1. wire[1].live /\ wire[i + 1].live => wire[i + 1].from # f
      BY <1>1, <1>4, <2>1 DEF AskInv
    <3>2. wire[i + 1].from \in Sender
      BY <1>3, <2>1
    <3> QED
      BY <1>5, <3>1, <3>2
  <2> QED
    BY <1>2, <2>1, <2>2, <2>3 DEF Asked
<1>7. ASSUME NEW i \in 1..n, NEW k \in 1..n, wire'[i].live, wire'[k].live, wire'[i].from = wire'[k].from
      PROVE  i = k
  <2>1. i + 1 \in DOMAIN wire /\ k + 1 \in DOMAIN wire
    BY <1>1
  <2>2. i + 1 = k + 1
    BY <1>1, <1>7, <2>1 DEF AskInv
  <2> QED
    BY <2>2
<1>8. Asked(wire[1]) /\ 1 \in DOMAIN wire
  BY <1>1 DEF AskInv
<1>9. \A c \in Caller : reply'[c] # "none" => pc'[c] \in Waiting
  <2> SUFFICES ASSUME NEW c \in Caller, reply'[c] # "none", reply'[c] # reply[c] PROVE pc[c] \in Waiting
    BY <1>2 DEF AskInv
  <2>1. wire[1].live /\ f = c
    BY <1>2, <1>5
  <2>2. wire[1].kind = KindAt(pc[c]) /\ wire[1].kind # "none"
    BY <1>1, <1>2, <1>3, <1>4, <1>8, <2>1 DEF Asked, Kinds
  <2> QED
    BY <2>2 DEF KindAt, Waiting
<1>10. reply'[Flush] # "none" => batch' # <<>>
  <2> SUFFICES ASSUME reply'[Flush] # reply[Flush] PROVE batch # <<>>
    BY <1>2 DEF AskInv
  <2>1. wire[1].live /\ wire[1].from = Flush
    BY <1>1, <1>2, <1>4, <1>5
  <2> QED
    BY <1>8, <2>1 DEF Asked
<1> QED
  BY <1>1, <1>6, <1>7, <1>9, <1>10 DEF AskInv

\* No sender has two requests pending, and no answer meets a sender that waits for
\* another one (Commit's awaits, one at a time).
LEMMA AskInvariant == Spec => [](TypeInv /\ AskInv)
<1>1. Init => AskInv
  BY DEF Init, AskInv, Sender
<1>2. TypeInv /\ AskInv /\ [Next]_vars => AskInv'
  <2> SUFFICES ASSUME TypeInv, AskInv, [Next]_vars PROVE AskInv'
    OBVIOUS
  <2>1. ASSUME NEW o \in Op, Enqueue(o) PROVE AskInv'
    BY <2>1 DEF Enqueue, AskInv, Asked
  <2>2. CASE Microtask
    <3>1. CASE batch # <<>>
      BY <2>2, <3>1 DEF Microtask, AskInv, Asked
    <3>2. CASE batch = <<>>
      BY <2>2, <3>2, AskFlush DEF Microtask
    <3> QED
      BY <3>1, <3>2
  <2>3. CASE FlushReply
    BY <2>3, AskFlush DEF FlushReply
  <2>4. ASSUME NEW c \in Caller, CallerSteps(c) PROVE AskInv'
    BY <2>4, AskCaller
  <2>5. ASSUME NEW s \in Sender, Timeout(s) PROVE AskInv'
    BY <2>5, AskTimeout
  <2>6. CASE Serve
    BY <2>6, AskTaken DEF Serve
  <2>7. CASE Lose
    BY <2>7, AskTaken DEF Lose
  <2>8. CASE ForeignBegins \/ ForeignPushes \/ UNCHANGED vars
    <3>1. UNCHANGED <<client, wire, reply>>
      BY <2>8 DEF ForeignBegins, ForeignPushes, vars
    <3> QED
      BY <3>1 DEF client, AskInv, Asked
  <2> QED
    BY <2>1, <2>2, <2>3, <2>4, <2>5, <2>6, <2>7, <2>8 DEF Next
<1> QED
  BY <1>1, <1>2, TypeInvariant, PTL DEF Spec

-----------------------------------------------------------------------------
(* The order of a disciplined commit: first the edits, then what ends it. *)

\* The commit is being ended: a caller has drained the queue.
Begun == ended \/ finalizing \/ \E c \in Caller : pc[c] \notin {"idle", "drain", "refused"}
OrderInv ==
  Disciplined =>
    /\ Begun => queue = <<>> /\ batch = <<>>
    /\ ~Begun => open /\ \A i \in DOMAIN wire : wire[i].kind = "ops"
    /\ \A i \in DOMAIN wire : wire[i].kind = "ops" => open /\ \A k \in DOMAIN wire : k < i => wire[k].kind = "ops"
    /\ \A c \in Caller : pc[c] = "ending" => finalizing \/ ended

LEMMA OrderFlush ==
  ASSUME TypeInv, OrderInv, mode' = mode, pc' = pc, open' = open, ended' = ended, finalizing' = finalizing, FlushMore
  PROVE  OrderInv'
<1> SUFFICES ASSUME Disciplined PROVE OrderInv'
  BY DEF OrderInv, Disciplined
<1>1. CASE queue = <<>> /\ queue' = <<>> /\ batch' = <<>> /\ wire' = wire
  BY <1>1 DEF OrderInv, Begun, Disciplined
<1>2. CASE queue # <<>> /\ batch' \in Seq(Op) /\ Send(Flush, "ops", batch')
  <2>1. PICK n \in Nat :
          /\ DOMAIN wire = 1..n /\ DOMAIN wire' = 1..(n + 1)
          /\ \A i \in 1..n : wire'[i] = wire[i]
          /\ wire'[n + 1] = [from |-> Flush, kind |-> "ops", ops |-> batch', live |-> TRUE]
    BY <1>2, WireGrows DEF TypeInv, Kinds, Sender
  <2>2. ~Begun /\ open /\ \A i \in DOMAIN wire : wire[i].kind = "ops"
    BY <1>2 DEF OrderInv
  <2>3. \A i \in DOMAIN wire' : wire'[i].kind = "ops"
    <3>1. \A i \in 1..(n + 1) : i \in 1..n \/ i = n + 1
      OBVIOUS
    <3> QED
      BY <2>1, <2>2, <3>1
  <2>4. ~Begun' /\ open' /\ \A c \in Caller : pc'[c] = "ending" => finalizing' \/ ended'
    BY <2>2 DEF Begun, OrderInv
  <2> QED
    BY <2>3, <2>4 DEF OrderInv
<1> QED
  BY <1>1, <1>2, FlushMoves DEF TypeInv

\* What a caller's step does to the ending of the commit.
LEMMA CallerEnds ==
  ASSUME TypeInv, AskInv, OrderInv, Disciplined, NEW c \in Caller, CallerSteps(c)
  PROVE  /\ Begun => Begun'
         /\ Begun' => queue = <<>> /\ batch = <<>>
         /\ wire' # wire => Begun'
         /\ \A d \in Caller : pc'[d] = "ending" => finalizing' \/ ended'
<1>0. /\ pc \in [Caller -> {"idle", "drain", "drained"} \union Waiting \union Over]
      /\ pc' = [pc EXCEPT ![c] = pc'[c]]
      /\ mode.hasId
  BY CallerMoves DEF TypeInv, TypeOK, Disciplined
<1>1. \A d \in Caller : d # c => pc'[d] = pc[d]
  BY <1>0
<1>2. pc[c] = "ending" => finalizing \/ ended
  BY DEF OrderInv
<1>3. /\ pc[c] \in {"idle", "drain", "refused"} \/ pc'[c] \notin {"idle", "drain", "refused"} \/ ended' \/ finalizing'
      /\ ended => ended'
      /\ finalizing => finalizing' \/ ended'
      /\ pc[c] \in {"idle", "drain"} => /\ ended' = ended /\ finalizing' = finalizing
                                        /\ pc'[c] \in {"idle", "drain", "refused"} \/ ended \/ (queue = <<>> /\ batch = <<>>)
      /\ wire' # wire => pc'[c] \in Waiting
      /\ pc'[c] = "ending" => finalizing'
      /\ pc[c] # "refused"
  <2>1. CASE Call(c)
    BY <1>0, <2>1 DEF Call, Silent, Sends, To, Waiting
  <2>2. CASE DrainEnds(c)
    BY <1>0, <2>2 DEF DrainEnds, Drained, Silent, To, Waiting
  <2>3. CASE PushEnds(c)
    BY <1>0, <2>3 DEF PushEnds, Silent, Sends, To, Waiting
  <2>4. CASE DropEnds(c)
    BY <1>0, <2>4 DEF DropEnds, Silent, Sends, To, Waiting
  <2>5. CASE FailEnds(c)
    BY <1>0, <2>5 DEF FailEnds, Silent, Sends, To, Waiting
  <2>6. CASE Answered(c)
    <3>1. pc[c] \in Waiting
      BY <2>6 DEF Answered, Waiting
    <3> QED
      BY <1>0, <1>2, <2>6, <3>1 DEF Answered, EndsForGood, DropFails, Proceeds, Silent, Sends, To, Waiting
  <2> QED
    BY <2>1, <2>2, <2>3, <2>4, <2>5, <2>6 DEF CallerSteps
<1>4. Begun => Begun'
  BY <1>1, <1>3 DEF Begun
<1>5. Begun' => Begun \/ (queue = <<>> /\ batch = <<>>)
  BY <1>1, <1>3 DEF Begun
<1>6. wire' # wire => Begun'
  BY <1>3 DEF Begun, Waiting
<1>7. \A d \in Caller : pc'[d] = "ending" => finalizing' \/ ended'
  BY <1>1, <1>3 DEF OrderInv
<1> QED
  BY <1>4, <1>5, <1>6, <1>7 DEF OrderInv

LEMMA OrderCaller ==
  ASSUME TypeInv, AskInv, OrderInv, NEW c \in Caller, CallerSteps(c)
  PROVE  OrderInv'
<1>0. /\ mode' = mode /\ queue' = queue /\ batch' = batch /\ open' = open
      /\ \/ wire' = wire
         \/ KindAt(pc'[c]) \in Kinds \ {"ops"} /\ Send(c, KindAt(pc'[c]), <<>>)
  BY CallerMoves DEF editing, kicad
<1> SUFFICES ASSUME Disciplined PROVE OrderInv'
  BY <1>0 DEF OrderInv, Disciplined
<1>1. /\ Begun => Begun'
      /\ Begun' => queue = <<>> /\ batch = <<>>
      /\ wire' # wire => Begun'
      /\ \A d \in Caller : pc'[d] = "ending" => finalizing' \/ ended'
  BY CallerEnds
<1>2. CASE wire' = wire
  <2>1. ~Begun' => open' /\ \A i \in DOMAIN wire' : wire'[i].kind = "ops"
    BY <1>0, <1>1, <1>2 DEF OrderInv
  <2>2. \A i \in DOMAIN wire' : wire'[i].kind = "ops" =>
          open' /\ \A k \in DOMAIN wire' : k < i => wire'[k].kind = "ops"
    BY <1>0, <1>2 DEF OrderInv
  <2> QED
    BY <1>0, <1>1, <2>1, <2>2 DEF OrderInv
<1>3. CASE wire' # wire /\ KindAt(pc'[c]) \in Kinds \ {"ops"} /\ Send(c, KindAt(pc'[c]), <<>>)
  <2>1. PICK n \in Nat :
          /\ DOMAIN wire = 1..n /\ DOMAIN wire' = 1..(n + 1)
          /\ \A i \in 1..n : wire'[i] = wire[i]
          /\ wire'[n + 1] = [from |-> c, kind |-> KindAt(pc'[c]), ops |-> <<>>, live |-> TRUE]
    <3>1. <<>> \in Seq(Op) /\ KindAt(pc'[c]) \in Kinds /\ c \in Sender
      BY <1>3, EmptySeq DEF Sender
    <3> QED
      BY <1>3, <3>1, WireGrows DEF TypeInv
  <2>2. \A i \in 1..(n + 1) : i \in 1..n \/ i = n + 1
    OBVIOUS
  <2>3. ASSUME NEW i \in DOMAIN wire', wire'[i].kind = "ops"
        PROVE  open' /\ \A k \in DOMAIN wire' : k < i => wire'[k].kind = "ops"
    <3>1. i \in 1..n
      BY <1>3, <2>1, <2>2, <2>3
    <3>2. wire[i].kind = "ops" /\ i \in DOMAIN wire
      BY <2>1, <2>3, <3>1
    <3>3. open /\ \A k \in DOMAIN wire : k < i => wire[k].kind = "ops"
      BY <3>2 DEF OrderInv
    <3>4. \A k \in 1..(n + 1) : k < i => k \in 1..n
      BY <3>1
    <3> QED
      BY <1>0, <2>1, <3>3, <3>4
  <2> QED
    BY <1>0, <1>1, <1>3, <2>3 DEF OrderInv
<1> QED
  BY <1>0, <1>2, <1>3

\* KiCad executes the oldest request.
Executes(m, a) ==
  \/ m.kind = "ops" /\ ServeOps(m, a)
  \/ m.kind = "commit" /\ ServeCommit(m, a)
  \/ m.kind = "drop" /\ ServeDrop(m, a)
  \/ m.kind = "stack" /\ ServeStack(m, a)
  \/ m.kind = "undo" /\ ServeUndo(m, a)

LEMMA Served ==
  ASSUME TypeInv, Serve
  PROVE  \E m \in Request, a \in {"ok", "error", "me", "other", "empty"} :
           /\ m = Head(wire) /\ m = wire[1] /\ 1 \in DOMAIN wire
           /\ Executes(m, a)
           /\ reply' = IF m.live THEN [reply EXCEPT ![m.from] = a] ELSE reply
<1>1. wire # <<>> /\ wire' = Tail(wire)
  BY DEF Serve
<1>2. Head(wire) \in Request /\ Head(wire) = wire[1] /\ 1 \in DOMAIN wire
  BY <1>1, WireShrinks DEF TypeInv
<1>3. PICK m \in Request : m = Head(wire)
  BY <1>2
<1>4. PICK a \in {"ok", "error", "me", "other", "empty"} :
        /\ CASE m.kind = "ops" -> ServeOps(m, a)
             [] m.kind = "commit" -> ServeCommit(m, a)
             [] m.kind = "drop" -> ServeDrop(m, a)
             [] m.kind = "stack" -> ServeStack(m, a)
             [] m.kind = "undo" -> ServeUndo(m, a)
        /\ reply' = IF m.live THEN [reply EXCEPT ![m.from] = a] ELSE reply
  BY <1>3 DEF Serve
<1>5. m.kind \in {"ops", "commit", "drop", "stack", "undo"}
  BY DEF Request, Kinds
<1>6. Executes(m, a)
  BY <1>4, <1>5 DEF Executes
<1> QED
  BY <1>2, <1>3, <1>4, <1>6

LEMMA OrderTaken ==
  ASSUME TypeInv, OrderInv, wire # <<>>, wire' = Tail(wire), UNCHANGED <<mode, client>>,
         open' = open \/ Head(wire).kind \in {"commit", "drop"}
  PROVE  OrderInv'
<1> SUFFICES ASSUME Disciplined PROVE OrderInv'
  BY DEF OrderInv, Disciplined
<1>1. PICK n \in Nat : /\ DOMAIN wire = 1..(n + 1) /\ DOMAIN wire' = 1..n
                       /\ \A i \in 1..n : wire'[i] = wire[i + 1]
                       /\ Head(wire) = wire[1] /\ wire[1] \in Request
  BY WireShrinks DEF TypeInv
<1>2. Begun' = Begun /\ queue' = queue /\ batch' = batch /\ pc' = pc /\ finalizing' = finalizing /\ ended' = ended
  BY DEF client, Begun
<1>3. \A i \in 1..n : i + 1 \in DOMAIN wire /\ 1 < i + 1
  BY <1>1
<1>4. 1 \in DOMAIN wire
  BY <1>1
<1>5. ~Begun => open' = open
  BY <1>1, <1>4 DEF OrderInv
<1>6. ASSUME NEW i \in 1..n, wire'[i].kind = "ops" PROVE open' /\ \A k \in 1..n : k < i => wire'[k].kind = "ops"
  <2>1. wire[i + 1].kind = "ops" /\ i + 1 \in DOMAIN wire /\ 1 < i + 1
    BY <1>1, <1>3, <1>6
  <2>2. open /\ \A k \in DOMAIN wire : k < i + 1 => wire[k].kind = "ops"
    BY <2>1 DEF OrderInv
  <2>3. wire[1].kind = "ops"
    BY <1>4, <2>1, <2>2
  <2>4. \A k \in 1..n : k < i => k + 1 \in DOMAIN wire /\ k + 1 < i + 1
    BY <1>1
  <2> QED
    BY <1>1, <2>2, <2>3, <2>4
<1>7. ~Begun => \A i \in 1..n : wire'[i].kind = "ops"
  BY <1>1, <1>3 DEF OrderInv
<1> QED
  BY <1>1, <1>2, <1>5, <1>6, <1>7 DEF OrderInv

LEMMA OrderInvariant == Spec => [](TypeInv /\ AskInv /\ OrderInv)
<1>1. Init => OrderInv
  BY DEF Init, OrderInv, Begun, Disciplined
<1>2. TypeInv /\ AskInv /\ OrderInv /\ [Next]_vars => OrderInv'
  <2> SUFFICES ASSUME TypeInv, AskInv, OrderInv, [Next]_vars PROVE OrderInv'
    OBVIOUS
  <2>1. ASSUME NEW o \in Op, Enqueue(o) PROVE OrderInv'
    <3>1. CASE ended \/ finalizing
      BY <2>1, <3>1 DEF Enqueue, kicad, OrderInv, Begun, Disciplined
    <3>2. CASE ~(ended \/ finalizing)
      <4>1. mode.disciplined => ~Begun'
        BY <2>1, <3>2 DEF Enqueue, Begun
      <4>2. mode.disciplined => ~Begun
        BY <2>1, <3>2 DEF Enqueue, Begun
      <4> QED
        BY <2>1, <4>1, <4>2 DEF Enqueue, kicad, OrderInv, Disciplined
    <3> QED
      BY <3>1, <3>2
  <2>2. CASE Microtask
    <3>1. CASE batch # <<>>
      BY <2>2, <3>1 DEF Microtask, kicad, OrderInv, Begun, Disciplined
    <3>2. CASE batch = <<>>
      BY <2>2, <3>2, OrderFlush DEF Microtask, kicad
    <3> QED
      BY <3>1, <3>2
  <2>3. CASE FlushReply
    BY <2>3, OrderFlush DEF FlushReply, kicad
  <2>4. ASSUME NEW c \in Caller, CallerSteps(c) PROVE OrderInv'
    BY <2>4, OrderCaller
  <2>5. ASSUME NEW s \in Sender, Timeout(s) PROVE OrderInv'
    <3>1. /\ DOMAIN wire' = DOMAIN wire
          /\ \A i \in DOMAIN wire : wire'[i].kind = wire[i].kind
      BY <2>5, WireFades DEF TypeInv
    <3>2. UNCHANGED <<mode, client, open>>
      BY <2>5 DEF Timeout, kicad
    <3> QED
      BY <3>1, <3>2 DEF client, OrderInv, Begun, Disciplined
  <2>6. CASE Serve
    <3>1. PICK m \in Request, a \in {"ok", "error", "me", "other", "empty"} :
            m = Head(wire) /\ Executes(m, a)
      BY <2>6, Served
    <3>2. open' = open \/ Head(wire).kind \in {"commit", "drop"}
      BY <3>1 DEF Executes, ServeOps, ServeCommit, ServeDrop, ServeStack, ServeUndo
    <3> QED
      BY <2>6, <3>2, OrderTaken DEF Serve
  <2>7. CASE Lose
    BY <2>7, OrderTaken DEF Lose, kicad
  <2>8. CASE ForeignBegins \/ ForeignPushes \/ UNCHANGED vars
    <3>1. UNCHANGED <<mode, client, wire, open>>
      BY <2>8 DEF ForeignBegins, ForeignPushes, vars, kicad
    <3> QED
      BY <3>1 DEF client, OrderInv, Begun, Disciplined
  <2> QED
    BY <2>1, <2>2, <2>3, <2>4, <2>5, <2>6, <2>7, <2>8 DEF Next
<1> QED
  BY <1>1, <1>2, AskInvariant, PTL DEF Spec

-----------------------------------------------------------------------------
(* KiCad's undo stack and what ending the commit leaves of it. *)

\* Nothing of the commit is left: it is closed and only other clients have entries.
Gone == ~open /\ \A i \in DOMAIN undoStack : undoStack[i].by = "other"
StackInv ==
  Disciplined =>
    /\ \A i \in DOMAIN undoStack :
         undoStack[i].by \in {"me", "other"} /\ (undoStack[i].by = "other" => undoStack[i].ops = {})
    /\ \A i, k \in DOMAIN undoStack : undoStack[i].by = "me" /\ undoStack[k].by = "me" => i = k
    /\ open => \A i \in DOMAIN undoStack : undoStack[i].by # "me"
    /\ ~open => applied = {}

LEMMA StackGrows ==
  ASSUME TypeOK, NEW by \in {"me", "other", "none"}, NEW ops \in SUBSET Op, Push(by, ops)
  PROVE  \E n \in Nat : /\ DOMAIN undoStack = 1..n /\ DOMAIN undoStack' = 1..(n + 1)
                        /\ \A i \in 1..n : undoStack'[i] = undoStack[i]
                        /\ undoStack'[n + 1] = [by |-> by, ops |-> ops]
<1>1. PICK e \in Entry : e = [by |-> by, ops |-> ops]
  BY DEF Entry
<1>2. undoStack \in Seq(Entry) /\ undoStack' = Append(undoStack, e)
  BY <1>1 DEF TypeOK, Push
<1>3. PICK n \in Nat : n = Len(undoStack)
  BY <1>2, LenProperties
<1>4. Append(undoStack, e) \in Seq(Entry) /\ Len(Append(undoStack, e)) = n + 1
      /\ (\A i \in 1..n : Append(undoStack, e)[i] = undoStack[i]) /\ Append(undoStack, e)[n + 1] = e
  BY <1>1, <1>2, <1>3, AppendProperties
<1>5. DOMAIN undoStack = 1..n /\ DOMAIN Append(undoStack, e) = 1..(n + 1)
  BY <1>2, <1>3, <1>4, LenProperties
<1> QED
  BY <1>1, <1>2, <1>4, <1>5

LEMMA StackPops ==
  ASSUME TypeOK, undoStack # <<>>, Pop
  PROVE  \E n \in Nat : /\ DOMAIN undoStack = 1..(n + 1) /\ DOMAIN undoStack' = 1..n
                        /\ \A i \in 1..n : undoStack'[i] = undoStack[i]
                        /\ Newest = undoStack[n + 1]
<1>1. undoStack \in Seq(Entry)
  BY DEF TypeOK
<1>2. Len(undoStack) \in Nat /\ Len(undoStack) # 0
  BY <1>1, EmptySeq, LenProperties
<1>3. PICK n \in Nat : Len(undoStack) = n + 1
  <2>1. Len(undoStack) - 1 \in Nat /\ Len(undoStack) = (Len(undoStack) - 1) + 1
    BY <1>2
  <2> QED
    BY <2>1
<1>4. undoStack' = SubSeq(undoStack, 1, n)
  BY <1>3 DEF Pop
<1>5. \A i \in 1..n : undoStack[i] \in Entry
  BY <1>1, <1>3, ElementOfSeq
<1>6. /\ SubSeq(undoStack, 1, n) \in Seq(Entry) /\ Len(SubSeq(undoStack, 1, n)) = n
      /\ \A i \in 1..n : SubSeq(undoStack, 1, n)[i] = undoStack[i]
  <2>1. 1 \in Int /\ n \in Int /\ n - 1 + 1 = n
    OBVIOUS
  <2>2. \A i \in 1..n : 1 + i - 1 = i
    OBVIOUS
  <2> QED
    BY <1>5, <2>1, <2>2, SubSeqProperties
<1>7. DOMAIN undoStack = 1..(n + 1) /\ DOMAIN SubSeq(undoStack, 1, n) = 1..n
  BY <1>1, <1>3, <1>6, LenProperties
<1> QED
  BY <1>3, <1>4, <1>6, <1>7 DEF Newest

\* The requests of a disciplined commit, one by one.
LEMMA KicadServes ==
  ASSUME TypeInv, OrderInv, Disciplined, Serve
  PROVE  \E m \in Request, a \in {"ok", "error", "me", "other", "empty"} :
           /\ m = wire[1] /\ 1 \in DOMAIN wire
           /\ reply' = IF m.live THEN [reply EXCEPT ![m.from] = a] ELSE reply
           /\ \/ /\ m.kind = "ops" /\ open /\ open' /\ UNCHANGED <<undoStack, undidOther>>
                 /\ applied \subseteq applied'
                 /\ a = "ok" /\ mode.strict => Elems(m.ops) \subseteq applied'
              \/ /\ m.kind = "commit" /\ open /\ ~open' /\ applied' = {}
                 /\ Push("me", applied) /\ UNCHANGED undidOther
              \/ /\ m.kind = "drop" /\ open /\ ~open' /\ applied' = {}
                 /\ UNCHANGED <<undoStack, undidOther>>
              \/ /\ m.kind = "undo" /\ ~open /\ undoStack # <<>> /\ Pop /\ UNCHANGED <<open, applied>>
                 /\ (undidOther \/ Newest.by # "me" => undidOther')
              \/ a # "ok" /\ UNCHANGED <<open, applied, undoStack, undidOther>>
<1>1. PICK m \in Request, a \in {"ok", "error", "me", "other", "empty"} :
        /\ m = wire[1] /\ 1 \in DOMAIN wire
        /\ Executes(m, a)
        /\ reply' = IF m.live THEN [reply EXCEPT ![m.from] = a] ELSE reply
  BY Served
<1>2. CASE m.kind = "ops" /\ ServeOps(m, a)
  <2>1. open
    BY <1>1, <1>2 DEF OrderInv
  <2> QED
    BY <1>1, <1>2, <2>1 DEF ServeOps
<1>3. CASE m.kind = "commit" /\ ServeCommit(m, a)
  BY <1>1, <1>3 DEF ServeCommit
<1>4. CASE m.kind = "drop" /\ ServeDrop(m, a)
  BY <1>1, <1>4 DEF ServeDrop
<1>5. CASE m.kind = "stack" /\ ServeStack(m, a)
  <2>1. a # "ok"
    <3>1. undoStack # <<>> => Newest.by \in {"me", "other", "none"}
      <4>1. ASSUME undoStack # <<>> PROVE Newest \in Entry
        <5>1. undoStack \in Seq(Entry) /\ Len(undoStack) \in Nat /\ Len(undoStack) # 0
          BY <4>1, EmptySeq, LenProperties DEF TypeInv, TypeOK
        <5> QED
          BY <5>1, ElementOfSeq DEF Newest
      <4> QED
        BY <4>1 DEF Entry
    <3> QED
      BY <1>5, <3>1 DEF ServeStack
  <2> QED
    BY <1>1, <1>5, <2>1 DEF ServeStack
<1>6. CASE m.kind = "undo" /\ ServeUndo(m, a)
  BY <1>1, <1>6 DEF ServeUndo
<1> QED
  BY <1>1, <1>2, <1>3, <1>4, <1>5, <1>6 DEF Executes

LEMMA QuietSteps ==
  ASSUME [Next]_vars, ~Serve, ~ForeignPushes
  PROVE  UNCHANGED <<mode, open, applied, undoStack, undidOther>>
<1>1. ASSUME NEW o \in Op, Enqueue(o) PROVE UNCHANGED <<mode, kicad>>
  BY <1>1 DEF Enqueue
<1>2. CASE Microtask \/ FlushReply
  BY <1>2 DEF Microtask, FlushReply, kicad
<1>3. ASSUME NEW c \in Caller, CallerSteps(c) PROVE UNCHANGED <<mode, kicad>>
  BY <1>3 DEF CallerSteps, Call, DrainEnds, PushEnds, DropEnds, FailEnds, Answered
<1>4. ASSUME NEW s \in Sender, Timeout(s) PROVE UNCHANGED <<mode, kicad>>
  BY <1>4 DEF Timeout
<1>5. CASE Lose \/ ForeignBegins \/ UNCHANGED vars
  BY <1>5 DEF Lose, ForeignBegins, vars, kicad
<1> QED
  BY <1>1, <1>2, <1>3, <1>4, <1>5 DEF Next, kicad

\* What every step keeps of KiCad's side: at most one entry is ours, and what is gone
\* does not come back.
LEMMA StackStep ==
  ASSUME TypeInv, OrderInv, StackInv, [Next]_vars
  PROVE  /\ StackInv'
         /\ Disciplined => (undidOther => undidOther') /\ (Gone => Gone')
<1>1. mode' = mode
  BY QuietSteps DEF Serve, ForeignPushes
<1> SUFFICES ASSUME Disciplined
             PROVE  StackInv' /\ (undidOther => undidOther') /\ (Gone => Gone')
  BY <1>1 DEF StackInv, Disciplined
<1>2. CASE ~Serve /\ ~ForeignPushes
  BY <1>1, <1>2, QuietSteps DEF StackInv, Gone
<1>3. CASE ForeignPushes
  <2>1. Push("other", {}) /\ UNCHANGED <<mode, open, applied, undidOther>>
    BY <1>3 DEF ForeignPushes
  <2>2. PICK n \in Nat : /\ DOMAIN undoStack = 1..n /\ DOMAIN undoStack' = 1..(n + 1)
                         /\ \A i \in 1..n : undoStack'[i] = undoStack[i]
                         /\ undoStack'[n + 1] = [by |-> "other", ops |-> {}]
    BY <2>1, StackGrows DEF TypeInv
  <2>3. \A i \in 1..(n + 1) : i \in 1..n \/ i = n + 1
    OBVIOUS
  <2>4. StackInv'
    BY <2>1, <2>2, <2>3 DEF StackInv
  <2>5. Gone => Gone'
    BY <2>1, <2>2, <2>3 DEF Gone
  <2> QED
    BY <2>1, <2>4, <2>5
<1>4. CASE Serve
  <2>1. PICK m \in Request, a \in {"ok", "error", "me", "other", "empty"} :
           \/ /\ m.kind = "ops" /\ open /\ open' /\ UNCHANGED <<undoStack, undidOther>>
           \/ /\ m.kind = "commit" /\ open /\ ~open' /\ applied' = {}
              /\ Push("me", applied) /\ UNCHANGED undidOther
           \/ /\ m.kind = "drop" /\ open /\ ~open' /\ applied' = {}
              /\ UNCHANGED <<undoStack, undidOther>>
           \/ /\ m.kind = "undo" /\ ~open /\ undoStack # <<>> /\ Pop /\ UNCHANGED <<open, applied>>
              /\ (undidOther \/ Newest.by # "me" => undidOther')
           \/ UNCHANGED <<open, applied, undoStack, undidOther>>
    BY <1>4, KicadServes
  <2>2. CASE open /\ open' /\ UNCHANGED <<undoStack, undidOther>>
    BY <1>1, <2>2 DEF StackInv, Gone
  <2>3. CASE open /\ ~open' /\ applied' = {} /\ Push("me", applied) /\ UNCHANGED undidOther
    <3>1. applied \in SUBSET Op
      BY DEF TypeInv, TypeOK
    <3>2. PICK n \in Nat : /\ DOMAIN undoStack = 1..n /\ DOMAIN undoStack' = 1..(n + 1)
                           /\ \A i \in 1..n : undoStack'[i] = undoStack[i]
                           /\ undoStack'[n + 1] = [by |-> "me", ops |-> applied]
      BY <2>3, <3>1, StackGrows DEF TypeInv
    <3>3. \A i \in 1..(n + 1) : i \in 1..n \/ i = n + 1
      OBVIOUS
    <3>4. StackInv'
      BY <2>3, <3>2, <3>3 DEF StackInv
    <3> QED
      BY <2>3, <3>4 DEF Gone
  <2>4. CASE open /\ ~open' /\ applied' = {} /\ UNCHANGED <<undoStack, undidOther>>
    BY <1>1, <2>4 DEF StackInv, Gone
  <2>5. CASE ~open /\ undoStack # <<>> /\ Pop /\ UNCHANGED <<open, applied>>
             /\ (undidOther \/ Newest.by # "me" => undidOther')
    <3>1. PICK n \in Nat : /\ DOMAIN undoStack = 1..(n + 1) /\ DOMAIN undoStack' = 1..n
                           /\ \A i \in 1..n : undoStack'[i] = undoStack[i]
      BY <2>5, StackPops DEF TypeInv
    <3>2. \A i \in 1..n : i \in 1..(n + 1)
      OBVIOUS
    <3>3. StackInv'
      BY <2>5, <3>1, <3>2 DEF StackInv
    <3>4. Gone => Gone'
      BY <2>5, <3>1, <3>2 DEF Gone
    <3> QED
      BY <2>5, <3>3, <3>4
  <2>6. CASE UNCHANGED <<open, applied, undoStack, undidOther>>
    BY <1>1, <2>6 DEF StackInv, Gone
  <2> QED
    BY <2>1, <2>2, <2>3, <2>4, <2>5, <2>6
<1> QED
  BY <1>2, <1>3, <1>4

\* What the calls that end a commit otherwise than by pushing it may rely on.
EndInv ==
  Disciplined =>
    \A c \in Caller :
      /\ pc[c] \in {"dropping", "reverting"} /\ reply[c] = "ok" => Gone
      /\ pc[c] = "dropped" => Gone
      /\ pc[c] = "undoing" /\ reply[c] = "ok" => Gone \/ undidOther
      /\ pc[c] \in {"reverted", "undone"} => Gone \/ undidOther

\* How a caller comes to its results.
LEMMA CallerResults ==
  ASSUME TypeInv, Disciplined, NEW c \in Caller, CallerSteps(c)
  PROVE  /\ pc'[c] = "dropped" => pc[c] = "dropping" /\ reply[c] = "ok"
         /\ pc'[c] \in {"reverted", "undone"} => pc[c] \in {"reverting", "undoing"} /\ reply[c] = "ok"
         /\ pc'[c] = "pushed" => pc[c] = "ending" /\ reply[c] = "ok"
<1>0. mode.hasId /\ pc \in [Caller -> {"idle", "drain", "drained"} \union Waiting \union Over]
  BY DEF Disciplined, TypeInv, TypeOK
<1>1. CASE Call(c)
  BY <1>0, <1>1 DEF Call, Silent, Sends, To
<1>2. CASE DrainEnds(c)
  BY <1>0, <1>2 DEF DrainEnds, Silent, To
<1>3. CASE PushEnds(c)
  BY <1>0, <1>3 DEF PushEnds, Silent, Sends, To
<1>4. CASE DropEnds(c)
  BY <1>0, <1>4 DEF DropEnds, Silent, Sends, To
<1>5. CASE FailEnds(c)
  BY <1>0, <1>5 DEF FailEnds, Silent, Sends, To
<1>6. CASE Answered(c)
  BY <1>0, <1>6 DEF Answered, EndsForGood, DropFails, Proceeds, Silent, Sends, To
<1> QED
  BY <1>1, <1>2, <1>3, <1>4, <1>5, <1>6 DEF CallerSteps

LEMMA EndStep ==
  ASSUME TypeInv, AskInv, OrderInv, StackInv, EndInv, [Next]_vars
  PROVE  EndInv'
<1>1. mode' = mode
  BY QuietSteps DEF Serve, ForeignPushes
<1> SUFFICES ASSUME Disciplined PROVE EndInv'
  BY <1>1 DEF EndInv, Disciplined
<1>2. (undidOther => undidOther') /\ (Gone => Gone')
  BY StackStep
<1>3. /\ reply \in [Sender -> {"none", "ok", "error", "me", "other", "empty"}]
      /\ Flush \in Sender /\ Caller \subseteq Sender /\ Flush \notin Caller
  BY CommitAssumption DEF TypeInv, TypeOK, Sender
<1>4. ASSUME pc' = pc, \A c \in Caller : reply'[c] = "ok" => reply[c] = "ok" PROVE EndInv'
  BY <1>2, <1>4 DEF EndInv
<1>5. ASSUME NEW o \in Op, Enqueue(o) PROVE EndInv'
  BY <1>4, <1>5 DEF Enqueue
<1>6. CASE Microtask
  BY <1>4, <1>6 DEF Microtask
<1>7. CASE FlushReply
  <2>1. \A c \in Caller : reply'[c] = reply[c]
    BY <1>3, <1>7 DEF FlushReply
  <2> QED
    BY <1>4, <1>7, <2>1 DEF FlushReply
<1>8. ASSUME NEW c \in Caller, CallerSteps(c) PROVE EndInv'
  <2>1. /\ pc' = [pc EXCEPT ![c] = pc'[c]]
        /\ reply' = [reply EXCEPT ![c] = "none"]
    BY <1>8, CallerMoves
  <2>2. \A d \in Caller \ {c} : pc'[d] = pc[d] /\ reply'[d] = reply[d]
    BY <1>3, <2>1 DEF TypeInv, TypeOK
  <2>3. reply'[c] = "none"
    BY <1>3, <2>1
  <2>4. /\ pc'[c] = "dropped" => Gone
        /\ pc'[c] \in {"reverted", "undone"} => Gone \/ undidOther
    BY <1>8, CallerResults DEF EndInv
  <2> QED
    BY <1>2, <2>2, <2>3, <2>4 DEF EndInv
<1>9. ASSUME NEW s \in Sender, Timeout(s) PROVE EndInv'
  <2>1. \A c \in Caller : reply'[c] = "ok" => reply[c] = "ok"
    BY <1>3, <1>9 DEF Timeout
  <2>2. pc' = pc
    BY <1>9 DEF Timeout, client
  <2> QED
    BY <1>4, <2>1, <2>2
<1>10. CASE Lose \/ ForeignBegins \/ ForeignPushes \/ UNCHANGED vars
  <2>1. reply' = reply /\ pc' = pc
    BY <1>10 DEF Lose, ForeignBegins, ForeignPushes, vars, client
  <2> QED
    BY <1>4, <2>1
<1>11. CASE Serve
  <2>1. PICK m \in Request, a \in {"ok", "error", "me", "other", "empty"} :
           /\ m = wire[1] /\ 1 \in DOMAIN wire
           /\ reply' = IF m.live THEN [reply EXCEPT ![m.from] = a] ELSE reply
           /\ \/ /\ m.kind = "ops" /\ open /\ open' /\ UNCHANGED <<undoStack, undidOther>>
              \/ /\ m.kind = "commit" /\ open /\ ~open' /\ applied' = {}
                 /\ Push("me", applied) /\ UNCHANGED undidOther
              \/ /\ m.kind = "drop" /\ open /\ ~open' /\ applied' = {}
                 /\ UNCHANGED <<undoStack, undidOther>>
              \/ /\ m.kind = "undo" /\ ~open /\ undoStack # <<>> /\ Pop /\ UNCHANGED <<open, applied>>
                 /\ (undidOther \/ Newest.by # "me" => undidOther')
              \/ a # "ok" /\ UNCHANGED <<open, applied, undoStack, undidOther>>
    BY <1>11, KicadServes
  <2>2. pc' = pc
    BY <1>11 DEF Serve, client
  <2>3. ASSUME NEW c \in Caller, reply'[c] = "ok", reply[c] # "ok"
        PROVE  /\ pc[c] \in {"dropping", "reverting"} => Gone'
               /\ pc[c] = "undoing" => Gone' \/ undidOther'
    <3>1. m.live /\ m.from = c /\ a = "ok"
      BY <1>3, <2>1, <2>3
    <3>2. m.kind = KindAt(pc[c])
      BY <1>3, <2>1, <3>1 DEF AskInv, Asked
    <3>3. ASSUME pc[c] \in {"dropping", "reverting"} PROVE Gone'
      <4>1. m.kind = "drop"
        BY <3>2, <3>3 DEF KindAt
      <4>2. open /\ ~open' /\ undoStack' = undoStack
        BY <2>1, <3>1, <4>1
      <4> QED
        BY <4>2 DEF StackInv, Gone
    <3>4. ASSUME pc[c] = "undoing" PROVE Gone' \/ undidOther'
      <4>1. m.kind = "undo"
        BY <3>2, <3>4 DEF KindAt
      <4>2. ~open /\ ~open' /\ undoStack # <<>> /\ Pop /\ (Newest.by # "me" => undidOther')
        BY <2>1, <3>1, <4>1
      <4>3. PICK n \in Nat : /\ DOMAIN undoStack = 1..(n + 1) /\ DOMAIN undoStack' = 1..n
                             /\ \A i \in 1..n : undoStack'[i] = undoStack[i]
                             /\ Newest = undoStack[n + 1]
        BY <4>2, StackPops DEF TypeInv
      <4>4. \A i \in 1..n : i \in DOMAIN undoStack /\ n + 1 \in DOMAIN undoStack /\ i # n + 1
        BY <4>3
      <4>5. Newest.by = "me" => Gone'
        BY <4>2, <4>3, <4>4 DEF StackInv, Gone
      <4> QED
        BY <4>2, <4>5
    <3> QED
      BY <3>3, <3>4
  <2> QED
    BY <1>2, <2>2, <2>3 DEF EndInv
<1> QED
  BY <1>5, <1>6, <1>7, <1>8, <1>9, <1>10, <1>11 DEF Next

LEMMA EndInvariant == Spec => [](TypeInv /\ AskInv /\ OrderInv /\ StackInv /\ EndInv)
<1>1. Init => StackInv /\ EndInv
  BY DEF Init, StackInv, EndInv, Disciplined
<1> QED
  BY <1>1, StackStep, EndStep, OrderInvariant, PTL DEF Spec

\* Where nothing of the commit is left, none of its edits is in the document.
LEMMA GoneIsEmpty ==
  ASSUME StackInv, Disciplined, Gone
  PROVE  InDocument = {}
BY DEF StackInv, Gone, InDocument

\* drop() that KiCad confirmed leaves nothing of the commit, whichever requests timed
\* out before and whatever the transport still delivers later (commit.ts:159-180).
THEOREM DropsLeaveNothing == Spec => []DropReverts
<1>1. StackInv /\ EndInv => DropReverts
  BY GoneIsEmpty DEF EndInv, DropReverts
<1> QED
  BY <1>1, EndInvariant, PTL

\* A commit that failed and reports its recovery, or that was undone, leaves nothing
\* either, unless its Undo met another client's entry (commit.ts:200-250).
THEOREM RecoveryLeavesNothing == Spec => []RecoveryReverts
<1>1. StackInv /\ EndInv => RecoveryReverts
  BY GoneIsEmpty DEF EndInv, RecoveryReverts
<1> QED
  BY <1>1, EndInvariant, PTL

-----------------------------------------------------------------------------
(* A commit that was pushed. *)

Undoes == \E c \in Caller : goal[c] \in {"undo", "fail"} /\ pc[c] \notin {"idle", "refused"}
Resolved == {o \in Op : status[o] = "resolved"}
HasEntry == \E i \in DOMAIN undoStack : undoStack[i].by = "me" /\ Resolved \subseteq undoStack[i].ops

\* With CommitOptions.strict the promise of an edit says that KiCad has it.
PushInv ==
  Disciplined /\ mode.strict =>
    /\ open => Resolved \subseteq applied
    /\ reply[Flush] = "ok" => Elems(batch) \subseteq applied
    /\ \A c \in Caller : pc[c] \in {"stack", "undoing", "reverting"} => goal[c] \in {"undo", "fail"}
    /\ \A i \in DOMAIN wire : wire[i].kind = "undo" => Undoes
    /\ \A c \in Caller : pc[c] = "pushed" \/ (pc[c] = "ending" /\ reply[c] = "ok") => Undoes \/ HasEntry

\* An Undo goes out only for a caller that undoes or recovers.
LEMMA CallerUndoes ==
  ASSUME TypeInv, PushInv, Disciplined, mode.strict, NEW c \in Caller, CallerSteps(c)
  PROVE  /\ Undoes => Undoes'
         /\ pc'[c] \in {"stack", "undoing", "reverting"} => goal'[c] \in {"undo", "fail"}
         /\ \A d \in Caller \ {c} : goal'[d] = goal[d] /\ pc'[d] = pc[d]
<1>0. /\ pc \in [Caller -> {"idle", "drain", "drained"} \union Waiting \union Over]
      /\ goal \in [Caller -> Goals]
      /\ pc[c] \in {"stack", "undoing", "reverting"} => goal[c] \in {"undo", "fail"}
  BY DEF TypeInv, TypeOK, PushInv
<1>1. /\ goal[c] \in {"undo", "fail"} => goal'[c] \in {"undo", "fail"}
      /\ goal[c] \in {"undo", "fail"} /\ pc[c] \notin {"idle", "refused"} => pc'[c] \notin {"idle", "refused"}
      /\ pc'[c] \in {"stack", "undoing", "reverting"} => goal'[c] \in {"undo", "fail"}
      /\ \A d \in Caller \ {c} : goal'[d] = goal[d] /\ pc'[d] = pc[d]
  <2>1. CASE Call(c)
    BY <1>0, <2>1 DEF Call, Silent, Sends, To
  <2>2. CASE DrainEnds(c)
    BY <1>0, <2>2 DEF DrainEnds, Silent, To
  <2>3. CASE PushEnds(c)
    BY <1>0, <2>3 DEF PushEnds, Silent, Sends, To
  <2>4. CASE DropEnds(c)
    BY <1>0, <2>4 DEF DropEnds, Silent, Sends, To
  <2>5. CASE FailEnds(c)
    BY <1>0, <2>5 DEF FailEnds, Silent, Sends, To
  <2>6. CASE Answered(c)
    BY <1>0, <2>6 DEF Answered, EndsForGood, DropFails, Proceeds, Silent, Sends, To
  <2> QED
    BY <2>1, <2>2, <2>3, <2>4, <2>5, <2>6 DEF CallerSteps
<1>2. Undoes => Undoes'
  BY <1>1 DEF Undoes
<1> QED
  BY <1>1, <1>2

LEMMA PushCaller ==
  ASSUME TypeInv, AskInv, OrderInv, PushInv, Disciplined, mode.strict, NEW c \in Caller, CallerSteps(c)
  PROVE  PushInv'
<1>1. /\ UNCHANGED <<batch, status, open, applied, undoStack>>
      /\ pc' = [pc EXCEPT ![c] = pc'[c]]
      /\ reply' = [reply EXCEPT ![c] = "none"]
      /\ \/ wire' = wire
         \/ KindAt(pc'[c]) \in Kinds /\ Send(c, KindAt(pc'[c]), <<>>)
  BY CallerMoves DEF editing, kicad
<1>2. /\ reply \in [Sender -> {"none", "ok", "error", "me", "other", "empty"}]
      /\ c \in Sender /\ Flush \in Sender /\ c # Flush
      /\ pc \in [Caller -> {"idle", "drain", "drained"} \union Waiting \union Over]
  BY CommitAssumption DEF TypeInv, TypeOK, Sender
<1>3. reply'[c] = "none" /\ reply'[Flush] = reply[Flush] /\ \A d \in Caller \ {c} : reply'[d] = reply[d]
  BY <1>1, <1>2 DEF Sender
<1>4. /\ Undoes => Undoes'
      /\ pc'[c] \in {"stack", "undoing", "reverting"} => goal'[c] \in {"undo", "fail"}
      /\ \A d \in Caller \ {c} : goal'[d] = goal[d] /\ pc'[d] = pc[d]
  BY CallerUndoes
<1>5. Resolved' = Resolved /\ HasEntry' = HasEntry
  BY <1>1 DEF Resolved, HasEntry
<1>6. /\ open' => Resolved' \subseteq applied'
      /\ reply'[Flush] = "ok" => Elems(batch') \subseteq applied'
  BY <1>1, <1>3, <1>5 DEF PushInv, Elems
<1>7. \A d \in Caller : pc'[d] \in {"stack", "undoing", "reverting"} => goal'[d] \in {"undo", "fail"}
  BY <1>4 DEF PushInv
<1>8. \A i \in DOMAIN wire' : wire'[i].kind = "undo" => Undoes'
  <2>1. CASE wire' = wire
    BY <1>4, <2>1 DEF PushInv
  <2>2. CASE KindAt(pc'[c]) \in Kinds /\ Send(c, KindAt(pc'[c]), <<>>)
    <3>1. PICK n \in Nat :
            /\ DOMAIN wire = 1..n /\ DOMAIN wire' = 1..(n + 1)
            /\ \A i \in 1..n : wire'[i] = wire[i]
            /\ wire'[n + 1] = [from |-> c, kind |-> KindAt(pc'[c]), ops |-> <<>>, live |-> TRUE]
      BY <1>2, <2>2, EmptySeq, WireGrows DEF TypeInv
    <3>2. wire'[n + 1].kind = "undo" => Undoes'
      <4>1. wire'[n + 1].kind = "undo" => pc'[c] = "undoing"
        BY <3>1 DEF KindAt
      <4> QED
        BY <1>4, <4>1 DEF Undoes
    <3>3. \A i \in 1..(n + 1) : i \in 1..n \/ i = n + 1
      OBVIOUS
    <3> QED
      BY <1>4, <3>1, <3>2, <3>3 DEF PushInv
  <2> QED
    BY <1>1, <2>1, <2>2
<1>9. \A d \in Caller : pc'[d] = "pushed" \/ (pc'[d] = "ending" /\ reply'[d] = "ok") => Undoes' \/ HasEntry'
  <2>1. pc'[c] = "pushed" => Undoes \/ HasEntry
    BY CallerResults DEF PushInv
  <2> QED
    BY <1>3, <1>4, <1>5, <2>1 DEF PushInv
<1> QED
  BY <1>6, <1>7, <1>8, <1>9 DEF PushInv

\* The flush loop runs only while nothing ends the commit.
LEMMA PushFlush ==
  ASSUME TypeInv, AskInv, OrderInv, PushInv, OrderInv', Disciplined, mode.strict, mode' = mode,
         Microtask \/ FlushReply
  PROVE  PushInv'
<1>1. UNCHANGED <<pc, goal, ended, finalizing, open, applied, undoStack>>
  BY DEF Microtask, FlushReply, kicad
<1>2. Begun' = Begun /\ Undoes' = Undoes
  BY <1>1 DEF Begun, Undoes
<1>3. /\ reply \in [Sender -> {"none", "ok", "error", "me", "other", "empty"}]
      /\ Flush \in Sender /\ Caller \subseteq Sender /\ Flush \notin Caller
      /\ status \in [Op -> {"new", "pending", "resolved", "rejected"}]
  BY CommitAssumption DEF TypeInv, TypeOK, Sender
<1>4. CASE Begun
  <2>1. queue = <<>> /\ batch = <<>>
    BY <1>4 DEF OrderInv
  <2>2. UNCHANGED <<batch, status, wire, reply>>
    BY <2>1 DEF Microtask, FlushReply, FlushMore, LoopEnds
  <2> QED
    BY <1>1, <1>2, <2>2 DEF PushInv, Resolved, HasEntry, Elems
<1>5. CASE ~Begun
  <2>1. \A i \in DOMAIN wire' : wire'[i].kind = "ops"
    BY <1>2, <1>5 DEF OrderInv, Disciplined
  <2>2. \A c \in Caller : pc[c] \notin {"pushed", "ending"}
    BY <1>5 DEF Begun
  <2>3. Resolved' \subseteq Resolved \union (IF reply[Flush] = "ok" THEN Elems(batch) ELSE {})
    BY <1>3 DEF Microtask, FlushReply, Resolved
  <2>4. open' => Resolved' \subseteq applied'
    BY <1>1, <2>3 DEF PushInv
  <2>5. reply'[Flush] = "ok" => batch' = batch /\ reply[Flush] = "ok"
    <3>1. CASE FlushReply
      BY <1>3, <3>1 DEF FlushReply
    <3>2. CASE Microtask
      BY <3>2 DEF Microtask, AskInv
    <3> QED
      BY <3>1, <3>2
  <2>6. reply'[Flush] = "ok" => Elems(batch') \subseteq applied'
    BY <1>1, <2>5 DEF PushInv, Elems
  <2>7. \A c \in Caller : pc'[c] \in {"stack", "undoing", "reverting"} => goal'[c] \in {"undo", "fail"}
    BY <1>1 DEF PushInv
  <2> QED
    BY <1>1, <2>1, <2>2, <2>4, <2>6, <2>7 DEF PushInv
<1> QED
  BY <1>4, <1>5

LEMMA PushServe ==
  ASSUME TypeInv, AskInv, OrderInv, StackInv, PushInv, Disciplined, mode.strict, Serve
  PROVE  PushInv'
<1>1. PICK m \in Request, a \in {"ok", "error", "me", "other", "empty"} :
           /\ m = wire[1] /\ 1 \in DOMAIN wire
           /\ reply' = IF m.live THEN [reply EXCEPT ![m.from] = a] ELSE reply
           /\ \/ /\ m.kind = "ops" /\ open /\ open' /\ UNCHANGED <<undoStack, undidOther>>
                 /\ applied \subseteq applied'
                 /\ a = "ok" /\ mode.strict => Elems(m.ops) \subseteq applied'
              \/ /\ m.kind = "commit" /\ open /\ ~open' /\ applied' = {}
                 /\ Push("me", applied) /\ UNCHANGED undidOther
              \/ /\ m.kind = "drop" /\ open /\ ~open' /\ applied' = {}
                 /\ UNCHANGED <<undoStack, undidOther>>
              \/ /\ m.kind = "undo" /\ ~open /\ undoStack # <<>> /\ Pop /\ UNCHANGED <<open, applied>>
                 /\ (undidOther \/ Newest.by # "me" => undidOther')
              \/ a # "ok" /\ UNCHANGED <<open, applied, undoStack, undidOther>>
  BY KicadServes
<1>2. UNCHANGED <<mode, pc, goal, batch, status>> /\ wire # <<>> /\ wire' = Tail(wire)
  BY DEF Serve, client
<1>3. /\ reply \in [Sender -> {"none", "ok", "error", "me", "other", "empty"}]
      /\ Flush \in Sender /\ Caller \subseteq Sender /\ Flush \notin Caller
  BY CommitAssumption DEF TypeInv, TypeOK, Sender
<1>4. Resolved' = Resolved /\ Undoes' = Undoes
  BY <1>2 DEF Resolved, Undoes
<1>5. open' => open /\ applied \subseteq applied'
  BY <1>1
<1>6. open' => Resolved' \subseteq applied'
  BY <1>4, <1>5 DEF PushInv
<1>7. reply'[Flush] = "ok" => Elems(batch') \subseteq applied'
  <2>1. CASE reply[Flush] = "ok"
    <3>1. ~Begun
      BY <2>1 DEF AskInv, OrderInv
    <3>2. m.kind = "ops"
      BY <1>1, <3>1 DEF OrderInv
    <3>3. applied \subseteq applied'
      BY <1>1, <3>2
    <3> QED
      BY <1>2, <2>1, <3>3 DEF PushInv, Elems
  <2>2. CASE reply[Flush] # "ok" /\ reply'[Flush] = "ok"
    <3>1. m.live /\ m.from = Flush /\ a = "ok"
      BY <1>1, <1>3, <2>2
    <3>2. m.kind = "ops" /\ m.ops = batch
      BY <1>1, <3>1 DEF AskInv, Asked
    <3>3. Elems(m.ops) \subseteq applied'
      BY <1>1, <3>1, <3>2
    <3> QED
      BY <1>2, <3>2, <3>3 DEF Elems
  <2> QED
    BY <2>1, <2>2
<1>8. \A i \in DOMAIN wire' : wire'[i].kind = "undo" => Undoes'
  <2>1. PICK n \in Nat : /\ DOMAIN wire = 1..(n + 1) /\ DOMAIN wire' = 1..n
                         /\ \A i \in 1..n : wire'[i] = wire[i + 1]
    BY <1>2, WireShrinks DEF TypeInv
  <2>2. \A i \in 1..n : i + 1 \in DOMAIN wire
    BY <2>1
  <2> QED
    BY <1>4, <2>1, <2>2 DEF PushInv
<1>9. HasEntry => HasEntry' \/ Undoes
  <2> SUFFICES ASSUME NEW i \in DOMAIN undoStack, undoStack[i].by = "me", Resolved \subseteq undoStack[i].ops
               PROVE  HasEntry' \/ Undoes
    BY DEF HasEntry
  <2>1. CASE undoStack' = undoStack
    BY <1>4, <2>1 DEF HasEntry
  <2>2. CASE m.kind = "undo"
    BY <1>1, <2>2 DEF PushInv
  <2>3. CASE Push("me", applied)
    <3>1. applied \in SUBSET Op
      BY DEF TypeInv, TypeOK
    <3>2. PICK n \in Nat : /\ DOMAIN undoStack = 1..n /\ DOMAIN undoStack' = 1..(n + 1)
                           /\ \A j \in 1..n : undoStack'[j] = undoStack[j]
      BY <2>3, <3>1, StackGrows DEF TypeInv
    <3>3. i \in 1..(n + 1) /\ undoStack'[i] = undoStack[i]
      BY <3>2
    <3> QED
      BY <1>4, <3>2, <3>3 DEF HasEntry
  <2> QED
    BY <1>1, <2>1, <2>2, <2>3
<1>10. ASSUME NEW c \in Caller, pc'[c] = "pushed" \/ (pc'[c] = "ending" /\ reply'[c] = "ok")
       PROVE  Undoes' \/ HasEntry'
  <2>1. CASE pc[c] = "pushed" \/ (pc[c] = "ending" /\ reply[c] = "ok")
    <3>1. Undoes \/ HasEntry
      BY <2>1 DEF PushInv
    <3> QED
      BY <1>4, <1>9, <3>1
  <2>2. CASE pc[c] = "ending" /\ reply[c] # "ok" /\ reply'[c] = "ok"
    <3>1. m.live /\ m.from = c /\ a = "ok"
      BY <1>1, <1>3, <2>2
    <3>2. m.kind = "commit"
      <4>1. m.kind = KindAt(pc[c])
        BY <1>1, <1>3, <3>1 DEF AskInv, Asked
      <4> QED
        BY <2>2, <4>1 DEF KindAt
    <3>3. open /\ Push("me", applied)
      BY <1>1, <3>1, <3>2
    <3>4. applied \in SUBSET Op
      BY DEF TypeInv, TypeOK
    <3>5. PICK n \in Nat : /\ DOMAIN undoStack' = 1..(n + 1)
                           /\ undoStack'[n + 1] = [by |-> "me", ops |-> applied]
      BY <3>3, <3>4, StackGrows DEF TypeInv
    <3>6. n + 1 \in DOMAIN undoStack' /\ undoStack'[n + 1].by = "me" /\ undoStack'[n + 1].ops = applied
      BY <3>5
    <3>7. Resolved' \subseteq applied
      BY <1>4, <3>3 DEF PushInv
    <3> QED
      BY <3>6, <3>7 DEF HasEntry
  <2> QED
    BY <1>2, <1>10, <2>1, <2>2
<1>11. \A c \in Caller : pc'[c] \in {"stack", "undoing", "reverting"} => goal'[c] \in {"undo", "fail"}
  BY <1>2 DEF PushInv
<1> QED
  BY <1>6, <1>7, <1>8, <1>10, <1>11 DEF PushInv

LEMMA PushStep ==
  ASSUME TypeInv, AskInv, OrderInv, StackInv, PushInv, OrderInv', [Next]_vars
  PROVE  PushInv'
<1>1. mode' = mode
  BY QuietSteps DEF Serve, ForeignPushes
<1> SUFFICES ASSUME Disciplined, mode.strict PROVE PushInv'
  BY <1>1 DEF PushInv, Disciplined
<1>2. /\ reply \in [Sender -> {"none", "ok", "error", "me", "other", "empty"}]
      /\ Flush \in Sender /\ Caller \subseteq Sender
      /\ status \in [Op -> {"new", "pending", "resolved", "rejected"}]
  BY DEF TypeInv, TypeOK, Sender
<1>3. ASSUME NEW o \in Op, Enqueue(o) PROVE PushInv'
  <2>1. UNCHANGED <<batch, goal, pc, wire, reply, open, applied, undoStack>>
    BY <1>3 DEF Enqueue, kicad
  <2>2. Resolved' \subseteq Resolved
    BY <1>2, <1>3 DEF Enqueue, Resolved
  <2>3. (HasEntry => HasEntry') /\ Undoes' = Undoes
    BY <2>1, <2>2 DEF HasEntry, Undoes
  <2> QED
    BY <2>1, <2>2, <2>3 DEF PushInv, Elems
<1>4. CASE Microtask \/ FlushReply
  BY <1>1, <1>4, PushFlush
<1>5. ASSUME NEW c \in Caller, CallerSteps(c) PROVE PushInv'
  BY <1>5, PushCaller
<1>6. ASSUME NEW s \in Sender, Timeout(s) PROVE PushInv'
  <2>1. UNCHANGED <<batch, status, goal, pc, open, applied, undoStack>>
    BY <1>6 DEF Timeout, client, kicad
  <2>2. \A r \in Sender : reply'[r] = "ok" => reply[r] = "ok"
    BY <1>2, <1>6 DEF Timeout
  <2>3. DOMAIN wire' = DOMAIN wire /\ \A i \in DOMAIN wire : wire'[i].kind = wire[i].kind
    BY <1>6, WireFades DEF TypeInv
  <2>4. Resolved' = Resolved /\ HasEntry' = HasEntry /\ Undoes' = Undoes
    BY <2>1 DEF Resolved, HasEntry, Undoes
  <2> QED
    BY <1>2, <2>1, <2>2, <2>3, <2>4 DEF PushInv, Elems
<1>7. CASE Serve
  BY <1>7, PushServe
<1>8. CASE Lose
  <2>1. UNCHANGED <<batch, status, goal, pc, reply, open, applied, undoStack>> /\ wire # <<>> /\ wire' = Tail(wire)
    BY <1>8 DEF Lose, client, kicad
  <2>2. PICK n \in Nat : /\ DOMAIN wire = 1..(n + 1) /\ DOMAIN wire' = 1..n
                         /\ \A i \in 1..n : wire'[i] = wire[i + 1]
    BY <2>1, WireShrinks DEF TypeInv
  <2>3. \A i \in 1..n : i + 1 \in DOMAIN wire
    BY <2>2
  <2>4. Resolved' = Resolved /\ HasEntry' = HasEntry /\ Undoes' = Undoes
    BY <2>1 DEF Resolved, HasEntry, Undoes
  <2>5. \A i \in DOMAIN wire' : wire'[i].kind = "undo" => Undoes'
    BY <2>2, <2>3, <2>4 DEF PushInv
  <2> QED
    BY <2>1, <2>4, <2>5 DEF PushInv, Elems
<1>9. CASE ForeignPushes
  <2>1. UNCHANGED <<batch, status, goal, pc, reply, wire, open, applied>> /\ Push("other", {})
    BY <1>9 DEF ForeignPushes, client
  <2>2. PICK n \in Nat : /\ DOMAIN undoStack = 1..n /\ DOMAIN undoStack' = 1..(n + 1)
                         /\ \A i \in 1..n : undoStack'[i] = undoStack[i]
    BY <2>1, StackGrows DEF TypeInv
  <2>3. \A i \in 1..n : i \in 1..(n + 1)
    OBVIOUS
  <2>4. Resolved' = Resolved /\ Undoes' = Undoes
    BY <2>1 DEF Resolved, Undoes
  <2>5. HasEntry => HasEntry'
    BY <2>2, <2>3, <2>4 DEF HasEntry
  <2> QED
    BY <2>1, <2>4, <2>5 DEF PushInv, Elems
<1>10. CASE ForeignBegins \/ UNCHANGED vars
  <2>1. UNCHANGED <<batch, status, goal, pc, reply, wire, open, applied, undoStack>>
    BY <1>10 DEF ForeignBegins, vars, client, kicad
  <2> QED
    BY <2>1 DEF PushInv, Elems, Resolved, HasEntry, Undoes
<1> QED
  BY <1>3, <1>4, <1>5, <1>6, <1>7, <1>8, <1>9, <1>10 DEF Next

\* A commit that was pushed is one undo entry with every edit whose promise resolved,
\* and none of its edits is a loose entry of its own (commit.ts:118-157).
THEOREM PushedIsOneEntry == Spec => []PushedAsOne
<1>1. Init => PushInv
  BY DEF Init, PushInv, Resolved, Sender
<1>2. StackInv /\ PushInv => PushedAsOne
  <2> SUFFICES ASSUME StackInv, PushInv, Disciplined, NEW c \in Caller, pc[c] = "pushed"
               PROVE  /\ \A i \in DOMAIN undoStack : undoStack[i].by # "none"
                      /\ mode.strict /\ NoUndoCalled =>
                           \E i \in DOMAIN undoStack :
                             undoStack[i].by = "me" /\ {o \in Op : status[o] = "resolved"} \subseteq undoStack[i].ops
    BY DEF PushedAsOne
  <2>1. \A i \in DOMAIN undoStack : undoStack[i].by # "none"
    BY DEF StackInv
  <2>2. NoUndoCalled => ~Undoes
    BY DEF NoUndoCalled, Undoes
  <2>3. mode.strict => Undoes \/ HasEntry
    BY DEF PushInv
  <2> QED
    BY <2>1, <2>2, <2>3 DEF HasEntry, Resolved
<1> QED
  BY <1>1, <1>2, PushStep, EndInvariant, PTL DEF Spec
=============================================================================
