------------------------ MODULE CommandService_proofs ------------------------
(***************************************************************************)
(* Theorems about CommandService for any transactions, undos, items and     *)
(* contents, any size of the history and any number of failing requests.    *)
(***************************************************************************)
EXTENDS CommandService, SequenceTheorems, TLAPS

-----------------------------------------------------------------------------
(* Ops and documents. *)

Docs == [Item -> Content]

LEMMA OpsAre ==
  ASSUME NEW ops \in Ops
  PROVE  DOMAIN ops \subseteq Item /\ ops \in [DOMAIN ops -> Content]
BY DEF Ops

LEMMA OpsFrom ==
  ASSUME NEW S \in SUBSET Item, NEW ops \in [S -> Content]
  PROVE  ops \in Ops
BY DEF Ops

LEMMA NoOpsType == NoOps \in Ops /\ DOMAIN NoOps = {}
<1>1. NoOps \in [{} -> Content] /\ {} \in SUBSET Item
  BY DEF NoOps
<1> QED
  BY <1>1, OpsFrom DEF NoOps

LEMMA OnlyType ==
  ASSUME NEW ops \in Ops, NEW S \in SUBSET DOMAIN ops
  PROVE  Only(ops, S) \in Ops /\ DOMAIN Only(ops, S) = S /\ \A i \in S : Only(ops, S)[i] = ops[i]
<1>1. S \in SUBSET Item /\ Only(ops, S) \in [S -> Content]
  BY OpsAre DEF Only
<1> QED
  BY <1>1, OpsFrom DEF Only

LEMMA OverType ==
  ASSUME NEW f \in Docs, NEW ops \in Ops
  PROVE  /\ Over(f, ops) \in Docs
         /\ \A i \in Item : Over(f, ops)[i] = IF i \in DOMAIN ops THEN ops[i] ELSE f[i]
BY OpsAre DEF Docs, Over

LEMMA KeepTypes ==
  ASSUME NEW ops \in Ops, NEW i \in Item, NEW v \in Content
  PROVE  /\ KeepFirst(ops, i, v) \in Ops /\ KeepLatest(ops, i, v) \in Ops
         /\ DOMAIN KeepFirst(ops, i, v) = DOMAIN ops \union {i}
         /\ DOMAIN KeepLatest(ops, i, v) = DOMAIN ops \union {i}
<1>1. DOMAIN ops \union {i} \in SUBSET Item
  BY OpsAre
<1>2. KeepFirst(ops, i, v) \in [DOMAIN ops \union {i} -> Content]
  BY OpsAre DEF KeepFirst
<1>3. KeepLatest(ops, i, v) \in [DOMAIN ops \union {i} -> Content]
  BY OpsAre DEF KeepLatest
<1> QED
  BY <1>1, <1>2, <1>3, OpsFrom

\* What a transaction sends, and what would undo it.
LEMMA ChangeTypes ==
  ASSUME NEW t \in Tx, first[t] \in Ops, last[t] \in Ops, DOMAIN first[t] = DOMAIN last[t]
  PROVE  /\ Changed(t) \subseteq DOMAIN first[t]
         /\ ForwardOps(t) \in Ops /\ DOMAIN ForwardOps(t) = Changed(t)
         /\ InverseOps(t) \in Ops /\ DOMAIN InverseOps(t) = Changed(t)
         /\ \A i \in Changed(t) : ForwardOps(t)[i] = last[t][i] /\ InverseOps(t)[i] = first[t][i]
<1>1. Changed(t) \in SUBSET DOMAIN first[t] /\ Changed(t) \in SUBSET DOMAIN last[t]
  BY DEF Changed
<1> HIDE DEF Changed
<1>2. /\ Only(last[t], Changed(t)) \in Ops /\ DOMAIN Only(last[t], Changed(t)) = Changed(t)
      /\ \A i \in Changed(t) : Only(last[t], Changed(t))[i] = last[t][i]
  BY <1>1, OnlyType
<1>3. /\ Only(first[t], Changed(t)) \in Ops /\ DOMAIN Only(first[t], Changed(t)) = Changed(t)
      /\ \A i \in Changed(t) : Only(first[t], Changed(t))[i] = first[t][i]
  BY <1>1, OnlyType
<1> QED
  BY <1>1, <1>2, <1>3 DEF ForwardOps, InverseOps

-----------------------------------------------------------------------------
(* Types, by parts. *)

Places == Quiet \union {"waiting", "applying", "ending", "dropping", "discarding", "cleaning"}
Replay == [entry : Entry, redo : BOOLEAN] \union {Nobody}

StoreType == /\ local \in Docs /\ doc \in Docs /\ base \in Docs
             /\ first \in [Tx -> Ops] /\ last \in [Tx -> Ops]
             /\ \A t \in Tx : DOMAIN first[t] = DOMAIN last[t]
OwnerType == /\ pc \in [Owner -> Places]
             /\ target \in [Owner -> Owner \union {Nobody}]
             /\ handle \in [Owner -> {"none", "open", "dropped", "ended"}]
OpsType == /\ todo \in [Owner -> Ops] /\ batch \in [Owner -> Ops] /\ before \in [Owner -> Ops]
HistoryType == /\ entry \in [Undoer -> Replay]
               /\ undoStack \in Seq(Entry) /\ redoStack \in Seq(Entry)
               /\ replaying \in BOOLEAN
BackendType == /\ chain \in Seq(Owner) /\ open \in Owner \union {Nobody}
               /\ pending \in Owner \union {Nobody} /\ lost \in BOOLEAN
               /\ fails \in 0..MaxFail /\ mode \in Mode

LEMMA TypeParts ==
  /\ TypeOK <=> StoreType /\ OwnerType /\ OpsType /\ HistoryType /\ BackendType
  /\ TypeOK' <=> StoreType' /\ OwnerType' /\ OpsType' /\ HistoryType' /\ BackendType'
BY DEF TypeOK, StoreType, OwnerType, OpsType, HistoryType, BackendType, Docs, Places, Replay

LEMMA ReleaseType ==
  ASSUME chain \in Seq(Owner), NEW o, Release(o)
  PROVE  chain' \in Seq(Owner)
BY HeadTailProperties, EmptySeq DEF Release

LEMMA EndDropType ==
  ASSUME OwnerType, BackendType, NEW o \in Owner, NEW awaits \in Places, NEW result \in Places,
         EndDrop(o, awaits, result), handle' \in [Owner -> {"none", "open", "dropped", "ended"}]
  PROVE  OwnerType' /\ open' \in Owner \union {Nobody}
BY DEF EndDrop, OwnerType, BackendType, To

LEMMA GiveUpType ==
  ASSUME StoreType, OwnerType, BackendType, HistoryType, NEW o \in Owner, NEW f \in Docs,
         GiveUp(o, f), handle' \in [Owner -> {"none", "open", "dropped", "ended"}]
  PROVE  /\ OwnerType' /\ open' \in Owner \union {Nobody}
         /\ local' \in Docs /\ replaying' \in BOOLEAN
<1>1. CASE o \in Tx
  <2>1. InverseOps(o) \in Ops
    BY <1>1, ChangeTypes DEF StoreType
  <2>2. RolledBack(f, o) \in Docs
    BY <2>1, OverType DEF RolledBack
  <2>3. "cleaning" \in Places /\ "failed" \in Places
    BY DEF Places, Quiet
  <2>4. EndDrop(o, "cleaning", "failed") /\ local' = RolledBack(f, o) /\ UNCHANGED replaying
    BY <1>1 DEF GiveUp
  <2> QED
    BY <2>2, <2>3, <2>4, EndDropType DEF HistoryType
<1>2. CASE o \notin Tx
  <2>1. /\ local' = f /\ replaying' = FALSE /\ To(o, "failed") /\ UNCHANGED <<open, target>>
    BY <1>2 DEF GiveUp
  <2>2. "failed" \in Places
    BY DEF Places, Quiet
  <2> QED
    BY <2>1, <2>2 DEF To, OwnerType, BackendType
<1> QED
  BY <1>1, <1>2

LEMMA StackTypes ==
  /\ \A s \in Seq(Entry), e \in Entry : Append(s, e) \in Seq(Entry) /\ LastFew(Append(s, e)) \in Seq(Entry)
  /\ \A s \in Seq(Entry) : s # <<>> => /\ SubSeq(s, 1, Len(s) - 1) \in Seq(Entry)
                                       /\ s[Len(s)] \in Entry
<1>1. ASSUME NEW s \in Seq(Entry), NEW e \in Entry
      PROVE  Append(s, e) \in Seq(Entry) /\ LastFew(Append(s, e)) \in Seq(Entry)
  <2>1. Append(s, e) \in Seq(Entry) /\ Append(s, e) # <<>>
    BY AppendProperties
  <2>2. Tail(Append(s, e)) \in Seq(Entry)
    BY <2>1, HeadTailProperties
  <2> QED
    BY <2>1, <2>2 DEF LastFew
<1>2. ASSUME NEW s \in Seq(Entry), s # <<>>
      PROVE  SubSeq(s, 1, Len(s) - 1) \in Seq(Entry) /\ s[Len(s)] \in Entry
  <2>1. Len(s) \in Nat /\ Len(s) # 0 /\ \A i \in 1..Len(s) : s[i] \in Entry
    BY <1>2, EmptySeq, LenProperties, ElementOfSeq
  <2>2. Len(s) - 1 \in Int /\ \A i \in 1..(Len(s) - 1) : s[i] \in Entry
    BY <2>1
  <2> QED
    BY <2>1, <2>2, SubSeqProperties
<1> QED
  BY <1>1, <1>2

LEMMA PushType ==
  ASSUME HistoryType, NEW e \in Entry, PushHistory(e)
  PROVE  undoStack' \in Seq(Entry) /\ redoStack' \in Seq(Entry)
<1>1. undoStack \in Seq(Entry) /\ redoStack \in Seq(Entry) /\ <<>> \in Seq(Entry)
  BY DEF HistoryType
<1>2. LastFew(Append(undoStack, e)) \in Seq(Entry)
  BY <1>1, StackTypes
<1> QED
  BY <1>1, <1>2 DEF PushHistory

\* Who replays knows what.
EntryKnown == \A u \in Undoer : pc[u] # "idle" => entry[u] \in [entry : Entry, redo : BOOLEAN]

LEMMA SucceedType ==
  ASSUME StoreType, OwnerType, HistoryType, EntryKnown, NEW o \in Owner, pc[o] # "idle",
         Succeed(o), UNCHANGED target,
         handle' \in [Owner -> {"none", "open", "dropped", "ended"}]
  PROVE  OwnerType' /\ HistoryType'
<1>1. OwnerType'
  BY DEF Succeed, To, OwnerType, Places, Quiet
<1>2. CASE o \in Tx
  <2>1. ForwardOps(o) \in Ops /\ InverseOps(o) \in Ops
    BY <1>2, ChangeTypes DEF StoreType
  <2>2. [fwd |-> ForwardOps(o), inv |-> InverseOps(o)] \in Entry
    BY <2>1 DEF Entry
  <2>3. PushHistory([fwd |-> ForwardOps(o), inv |-> InverseOps(o)]) /\ UNCHANGED <<replaying, entry>>
    BY <1>2 DEF Succeed
  <2>4. undoStack' \in Seq(Entry) /\ redoStack' \in Seq(Entry)
    BY <2>2, <2>3, PushType
  <2> QED
    BY <1>1, <2>3, <2>4 DEF HistoryType
<1>3. CASE o \notin Tx
  <2>1. o \in Undoer /\ entry[o] \in [entry : Entry, redo : BOOLEAN]
    BY <1>3 DEF Owner, HistoryType, EntryKnown, Replay
  <2>2. entry[o].entry \in Entry
    BY <2>1
  <2>3. undoStack \in Seq(Entry) /\ redoStack \in Seq(Entry)
    BY DEF HistoryType
  <2>4. Append(undoStack, entry[o].entry) \in Seq(Entry) /\ Append(redoStack, entry[o].entry) \in Seq(Entry)
    BY <2>2, <2>3, StackTypes
  <2>5. /\ replaying' = FALSE /\ UNCHANGED entry
        /\ \/ undoStack' = Append(undoStack, entry[o].entry) /\ UNCHANGED redoStack
           \/ redoStack' = Append(redoStack, entry[o].entry) /\ UNCHANGED undoStack
    BY <1>3 DEF Succeed
  <2>6. undoStack' \in Seq(Entry) /\ redoStack' \in Seq(Entry)
    BY <2>3, <2>4, <2>5
  <2> QED
    BY <1>1, <2>5, <2>6 DEF HistoryType
<1> QED
  BY <1>2, <1>3

LEMMA EntryType ==
  ASSUME NEW e \in Entry
  PROVE  e.fwd \in Ops /\ e.inv \in Ops
BY DEF Entry

-----------------------------------------------------------------------------

LEMMA InitType == Init => TypeOK
<1> SUFFICES ASSUME Init PROVE TypeOK
  OBVIOUS
<1>1. local \in Docs /\ doc \in Docs /\ base \in Docs
  BY DEF Init, Docs
<1>2. StoreType
  BY <1>1, NoOpsType DEF Init, StoreType
<1>3. OwnerType
  BY DEF Init, OwnerType, Places, Quiet
<1>4. OpsType
  BY NoOpsType DEF Init, OpsType
<1>5. HistoryType
  <2>1. /\ entry = [u \in Undoer |-> Nobody] /\ undoStack = <<>> /\ redoStack = <<>> /\ replaying = FALSE
    BY DEF Init
  <2>2. <<>> \in Seq(Entry)
    BY EmptySeq
  <2>3. Nobody \in Replay
    BY DEF Replay
  <2> QED
    BY <2>1, <2>2, <2>3 DEF HistoryType
<1>6. BackendType
  <2>1. /\ chain = <<>> /\ open = Nobody /\ pending = Nobody /\ lost = FALSE /\ fails = 0 /\ mode \in Mode
    BY DEF Init
  <2>2. <<>> \in Seq(Owner)
    BY EmptySeq
  <2>3. 0 \in 0..MaxFail
    BY CommandAssumption
  <2> QED
    BY <2>1, <2>2, <2>3 DEF BackendType
<1> QED
  BY <1>2, <1>3, <1>4, <1>5, <1>6, TypeParts

LEMMA NextType == TypeOK /\ EntryKnown /\ [Next]_vars => TypeOK'
<1> SUFFICES ASSUME TypeOK, EntryKnown, [Next]_vars PROVE TypeOK'
  OBVIOUS
<1>a. StoreType /\ OwnerType /\ OpsType /\ HistoryType /\ BackendType
  BY TypeParts
<1>b. mode.items \subseteq Item /\ mode.undoers \subseteq Undoer
  BY <1>a, CommandAssumption DEF BackendType
<1>c. \A t \in Tx : t \in Owner /\ \A u \in Undoer : u \in Owner
  BY DEF Owner
<1>d. /\ \A p \in Places, o \in Owner : To(o, p) => pc' \in [Owner -> Places]
      /\ {"editing", "returned", "committed", "waiting", "applying", "ending"} \subseteq Places
  BY <1>a DEF To, OwnerType, Places, Quiet
<1>e. \A o \in Owner : Fails(o) => fails' \in 0..MaxFail
  BY <1>a, CommandAssumption DEF Fails, BackendType
<1> HIDE DEF Places
<1>1. CASE UNCHANGED vars
  BY <1>1 DEF vars, store, history, backend, kicad, TypeOK
<1>2. ASSUME NEW t \in Tx, Begin(t) PROVE TypeOK'
  <2>1. OwnerType'
    BY <1>2, <1>a, <1>c, <1>d DEF Begin, OwnerType
  <2>2. StoreType' /\ OpsType' /\ HistoryType' /\ BackendType'
    BY <1>2, <1>a DEF Begin, StoreType, OpsType, HistoryType, BackendType, store, history, backend, kicad
  <2> QED
    BY <2>1, <2>2, TypeParts
<1>3. ASSUME NEW t \in Tx, Commit(t) PROVE TypeOK'
  <2>1. CASE Changed(t) = {}
    <3>1. /\ EndDrop(t, "dropping", "returned")
          /\ UNCHANGED <<chain, todo, mode, store, batch, before, history, handle, kicad>>
      BY <1>3, <2>1 DEF Commit
    <3>2. "dropping" \in Places /\ "returned" \in Places
      BY DEF Places, Quiet
    <3>3. OwnerType' /\ open' \in Owner \union {Nobody}
      BY <1>a, <1>c, <3>1, <3>2, EndDropType DEF OwnerType
    <3>4. StoreType' /\ OpsType' /\ HistoryType' /\ BackendType'
      BY <3>1, <3>3, <1>a DEF StoreType, OpsType, HistoryType, BackendType, store, history, kicad
    <3> QED
      BY <3>3, <3>4, TypeParts
  <2>2. CASE Changed(t) # {}
    <3>1. /\ To(t, "waiting") /\ chain' = Append(chain, t)
          /\ todo' = [todo EXCEPT ![t] = ForwardOps(t)]
          /\ UNCHANGED <<open, target, mode, store, batch, before, history, handle, kicad>>
      BY <1>3, <2>2 DEF Commit
    <3>2. ForwardOps(t) \in Ops
      BY <1>a, ChangeTypes DEF StoreType
    <3>3. chain' \in Seq(Owner)
      BY <1>a, <1>c, <3>1, AppendProperties DEF BackendType
    <3>4. OwnerType' /\ OpsType'
      BY <1>a, <1>c, <1>d, <3>1, <3>2 DEF OwnerType, OpsType
    <3>5. StoreType' /\ HistoryType' /\ BackendType'
      BY <3>1, <3>3, <1>a DEF StoreType, HistoryType, BackendType, store, history, kicad
    <3> QED
      BY <3>4, <3>5, TypeParts
  <2> QED
    BY <2>1, <2>2
<1>4. ASSUME NEW t \in Tx, Drop(t) PROVE TypeOK'
  <2>1. /\ EndDrop(t, "discarding", "dropped") /\ local' = RolledBack(local, t)
        /\ UNCHANGED <<mode, first, last, todo, batch, before, history, chain, handle, kicad>>
    BY <1>4 DEF Drop
  <2>2. "discarding" \in Places /\ "dropped" \in Places
    BY DEF Places, Quiet
  <2>3. OwnerType' /\ open' \in Owner \union {Nobody}
    BY <1>a, <1>c, <2>1, <2>2, EndDropType DEF OwnerType
  <2>4. local' \in Docs
    BY <1>a, <2>1, ChangeTypes, OverType DEF RolledBack, StoreType
  <2>5. StoreType' /\ OpsType' /\ HistoryType' /\ BackendType'
    BY <2>1, <2>3, <2>4, <1>a DEF StoreType, OpsType, HistoryType, BackendType, history, kicad
  <2> QED
    BY <2>3, <2>5, TypeParts
<1>5. ASSUME NEW t \in Tx, NEW i \in mode.items, NEW v \in Content, Edit(t, i, v) PROVE TypeOK'
  <2>1. /\ first' = [first EXCEPT ![t] = KeepFirst(@, i, local[i])]
        /\ last' = [last EXCEPT ![t] = KeepLatest(@, i, v)]
        /\ local' = [local EXCEPT ![i] = v]
        /\ UNCHANGED <<mode, pc, todo, batch, before, history, backend, target, handle, kicad>>
    BY <1>5 DEF Edit
  <2>2. first[t] \in Ops /\ last[t] \in Ops /\ i \in Item /\ local[i] \in Content
    BY <1>a, <1>b DEF StoreType, Docs
  <2>3. /\ KeepFirst(first[t], i, local[i]) \in Ops /\ KeepLatest(last[t], i, v) \in Ops
        /\ DOMAIN KeepFirst(first[t], i, local[i]) = DOMAIN first[t] \union {i}
        /\ DOMAIN KeepLatest(last[t], i, v) = DOMAIN last[t] \union {i}
    BY <2>2, KeepTypes
  <2>4. local' \in Docs
    BY <1>a, <2>1, <2>2 DEF StoreType, Docs
  <2>5. StoreType'
    <3> HIDE DEF KeepFirst, KeepLatest
    <3> QED
      BY <1>a, <2>1, <2>3, <2>4 DEF StoreType, kicad
  <2>6. OwnerType' /\ OpsType' /\ HistoryType' /\ BackendType'
    BY <2>1, <1>a DEF OwnerType, OpsType, HistoryType, BackendType, history, backend, kicad
  <2> QED
    BY <2>5, <2>6, TypeParts
<1>6. ASSUME NEW o \in Owner, BeginCommit(o) PROVE TypeOK'
  <2>1. /\ pending' = o /\ base' = doc /\ open' = o
        /\ handle' = [handle EXCEPT ![o] = "open"] /\ To(o, "applying")
        /\ UNCHANGED <<mode, store, todo, batch, before, history, chain, target, doc, lost, fails>>
    BY <1>6 DEF BeginCommit
  <2>2. OwnerType'
    BY <1>a, <1>d, <2>1 DEF OwnerType
  <2>3. StoreType' /\ OpsType' /\ HistoryType' /\ BackendType'
    BY <1>a, <2>1 DEF StoreType, OpsType, HistoryType, BackendType, store, history
  <2> QED
    BY <2>2, <2>3, TypeParts
<1>7. ASSUME NEW o \in Owner, BeginRefused(o) PROVE TypeOK'
  <2>1. /\ Release(o) /\ GiveUp(o, local)
        /\ Fails(o) \/ UNCHANGED fails
        /\ UNCHANGED <<mode, first, last, todo, batch, before, entry, undoStack, redoStack,
                       handle, doc, base, pending, lost>>
    BY <1>7 DEF BeginRefused
  <2>2. local \in Docs /\ handle' \in [Owner -> {"none", "open", "dropped", "ended"}]
    BY <1>a, <2>1 DEF StoreType, OwnerType
  <2>3. /\ OwnerType' /\ open' \in Owner \union {Nobody}
        /\ local' \in Docs /\ replaying' \in BOOLEAN
    BY <1>a, <2>1, <2>2, GiveUpType
  <2>4. chain' \in Seq(Owner) /\ fails' \in 0..MaxFail
    BY <1>a, <1>e, <2>1, ReleaseType DEF BackendType
  <2>5. StoreType' /\ OpsType' /\ HistoryType' /\ BackendType'
    BY <1>a, <2>1, <2>3, <2>4 DEF StoreType, OpsType, HistoryType, BackendType
  <2> QED
    BY <2>3, <2>5, TypeParts
<1>8. ASSUME NEW o \in Owner, SendBatch(o) PROVE TypeOK'
  <2>1. PICK S \in SUBSET DOMAIN todo[o] :
          /\ batch' = [batch EXCEPT ![o] = Only(todo[o], S)]
          /\ todo' = [todo EXCEPT ![o] = Only(@, DOMAIN @ \ S)]
          /\ before' = [before EXCEPT ![o] = Only(local, S)]
          /\ local' = Over(local, Only(todo[o], S))
    BY <1>8 DEF SendBatch
  <2>2. UNCHANGED <<mode, first, last, pc, history, backend, target, handle, kicad>>
    BY <1>8 DEF SendBatch
  <2>3. todo[o] \in Ops /\ local \in Docs
    BY <1>a DEF OpsType, StoreType
  <2>4. Only(todo[o], S) \in Ops /\ Only(todo[o], DOMAIN todo[o] \ S) \in Ops
    BY <2>3, OnlyType
  <2>5. Only(local, S) \in Ops
    <3>1. S \in SUBSET Item /\ Only(local, S) \in [S -> Content]
      BY <2>3, OpsAre DEF Only, Docs
    <3> QED
      BY <3>1, OpsFrom
  <2>6. local' \in Docs
    BY <2>1, <2>3, <2>4, OverType
  <2>7. OpsType'
    BY <1>a, <2>1, <2>4, <2>5 DEF OpsType
  <2>8. StoreType' /\ OwnerType' /\ HistoryType' /\ BackendType'
    BY <1>a, <2>2, <2>6 DEF StoreType, OwnerType, HistoryType, BackendType, history, backend, kicad
  <2> QED
    BY <2>7, <2>8, TypeParts
<1>9. ASSUME NEW o \in Owner, EditRejected(o) PROVE TypeOK'
  <2>1. /\ GiveUp(o, local)
        /\ UNCHANGED <<mode, first, last, todo, batch, before, entry, undoStack, redoStack, chain, handle, kicad>>
    BY <1>9 DEF EditRejected
  <2>2. local \in Docs /\ handle' \in [Owner -> {"none", "open", "dropped", "ended"}]
    BY <1>a, <2>1 DEF StoreType, OwnerType
  <2>3. /\ OwnerType' /\ open' \in Owner \union {Nobody}
        /\ local' \in Docs /\ replaying' \in BOOLEAN
    BY <1>a, <2>1, <2>2, GiveUpType
  <2>4. StoreType' /\ OpsType' /\ HistoryType' /\ BackendType'
    BY <1>a, <2>1, <2>3 DEF StoreType, OpsType, HistoryType, BackendType, kicad
  <2> QED
    BY <2>3, <2>4, TypeParts
<1>10. ASSUME NEW o \in Owner, BatchApplied(o) PROVE TypeOK'
  <2>1. /\ doc' = Over(doc, batch[o]) /\ local' = Over(local, batch[o])
        /\ batch' = [batch EXCEPT ![o] = NoOps]
        /\ UNCHANGED <<mode, first, last, pc, todo, before, history, backend, target, handle,
                       base, pending, lost, fails>>
    BY <1>10 DEF BatchApplied
  <2>2. doc' \in Docs /\ local' \in Docs
    BY <1>a, <2>1, OverType DEF StoreType, OpsType
  <2>3. OpsType'
    BY <1>a, <2>1, NoOpsType DEF OpsType
  <2>4. StoreType' /\ OwnerType' /\ HistoryType' /\ BackendType'
    BY <1>a, <2>1, <2>2 DEF StoreType, OwnerType, HistoryType, BackendType, history, backend
  <2> QED
    BY <2>3, <2>4, TypeParts
<1>11. ASSUME NEW o \in Owner, BatchFailed(o) PROVE TypeOK'
  <2>1. /\ Fails(o)
        /\ batch' = [batch EXCEPT ![o] = NoOps]
        /\ GiveUp(o, Over(local, before[o]))
        /\ UNCHANGED <<mode, first, last, todo, before, entry, undoStack, redoStack, chain, handle,
                       base, pending, lost>>
    BY <1>11 DEF BatchFailed
  <2>2. PICK S \in SUBSET DOMAIN batch[o] : doc' = Over(doc, Only(batch[o], S))
    BY <1>11 DEF BatchFailed
  <2>3. doc' \in Docs
    <3>1. batch[o] \in Ops /\ doc \in Docs
      BY <1>a DEF OpsType, StoreType
    <3> QED
      BY <2>2, <3>1, OnlyType, OverType
  <2>4. Over(local, before[o]) \in Docs /\ handle' \in [Owner -> {"none", "open", "dropped", "ended"}]
    BY <1>a, <2>1, OverType DEF StoreType, OpsType, OwnerType
  <2>5. /\ OwnerType' /\ open' \in Owner \union {Nobody}
        /\ local' \in Docs /\ replaying' \in BOOLEAN
    BY <1>a, <2>1, <2>4, GiveUpType
  <2>6. OpsType'
    BY <1>a, <2>1, NoOpsType DEF OpsType
  <2>7. StoreType' /\ HistoryType' /\ BackendType'
    BY <1>a, <1>e, <2>1, <2>3, <2>5 DEF StoreType, HistoryType, BackendType
  <2> QED
    BY <2>5, <2>6, <2>7, TypeParts
<1>12. ASSUME NEW o \in Owner, EndCommit(o) PROVE TypeOK'
  <2>a. UNCHANGED <<mode, store, todo, batch, before, chain, handle, kicad>>
    BY <1>12 DEF EndCommit
  <2>1. CASE open = Nobody
    <3>1. Succeed(o) /\ UNCHANGED <<open, target>>
      BY <1>12, <2>1 DEF EndCommit
    <3>2. OwnerType' /\ HistoryType'
      BY <1>12, <1>a, <2>a, <3>1, SucceedType DEF OwnerType, EndCommit
    <3>3. StoreType' /\ OpsType' /\ BackendType'
      BY <1>a, <2>a, <3>1 DEF StoreType, OpsType, BackendType, store, kicad
    <3> QED
      BY <3>2, <3>3, TypeParts
  <2>2. CASE open # Nobody
    <3>1. /\ To(o, "ending") /\ open' = Nobody
          /\ target' = [target EXCEPT ![o] = open]
          /\ UNCHANGED history
      BY <1>12, <2>2 DEF EndCommit
    <3>2. OwnerType'
      BY <1>a, <1>d, <2>a, <2>2, <3>1 DEF OwnerType, BackendType
    <3>3. StoreType' /\ OpsType' /\ HistoryType' /\ BackendType'
      BY <1>a, <2>a, <3>1 DEF StoreType, OpsType, HistoryType, BackendType, store, history, kicad
    <3> QED
      BY <3>2, <3>3, TypeParts
  <2> QED
    BY <2>1, <2>2
<1>13. ASSUME NEW o \in Owner, Pushed(o) PROVE TypeOK'
  <2>1. /\ pending' = Nobody
        /\ handle' = [handle EXCEPT ![target[o]] = "ended"]
        /\ Release(target[o]) /\ Succeed(o)
        /\ UNCHANGED <<mode, store, todo, batch, before, open, target, doc, base, lost, fails>>
    BY <1>13 DEF Pushed
  <2>2. OwnerType' /\ HistoryType'
    BY <1>13, <1>a, <2>1, SucceedType DEF OwnerType, Pushed
  <2>3. chain' \in Seq(Owner)
    BY <1>a, <2>1, ReleaseType DEF BackendType
  <2>4. StoreType' /\ OpsType' /\ BackendType'
    BY <1>a, <2>1, <2>3 DEF StoreType, OpsType, BackendType, store
  <2> QED
    BY <2>2, <2>4, TypeParts
<1>14. ASSUME NEW o \in Owner, PushFailed(o) PROVE TypeOK'
  <2>1. /\ Fails(o)
        /\ handle' = [handle EXCEPT ![target[o]] = "ended"]
        /\ Release(target[o]) /\ GiveUp(o, local)
        /\ UNCHANGED <<mode, first, last, todo, batch, before, entry, undoStack, redoStack, base>>
    BY <1>14 DEF PushFailed
  <2>2. /\ pending' \in {target[o], Nobody} /\ lost' \in BOOLEAN /\ doc' \in Docs
    BY <1>14, <1>a DEF PushFailed, StoreType, BackendType
  <2>3. local \in Docs /\ handle' \in [Owner -> {"none", "open", "dropped", "ended"}]
    BY <1>a, <2>1 DEF StoreType, OwnerType
  <2>4. /\ OwnerType' /\ open' \in Owner \union {Nobody}
        /\ local' \in Docs /\ replaying' \in BOOLEAN
    BY <1>a, <2>1, <2>3, GiveUpType
  <2>5. chain' \in Seq(Owner) /\ target[o] \in Owner \union {Nobody} /\ fails' \in 0..MaxFail
    BY <1>a, <1>e, <2>1, ReleaseType DEF BackendType, OwnerType
  <2>6. StoreType' /\ OpsType' /\ HistoryType' /\ BackendType'
    BY <1>a, <2>1, <2>2, <2>4, <2>5 DEF StoreType, OpsType, HistoryType, BackendType
  <2> QED
    BY <2>4, <2>6, TypeParts
<1>15. ASSUME NEW o \in Owner, DropServed(o) PROVE TypeOK'
  <2>1. /\ handle' = [handle EXCEPT ![target[o]] = "dropped"]
        /\ UNCHANGED <<mode, store, pc, todo, batch, before, history, backend, target, base>>
    BY <1>15 DEF DropServed
  <2>2. /\ pending' \in {target[o], Nobody} /\ lost' \in BOOLEAN /\ doc' \in Docs
        /\ fails' \in 0..MaxFail
    BY <1>15, <1>a, <1>e DEF DropServed, StoreType, BackendType
  <2>3. StoreType' /\ OwnerType' /\ OpsType' /\ HistoryType' /\ BackendType'
    BY <1>a, <2>1, <2>2 DEF StoreType, OwnerType, OpsType, HistoryType, BackendType, store, history, backend
  <2> QED
    BY <2>3, TypeParts
<1>16. ASSUME NEW o \in Owner, DropReturns(o) PROVE TypeOK'
  <2>1. /\ handle' = [handle EXCEPT ![target[o]] = "ended"]
        /\ Release(target[o])
        /\ UNCHANGED <<mode, store, todo, batch, before, history, open, target, kicad>>
    BY <1>16 DEF DropReturns
  <2>2. To(o, "returned") \/ To(o, "dropped") \/ To(o, "failed")
    BY <1>16 DEF DropReturns, Discards
  <2>3. {"returned", "dropped", "failed"} \subseteq Places
    BY DEF Places, Quiet
  <2>4. OwnerType'
    BY <1>a, <1>d, <2>1, <2>2, <2>3 DEF OwnerType
  <2>5. chain' \in Seq(Owner)
    BY <1>a, <2>1, ReleaseType DEF BackendType
  <2>6. StoreType' /\ OpsType' /\ HistoryType' /\ BackendType'
    BY <1>a, <2>1, <2>5 DEF StoreType, OpsType, HistoryType, BackendType, store, history, kicad
  <2> QED
    BY <2>4, <2>6, TypeParts
<1>17. ASSUME NEW u \in mode.undoers, Undo(u) PROVE TypeOK'
  <2>1. /\ replaying' = TRUE /\ To(u, "waiting") /\ chain' = Append(chain, u)
        /\ UNCHANGED <<mode, store, batch, before, open, target, handle, kicad>>
    BY <1>17 DEF Undo
  <2>2. PICK e \in Entry, redo \in BOOLEAN :
          /\ entry' = [entry EXCEPT ![u] = [entry |-> e, redo |-> redo]]
          /\ todo' = [todo EXCEPT ![u] = IF redo THEN e.fwd ELSE e.inv]
          /\ undoStack' \in Seq(Entry) /\ redoStack' \in Seq(Entry)
    <3>1. CASE /\ undoStack # <<>>
               /\ undoStack' = SubSeq(undoStack, 1, Len(undoStack) - 1) /\ UNCHANGED redoStack
               /\ LET e == undoStack[Len(undoStack)] IN
                  /\ entry' = [entry EXCEPT ![u] = [entry |-> e, redo |-> FALSE]]
                  /\ todo' = [todo EXCEPT ![u] = e.inv]
      <4>1. /\ undoStack \in Seq(Entry) /\ redoStack \in Seq(Entry)
        BY <1>a DEF HistoryType
      <4>2. SubSeq(undoStack, 1, Len(undoStack) - 1) \in Seq(Entry) /\ undoStack[Len(undoStack)] \in Entry
        BY <3>1, <4>1, StackTypes
      <4> QED
        BY <3>1, <4>1, <4>2
    <3>2. CASE /\ redoStack # <<>>
               /\ redoStack' = SubSeq(redoStack, 1, Len(redoStack) - 1) /\ UNCHANGED undoStack
               /\ LET e == redoStack[Len(redoStack)] IN
                  /\ entry' = [entry EXCEPT ![u] = [entry |-> e, redo |-> TRUE]]
                  /\ todo' = [todo EXCEPT ![u] = e.fwd]
      <4>1. /\ undoStack \in Seq(Entry) /\ redoStack \in Seq(Entry)
        BY <1>a DEF HistoryType
      <4>2. SubSeq(redoStack, 1, Len(redoStack) - 1) \in Seq(Entry) /\ redoStack[Len(redoStack)] \in Entry
        BY <3>2, <4>1, StackTypes
      <4> QED
        BY <3>2, <4>1, <4>2
    <3> QED
      BY <1>17, <3>1, <3>2 DEF Undo
  <2>3. e.fwd \in Ops /\ e.inv \in Ops /\ [entry |-> e, redo |-> redo] \in Replay
    BY EntryType DEF Replay
  <2>4. u \in Undoer /\ u \in Owner
    BY <1>b DEF Owner
  <2>5. HistoryType' /\ OpsType'
    BY <1>a, <2>1, <2>2, <2>3, <2>4 DEF HistoryType, OpsType
  <2>6. chain' \in Seq(Owner) /\ OwnerType'
    BY <1>a, <1>d, <2>1, <2>4, AppendProperties DEF BackendType, OwnerType
  <2>7. StoreType' /\ BackendType'
    BY <1>a, <2>1, <2>6 DEF StoreType, BackendType, store, kicad
  <2> QED
    BY <2>5, <2>6, <2>7, TypeParts
<1>18. ASSUME NEW t \in Tx, NEW i \in mode.items, NEW v \in Value, Record(t, i, v) PROVE TypeOK'
  <2>1. /\ local' = [local EXCEPT ![i] = v] /\ doc' = [doc EXCEPT ![i] = v]
        /\ base' = [base EXCEPT ![i] = v]
        /\ PushHistory([fwd |-> [j \in {i} |-> v], inv |-> [j \in {i} |-> Absent]])
        /\ To(t, "committed")
        /\ UNCHANGED <<mode, first, last, todo, batch, before, replaying, entry, backend, target, handle,
                       pending, lost, fails>>
    BY <1>18 DEF Record
  <2>2. {i} \in SUBSET Item /\ v \in Content /\ Absent \in Content
    BY <1>b DEF Content
  <2>3. [j \in {i} |-> v] \in Ops /\ [j \in {i} |-> Absent] \in Ops
    <3>1. [j \in {i} |-> v] \in [{i} -> Content] /\ [j \in {i} |-> Absent] \in [{i} -> Content]
      BY <2>2
    <3> QED
      BY <2>2, <3>1, OpsFrom
  <2>4. [fwd |-> [j \in {i} |-> v], inv |-> [j \in {i} |-> Absent]] \in Entry
    BY <2>3 DEF Entry
  <2>5. HistoryType'
    BY <1>a, <2>1, <2>4, PushType DEF HistoryType
  <2>6. local' \in Docs /\ doc' \in Docs /\ base' \in Docs
    BY <1>a, <2>1, <2>2 DEF StoreType, Docs
  <2>7. StoreType' /\ OwnerType' /\ OpsType' /\ BackendType'
    BY <1>a, <1>c, <1>d, <2>1, <2>6 DEF StoreType, OwnerType, OpsType, BackendType, backend
  <2> QED
    BY <2>5, <2>7, TypeParts
<1>19. CASE ClearHistory
  <2>1. HistoryType'
    BY <1>19, <1>a DEF ClearHistory, HistoryType
  <2>2. StoreType' /\ OwnerType' /\ OpsType' /\ BackendType'
    BY <1>19, <1>a DEF ClearHistory, StoreType, OwnerType, OpsType, BackendType, store, backend, kicad
  <2> QED
    BY <2>1, <2>2, TypeParts
<1> QED
  BY <1>1, <1>2, <1>3, <1>4, <1>5, <1>6, <1>7, <1>8, <1>9, <1>10, <1>11, <1>12, <1>13, <1>14,
     <1>15, <1>16, <1>17, <1>18, <1>19 DEF Next, Running

LEMMA EntryStays == TypeOK /\ EntryKnown /\ [Next]_vars => EntryKnown'
<1> SUFFICES ASSUME TypeOK, EntryKnown, [Next]_vars PROVE EntryKnown'
  OBVIOUS
<1>a. /\ pc \in [Owner -> Places] /\ entry \in [Undoer -> Replay]
      /\ undoStack \in Seq(Entry) /\ redoStack \in Seq(Entry)
      /\ mode.undoers \subseteq Undoer /\ Undoer \subseteq Owner /\ Tx \subseteq Owner
      /\ Tx \intersect Undoer = {}
  BY TypeParts, CommandAssumption DEF OwnerType, HistoryType, BackendType, Owner
<1>1. CASE UNCHANGED vars
  BY <1>1 DEF vars, history, EntryKnown
<1>2. CASE \E t \in Tx : Begin(t) \/ Commit(t) \/ Drop(t)
  <2>1. UNCHANGED entry /\ \A u \in Undoer : pc'[u] = pc[u]
    BY <1>2, <1>a DEF Begin, Commit, Drop, EndDrop, To, history
  <2> QED
    BY <2>1 DEF EntryKnown
<1>3. CASE \E t \in Tx, i \in mode.items, v \in Content : Edit(t, i, v)
  BY <1>3 DEF Edit, history, EntryKnown
<1>4. ASSUME NEW o \in Owner, Running(o) PROVE EntryKnown'
  <2>1. pc[o] # "idle"
    BY <1>4 DEF Running, BeginCommit, BeginRefused, SendBatch, EditRejected, BatchApplied, BatchFailed,
       EndCommit, Pushed, PushFailed, DropServed, DropReturns, Discards
  <2>2. \A u \in Undoer \ {o} : pc'[u] = pc[u]
    BY <1>4, <1>a DEF Running, BeginCommit, BeginRefused, SendBatch, EditRejected, BatchApplied, BatchFailed,
       EndCommit, Pushed, PushFailed, DropServed, DropReturns, Succeed, GiveUp, EndDrop, To
  <2>3. UNCHANGED entry
    BY <1>4 DEF Running, BeginCommit, BeginRefused, SendBatch, EditRejected, BatchApplied, BatchFailed,
       EndCommit, Pushed, PushFailed, DropServed, DropReturns, Succeed, history
  <2> QED
    BY <2>1, <2>2, <2>3 DEF EntryKnown
<1>5. ASSUME NEW u \in mode.undoers, Undo(u) PROVE EntryKnown'
  <2>1. PICK e \in Entry, redo \in BOOLEAN : entry' = [entry EXCEPT ![u] = [entry |-> e, redo |-> redo]]
    <3>1. undoStack # <<>> => undoStack[Len(undoStack)] \in Entry
      BY <1>a, StackTypes
    <3>2. redoStack # <<>> => redoStack[Len(redoStack)] \in Entry
      BY <1>a, StackTypes
    <3>3. \/ /\ undoStack # <<>>
             /\ entry' = [entry EXCEPT ![u] = [entry |-> undoStack[Len(undoStack)], redo |-> FALSE]]
          \/ /\ redoStack # <<>>
             /\ entry' = [entry EXCEPT ![u] = [entry |-> redoStack[Len(redoStack)], redo |-> TRUE]]
      BY <1>5 DEF Undo
    <3>4. CASE /\ undoStack # <<>>
               /\ entry' = [entry EXCEPT ![u] = [entry |-> undoStack[Len(undoStack)], redo |-> FALSE]]
      <4>1. undoStack[Len(undoStack)] \in Entry /\ FALSE \in BOOLEAN
        BY <3>1, <3>4
      <4> QED
        BY <3>4, <4>1
    <3>5. CASE /\ redoStack # <<>>
               /\ entry' = [entry EXCEPT ![u] = [entry |-> redoStack[Len(redoStack)], redo |-> TRUE]]
      <4>1. redoStack[Len(redoStack)] \in Entry /\ TRUE \in BOOLEAN
        BY <3>2, <3>5
      <4> QED
        BY <3>5, <4>1
    <3> QED
      BY <3>3, <3>4, <3>5
  <2>2. \A v \in Undoer \ {u} : pc'[v] = pc[v] /\ entry'[v] = entry[v]
    BY <1>5, <1>a, <2>1 DEF Undo, To
  <2>3. entry'[u] \in [entry : Entry, redo : BOOLEAN]
    BY <1>a, <2>1
  <2> QED
    BY <2>2, <2>3 DEF EntryKnown
<1>6. CASE \E t \in Tx, i \in mode.items, v \in Value : Record(t, i, v)
  <2>1. UNCHANGED entry /\ \A u \in Undoer : pc'[u] = pc[u]
    BY <1>6, <1>a DEF Record, To
  <2> QED
    BY <2>1 DEF EntryKnown
<1>7. CASE ClearHistory
  BY <1>7 DEF ClearHistory, EntryKnown
<1> QED
  BY <1>1, <1>2, <1>3, <1>4, <1>5, <1>6, <1>7 DEF Next

\* The service, its transactions and KiCad stay within their types: what a transaction
\* remembers to send and to restore has the same items (CommandService.ts:148-158).
THEOREM TypeCorrect == Spec => []TypeOK
<1>1. Init => EntryKnown
  BY DEF Init, EntryKnown, Owner
<1> QED
  BY <1>1, InitType, NextType, EntryStays, PTL DEF Spec
-----------------------------------------------------------------------------
(* One commit at a time. *)

\* Who holds an open commit, or one that is being dropped, is first in the chain; so
\* there is one at most, and KiCad has no other open unless it was lost.
HeldInv ==
  /\ \A o \in Owner : pc[o] \in {"idle", "editing", "waiting"} => handle[o] = "none"
  /\ \A o \in Owner : handle[o] \in {"open", "dropped"} => Turn(o)
  /\ open # Nobody => handle[open] = "open"
  /\ pending # Nobody /\ ~lost => handle[pending] = "open"

\* One call of end() is at work at most, on a commit that is filed no longer.
EndInv ==
  /\ \A p \in Owner : Ends(p) => /\ target[p] \in Owner /\ handle[target[p]] \in {"open", "dropped"}
                                 /\ open = Nobody
  /\ \A p \in Owner : pc[p] = "ending" => handle[target[p]] = "open"
  /\ \A p, q \in Owner : Ends(p) /\ Ends(q) => p = q

Done == {"committed", "dropped", "failed", "returned"}

LEMMA OneHolder ==
  ASSUME HeldInv, NEW o \in Owner, NEW p \in Owner,
         handle[o] \in {"open", "dropped"}, handle[p] \in {"open", "dropped"} \/ Turn(p)
  PROVE  o = p
BY DEF HeldInv, Turn

\* end('drop') of a transaction that is not waiting for one already.
LEMMA EndDropKeeps ==
  ASSUME OwnerType, BackendType, HeldInv, EndInv, NEW o \in Owner, ~Ends(o),
         NEW awaits \in {"dropping", "discarding", "cleaning"}, NEW result \in Done,
         EndDrop(o, awaits, result), UNCHANGED <<handle, chain, pending, lost>>
  PROVE  HeldInv' /\ EndInv'
<1>1. /\ pc'[o] \in {awaits, result}
      /\ \A p \in Owner \ {o} : pc'[p] = pc[p]
      /\ open' = Nobody
  BY DEF EndDrop, To, OwnerType
<1>2. HeldInv'
  BY <1>1 DEF HeldInv, Turn, Done
<1>3. CASE open = Nobody
  <2>1. pc'[o] = result /\ UNCHANGED target
    BY <1>3 DEF EndDrop, To, OwnerType
  <2>2. EndInv'
    BY <1>1, <2>1 DEF EndInv, Ends, Discards, Done
  <2> QED
    BY <1>2, <2>2
<1>4. CASE open # Nobody
  <2>1. target'[o] = open /\ pc'[o] = awaits /\ \A p \in Owner : ~Ends(p)
    BY <1>4 DEF EndDrop, OwnerType, To, EndInv
  <2>2. handle[open] = "open" /\ open \in Owner
    BY <1>4 DEF HeldInv, BackendType
  <2>3. EndInv'
    BY <1>1, <2>1, <2>2 DEF EndInv, Ends, Discards
  <2> QED
    BY <1>2, <2>3
<1> QED
  BY <1>3, <1>4

\* A call of end() is over: nobody holds a commit any more.
LEMMA EndedKeeps ==
  ASSUME OwnerType, BackendType, HeldInv, EndInv, NEW o \in Owner, Ends(o), NEW result \in Done,
         To(o, result), handle' = [handle EXCEPT ![target[o]] = "ended"], UNCHANGED <<open, target>>,
         \/ pending' = Nobody \/ lost'
         \/ handle[target[o]] = "dropped" /\ UNCHANGED <<pending, lost>>
  PROVE  HeldInv' /\ EndInv'
<1>1. target[o] \in Owner /\ handle[target[o]] \in {"open", "dropped"} /\ open = Nobody
  BY DEF EndInv
<1>2. \A p \in Owner : handle'[p] \notin {"open", "dropped"}
  BY <1>1, OneHolder DEF OwnerType
<1>3. \A p \in Owner : ~Ends(p)'
  BY DEF EndInv, Ends, Discards, To, OwnerType, Done
<1>4. pending' = Nobody \/ lost'
  BY <1>1, OneHolder DEF HeldInv, BackendType
<1>5. \A p \in Owner : pc'[p] \in {"idle", "editing", "waiting"} => pc'[p] = pc[p] /\ handle[p] = "none"
  BY DEF HeldInv, To, OwnerType, Done
<1>6. HeldInv'
  BY <1>1, <1>2, <1>4, <1>5 DEF HeldInv, OwnerType
<1>7. EndInv'
  BY <1>3 DEF EndInv, Ends
<1> QED
  BY <1>6, <1>7

\* A step of which neither end() nor KiCad is part.
LEMMA AsideKeeps ==
  ASSUME OwnerType, BackendType, HeldInv, EndInv, NEW o \in Owner, ~Ends(o), NEW l, To(o, l),
         l \in Done \union {"editing"}, l = "editing" => handle[o] = "none",
         UNCHANGED <<handle, chain, open, target, pending, lost>>
  PROVE  HeldInv' /\ EndInv'
<1>1. pc'[o] = l /\ \A p \in Owner \ {o} : pc'[p] = pc[p]
  BY DEF To, OwnerType
<1>2. HeldInv'
  BY <1>1 DEF HeldInv, Turn, Done
<1>3. EndInv'
  BY <1>1 DEF EndInv, Ends, Discards, Done
<1> QED
  BY <1>2, <1>3

LEMMA GiveUpKeeps ==
  ASSUME OwnerType, BackendType, HeldInv, EndInv, NEW o \in Owner, ~Ends(o), NEW f, GiveUp(o, f),
         UNCHANGED <<handle, chain, pending, lost>>
  PROVE  HeldInv' /\ EndInv'
<1>1. CASE o \in Tx
  <2>1. EndDrop(o, "cleaning", "failed") /\ "failed" \in Done
    BY <1>1 DEF GiveUp, Done
  <2> QED
    BY <2>1, EndDropKeeps
<1>2. CASE o \notin Tx
  <2>1. To(o, "failed") /\ UNCHANGED <<open, target>> /\ "failed" \in Done
    BY <1>2 DEF GiveUp, Done
  <2> QED
    BY <2>1, AsideKeeps
<1> QED
  BY <1>1, <1>2

\* Joining the chain.
LEMMA JoinKeeps ==
  ASSUME OwnerType, BackendType, HeldInv, EndInv, NEW o \in Owner, pc[o] \in {"idle", "editing"},
         To(o, "waiting"), chain' = Append(chain, o),
         UNCHANGED <<handle, open, target, pending, lost>>
  PROVE  HeldInv' /\ EndInv'
<1>1. pc'[o] = "waiting" /\ \A p \in Owner \ {o} : pc'[p] = pc[p]
  BY DEF To, OwnerType
<1>2. \A p \in Owner : Turn(p) => Turn(p)'
  <2>1. chain # <<>> => chain'[1] = chain[1] /\ chain' # <<>>
    BY AppendProperties, LenProperties, EmptySeq DEF BackendType
  <2> QED
    BY <2>1 DEF Turn
<1>3. HeldInv'
  BY <1>1, <1>2 DEF HeldInv
<1>4. EndInv'
  BY <1>1 DEF EndInv, Ends, Discards
<1> QED
  BY <1>3, <1>4

LEMMA HeldStep == TypeOK /\ HeldInv /\ EndInv /\ [Next]_vars => HeldInv' /\ EndInv'
<1> SUFFICES ASSUME TypeOK, HeldInv, EndInv, [Next]_vars PROVE HeldInv' /\ EndInv'
  OBVIOUS
<1>a. OwnerType /\ BackendType /\ mode.undoers \subseteq Undoer /\ Undoer \subseteq Owner /\ Tx \subseteq Owner
  BY TypeParts, CommandAssumption DEF BackendType, Owner
<1>b. \A o \in Owner : pc[o] \in {"idle", "editing", "waiting", "applying"} => ~Ends(o)
  BY DEF Ends, Discards
<1>c. "returned" \in Done /\ "dropped" \in Done /\ "failed" \in Done /\ "committed" \in Done
  BY DEF Done
<1>1. CASE UNCHANGED vars
  BY <1>1 DEF vars, backend, kicad, HeldInv, EndInv, Turn, Ends, Discards
<1>2. ASSUME NEW t \in Tx, Begin(t) PROVE HeldInv' /\ EndInv'
  BY <1>2, <1>a, <1>b, AsideKeeps DEF Begin, backend, kicad, HeldInv
<1>3. ASSUME NEW t \in Tx, Commit(t) PROVE HeldInv' /\ EndInv'
  <2>1. CASE Changed(t) = {}
    BY <1>3, <2>1, <1>a, <1>b, <1>c, EndDropKeeps DEF Commit, kicad
  <2>2. CASE Changed(t) # {}
    BY <1>3, <2>2, <1>a, JoinKeeps DEF Commit, kicad
  <2> QED
    BY <2>1, <2>2
<1>4. ASSUME NEW t \in Tx, Drop(t) PROVE HeldInv' /\ EndInv'
  BY <1>4, <1>a, <1>b, <1>c, EndDropKeeps DEF Drop, kicad
<1>5. CASE \E t \in Tx, i \in mode.items, v \in Content : Edit(t, i, v)
  BY <1>5 DEF Edit, backend, kicad, HeldInv, EndInv, Turn, Ends, Discards
<1>6. ASSUME NEW o \in Owner, BeginCommit(o) PROVE HeldInv' /\ EndInv'
  <2>1. /\ pending' = o /\ open' = o /\ Turn(o) /\ pc[o] = "waiting"
        /\ handle' = [handle EXCEPT ![o] = "open"] /\ To(o, "applying")
        /\ UNCHANGED <<chain, target, lost>>
    BY <1>6 DEF BeginCommit
  <2>2. \A p \in Owner : handle[p] \notin {"open", "dropped"}
    BY <2>1, OneHolder DEF HeldInv
  <2>3. \A p \in Owner : ~Ends(p)' /\ (p # o => handle'[p] = handle[p] /\ pc'[p] = pc[p])
    BY <1>a, <2>1, <2>2 DEF EndInv, OwnerType, To, Ends, Discards
  <2>4. handle'[o] = "open" /\ pc'[o] = "applying"
    BY <1>a, <2>1 DEF OwnerType, To
  <2>5. HeldInv'
    BY <2>1, <2>2, <2>3, <2>4 DEF HeldInv, Turn
  <2>6. EndInv'
    BY <2>3 DEF EndInv, Ends
  <2> QED
    BY <2>5, <2>6
<1>7. ASSUME NEW o \in Owner, BeginRefused(o) PROVE HeldInv' /\ EndInv'
  <2>1. /\ Turn(o) /\ pc[o] = "waiting" /\ GiveUp(o, local)
        /\ UNCHANGED <<handle, pending, lost>>
    BY <1>7 DEF BeginRefused
  <2>2. \A p \in Owner : handle[p] \notin {"open", "dropped"}
    BY <2>1, OneHolder DEF HeldInv
  <2>3. open = Nobody /\ (pending = Nobody \/ lost) /\ \A p \in Owner : ~Ends(p)
    BY <1>a, <2>2 DEF HeldInv, EndInv, BackendType
  <2>4. To(o, "failed") /\ UNCHANGED open
    BY <2>1, <2>3 DEF GiveUp, EndDrop
  <2>5. pc'[o] = "failed" /\ \A p \in Owner \ {o} : pc'[p] = pc[p]
    BY <1>a, <2>4 DEF OwnerType, To
  <2>6. HeldInv'
    BY <2>1, <2>2, <2>3, <2>4, <2>5 DEF HeldInv
  <2>7. \A p \in Owner : ~Ends(p)'
    BY <2>3, <2>5 DEF Ends, Discards
  <2> QED
    BY <2>6, <2>7 DEF EndInv, Ends
<1>8. CASE \E o \in Owner : SendBatch(o) \/ BatchApplied(o)
  BY <1>8 DEF SendBatch, BatchApplied, backend, kicad, HeldInv, EndInv, Turn, Ends, Discards
<1>9. ASSUME NEW o \in Owner, EditRejected(o) PROVE HeldInv' /\ EndInv'
  BY <1>9, <1>a, <1>b, GiveUpKeeps DEF EditRejected, kicad
<1>10. ASSUME NEW o \in Owner, BatchFailed(o) PROVE HeldInv' /\ EndInv'
  <2>1. /\ pc[o] = "applying" /\ GiveUp(o, Over(local, before[o]))
        /\ UNCHANGED <<handle, chain, pending, lost>>
    BY <1>10 DEF BatchFailed
  <2> QED
    BY <1>a, <1>b, <2>1, GiveUpKeeps
<1>11. ASSUME NEW o \in Owner, EndCommit(o) PROVE HeldInv' /\ EndInv'
  <2>1. CASE open = Nobody
    BY <1>11, <2>1, <1>a, <1>b, <1>c, AsideKeeps DEF EndCommit, Succeed, kicad
  <2>2. CASE open # Nobody
    <3>1. /\ To(o, "ending") /\ open' = Nobody /\ target' = [target EXCEPT ![o] = open]
          /\ UNCHANGED <<handle, chain, pending, lost>>
      BY <1>11, <2>2 DEF EndCommit, kicad
    <3>2. /\ pc'[o] = "ending" /\ target'[o] = open
          /\ \A p \in Owner \ {o} : pc'[p] = pc[p]
      BY <1>a, <3>1 DEF To, OwnerType
    <3>3. open \in Owner /\ handle[open] = "open" /\ \A p \in Owner : ~Ends(p)
      BY <1>a, <2>2 DEF HeldInv, EndInv, BackendType
    <3>4. HeldInv'
      BY <3>1, <3>2 DEF HeldInv, Turn
    <3>5. \A p \in Owner : Ends(p)' => p = o
      BY <3>2, <3>3 DEF Ends, Discards
    <3>6. EndInv'
      BY <3>1, <3>2, <3>3, <3>5 DEF EndInv, Ends
    <3> QED
      BY <3>4, <3>6
  <2> QED
    BY <2>1, <2>2
<1>12. ASSUME NEW o \in Owner, Pushed(o) PROVE HeldInv' /\ EndInv'
  BY <1>12, <1>a, <1>c, EndedKeeps DEF Pushed, Succeed, Ends
<1>13. ASSUME NEW o \in Owner, PushFailed(o) PROVE HeldInv' /\ EndInv'
  <2>1. open = Nobody /\ Ends(o)
    BY <1>13 DEF PushFailed, EndInv, Ends
  <2>2. To(o, "failed") /\ UNCHANGED <<open, target>>
    BY <1>13, <2>1 DEF PushFailed, GiveUp, EndDrop
  <2>3. handle' = [handle EXCEPT ![target[o]] = "ended"] /\ (pending' = Nobody \/ lost')
    BY <1>13 DEF PushFailed
  <2> QED
    BY <1>a, <1>c, <2>1, <2>2, <2>3, EndedKeeps
<1>14. ASSUME NEW o \in Owner, DropServed(o) PROVE HeldInv' /\ EndInv'
  <2>1. /\ Discards(o) /\ handle[target[o]] = "open"
        /\ handle' = [handle EXCEPT ![target[o]] = "dropped"]
        /\ pending' = Nobody \/ lost'
        /\ UNCHANGED <<pc, chain, open, target>>
    BY <1>14 DEF DropServed, backend
  <2>2. /\ target[o] \in Owner /\ open = Nobody
        /\ \A p \in Owner : Ends(p) => p = o
    BY <2>1 DEF EndInv, Ends
  <2>3. /\ handle'[target[o]] = "dropped"
        /\ \A p \in Owner \ {target[o]} : handle'[p] = handle[p]
    BY <1>a, <2>1, <2>2 DEF OwnerType
  <2>4. HeldInv'
    BY <2>1, <2>2, <2>3 DEF HeldInv, Turn
  <2>5. pc[o] # "ending"
    BY <2>1 DEF Discards
  <2>6. EndInv'
    BY <2>1, <2>2, <2>3, <2>5 DEF EndInv, Ends, Discards
  <2> QED
    BY <2>4, <2>6
<1>15. ASSUME NEW o \in Owner, DropReturns(o) PROVE HeldInv' /\ EndInv'
  <2>1. /\ Ends(o) /\ handle[target[o]] = "dropped"
        /\ handle' = [handle EXCEPT ![target[o]] = "ended"]
        /\ UNCHANGED <<open, target, pending, lost>>
    BY <1>15 DEF DropReturns, Ends, kicad
  <2>2. To(o, "returned") \/ To(o, "dropped") \/ To(o, "failed")
    BY <1>15 DEF DropReturns, Discards
  <2> QED
    BY <1>a, <1>c, <2>1, <2>2, EndedKeeps
<1>16. ASSUME NEW u \in mode.undoers, Undo(u) PROVE HeldInv' /\ EndInv'
  BY <1>16, <1>a, JoinKeeps DEF Undo, kicad
<1>17. ASSUME NEW t \in Tx, NEW i \in mode.items, NEW v \in Value, Record(t, i, v) PROVE HeldInv' /\ EndInv'
  <2>1. /\ pc[t] = "idle" /\ To(t, "committed")
        /\ UNCHANGED <<handle, chain, open, target, pending, lost>>
    BY <1>17 DEF Record, backend
  <2> QED
    BY <1>a, <1>b, <1>c, <2>1, AsideKeeps
<1>18. CASE ClearHistory
  BY <1>18 DEF ClearHistory, backend, kicad, HeldInv, EndInv, Turn, Ends, Discards
<1> QED
  BY <1>1, <1>2, <1>3, <1>4, <1>5, <1>6, <1>7, <1>8, <1>9, <1>10, <1>11, <1>12, <1>13, <1>14,
     <1>15, <1>16, <1>17, <1>18 DEF Next, Running

LEMMA HeldInvariant == Spec => [](TypeOK /\ HeldInv /\ EndInv)
<1>1. Init => HeldInv /\ EndInv
  BY CommandAssumption DEF Init, HeldInv, EndInv, Ends, Discards
<1> QED
  BY <1>1, HeldStep, TypeCorrect, PTL DEF Spec

\* KicadCommitBackend.ts:40: "KiCad allows one open commit per client, so transactions
\* are serialised". Who comes first in the chain finds no commit of this client open,
\* whoever failed or ended whose commit, unless KiCad itself failed to end one.
THEOREM TurnsAreFree == Spec => []TurnIsFree
<1>1. TypeOK /\ HeldInv /\ EndInv => TurnIsFree
  <2> SUFFICES ASSUME TypeOK, HeldInv, NEW o \in Owner, pc[o] = "waiting", Turn(o), pending # Nobody, ~lost
               PROVE  FALSE
    BY DEF TurnIsFree
  <2>1. pending \in Owner /\ handle[pending] = "open"
    BY TypeParts DEF BackendType, HeldInv
  <2>2. pending = o
    BY <2>1, OneHolder
  <2> QED
    BY <2>1, <2>2 DEF HeldInv
<1> QED
  BY <1>1, HeldInvariant, PTL
-----------------------------------------------------------------------------
(* Nobody leaves a commit open. *)

LEMMA AsideEnds ==
  ASSUME OwnerType, NoOrphan, NEW o \in Owner, ~Ends(o), NEW l, To(o, l),
         pc[o] = "applying" => handle[o] # "open",
         UNCHANGED <<handle, open, target>>
  PROVE  NoOrphan'
<1>1. \A p \in Owner \ {o} : pc'[p] = pc[p]
  BY DEF To, OwnerType
<1>2. \A p \in Owner : Ends(p) => Ends(p)'
  BY <1>1 DEF Ends, Discards
<1> QED
  BY <1>1, <1>2 DEF NoOrphan

LEMMA EndDropEnds ==
  ASSUME OwnerType, BackendType, HeldInv, NoOrphan, NEW o \in Owner, ~Ends(o),
         NEW awaits \in {"dropping", "discarding", "cleaning"}, NEW result,
         EndDrop(o, awaits, result), UNCHANGED handle
  PROVE  NoOrphan'
<1>1. open = Nobody => \A p \in Owner : handle[p] = "open" => \E q \in Owner \ {o} : Ends(q) /\ target[q] = p
  BY CommandAssumption DEF NoOrphan
<1>2. CASE open = Nobody
  <2>1. \A q \in Owner \ {o} : Ends(q) => Ends(q)' /\ target'[q] = target[q]
    BY <1>2 DEF EndDrop, To, OwnerType, Ends, Discards
  <2> QED
    BY <1>1, <1>2, <2>1 DEF NoOrphan
<1>3. CASE open # Nobody
  <2>1. open \in Owner /\ handle[open] = "open"
    BY <1>3 DEF BackendType, HeldInv
  <2>2. \A p \in Owner : handle[p] = "open" => p = open
    BY <2>1, OneHolder
  <2>3. Ends(o)' /\ target'[o] = open
    BY <1>3 DEF EndDrop, To, OwnerType, Ends, Discards
  <2> QED
    BY <2>2, <2>3 DEF NoOrphan
<1> QED
  BY <1>2, <1>3

LEMMA GiveUpEnds ==
  ASSUME OwnerType, BackendType, HeldInv, NoOrphan, NEW o \in Owner, ~Ends(o), NEW f, GiveUp(o, f),
         o \in Tx \/ (pc[o] = "applying" => handle[o] # "open"), UNCHANGED handle
  PROVE  NoOrphan'
<1>1. CASE o \in Tx
  BY <1>1, EndDropEnds DEF GiveUp
<1>2. CASE o \notin Tx
  BY <1>2, AsideEnds DEF GiveUp
<1> QED
  BY <1>1, <1>2

LEMMA EndedEnds ==
  ASSUME OwnerType, HeldInv, EndInv, NEW o \in Owner, Ends(o),
         handle' = [handle EXCEPT ![target[o]] = "ended"] \/ handle' = [handle EXCEPT ![target[o]] = "dropped"]
  PROVE  NoOrphan'
<1>1. target[o] \in Owner /\ handle[target[o]] \in {"open", "dropped"}
  BY DEF EndInv
<1>2. \A p \in Owner : handle'[p] # "open"
  BY <1>1, OneHolder DEF OwnerType
<1> QED
  BY <1>2 DEF NoOrphan

LEMMA OrphanStep ==
  ASSUME Failing \subseteq Tx
  PROVE  TypeOK /\ HeldInv /\ EndInv /\ NoOrphan /\ [Next]_vars => NoOrphan'
<1> SUFFICES ASSUME TypeOK, HeldInv, EndInv, NoOrphan, [Next]_vars PROVE NoOrphan'
  OBVIOUS
<1>a. OwnerType /\ BackendType /\ mode.undoers \subseteq Undoer /\ Undoer \subseteq Owner /\ Tx \subseteq Owner
  BY TypeParts, CommandAssumption DEF BackendType, Owner
<1>b. \A o \in Owner : pc[o] \in {"idle", "editing", "waiting", "applying"} => ~Ends(o)
  BY DEF Ends, Discards
<1>1. CASE UNCHANGED vars
  BY <1>1 DEF vars, backend, NoOrphan, Ends, Discards
<1>2. ASSUME NEW t \in Tx, Begin(t) PROVE NoOrphan'
  BY <1>2, <1>a, <1>b, AsideEnds DEF Begin, backend
<1>3. ASSUME NEW t \in Tx, Commit(t) PROVE NoOrphan'
  <2>1. CASE Changed(t) = {}
    BY <1>3, <2>1, <1>a, <1>b, EndDropEnds DEF Commit
  <2>2. CASE Changed(t) # {}
    BY <1>3, <2>2, <1>a, <1>b, AsideEnds DEF Commit
  <2> QED
    BY <2>1, <2>2
<1>4. ASSUME NEW t \in Tx, Drop(t) PROVE NoOrphan'
  BY <1>4, <1>a, <1>b, EndDropEnds DEF Drop
<1>5. CASE \E t \in Tx, i \in mode.items, v \in Content : Edit(t, i, v)
  BY <1>5 DEF Edit, backend, NoOrphan, Ends, Discards
<1>6. ASSUME NEW o \in Owner, BeginCommit(o) PROVE NoOrphan'
  <2>1. /\ open' = o /\ Turn(o) /\ pc[o] = "waiting"
        /\ handle' = [handle EXCEPT ![o] = "open"] /\ To(o, "applying")
    BY <1>6 DEF BeginCommit
  <2>2. \A p \in Owner \ {o} : handle'[p] # "open"
    BY <1>a, <2>1, OneHolder DEF HeldInv, OwnerType
  <2>3. pc'[o] = "applying"
    BY <1>a, <2>1 DEF OwnerType, To
  <2> QED
    BY <2>1, <2>2, <2>3 DEF NoOrphan
<1>7. ASSUME NEW o \in Owner, BeginRefused(o) PROVE NoOrphan'
  BY <1>7, <1>a, <1>b, GiveUpEnds DEF BeginRefused
<1>8. CASE \E o \in Owner : SendBatch(o) \/ BatchApplied(o)
  BY <1>8 DEF SendBatch, BatchApplied, backend, NoOrphan, Ends, Discards
<1>9. ASSUME NEW o \in Owner, EditRejected(o) PROVE NoOrphan'
  BY <1>9, <1>a, <1>b, GiveUpEnds DEF EditRejected
<1>10. ASSUME NEW o \in Owner, BatchFailed(o) PROVE NoOrphan'
  BY <1>10, <1>a, <1>b, GiveUpEnds DEF BatchFailed, Fails
<1>11. ASSUME NEW o \in Owner, EndCommit(o) PROVE NoOrphan'
  <2>1. CASE open = Nobody
    <3>1. \A p \in Owner : handle[p] = "open" => \E q \in Owner \ {o} : Ends(q) /\ target[q] = p
      BY <1>11, <1>b, <2>1, CommandAssumption DEF NoOrphan, EndCommit
    <3>2. \A q \in Owner \ {o} : Ends(q) => Ends(q)' /\ target'[q] = target[q]
      BY <1>11, <1>a, <2>1 DEF EndCommit, Succeed, To, OwnerType, Ends, Discards
    <3> QED
      BY <1>11, <3>1, <3>2 DEF NoOrphan, EndCommit
  <2>2. CASE open # Nobody
    <3>1. \A p \in Owner : handle[p] = "open" => p = open
      BY <1>a, <2>2, OneHolder DEF HeldInv, BackendType
    <3>2. target'[o] = open /\ Ends(o)' /\ UNCHANGED handle
      BY <1>11, <1>a, <2>2 DEF EndCommit, To, OwnerType, Ends
    <3> QED
      BY <3>1, <3>2 DEF NoOrphan
  <2> QED
    BY <2>1, <2>2
<1>12. ASSUME NEW o \in Owner, Pushed(o) \/ PushFailed(o) \/ DropServed(o) \/ DropReturns(o) PROVE NoOrphan'
  <2>1. Ends(o)
    BY <1>12 DEF Pushed, PushFailed, DropServed, DropReturns, Ends
  <2>2. \/ handle' = [handle EXCEPT ![target[o]] = "ended"]
        \/ handle' = [handle EXCEPT ![target[o]] = "dropped"]
    BY <1>12 DEF Pushed, PushFailed, DropServed, DropReturns
  <2> QED
    BY <1>a, <2>1, <2>2, EndedEnds
<1>13. ASSUME NEW u \in mode.undoers, Undo(u) PROVE NoOrphan'
  BY <1>13, <1>a, <1>b, AsideEnds DEF Undo
<1>14. ASSUME NEW t \in Tx, NEW i \in mode.items, NEW v \in Value, Record(t, i, v) PROVE NoOrphan'
  BY <1>14, <1>a, <1>b, AsideEnds DEF Record, backend
<1>15. CASE ClearHistory
  BY <1>15 DEF ClearHistory, backend, NoOrphan, Ends, Discards
<1> QED
  BY <1>1, <1>2, <1>3, <1>4, <1>5, <1>6, <1>7, <1>8, <1>9, <1>10, <1>11, <1>12, <1>13, <1>14,
     <1>15 DEF Next, Running

\* A commit that KiCad has open always has somebody who will end it, though end() takes
\* whatever is filed under the store and so may hit the commit of another transaction
\* (KicadCommitBackend.ts:95). A replay that fails half way is the exception: nobody
\* ends its commit (CommandService.ts:341-346), hence the hypothesis.
THEOREM NobodyIsOrphaned == ASSUME Failing \subseteq Tx PROVE Spec => []NoOrphan
<1>1. Init => NoOrphan
  BY DEF Init, NoOrphan
<1> QED
  BY <1>1, OrphanStep, HeldInvariant, PTL DEF Spec
-----------------------------------------------------------------------------
(* One after another: `mode.alone`. *)

Resting == Done \union {"idle"}

\* At most one owner is busy, and only a busy undo or redo keeps `replaying` set.
AloneInv ==
  mode.alone =>
    /\ \A o, p \in Owner : pc[o] \notin Resting /\ pc[p] \notin Resting => o = p
    /\ replaying => \E u \in Undoer : pc[u] \notin Resting

\* Its commit is the one that is filed, and no end() hits the commit of another.
OwnInv ==
  mode.alone =>
    /\ open # Nobody => pc[open] = "applying"
    /\ \A o \in Owner : /\ pc[o] = "applying" => handle[o] = "open" /\ open = o
                        /\ pc[o] \in {"ending", "cleaning"} => target[o] = o
                        /\ pc[o] \notin {"dropping", "discarding"}

\* What an owner sends, in all, and the document it aims at.
Wanted(o) == IF o \in Tx THEN ForwardOps(o)
             ELSE IF entry[o].redo THEN entry[o].entry.fwd ELSE entry[o].entry.inv

\* What a transaction would restore is in the document f.
SavedShape(o, f) == o \in Tx => \A i \in DOMAIN first[o] : first[o][i] = f[i]

\* Before the commit: the store shows the document, but for what is to be sent.
EditingShape(t) == SavedShape(t, doc) /\ \A i \in Item \ Changed(t) : local[i] = doc[i]
WaitingShape(o) == /\ SavedShape(o, doc) /\ todo[o] = Wanted(o)
                   /\ \A i \in Item \ DOMAIN Wanted(o) : local[i] = doc[i]

\* While the ops are sent, the document and the store become what they should be.
ApplyingShape(o) ==
  LET aim == Over(base, Wanted(o)) IN
  /\ SavedShape(o, base)
  /\ DOMAIN todo[o] \union DOMAIN batch[o] \subseteq DOMAIN Wanted(o)
  /\ \A i \in DOMAIN todo[o] : todo[o][i] = Wanted(o)[i]
  /\ \A i \in DOMAIN batch[o] : batch[o][i] = Wanted(o)[i]
  /\ batch[o] # NoOps => DOMAIN before[o] \subseteq DOMAIN Wanted(o)
  /\ \A i \in Item \ DOMAIN todo[o] : local[i] = aim[i]
  /\ \A i \in Item \ (DOMAIN todo[o] \union DOMAIN batch[o]) : doc[i] = aim[i]
EndingShape(o) == SavedShape(o, base) /\ doc = Over(base, Wanted(o)) /\ local = doc
CleaningShape(o) == local = base /\ (handle[o] = "dropped" => doc = base)

PhaseShape(o) == /\ pc[o] = "editing" => EditingShape(o)
                 /\ pc[o] = "waiting" => WaitingShape(o)
                 /\ pc[o] = "applying" => ApplyingShape(o)
                 /\ pc[o] = "ending" => EndingShape(o)
                 /\ pc[o] = "cleaning" => CleaningShape(o)

DataInv ==
  mode.alone /\ ~lost =>
    /\ (\A o \in Owner : pc[o] \in Resting) => local = doc
    /\ \A o \in Owner : PhaseShape(o)

\* Nothing is edited before begin(), nothing awaited but by apply(), and a replay drops
\* nothing.
FreshInv ==
  /\ \A u \in Undoer : pc[u] # "editing" /\ ~Discards(u)
  /\ \A t \in Tx : pc[t] = "idle" => first[t] = NoOps
  /\ \A o \in Owner : pc[o] # "applying" => batch[o] = NoOps

LEMMA FreshStep == TypeOK /\ FreshInv /\ [Next]_vars => FreshInv'
<1> SUFFICES ASSUME TypeOK, FreshInv, [Next]_vars PROVE FreshInv'
  OBVIOUS
<1>a. /\ OwnerType /\ OpsType /\ StoreType /\ mode.undoers \subseteq Undoer /\ Undoer \subseteq Owner
      /\ Tx \subseteq Owner /\ Tx \intersect Undoer = {}
  BY TypeParts, CommandAssumption DEF BackendType, Owner
<1>b. \A u \in Undoer : u \notin Tx
  BY <1>a
<1>1. CASE UNCHANGED vars
  BY <1>1 DEF vars, store, FreshInv, Discards
<1>2. ASSUME NEW t \in Tx, Begin(t) \/ Commit(t) \/ Drop(t) PROVE FreshInv'
  <2>1. /\ UNCHANGED <<first, batch>> /\ t \in Owner /\ pc[t] # "applying"
        /\ pc'[t] \notin {"idle", "applying"} /\ \A p \in Owner \ {t} : pc'[p] = pc[p]
    BY <1>2, <1>a DEF Begin, Commit, Drop, EndDrop, To, OwnerType, store
  <2> QED
    BY <1>a, <1>b, <2>1 DEF FreshInv, Discards
<1>3. ASSUME NEW t \in Tx, NEW i, NEW v, Edit(t, i, v) PROVE FreshInv'
  <2>1. UNCHANGED <<pc, batch>> /\ pc[t] = "editing" /\ \A q \in Tx \ {t} : first'[q] = first[q]
    BY <1>3, <1>a DEF Edit, StoreType
  <2> QED
    BY <2>1 DEF FreshInv, Discards
<1>4. ASSUME NEW o \in Owner, Running(o) PROVE FreshInv'
  <2>1. /\ UNCHANGED first /\ pc[o] \notin Resting /\ pc'[o] \notin {"idle", "editing"}
        /\ \A p \in Owner \ {o} : pc'[p] = pc[p] /\ batch'[p] = batch[p]
    BY <1>4, <1>a DEF Running, BeginCommit, BeginRefused, SendBatch, EditRejected, BatchApplied, BatchFailed,
       EndCommit, Pushed, PushFailed, DropServed, DropReturns, Succeed, GiveUp, EndDrop, To, store,
       OwnerType, OpsType, Discards, Resting, Done
  <2>2. pc'[o] # "applying" => batch'[o] = NoOps
    <3>1. CASE BeginCommit(o) \/ SendBatch(o) \/ BatchApplied(o)
      BY <3>1, <1>a DEF BeginCommit, SendBatch, BatchApplied, To, OwnerType
    <3>2. CASE BatchFailed(o)
      BY <3>2, <1>a DEF BatchFailed, OpsType
    <3>3. CASE EditRejected(o) \/ EndCommit(o)
      BY <3>3 DEF EditRejected, EndCommit
    <3>4. CASE BeginRefused(o) \/ Pushed(o) \/ PushFailed(o) \/ DropServed(o) \/ DropReturns(o)
      BY <3>4 DEF BeginRefused, Pushed, PushFailed, DropServed, DropReturns, Discards, FreshInv
    <3> QED
      BY <1>4, <3>1, <3>2, <3>3, <3>4 DEF Running
  <2>3. o \in Undoer => ~Discards(o)'
    <3> SUFFICES ASSUME o \in Undoer PROVE ~Discards(o)'
      OBVIOUS
    <3>1. o \notin Tx /\ ~Discards(o)
      BY <1>b DEF FreshInv
    <3> QED
      BY <1>4, <1>a, <3>1 DEF Running, BeginCommit, BeginRefused, SendBatch, EditRejected, BatchApplied, BatchFailed,
       EndCommit, Pushed, PushFailed, DropServed, DropReturns, Succeed, GiveUp, To,
       OwnerType, Discards
  <2>4. \A u \in Undoer : pc'[u] # "editing" /\ ~Discards(u)'
    BY <1>a, <2>1, <2>3 DEF FreshInv, Discards
  <2>5. \A t \in Tx : pc'[t] = "idle" => first'[t] = NoOps
    BY <1>a, <2>1 DEF FreshInv
  <2>6. \A p \in Owner : pc'[p] # "applying" => batch'[p] = NoOps
    BY <2>1, <2>2 DEF FreshInv
  <2> QED
    BY <2>4, <2>5, <2>6 DEF FreshInv
<1>5. ASSUME NEW u \in mode.undoers, Undo(u) PROVE FreshInv'
  <2>1. /\ UNCHANGED <<first, batch>> /\ pc[u] = "idle" /\ pc'[u] = "waiting"
        /\ \A p \in Owner \ {u} : pc'[p] = pc[p]
    BY <1>5, <1>a DEF Undo, To, OwnerType, store
  <2> QED
    BY <1>a, <2>1 DEF FreshInv, Discards
<1>6. ASSUME NEW t \in Tx, NEW i, NEW v, Record(t, i, v) PROVE FreshInv'
  <2>1. /\ UNCHANGED <<first, batch>> /\ pc[t] = "idle" /\ pc'[t] = "committed"
        /\ \A p \in Owner \ {t} : pc'[p] = pc[p]
    BY <1>6, <1>a DEF Record, To, OwnerType
  <2> QED
    BY <1>a, <1>b, <2>1 DEF FreshInv, Discards
<1>7. CASE ClearHistory
  BY <1>7 DEF ClearHistory, store, FreshInv, Discards
<1> QED
  BY <1>1, <1>2, <1>3, <1>4, <1>5, <1>6, <1>7 DEF Next

LEMMA ModeStays == [Next]_vars => UNCHANGED mode
BY DEF Next, vars, Begin, Commit, Drop, Edit, Running, BeginCommit, BeginRefused, SendBatch, EditRejected,
   BatchApplied, BatchFailed, EndCommit, Pushed, PushFailed, DropServed, DropReturns, Undo, Record, ClearHistory

LEMMA AloneStep == TypeOK /\ FreshInv /\ AloneInv /\ [Next]_vars => AloneInv'
<1> SUFFICES ASSUME TypeOK, FreshInv, AloneInv, [Next]_vars, mode.alone PROVE AloneInv'
  BY ModeStays DEF AloneInv
<1>a. /\ OwnerType /\ mode.undoers \subseteq Undoer /\ Undoer \subseteq Owner
      /\ Tx \subseteq Owner /\ Tx \intersect Undoer = {}
  BY TypeParts, CommandAssumption DEF BackendType, Owner
<1>b. \A u \in Undoer : u \notin Tx
  BY <1>a
<1>c. Quiet \ {"editing"} = Resting /\ "editing" \notin Resting
  BY DEF Quiet, Resting, Done
<1>1. CASE UNCHANGED vars
  BY <1>1 DEF vars, history, AloneInv
<1>2. ASSUME NEW o \in Owner, \A p \in Owner : pc[p] \in Resting, \A p \in Owner \ {o} : pc'[p] = pc[p],
             UNCHANGED replaying \/ (o \in Undoer /\ pc'[o] = "waiting")
      PROVE  AloneInv'
  BY <1>2, <1>a DEF AloneInv, Resting, Done
<1>3. ASSUME NEW o \in Owner, pc[o] \notin Resting, \A p \in Owner \ {o} : pc'[p] = pc[p],
             replaying' => replaying, o \in Undoer /\ pc'[o] \in Resting => ~replaying'
      PROVE  AloneInv'
  <2>1. \A p \in Owner \ {o} : pc'[p] \in Resting
    BY <1>3 DEF AloneInv
  <2>2. replaying => o \in Undoer
    BY <1>3, <1>a DEF AloneInv
  <2> QED
    BY <1>3, <2>1, <2>2 DEF AloneInv
<1>4. ASSUME NEW t \in Tx, Begin(t) PROVE AloneInv'
  <2>1. /\ \A p \in Owner : pc[p] \in Resting
        /\ \A p \in Owner \ {t} : pc'[p] = pc[p]
        /\ UNCHANGED replaying
    BY <1>4, <1>a, <1>c DEF Begin, To, OwnerType, history
  <2> QED
    BY <1>2, <1>a, <2>1
<1>5. ASSUME NEW t \in Tx, Commit(t) \/ Drop(t) PROVE AloneInv'
  <2>1. /\ pc[t] \notin Resting /\ UNCHANGED replaying
        /\ \A p \in Owner \ {t} : pc'[p] = pc[p]
    BY <1>5, <1>a, <1>c DEF Commit, Drop, EndDrop, To, OwnerType, history
  <2> QED
    BY <1>3, <1>a, <1>b, <2>1
<1>6. CASE \E t \in Tx, i \in mode.items, v \in Content : Edit(t, i, v)
  BY <1>6 DEF Edit, history, AloneInv
<1>7. ASSUME NEW o \in Owner, Running(o) PROVE AloneInv'
  <2>1. /\ pc[o] \notin Resting
        /\ replaying' => replaying
        /\ \A p \in Owner \ {o} : pc'[p] = pc[p]
    BY <1>7, <1>a DEF Running, BeginCommit, BeginRefused, SendBatch, EditRejected, BatchApplied, BatchFailed,
       EndCommit, Pushed, PushFailed, DropServed, DropReturns, Succeed, GiveUp, EndDrop, To,
       OwnerType, Discards, Resting, Done, history
  <2>2. o \in Undoer /\ pc'[o] \in Resting => ~replaying'
    <3> SUFFICES ASSUME o \in Undoer, pc'[o] \in Resting PROVE ~replaying'
      OBVIOUS
    <3>1. o \notin Tx /\ ~Discards(o)
      BY <1>b DEF FreshInv
    <3> QED
      BY <1>7, <1>a, <2>1, <3>1 DEF Running, BeginCommit, BeginRefused, SendBatch, EditRejected, BatchApplied, BatchFailed,
       EndCommit, Pushed, PushFailed, DropServed, DropReturns, Succeed, GiveUp, To,
       OwnerType, Discards, Resting, Done
  <2> QED
    BY <1>3, <2>1, <2>2
<1>8. ASSUME NEW u \in mode.undoers, Undo(u) PROVE AloneInv'
  <2>1. /\ \A p \in Owner : pc[p] \in Resting
        /\ \A p \in Owner \ {u} : pc'[p] = pc[p]
        /\ pc'[u] = "waiting" /\ u \in Undoer /\ u \in Owner
    BY <1>8, <1>a, <1>c DEF Undo, To, OwnerType
  <2> QED
    BY <1>2, <2>1
<1>9. ASSUME NEW t \in Tx, NEW i, NEW v, Record(t, i, v) PROVE AloneInv'
  <2>1. /\ \A p \in Owner : pc[p] \in Resting
        /\ \A p \in Owner \ {t} : pc'[p] = pc[p]
        /\ UNCHANGED replaying
    BY <1>9, <1>a, <1>c DEF Record, To, OwnerType
  <2> QED
    BY <1>2, <1>a, <2>1
<1>10. CASE ClearHistory
  BY <1>10 DEF ClearHistory, AloneInv
<1> QED
  BY <1>1, <1>4, <1>5, <1>6, <1>7, <1>8, <1>9, <1>10 DEF Next

\* What a step of one owner finds when they come one after another.
LEMMA Solo ==
  ASSUME TypeOK, AloneInv, OwnInv, mode.alone, NEW o \in Owner,
         pc[o] \notin Resting \/ \A p \in Owner : pc[p] \in Resting
  PROVE  /\ \A p \in Owner \ {o} : pc[p] \in Resting
         /\ open # Nobody => open = o /\ pc[o] = "applying"
<1>1. \A p \in Owner \ {o} : pc[p] \in Resting
  BY DEF AloneInv
<1>2. open # Nobody => open \in Owner /\ pc[open] = "applying"
  BY TypeParts DEF BackendType, OwnInv
<1> QED
  BY <1>1, <1>2 DEF Resting, Done

LEMMA OwnStep ==
  ASSUME Failing \subseteq Tx
  PROVE  TypeOK /\ HeldInv /\ EndInv /\ FreshInv /\ AloneInv /\ OwnInv /\ [Next]_vars => OwnInv'
<1> SUFFICES ASSUME TypeOK, HeldInv, EndInv, FreshInv, AloneInv, OwnInv, [Next]_vars, mode.alone PROVE OwnInv'
  BY ModeStays DEF OwnInv
<1>a. /\ OwnerType /\ BackendType /\ mode.undoers \subseteq Undoer /\ Undoer \subseteq Owner /\ Tx \subseteq Owner
      /\ Tx \intersect Undoer = {} /\ Nobody \notin Owner
  BY TypeParts, CommandAssumption DEF BackendType, Owner
<1>c. Quiet \ {"editing"} = Resting /\ "idle" \in Resting
  BY DEF Quiet, Resting, Done
<1>d. ASSUME NEW o \in Owner, pc[o] \notin Resting \/ \A p \in Owner : pc[p] \in Resting,
             \A p \in Owner \ {o} : pc'[p] = pc[p], open' = Nobody,
             pc'[o] \in Resting \union {"editing", "waiting"}
      PROVE  OwnInv'
  BY <1>d, Solo DEF OwnInv, Resting, Done
<1>1. CASE UNCHANGED vars
  BY <1>1 DEF vars, backend, OwnInv
<1>2. ASSUME NEW t \in Tx, Begin(t) PROVE OwnInv'
  <2>1. /\ \A p \in Owner : pc[p] \in Resting
        /\ pc'[t] = "editing" /\ \A p \in Owner \ {t} : pc'[p] = pc[p]
        /\ UNCHANGED open
    BY <1>2, <1>a, <1>c DEF Begin, To, OwnerType, backend
  <2>2. open = Nobody
    BY <1>a, <2>1, Solo DEF Resting, Done
  <2> QED
    BY <1>a, <1>d, <2>1, <2>2
<1>3. ASSUME NEW t \in Tx, Commit(t) \/ Drop(t) PROVE OwnInv'
  <2>1. pc[t] = "editing" /\ pc[t] \notin Resting
    BY <1>3 DEF Commit, Drop, Resting, Done
  <2>2. open = Nobody
    BY <1>a, <2>1, Solo
  <2>3. /\ pc'[t] \in {"returned", "dropped", "waiting"} /\ \A p \in Owner \ {t} : pc'[p] = pc[p]
        /\ open' = Nobody
    BY <1>3, <1>a, <2>2 DEF Commit, Drop, EndDrop, To, OwnerType
  <2> QED
    BY <1>a, <1>d, <2>1, <2>3 DEF Resting, Done
<1>4. CASE \E t \in Tx, i \in mode.items, v \in Content : Edit(t, i, v)
  BY <1>4 DEF Edit, backend, OwnInv
<1>5. ASSUME NEW o \in Owner, BeginCommit(o) PROVE OwnInv'
  <2>1. /\ pc[o] = "waiting" /\ pc[o] \notin Resting /\ open' = o
        /\ handle'[o] = "open" /\ pc'[o] = "applying" /\ \A p \in Owner \ {o} : pc'[p] = pc[p]
    BY <1>5, <1>a DEF BeginCommit, OwnerType, To, Resting, Done
  <2>2. \A p \in Owner \ {o} : pc'[p] \in Resting
    BY <2>1, Solo
  <2> QED
    BY <2>1, <2>2 DEF OwnInv, Resting, Done
<1>6. ASSUME NEW o \in Owner, BeginRefused(o) PROVE OwnInv'
  <2>1. pc[o] = "waiting" /\ pc[o] \notin Resting
    BY <1>6 DEF BeginRefused, Resting, Done
  <2>2. open = Nobody
    BY <2>1, Solo
  <2>3. open' = Nobody /\ pc'[o] = "failed" /\ \A p \in Owner \ {o} : pc'[p] = pc[p]
    BY <1>6, <1>a, <2>2 DEF BeginRefused, GiveUp, EndDrop, To, OwnerType
  <2> QED
    BY <1>d, <2>1, <2>3 DEF Resting, Done
<1>7. CASE \E o \in Owner : SendBatch(o) \/ BatchApplied(o)
  BY <1>7 DEF SendBatch, BatchApplied, backend, OwnInv
<1>8. ASSUME NEW o \in Owner, EditRejected(o) PROVE OwnInv'
  BY <1>8 DEF EditRejected, OwnInv
<1>9. ASSUME NEW o \in Owner, BatchFailed(o) \/ EndCommit(o) PROVE OwnInv'
  <2>1. pc[o] = "applying" /\ pc[o] \notin Resting /\ open = o /\ open # Nobody
    BY <1>9, <1>a DEF BatchFailed, EndCommit, OwnInv, Resting, Done
  <2>2. /\ pc'[o] \in {"ending", "cleaning"} /\ target'[o] = o /\ open' = Nobody
        /\ \A p \in Owner \ {o} : pc'[p] = pc[p]
    <3>1. BatchFailed(o) => o \in Tx
      BY DEF BatchFailed, Fails
    <3> QED
      BY <1>9, <1>a, <2>1, <3>1 DEF BatchFailed, EndCommit, GiveUp, EndDrop, To, OwnerType
  <2>3. \A p \in Owner \ {o} : pc'[p] \in Resting
    BY <2>1, <2>2, Solo
  <2> QED
    BY <2>2, <2>3 DEF OwnInv, Resting, Done
<1>10. ASSUME NEW o \in Owner, Pushed(o) \/ PushFailed(o) \/ DropReturns(o) PROVE OwnInv'
  <2>1. Ends(o) /\ pc[o] \notin Resting
    BY <1>10 DEF Pushed, PushFailed, DropReturns, Ends, Discards, Resting, Done
  <2>2. open = Nobody
    BY <2>1 DEF EndInv
  <2>3. /\ pc'[o] \in Resting /\ open' = Nobody
        /\ \A p \in Owner \ {o} : pc'[p] = pc[p]
    BY <1>10, <1>a, <2>2 DEF Pushed, PushFailed, DropReturns, Succeed, GiveUp, EndDrop, Discards, To, OwnerType, Resting, Done
  <2> QED
    BY <1>d, <2>1, <2>3
<1>11. ASSUME NEW o \in Owner, DropServed(o) PROVE OwnInv'
  <2>1. /\ Ends(o) /\ pc[o] # "applying" /\ pc[o] \notin Resting
        /\ UNCHANGED <<pc, open, target>>
        /\ handle' = [handle EXCEPT ![target[o]] = "dropped"]
    BY <1>11 DEF DropServed, Ends, Discards, backend, Resting, Done
  <2>2. \A p \in Owner : pc[p] # "applying"
    BY <2>1, Solo DEF Resting, Done
  <2> QED
    BY <2>1, <2>2 DEF OwnInv
<1>12. ASSUME NEW u \in mode.undoers, Undo(u) PROVE OwnInv'
  <2>1. /\ \A p \in Owner : pc[p] \in Resting
        /\ pc'[u] = "waiting" /\ \A p \in Owner \ {u} : pc'[p] = pc[p]
        /\ UNCHANGED open
    BY <1>12, <1>a, <1>c DEF Undo, To, OwnerType
  <2>2. open = Nobody
    BY <1>a, <2>1, Solo DEF Resting, Done
  <2> QED
    BY <1>a, <1>d, <2>1, <2>2
<1>13. ASSUME NEW t \in Tx, NEW i \in mode.items, NEW v \in Value, Record(t, i, v) PROVE OwnInv'
  <2>1. /\ \A p \in Owner : pc[p] \in Resting
        /\ pc'[t] = "committed" /\ \A p \in Owner \ {t} : pc'[p] = pc[p]
        /\ UNCHANGED open
    BY <1>13, <1>a, <1>c DEF Record, To, OwnerType, backend
  <2>2. open = Nobody
    BY <1>a, <2>1, Solo DEF Resting, Done
  <2> QED
    BY <1>a, <1>d, <2>1, <2>2 DEF Resting, Done
<1>14. CASE ClearHistory
  BY <1>14 DEF ClearHistory, backend, OwnInv
<1> QED
  BY <1>1, <1>2, <1>3, <1>4, <1>5, <1>6, <1>7, <1>8, <1>9, <1>10, <1>11, <1>12, <1>13, <1>14 DEF Next, Running

-----------------------------------------------------------------------------
(* The store and the document. *)

LEMMA SameDocs ==
  ASSUME NEW f \in Docs, NEW g \in Docs, \A i \in Item : f[i] = g[i]
  PROVE  f = g
BY DEF Docs

LEMMA WantedType ==
  ASSUME TypeOK, EntryKnown, NEW o \in Owner, pc[o] # "idle"
  PROVE  /\ Wanted(o) \in Ops
         /\ o \in Tx => Wanted(o) = ForwardOps(o) /\ DOMAIN Wanted(o) = Changed(o)
<1>1. StoreType
  BY TypeParts
<1>2. CASE o \in Tx
  BY <1>1, <1>2, ChangeTypes DEF Wanted, StoreType
<1>3. CASE o \notin Tx
  <2>1. entry[o] \in [entry : Entry, redo : BOOLEAN]
    BY <1>3 DEF EntryKnown, Owner
  <2>2. entry[o].entry.fwd \in Ops /\ entry[o].entry.inv \in Ops
    BY <2>1, EntryType
  <2> QED
    BY <1>3, <2>2 DEF Wanted
<1> QED
  BY <1>2, <1>3

LEMMA WantedStays ==
  ASSUME UNCHANGED <<first, last, entry>>, NEW o \in Owner
  PROVE  /\ Wanted(o)' = Wanted(o) /\ Changed(o)' = Changed(o)
         /\ ForwardOps(o)' = ForwardOps(o) /\ InverseOps(o)' = InverseOps(o)
BY DEF Wanted, Changed, ForwardOps, InverseOps, Only

\* A rollback restores the document the transaction started from.
LEMMA Rollback ==
  ASSUME StoreType, NEW t \in Tx, NEW f \in Docs, NEW g \in Docs,
         SavedShape(t, f), \A i \in Item \ Changed(t) : g[i] = f[i]
  PROVE  RolledBack(g, t) = f
<1>1. /\ InverseOps(t) \in Ops /\ DOMAIN InverseOps(t) = Changed(t) /\ Changed(t) \subseteq DOMAIN first[t]
      /\ \A i \in Changed(t) : InverseOps(t)[i] = first[t][i]
  BY ChangeTypes DEF StoreType
<1>2. /\ Over(g, InverseOps(t)) \in Docs
      /\ \A i \in Item : Over(g, InverseOps(t))[i] = IF i \in DOMAIN InverseOps(t) THEN InverseOps(t)[i] ELSE g[i]
  BY <1>1, OverType
<1>3. \A i \in Item : Over(g, InverseOps(t))[i] = f[i]
  BY <1>1, <1>2 DEF SavedShape
<1> QED
  BY <1>2, <1>3, SameDocs DEF RolledBack

LEMMA Focus ==
  ASSUME NEW o \in Owner, \A p \in Owner \ {o} : pc'[p] \in Resting,
         pc'[o] \in Resting => local' = doc', PhaseShape(o)'
  PROVE  DataInv'
BY DEF DataInv, PhaseShape, Resting, Done

LEMMA LostStays == [Next]_vars /\ lost => lost'
BY DEF Next, vars, Begin, Commit, Drop, Edit, Running, BeginCommit, BeginRefused, SendBatch, EditRejected,
   BatchApplied, BatchFailed, EndCommit, Pushed, PushFailed, DropServed, DropReturns, Undo, Record, ClearHistory,
   kicad

\* Everything a step may rely on.
ServiceInv == /\ TypeOK /\ EntryKnown /\ HeldInv /\ EndInv /\ NoOrphan
              /\ FreshInv /\ AloneInv /\ OwnInv

LEMMA DataStep ==
  ASSUME Failing \subseteq Tx
  PROVE  ServiceInv /\ DataInv /\ [Next]_vars => DataInv'
<1> SUFFICES ASSUME ServiceInv, DataInv, [Next]_vars, mode.alone, ~lost, ~lost' PROVE DataInv'
  BY ModeStays, LostStays DEF DataInv
<1>i. /\ TypeOK /\ EntryKnown /\ HeldInv /\ EndInv /\ NoOrphan /\ FreshInv /\ AloneInv /\ OwnInv
  BY DEF ServiceInv
<1>a. /\ StoreType /\ OwnerType /\ OpsType /\ BackendType
      /\ mode.undoers \subseteq Undoer /\ mode.items \subseteq Item
      /\ Undoer \subseteq Owner /\ Tx \subseteq Owner
      /\ Tx \intersect Undoer = {} /\ Nobody \notin Owner
  BY <1>i, TypeParts, CommandAssumption DEF BackendType, Owner
<1>b. local \in Docs /\ doc \in Docs /\ base \in Docs
  BY <1>a DEF StoreType
<1>c. Quiet \ {"editing"} = Resting /\ "idle" \in Resting
  BY DEF Quiet, Resting, Done
<1>d. /\ \A o \in Owner : PhaseShape(o)
      /\ (\A o \in Owner : pc[o] \in Resting) => local = doc
  BY DEF DataInv
<1>e. ASSUME NEW o \in Owner, pc[o] \notin Resting \/ \A p \in Owner : pc[p] \in Resting
      PROVE  /\ \A p \in Owner \ {o} : pc[p] \in Resting
             /\ open # Nobody => open = o /\ pc[o] = "applying"
  BY <1>e, <1>i, Solo
<1>f. \A o \in Owner : pc[o] # "idle" => /\ Wanted(o) \in Ops
                                         /\ o \in Tx => Wanted(o) = ForwardOps(o) /\ DOMAIN Wanted(o) = Changed(o)
  BY <1>i, WantedType
<1>1. CASE UNCHANGED vars
  <2>1. \A o \in Owner : /\ Wanted(o)' = Wanted(o) /\ Changed(o)' = Changed(o)
    BY <1>1, WantedStays DEF vars, store, history
  <2> QED
    BY <1>1, <2>1 DEF vars, store, history, backend, kicad, DataInv, PhaseShape, EditingShape, WaitingShape, ApplyingShape,
       EndingShape, CleaningShape, SavedShape
<1>2. ASSUME NEW t \in Tx, Begin(t) PROVE DataInv'
  <2>1. /\ \A p \in Owner : pc[p] \in Resting
        /\ pc[t] = "idle" /\ pc'[t] = "editing" /\ \A p \in Owner \ {t} : pc'[p] = pc[p]
        /\ UNCHANGED <<local, doc, first, last>>
    BY <1>2, <1>a, <1>c DEF Begin, To, OwnerType, store, kicad
  <2>2. local = doc /\ first[t] = NoOps
    BY <1>d, <1>i, <2>1 DEF FreshInv
  <2>3. EditingShape(t)'
    BY <2>1, <2>2, NoOpsType DEF EditingShape, SavedShape
  <2>4. PhaseShape(t)' /\ pc'[t] \notin Resting
    BY <2>1, <2>3 DEF PhaseShape, Resting, Done
  <2> QED
    BY <1>a, <2>1, <2>4, Focus
<1>3. ASSUME NEW t \in Tx, Commit(t) PROVE DataInv'
  <2>1. /\ pc[t] = "editing" /\ pc[t] \notin Resting /\ EditingShape(t)
        /\ UNCHANGED <<local, doc, first, last, entry>> /\ t \in Owner
    BY <1>3, <1>a, <1>d DEF Commit, store, kicad, history, PhaseShape, Resting, Done
  <2>2. open = Nobody /\ \A p \in Owner \ {t} : pc[p] \in Resting
    BY <1>e, <2>1
  <2>3. CASE Changed(t) = {}
    <3>1. pc'[t] = "returned" /\ \A p \in Owner \ {t} : pc'[p] = pc[p]
      BY <1>3, <1>a, <2>2, <2>3 DEF Commit, EndDrop, To, OwnerType
    <3>2. local = doc
      BY <1>b, <2>1, <2>3, SameDocs DEF EditingShape
    <3>3. PhaseShape(t)'
      BY <3>1 DEF PhaseShape
    <3> QED
      BY <2>1, <2>2, <3>1, <3>2, <3>3, Focus
  <2>4. CASE Changed(t) # {}
    <3>1. /\ pc'[t] = "waiting" /\ \A p \in Owner \ {t} : pc'[p] = pc[p]
          /\ todo'[t] = ForwardOps(t)
      BY <1>3, <1>a, <2>4 DEF Commit, To, OwnerType, OpsType
    <3>2. Wanted(t)' = ForwardOps(t) /\ Wanted(t) = ForwardOps(t) /\ DOMAIN Wanted(t) = Changed(t)
      BY <1>f, <2>1, WantedStays
    <3>3. WaitingShape(t)'
      BY <2>1, <3>1, <3>2 DEF EditingShape, WaitingShape, SavedShape
    <3>4. PhaseShape(t)' /\ pc'[t] \notin Resting
      BY <3>1, <3>3 DEF PhaseShape, Resting, Done
    <3> QED
      BY <2>1, <2>2, <3>1, <3>4, Focus
  <2> QED
    BY <2>3, <2>4
<1>4. ASSUME NEW t \in Tx, Drop(t) PROVE DataInv'
  <2>1. /\ pc[t] = "editing" /\ pc[t] \notin Resting /\ EditingShape(t)
        /\ UNCHANGED doc /\ t \in Owner /\ local' = RolledBack(local, t)
    BY <1>4, <1>a, <1>d DEF Drop, kicad, PhaseShape, Resting, Done
  <2>2. open = Nobody /\ \A p \in Owner \ {t} : pc[p] \in Resting
    BY <1>e, <2>1
  <2>3. pc'[t] = "dropped" /\ \A p \in Owner \ {t} : pc'[p] = pc[p]
    BY <1>4, <1>a, <2>2 DEF Drop, EndDrop, To, OwnerType
  <2>4. local' = doc
    BY <1>a, <1>b, <2>1, Rollback DEF EditingShape
  <2>5. PhaseShape(t)'
    BY <2>3 DEF PhaseShape
  <2> QED
    BY <2>1, <2>2, <2>3, <2>4, <2>5, Focus
<1>5. ASSUME NEW t \in Tx, NEW i \in mode.items, NEW v \in Content, Edit(t, i, v) PROVE DataInv'
  <2>1. /\ pc[t] = "editing" /\ pc[t] \notin Resting /\ EditingShape(t) /\ t \in Owner /\ i \in Item
        /\ UNCHANGED <<pc, doc>>
        /\ first'[t] = KeepFirst(first[t], i, local[i])
        /\ last'[t] = KeepLatest(last[t], i, v)
        /\ local' = [local EXCEPT ![i] = v]
    BY <1>5, <1>a, <1>d DEF Edit, kicad, PhaseShape, StoreType, Resting, Done
  <2>2. \A p \in Owner \ {t} : pc'[p] \in Resting
    BY <1>e, <2>1
  <2>3. DOMAIN first[t] = DOMAIN last[t] /\ Changed(t) \subseteq DOMAIN first[t]
    BY <1>a DEF StoreType, Changed
  <2>4. /\ DOMAIN first'[t] = DOMAIN first[t] \union {i}
        /\ \A j \in DOMAIN first[t] : first'[t][j] = first[t][j]
        /\ i \notin DOMAIN first[t] => first'[t][i] = local[i]
    BY <2>1 DEF KeepFirst
  <2>5. /\ \A j \in DOMAIN first[t] \ {i} : last'[t][j] = last[t][j]
        /\ last'[t][i] = v
    BY <2>1, <2>3 DEF KeepLatest
  <2>6. SavedShape(t, doc)'
    BY <2>1, <2>3, <2>4 DEF EditingShape, SavedShape
  <2>7. \A j \in Item \ Changed(t)' : local'[j] = doc'[j]
    <3> SUFFICES ASSUME NEW j \in Item, j \notin Changed(t)' PROVE local'[j] = doc[j]
      BY <2>1
    <3>1. CASE j = i
      <4>1. first'[t][i] = Absent /\ v = Absent
        BY <2>4, <2>5, <3>1 DEF Changed
      <4>2. first'[t][i] = doc[i]
        BY <2>1, <2>4, <2>6 DEF SavedShape
      <4> QED
        BY <1>b, <2>1, <3>1, <4>1, <4>2 DEF Docs
    <3>2. CASE j # i
      <4>1. j \notin Changed(t)
        BY <2>4, <2>5, <3>2 DEF Changed
      <4> QED
        BY <1>b, <2>1, <3>2, <4>1 DEF EditingShape, Docs
    <3> QED
      BY <3>1, <3>2
  <2>8. PhaseShape(t)' /\ pc'[t] \notin Resting
    BY <2>1, <2>6, <2>7 DEF PhaseShape, EditingShape
  <2> QED
    BY <2>1, <2>2, <2>8, Focus
<1>6. ASSUME NEW o \in Owner, BeginCommit(o) PROVE DataInv'
  <2>1. /\ pc[o] = "waiting" /\ pc[o] \notin Resting /\ WaitingShape(o)
        /\ base' = doc /\ UNCHANGED <<local, doc, first, last, entry, todo, batch, before>>
        /\ pc'[o] = "applying" /\ \A p \in Owner \ {o} : pc'[p] = pc[p]
    BY <1>6, <1>a, <1>d DEF BeginCommit, To, OwnerType, store, history, PhaseShape, Resting, Done
  <2>2. \A p \in Owner \ {o} : pc'[p] \in Resting
    BY <1>e, <2>1
  <2>3. /\ batch[o] = NoOps /\ todo[o] = Wanted(o) /\ Wanted(o) \in Ops
        /\ Wanted(o)' = Wanted(o)
    BY <1>f, <1>i, <2>1, WantedStays DEF FreshInv, WaitingShape
  <2>4. \A i \in Item : Over(doc, Wanted(o))[i] = IF i \in DOMAIN Wanted(o) THEN Wanted(o)[i] ELSE doc[i]
    BY <1>b, <2>3, OverType
  <2>5. ApplyingShape(o)'
    BY <2>1, <2>3, <2>4, NoOpsType DEF WaitingShape, ApplyingShape, SavedShape
  <2>6. PhaseShape(o)' /\ pc'[o] \notin Resting
    BY <2>1, <2>5 DEF PhaseShape, Resting, Done
  <2> QED
    BY <2>2, <2>6, Focus
<1>7. ASSUME NEW o \in Owner, BeginRefused(o) PROVE DataInv'
  <2>1. /\ pc[o] = "waiting" /\ pc[o] \notin Resting /\ WaitingShape(o) /\ Turn(o)
        /\ UNCHANGED doc /\ GiveUp(o, local)
        /\ pending = Nobody => Fails(o)
    BY <1>7, <1>d DEF BeginRefused, PhaseShape, Resting, Done
  <2>2. pending = Nobody
    BY <1>a, <1>i, <2>1, OneHolder DEF HeldInv, BackendType
  <2>3. o \in Tx
    BY <2>1, <2>2 DEF Fails
  <2>4. open = Nobody /\ \A p \in Owner \ {o} : pc[p] \in Resting
    BY <1>e, <2>1
  <2>5. /\ pc'[o] = "failed" /\ \A p \in Owner \ {o} : pc'[p] = pc[p]
        /\ local' = RolledBack(local, o)
    BY <1>a, <2>1, <2>3, <2>4 DEF GiveUp, EndDrop, To, OwnerType
  <2>6. DOMAIN Wanted(o) = Changed(o)
    BY <1>f, <2>1, <2>3
  <2>7. local' = doc
    BY <1>a, <1>b, <2>1, <2>3, <2>5, <2>6, Rollback DEF WaitingShape
  <2>8. PhaseShape(o)'
    BY <2>5 DEF PhaseShape
  <2> QED
    BY <2>1, <2>4, <2>5, <2>7, <2>8, Focus
<1>8. ASSUME NEW o \in Owner, SendBatch(o) PROVE DataInv'
  <2>1. /\ pc[o] = "applying" /\ pc[o] \notin Resting /\ ApplyingShape(o) /\ batch[o] = NoOps
        /\ UNCHANGED <<pc, doc, base, first, last, entry>>
    BY <1>8, <1>d DEF SendBatch, history, kicad, PhaseShape, Resting, Done
  <2>2. PICK S \in SUBSET DOMAIN todo[o] :
          /\ batch' = [batch EXCEPT ![o] = Only(todo[o], S)]
          /\ todo' = [todo EXCEPT ![o] = Only(@, DOMAIN @ \ S)]
          /\ before' = [before EXCEPT ![o] = Only(local, S)]
          /\ local' = Over(local, Only(todo[o], S))
    BY <1>8 DEF SendBatch
  <2>3. todo[o] \in Ops
    BY <1>a DEF OpsType
  <2>4. /\ batch'[o] = Only(todo[o], S) /\ todo'[o] = Only(todo[o], DOMAIN todo[o] \ S)
        /\ before'[o] = Only(local, S)
    BY <1>a, <2>2 DEF OpsType
  <2>5. /\ Only(todo[o], S) \in Ops /\ DOMAIN batch'[o] = S /\ \A i \in S : batch'[o][i] = todo[o][i]
        /\ DOMAIN todo'[o] = DOMAIN todo[o] \ S /\ \A i \in DOMAIN todo'[o] : todo'[o][i] = todo[o][i]
    BY <2>3, <2>4, OnlyType
  <2>6. DOMAIN before'[o] = S
    BY <2>4 DEF Only
  <2>7. \A i \in Item : local'[i] = IF i \in S THEN todo[o][i] ELSE local[i]
    BY <1>b, <2>2, <2>4, <2>5, OverType
  <2>8. Wanted(o)' = Wanted(o) /\ Wanted(o) \in Ops
    BY <1>f, <2>1, WantedStays
  <2>9. \A i \in Item : Over(base, Wanted(o))[i] = IF i \in DOMAIN Wanted(o) THEN Wanted(o)[i] ELSE base[i]
    BY <1>b, <2>8, OverType
  <2>10. SavedShape(o, base)'
    BY <2>1 DEF ApplyingShape, SavedShape
  <2>11. /\ DOMAIN todo'[o] \union DOMAIN batch'[o] \subseteq DOMAIN Wanted(o)
         /\ \A i \in DOMAIN todo'[o] : todo'[o][i] = Wanted(o)[i]
         /\ \A i \in DOMAIN batch'[o] : batch'[o][i] = Wanted(o)[i]
         /\ DOMAIN before'[o] \subseteq DOMAIN Wanted(o)
    BY <2>1, <2>5, <2>6 DEF ApplyingShape
  <2>12. \A i \in Item \ DOMAIN todo'[o] : local'[i] = Over(base, Wanted(o))[i]
    BY <2>1, <2>5, <2>7, <2>9, <2>11 DEF ApplyingShape
  <2>13. \A i \in Item \ (DOMAIN todo'[o] \union DOMAIN batch'[o]) : doc[i] = Over(base, Wanted(o))[i]
    BY <2>1, <2>5, NoOpsType DEF ApplyingShape
  <2>14. ApplyingShape(o)'
    BY <2>1, <2>8, <2>10, <2>11, <2>12, <2>13 DEF ApplyingShape
  <2>15. PhaseShape(o)' /\ pc'[o] \notin Resting
    BY <2>1, <2>14 DEF PhaseShape
  <2> QED
    BY <1>e, <2>1, <2>15, Focus
<1>9. ASSUME NEW o \in Owner, EditRejected(o) PROVE DataInv'
  BY <1>9, <1>i DEF EditRejected, OwnInv
<1>10. ASSUME NEW o \in Owner, BatchApplied(o) PROVE DataInv'
  <2>1. /\ pc[o] = "applying" /\ pc[o] \notin Resting /\ ApplyingShape(o)
        /\ doc' = Over(doc, batch[o]) /\ local' = Over(local, batch[o])
        /\ batch'[o] = NoOps
        /\ UNCHANGED <<pc, base, first, last, entry, todo, before>>
    BY <1>10, <1>a, <1>d DEF BatchApplied, history, PhaseShape, OpsType, Resting, Done
  <2>2. batch[o] \in Ops /\ Wanted(o) \in Ops /\ Wanted(o)' = Wanted(o)
    BY <1>a, <1>f, <2>1, WantedStays DEF OpsType
  <2>3. \A i \in Item : /\ doc'[i] = IF i \in DOMAIN batch[o] THEN batch[o][i] ELSE doc[i]
                        /\ local'[i] = IF i \in DOMAIN batch[o] THEN batch[o][i] ELSE local[i]
                        /\ Over(base, Wanted(o))[i] = IF i \in DOMAIN Wanted(o) THEN Wanted(o)[i] ELSE base[i]
    BY <1>b, <2>1, <2>2, OverType
  <2>4. SavedShape(o, base)'
    BY <2>1 DEF ApplyingShape, SavedShape
  <2>5. \A i \in Item \ DOMAIN todo[o] : local'[i] = Over(base, Wanted(o))[i]
    BY <2>1, <2>3 DEF ApplyingShape
  <2>6. \A i \in Item \ DOMAIN todo[o] : doc'[i] = Over(base, Wanted(o))[i]
    BY <2>1, <2>3 DEF ApplyingShape
  <2>7. ApplyingShape(o)'
    BY <2>1, <2>2, <2>4, <2>5, <2>6, NoOpsType DEF ApplyingShape
  <2>8. PhaseShape(o)' /\ pc'[o] \notin Resting
    BY <2>1, <2>7 DEF PhaseShape
  <2> QED
    BY <1>e, <2>1, <2>8, Focus
<1>11. ASSUME NEW o \in Owner, BatchFailed(o) PROVE DataInv'
  <2>1. /\ pc[o] = "applying" /\ pc[o] \notin Resting /\ ApplyingShape(o) /\ batch[o] # NoOps
        /\ o \in Tx /\ GiveUp(o, Over(local, before[o])) /\ UNCHANGED <<base, handle>>
    BY <1>11, <1>d DEF BatchFailed, Fails, PhaseShape, Resting, Done
  <2>2. open = o /\ handle[o] = "open" /\ open # Nobody
    BY <1>a, <1>i, <2>1 DEF OwnInv
  <2>3. /\ local' = RolledBack(Over(local, before[o]), o)
        /\ pc'[o] = "cleaning" /\ \A p \in Owner \ {o} : pc'[p] = pc[p]
    BY <1>a, <2>1, <2>2 DEF GiveUp, EndDrop, To, OwnerType
  <2>4. before[o] \in Ops /\ Wanted(o) \in Ops /\ DOMAIN Wanted(o) = Changed(o)
    BY <1>a, <1>f, <2>1 DEF OpsType
  <2>5. /\ Over(local, before[o]) \in Docs
        /\ \A i \in Item : Over(local, before[o])[i] = IF i \in DOMAIN before[o] THEN before[o][i] ELSE local[i]
        /\ \A i \in Item : Over(base, Wanted(o))[i] = IF i \in DOMAIN Wanted(o) THEN Wanted(o)[i] ELSE base[i]
    BY <1>b, <2>4, OverType
  <2>6. \A i \in Item \ Changed(o) : Over(local, before[o])[i] = base[i]
    BY <2>1, <2>4, <2>5 DEF ApplyingShape
  <2>7. local' = base
    BY <1>a, <1>b, <2>1, <2>3, <2>5, <2>6, Rollback DEF ApplyingShape
  <2>8. PhaseShape(o)' /\ pc'[o] \notin Resting
    BY <2>1, <2>2, <2>3, <2>7 DEF PhaseShape, CleaningShape, Resting, Done
  <2> QED
    BY <1>e, <2>1, <2>3, <2>8, Focus
<1>12. ASSUME NEW o \in Owner, EndCommit(o) PROVE DataInv'
  <2>1. /\ pc[o] = "applying" /\ pc[o] \notin Resting /\ ApplyingShape(o) /\ todo[o] = NoOps /\ batch[o] = NoOps
        /\ open # Nobody /\ UNCHANGED <<local, doc, base, first, last>>
    BY <1>12, <1>a, <1>d, <1>i DEF EndCommit, OwnInv, PhaseShape, store, kicad, Resting, Done
  <2>2. /\ pc'[o] = "ending" /\ \A p \in Owner \ {o} : pc'[p] = pc[p]
        /\ UNCHANGED entry
    BY <1>12, <1>a, <2>1 DEF EndCommit, To, OwnerType, history
  <2>3. Wanted(o) \in Ops /\ Wanted(o)' = Wanted(o)
    BY <1>f, <2>1, <2>2, WantedStays
  <2>4. Over(base, Wanted(o)) \in Docs
    BY <1>b, <2>3, OverType
  <2>5. local = Over(base, Wanted(o)) /\ doc = Over(base, Wanted(o))
    BY <1>b, <2>1, <2>4, NoOpsType, SameDocs DEF ApplyingShape
  <2>6. EndingShape(o)'
    BY <2>1, <2>3, <2>5 DEF EndingShape, ApplyingShape, SavedShape
  <2>7. PhaseShape(o)' /\ pc'[o] \notin Resting
    BY <2>2, <2>6 DEF PhaseShape, Resting, Done
  <2> QED
    BY <1>e, <2>1, <2>2, <2>7, Focus
<1>13. ASSUME NEW o \in Owner, Pushed(o) PROVE DataInv'
  <2>1. /\ pc[o] = "ending" /\ pc[o] \notin Resting /\ EndingShape(o) /\ UNCHANGED <<local, doc>>
        /\ pc'[o] \in Done /\ \A p \in Owner \ {o} : pc'[p] = pc[p]
    BY <1>13, <1>a, <1>d DEF Pushed, Succeed, To, OwnerType, PhaseShape, store, Resting, Done
  <2>2. PhaseShape(o)'
    BY <2>1 DEF PhaseShape, Done
  <2> QED
    BY <1>e, <2>1, <2>2, Focus DEF EndingShape
<1>14. ASSUME NEW o \in Owner, PushFailed(o) PROVE DataInv'
  <2>1. /\ pc[o] = "ending" /\ pc[o] \notin Resting /\ EndingShape(o) /\ o \in Tx /\ GiveUp(o, local)
        /\ doc' = base
    BY <1>14, <1>d DEF PushFailed, Fails, PhaseShape, Resting, Done
  <2>2. open = Nobody /\ \A p \in Owner \ {o} : pc[p] \in Resting
    BY <1>e, <2>1
  <2>3. /\ local' = RolledBack(local, o)
        /\ pc'[o] = "failed" /\ \A p \in Owner \ {o} : pc'[p] = pc[p]
    BY <1>a, <2>1, <2>2 DEF GiveUp, EndDrop, To, OwnerType
  <2>4. Wanted(o) \in Ops /\ DOMAIN Wanted(o) = Changed(o)
    BY <1>f, <2>1
  <2>5. \A i \in Item \ Changed(o) : local[i] = base[i]
    BY <1>b, <2>1, <2>4, OverType DEF EndingShape
  <2>6. local' = base
    BY <1>a, <1>b, <2>1, <2>3, <2>5, Rollback DEF EndingShape
  <2>7. PhaseShape(o)'
    BY <2>3 DEF PhaseShape
  <2> QED
    BY <2>1, <2>2, <2>3, <2>6, <2>7, Focus
<1>15. ASSUME NEW o \in Owner, DropServed(o) PROVE DataInv'
  <2>1. /\ pc[o] = "cleaning" /\ pc[o] \notin Resting /\ CleaningShape(o) /\ UNCHANGED <<pc, local, base>>
        /\ doc' = base
    BY <1>15, <1>d, <1>i DEF DropServed, Discards, OwnInv, PhaseShape, store, Resting, Done
  <2>2. PhaseShape(o)'
    BY <2>1 DEF PhaseShape, CleaningShape
  <2> QED
    BY <1>e, <2>1, <2>2, Focus
<1>16. ASSUME NEW o \in Owner, DropReturns(o) PROVE DataInv'
  <2>1. /\ pc[o] = "cleaning" /\ pc[o] \notin Resting /\ CleaningShape(o) /\ UNCHANGED <<local, doc>>
        /\ handle[o] = "dropped"
        /\ pc'[o] = "failed" /\ \A p \in Owner \ {o} : pc'[p] = pc[p]
    <3>1. pc[o] = "cleaning" /\ target[o] = o
      BY <1>16, <1>i DEF DropReturns, Discards, OwnInv
    <3> QED
      BY <1>16, <1>a, <1>d, <3>1 DEF DropReturns, PhaseShape, To, OwnerType, store, kicad, Resting, Done
  <2>2. PhaseShape(o)'
    BY <2>1 DEF PhaseShape
  <2> QED
    BY <1>e, <2>1, <2>2, Focus DEF CleaningShape
<1>17. ASSUME NEW u \in mode.undoers, Undo(u) PROVE DataInv'
  <2>1. /\ \A p \in Owner : pc[p] \in Resting
        /\ pc'[u] = "waiting" /\ \A p \in Owner \ {u} : pc'[p] = pc[p]
        /\ u \in Undoer /\ u \in Owner /\ u \notin Tx /\ UNCHANGED <<local, doc>>
    BY <1>17, <1>a, <1>c DEF Undo, To, OwnerType, store, kicad
  <2>2. todo'[u] = Wanted(u)'
    <3>1. /\ entry \in [Undoer -> Replay] /\ todo \in [Owner -> Ops]
      BY <1>a, <1>i, TypeParts DEF HistoryType, OpsType
    <3> QED
      BY <1>17, <2>1, <3>1 DEF Undo, Wanted
  <2>3. WaitingShape(u)'
    BY <1>d, <2>1, <2>2 DEF WaitingShape, SavedShape
  <2>4. PhaseShape(u)' /\ pc'[u] \notin Resting
    BY <2>1, <2>3 DEF PhaseShape, Resting, Done
  <2> QED
    BY <2>1, <2>4, Focus
<1>18. ASSUME NEW t \in Tx, NEW i \in mode.items, NEW v \in Value, Record(t, i, v) PROVE DataInv'
  <2>1. /\ \A p \in Owner : pc[p] \in Resting
        /\ pc'[t] = "committed" /\ \A p \in Owner \ {t} : pc'[p] = pc[p]
        /\ local' = [local EXCEPT ![i] = v] /\ doc' = [doc EXCEPT ![i] = v]
    BY <1>18, <1>a, <1>c DEF Record, To, OwnerType
  <2>2. local' = doc' /\ PhaseShape(t)'
    BY <1>d, <2>1 DEF PhaseShape
  <2> QED
    BY <1>a, <2>1, <2>2, Focus
<1>19. CASE ClearHistory
  <2>1. \A o \in Owner : /\ Wanted(o)' = Wanted(o) /\ Changed(o)' = Changed(o)
    BY <1>19, WantedStays DEF ClearHistory, store
  <2> QED
    BY <1>19, <2>1 DEF ClearHistory, store, backend, kicad, DataInv, PhaseShape, EditingShape, WaitingShape, ApplyingShape,
       EndingShape, CleaningShape, SavedShape
<1> QED
  BY <1>1, <1>2, <1>3, <1>4, <1>5, <1>6, <1>7, <1>8, <1>9, <1>10, <1>11, <1>12, <1>13, <1>14,
     <1>15, <1>16, <1>17, <1>18, <1>19 DEF Next, Running

LEMMA AloneInvariant == Spec => [](FreshInv /\ AloneInv)
<1>1. Init => FreshInv /\ AloneInv
  <2> SUFFICES ASSUME Init PROVE FreshInv /\ AloneInv
    OBVIOUS
  <2>1. /\ \A o \in Owner : pc[o] = "idle" /\ batch[o] = NoOps
        /\ \A t \in Tx : first[t] = NoOps
        /\ replaying = FALSE
    BY DEF Init
  <2>2. Tx \subseteq Owner /\ Undoer \subseteq Owner
    BY DEF Owner
  <2> QED
    BY <2>1, <2>2 DEF FreshInv, AloneInv, Discards, Resting
<1> QED
  BY <1>1, FreshStep, AloneStep, TypeCorrect, PTL DEF Spec

LEMMA DataInvariant ==
  ASSUME Failing \subseteq Tx
  PROVE  Spec => [](ServiceInv /\ DataInv)
<1>1. Init => EntryKnown /\ OwnInv /\ DataInv
  <2> SUFFICES ASSUME Init PROVE EntryKnown /\ OwnInv /\ DataInv
    OBVIOUS
  <2>1. /\ \A o \in Owner : pc[o] = "idle"
        /\ local = doc /\ open = Nobody
    BY DEF Init
  <2>2. Tx \subseteq Owner /\ Undoer \subseteq Owner
    BY DEF Owner
  <2> QED
    BY <2>1, <2>2 DEF EntryKnown, OwnInv, DataInv, PhaseShape, Resting
<1>2. Spec => []EntryKnown
  BY <1>1, EntryStays, TypeCorrect, PTL DEF Spec
<1>3. Spec => []OwnInv
  BY <1>1, AloneInvariant, OwnStep, HeldInvariant, PTL DEF Spec
<1>4. Spec => []ServiceInv
  BY <1>2, <1>3, AloneInvariant, HeldInvariant, NobodyIsOrphaned, PTL DEF ServiceInv
<1> QED
  BY <1>1, <1>4, DataStep, PTL DEF Spec

\* The optimistic store: whatever was edited, sent, refused, rolled back, dropped,
\* undone and redone, the store shows what KiCad has once nothing is in progress
\* (CommandService.ts:220-259), for transactions and undos one after another. A replay
\* that fails is not rolled back, hence the hypothesis.
THEOREM StoreAgreesWithKicad == ASSUME Failing \subseteq Tx PROVE Spec => []StoreAgrees
<1>1. DataInv => StoreAgrees
  BY DEF DataInv, StoreAgrees, AllQuiet, Quiet, Resting, Done
<1> QED
  BY <1>1, DataInvariant, PTL

-----------------------------------------------------------------------------
(* The stacks. *)

\* An entry leads from one document to another, and its inverse back.
Leads(e, f, g) == Over(f, e.fwd) = g /\ Over(g, e.inv) = f

\* The entries of a stack lead, one after the other, to the document f; those of the
\* redo stack away from it.
Steps(s, v, back) == \A k \in 1..Len(s) : IF back THEN Leads(s[k], v[k], v[k - 1])
                                          ELSE Leads(s[k], v[k - 1], v[k])
Path(s, f, back) == \E v \in [0..Len(s) -> Docs] : v[Len(s)] = f /\ Steps(s, v, back)

\* Between the undo and the redo stack is the document, or the entry that is replayed.
Tale(f, g) == Path(undoStack, f, FALSE) /\ Path(redoStack, g, TRUE)
TaleShape(o, f) ==
  IF o \in Tx THEN Tale(f, f)
  ELSE LET aim == Over(f, Wanted(o)) IN
       IF entry[o].redo THEN Tale(f, aim) /\ Leads(entry[o].entry, f, aim)
       ELSE Tale(aim, f) /\ Leads(entry[o].entry, aim, f)

StoryInv ==
  mode.alone /\ ~lost =>
    /\ (\A o \in Owner : pc[o] \in Resting) => Tale(doc, doc)
    /\ \A o \in Owner : /\ pc[o] \in {"editing", "waiting"} => TaleShape(o, doc)
                        /\ pc[o] \in {"applying", "ending", "cleaning"} => TaleShape(o, base)

LEMMA EmptyPath ==
  ASSUME NEW f \in Docs, NEW back \in BOOLEAN
  PROVE  Path(<<>>, f, back)
<1>1. [k \in 0..0 |-> f] \in [0..0 -> Docs]
  OBVIOUS
<1>2. Len(<<>>) = 0 /\ 1..0 = {}
  BY EmptySeq
<1>3. [k \in 0..0 |-> f][0] = f /\ Steps(<<>>, [k \in 0..0 |-> f], back)
  BY <1>2 DEF Steps
<1> QED
  BY <1>1, <1>2, <1>3 DEF Path

\* One more entry, at the end that faces the document.
LEMMA LongerPath ==
  ASSUME NEW s \in Seq(Entry), NEW e \in Entry, NEW f \in Docs, NEW g \in Docs, NEW back \in BOOLEAN,
         Path(s, f, back), IF back THEN Leads(e, g, f) ELSE Leads(e, f, g)
  PROVE  Path(Append(s, e), g, back)
<1>1. PICK v \in [0..Len(s) -> Docs] : v[Len(s)] = f /\ Steps(s, v, back)
  BY DEF Path
<1>2. PICK n \in Nat : n = Len(s)
  BY LenProperties
<1>3. /\ Len(Append(s, e)) = n + 1 /\ Append(s, e)[n + 1] = e
      /\ \A k \in 1..n : Append(s, e)[k] = s[k]
  BY <1>2, AppendProperties
<1>4. PICK w : w = [k \in 0..(n + 1) |-> IF k = n + 1 THEN g ELSE v[k]]
  OBVIOUS
<1>5. w \in [0..(n + 1) -> Docs] /\ w[n + 1] = g /\ \A k \in 0..n : w[k] = v[k]
  BY <1>1, <1>2, <1>4
<1>6. Steps(Append(s, e), w, back)
  <2> SUFFICES ASSUME NEW k \in 1..(n + 1)
               PROVE  IF back THEN Leads(Append(s, e)[k], w[k], w[k - 1])
                              ELSE Leads(Append(s, e)[k], w[k - 1], w[k])
    BY <1>3 DEF Steps
  <2>1. CASE k = n + 1
    <3>1. w[k] = g /\ w[k - 1] = f /\ Append(s, e)[k] = e
      BY <1>1, <1>2, <1>3, <1>5, <2>1
    <3> QED
      BY <3>1
  <2>2. CASE k \in 1..n
    <3>1. w[k] = v[k] /\ w[k - 1] = v[k - 1] /\ Append(s, e)[k] = s[k]
      BY <1>3, <1>5, <2>2
    <3> QED
      BY <1>1, <1>2, <2>2, <3>1 DEF Steps
  <2>3. k = n + 1 \/ k \in 1..n
    OBVIOUS
  <2> QED
    BY <2>1, <2>2, <2>3
<1> QED
  BY <1>3, <1>5, <1>6 DEF Path

\* The entry that is popped leads from the document, or to it.
LEMMA ShorterPath ==
  ASSUME NEW s \in Seq(Entry), s # <<>>, NEW f, NEW back \in BOOLEAN, Path(s, f, back)
  PROVE  \E g \in Docs : /\ Path(SubSeq(s, 1, Len(s) - 1), g, back)
                         /\ IF back THEN Leads(s[Len(s)], f, g) ELSE Leads(s[Len(s)], g, f)
<1>1. PICK v \in [0..Len(s) -> Docs] : v[Len(s)] = f /\ Steps(s, v, back)
  BY DEF Path
<1>2. PICK n \in Nat : n + 1 = Len(s) /\ n = Len(s) - 1
  <2>1. Len(s) \in Nat /\ Len(s) # 0
    BY LenProperties, EmptySeq
  <2>2. Len(s) - 1 \in Nat
    BY <2>1
  <2> QED
    BY <2>1, <2>2
<1>3. Len(SubSeq(s, 1, n)) = n /\ \A k \in 1..n : SubSeq(s, 1, n)[k] = s[k]
  <2>1. \A k \in 1..n : s[k] \in Entry
    BY <1>2, ElementOfSeq
  <2>2. /\ Len(SubSeq(s, 1, n)) = (IF 1 <= n THEN n - 1 + 1 ELSE 0)
        /\ \A k \in 1..(n - 1 + 1) : SubSeq(s, 1, n)[k] = s[1 + k - 1]
    BY <2>1, SubSeqProperties
  <2> QED
    BY <2>2
<1>4. PICK w : w = [k \in 0..n |-> v[k]]
  OBVIOUS
<1>5. w \in [0..n -> Docs] /\ \A k \in 0..n : w[k] = v[k]
  BY <1>1, <1>2, <1>4
<1>6. Steps(SubSeq(s, 1, n), w, back)
  <2> SUFFICES ASSUME NEW k \in 1..n
               PROVE  IF back THEN Leads(SubSeq(s, 1, n)[k], w[k], w[k - 1])
                              ELSE Leads(SubSeq(s, 1, n)[k], w[k - 1], w[k])
    BY <1>3 DEF Steps
  <2>1. w[k] = v[k] /\ w[k - 1] = v[k - 1] /\ SubSeq(s, 1, n)[k] = s[k] /\ k \in 1..Len(s)
    BY <1>2, <1>3, <1>5
  <2> QED
    BY <1>1, <2>1 DEF Steps
<1>7. Path(SubSeq(s, 1, n), v[n], back)
  BY <1>3, <1>5, <1>6 DEF Path
<1>8. IF back THEN Leads(s[n + 1], v[n + 1], v[n]) ELSE Leads(s[n + 1], v[n], v[n + 1])
  <2>1. n + 1 \in 1..Len(s) /\ n + 1 - 1 = n
    BY <1>2
  <2> QED
    BY <1>1, <2>1 DEF Steps
<1>9. v[n] \in Docs /\ f = v[n + 1]
  BY <1>1, <1>2
<1> QED
  BY <1>2, <1>7, <1>8, <1>9

\* The oldest entry is forgotten.
LEMMA TailPath ==
  ASSUME NEW s \in Seq(Entry), s # <<>>, NEW f, NEW back \in BOOLEAN, Path(s, f, back)
  PROVE  Path(Tail(s), f, back)
<1>1. PICK v \in [0..Len(s) -> Docs] : v[Len(s)] = f /\ Steps(s, v, back)
  BY DEF Path
<1>2. PICK n \in Nat : n + 1 = Len(s) /\ n = Len(s) - 1
  <2>1. Len(s) \in Nat /\ Len(s) # 0
    BY LenProperties, EmptySeq
  <2>2. Len(s) - 1 \in Nat
    BY <2>1
  <2> QED
    BY <2>1, <2>2
<1>3. Len(Tail(s)) = n /\ \A k \in 1..n : Tail(s)[k] = s[k + 1]
  BY <1>2, HeadTailProperties
<1>4. PICK w : w = [k \in 0..n |-> v[k + 1]]
  OBVIOUS
<1>5. w \in [0..n -> Docs] /\ \A k \in 0..n : w[k] = v[k + 1]
  BY <1>1, <1>2, <1>4
<1>6. Steps(Tail(s), w, back)
  <2> SUFFICES ASSUME NEW k \in 1..n
               PROVE  IF back THEN Leads(Tail(s)[k], w[k], w[k - 1])
                              ELSE Leads(Tail(s)[k], w[k - 1], w[k])
    BY <1>3 DEF Steps
  <2>1. /\ w[k] = v[k + 1] /\ w[k - 1] = v[k + 1 - 1] /\ Tail(s)[k] = s[k + 1]
        /\ k + 1 \in 1..Len(s)
    BY <1>2, <1>3, <1>5
  <2> QED
    BY <1>1, <2>1 DEF Steps
<1>7. w[n] = f
  BY <1>1, <1>2, <1>5
<1> QED
  BY <1>3, <1>5, <1>6, <1>7 DEF Path

\* A new entry is pushed while nothing is replayed.
LEMMA PushTale ==
  ASSUME HistoryType, ~replaying, NEW e \in Entry, PushHistory(e), NEW f \in Docs, NEW g \in Docs,
         Path(undoStack, f, FALSE), Leads(e, f, g)
  PROVE  Path(undoStack', g, FALSE) /\ Path(redoStack', g, TRUE)
<1>1. undoStack \in Seq(Entry)
  BY DEF HistoryType
<1>2. Path(Append(undoStack, e), g, FALSE)
  BY <1>1, LongerPath
<1>3. Append(undoStack, e) \in Seq(Entry) /\ Append(undoStack, e) # <<>>
  BY <1>1, AppendProperties
<1>4. Path(LastFew(Append(undoStack, e)), g, FALSE)
  BY <1>2, <1>3, TailPath DEF LastFew
<1>5. Path(<<>>, g, TRUE)
  BY EmptyPath
<1> QED
  BY <1>4, <1>5 DEF PushHistory

\* What a story needs: the others at rest, and the tale of the one that is not.
LEMMA StoryFocus ==
  ASSUME NEW o \in Owner, \A p \in Owner \ {o} : pc'[p] \in Resting,
         pc'[o] \in Resting => Tale(doc, doc)',
         pc'[o] \in {"editing", "waiting"} => TaleShape(o, doc)',
         pc'[o] \in {"applying", "ending", "cleaning"} => TaleShape(o, base)'
  PROVE  StoryInv'
BY DEF StoryInv, Resting, Done

LEMMA StoryStep ==
  ASSUME Failing \subseteq Tx
  PROVE  ServiceInv /\ DataInv /\ StoryInv /\ [Next]_vars => StoryInv'
<1> SUFFICES ASSUME ServiceInv, DataInv, StoryInv, [Next]_vars, mode.alone, ~lost, ~lost' PROVE StoryInv'
  BY ModeStays, LostStays DEF StoryInv
<1>i. /\ TypeOK /\ EntryKnown /\ HeldInv /\ EndInv /\ NoOrphan /\ FreshInv /\ AloneInv /\ OwnInv
  BY DEF ServiceInv
<1>a. /\ StoreType /\ OwnerType /\ OpsType /\ BackendType /\ HistoryType
      /\ mode.undoers \subseteq Undoer /\ mode.items \subseteq Item
      /\ Undoer \subseteq Owner /\ Tx \subseteq Owner
      /\ Tx \intersect Undoer = {} /\ Nobody \notin Owner
  BY <1>i, TypeParts, CommandAssumption DEF BackendType, Owner
<1>b. local \in Docs /\ doc \in Docs /\ base \in Docs
  BY <1>a DEF StoreType
<1>c. Quiet \ {"editing"} = Resting /\ "idle" \in Resting
  BY DEF Quiet, Resting, Done
<1>d. /\ \A o \in Owner : PhaseShape(o)
      /\ (\A o \in Owner : pc[o] \in Resting) => Tale(doc, doc)
      /\ \A o \in Owner : /\ pc[o] \in {"editing", "waiting"} => TaleShape(o, doc)
                          /\ pc[o] \in {"applying", "ending", "cleaning"} => TaleShape(o, base)
  BY DEF DataInv, StoryInv
<1>e. ASSUME NEW o \in Owner, pc[o] \notin Resting \/ \A p \in Owner : pc[p] \in Resting
      PROVE  /\ \A p \in Owner \ {o} : pc[p] \in Resting
             /\ open # Nobody => open = o /\ pc[o] = "applying"
  BY <1>e, <1>i, Solo
<1>f. \A o \in Owner : pc[o] # "idle" => /\ Wanted(o) \in Ops
                                         /\ o \in Tx => Wanted(o) = ForwardOps(o) /\ DOMAIN Wanted(o) = Changed(o)
  BY <1>i, WantedType
<1>g. undoStack \in Seq(Entry) /\ redoStack \in Seq(Entry)
  BY <1>a DEF HistoryType
<1>1. CASE UNCHANGED vars
  <2>1. \A o \in Owner : Wanted(o)' = Wanted(o)
    BY <1>1, WantedStays DEF vars, store, history
  <2> QED
    BY <1>1, <2>1 DEF vars, history, kicad, StoryInv, TaleShape, Tale
<1>2. ASSUME NEW t \in Tx, Begin(t) PROVE StoryInv'
  <2>1. /\ \A p \in Owner : pc[p] \in Resting
        /\ pc'[t] = "editing" /\ \A p \in Owner \ {t} : pc'[p] = pc[p]
        /\ UNCHANGED <<doc, undoStack, redoStack>>
    BY <1>2, <1>a, <1>c DEF Begin, To, OwnerType, history, kicad
  <2>2. TaleShape(t, doc)'
    BY <1>d, <2>1 DEF TaleShape, Tale
  <2> QED
    BY <1>a, <2>1, <2>2, StoryFocus DEF Resting, Done
<1>3. ASSUME NEW t \in Tx, Commit(t) \/ Drop(t) PROVE StoryInv'
  <2>1. /\ pc[t] = "editing" /\ pc[t] \notin Resting /\ t \in Owner /\ UNCHANGED <<doc, undoStack, redoStack>>
        /\ pc'[t] \notin {"applying", "ending", "cleaning"} /\ \A p \in Owner \ {t} : pc'[p] = pc[p]
    BY <1>3, <1>a DEF Commit, Drop, EndDrop, To, OwnerType, history, kicad, Resting, Done
  <2>2. Tale(doc, doc)' /\ TaleShape(t, doc)'
    BY <1>d, <2>1 DEF TaleShape, Tale
  <2> QED
    BY <1>e, <2>1, <2>2, StoryFocus
<1>4. ASSUME NEW t \in Tx, NEW i, NEW v, Edit(t, i, v) PROVE StoryInv'
  <2>1. /\ pc[t] = "editing" /\ pc[t] \notin Resting /\ t \in Owner
        /\ UNCHANGED <<pc, doc, undoStack, redoStack>>
    BY <1>4, <1>a DEF Edit, history, kicad, Resting, Done
  <2>2. TaleShape(t, doc)'
    BY <1>d, <2>1 DEF TaleShape, Tale
  <2> QED
    BY <1>e, <2>1, <2>2, StoryFocus
<1>5. ASSUME NEW o \in Owner, BeginCommit(o) PROVE StoryInv'
  <2>1. /\ pc[o] = "waiting" /\ pc[o] \notin Resting
        /\ base' = doc /\ UNCHANGED <<first, last, entry, undoStack, redoStack>>
        /\ pc'[o] = "applying" /\ \A p \in Owner \ {o} : pc'[p] = pc[p]
    BY <1>5, <1>a DEF BeginCommit, To, OwnerType, store, history, Resting, Done
  <2>2. Wanted(o)' = Wanted(o)
    BY <2>1, WantedStays
  <2>3. TaleShape(o, base)'
    BY <1>d, <2>1, <2>2 DEF TaleShape, Tale
  <2> QED
    BY <1>e, <2>1, <2>3, StoryFocus DEF Resting, Done
<1>6. ASSUME NEW o \in Owner, BeginRefused(o) PROVE StoryInv'
  <2>1. /\ pc[o] = "waiting" /\ pc[o] \notin Resting /\ Turn(o) /\ GiveUp(o, local)
        /\ UNCHANGED <<doc, undoStack, redoStack>>
        /\ pending = Nobody => Fails(o)
    BY <1>6 DEF BeginRefused, Resting, Done
  <2>2. pending = Nobody
    BY <1>a, <1>i, <2>1, OneHolder DEF HeldInv, BackendType
  <2>3. o \in Tx
    BY <2>1, <2>2 DEF Fails
  <2>4. open = Nobody /\ \A p \in Owner \ {o} : pc[p] \in Resting
    BY <1>e, <2>1
  <2>5. pc'[o] = "failed" /\ \A p \in Owner \ {o} : pc'[p] = pc[p]
    BY <1>a, <2>1, <2>3, <2>4 DEF GiveUp, EndDrop, To, OwnerType
  <2>6. Tale(doc, doc)'
    BY <1>d, <2>1, <2>3 DEF TaleShape, Tale
  <2> QED
    BY <2>4, <2>5, <2>6, StoryFocus
<1>7. ASSUME NEW o \in Owner, SendBatch(o) \/ BatchApplied(o) PROVE StoryInv'
  <2>1. /\ pc[o] = "applying" /\ pc[o] \notin Resting
        /\ UNCHANGED <<pc, base, first, last, entry, undoStack, redoStack>>
    BY <1>7 DEF SendBatch, BatchApplied, history, kicad, Resting, Done
  <2>2. Wanted(o)' = Wanted(o)
    BY <2>1, WantedStays
  <2>3. TaleShape(o, base)'
    BY <1>d, <2>1, <2>2 DEF TaleShape, Tale
  <2> QED
    BY <1>e, <2>1, <2>3, StoryFocus
<1>8. ASSUME NEW o \in Owner, EditRejected(o) PROVE StoryInv'
  BY <1>8, <1>i DEF EditRejected, OwnInv
<1>9. ASSUME NEW o \in Owner, BatchFailed(o) \/ EndCommit(o) PROVE StoryInv'
  <2>1. /\ pc[o] = "applying" /\ pc[o] \notin Resting /\ open = o /\ open # Nobody
    BY <1>9, <1>a, <1>i DEF BatchFailed, EndCommit, OwnInv, Resting, Done
  <2>2. /\ UNCHANGED <<base, first, last, entry, undoStack, redoStack>>
        /\ pc'[o] \in {"cleaning", "ending"} /\ \A p \in Owner \ {o} : pc'[p] = pc[p]
    <3>1. BatchFailed(o) => o \in Tx
      BY DEF BatchFailed, Fails
    <3> QED
      BY <1>9, <1>a, <2>1, <3>1 DEF BatchFailed, EndCommit, GiveUp, EndDrop, To, OwnerType, store, history, kicad
  <2>3. Wanted(o)' = Wanted(o)
    BY <2>2, WantedStays
  <2>4. TaleShape(o, base)'
    BY <1>d, <2>1, <2>2, <2>3 DEF TaleShape, Tale
  <2> QED
    BY <1>e, <2>1, <2>2, <2>4, StoryFocus DEF Resting, Done
<1>10. ASSUME NEW o \in Owner, Pushed(o) PROVE StoryInv'
  <2>1. /\ pc[o] = "ending" /\ pc[o] \notin Resting /\ EndingShape(o) /\ TaleShape(o, base) /\ UNCHANGED doc
        /\ pc'[o] \in Done /\ \A p \in Owner \ {o} : pc'[p] = pc[p]
        /\ Succeed(o)
    BY <1>10, <1>a, <1>d DEF Pushed, Succeed, To, OwnerType, PhaseShape, Resting, Done
  <2>2. CASE o \in Tx
    <3>1. /\ Wanted(o) = ForwardOps(o) /\ doc = Over(base, ForwardOps(o)) /\ local = doc
          /\ DOMAIN Wanted(o) = Changed(o) /\ SavedShape(o, base)
      BY <1>f, <2>1, <2>2 DEF EndingShape
    <3>2. /\ ForwardOps(o) \in Ops /\ InverseOps(o) \in Ops
      BY <1>a, <2>2, ChangeTypes DEF StoreType
    <3>3. Over(doc, InverseOps(o)) = base
      <4>1. \A i \in Item \ Changed(o) : doc[i] = base[i]
        BY <1>b, <3>1, <3>2, OverType
      <4> QED
        BY <1>a, <1>b, <2>2, <3>1, <4>1, Rollback DEF RolledBack
    <3>4. PICK e \in Entry : e = [fwd |-> ForwardOps(o), inv |-> InverseOps(o)]
      BY <3>2 DEF Entry
    <3>5. Leads(e, base, doc) /\ PushHistory(e)
      BY <2>1, <2>2, <3>1, <3>3, <3>4 DEF Leads, Succeed
    <3>6. ~replaying
      BY <1>a, <1>i, <2>1, <2>2 DEF AloneInv
    <3>7. Path(undoStack, base, FALSE)
      BY <2>1, <2>2 DEF TaleShape, Tale
    <3>8. Path(undoStack', doc, FALSE) /\ Path(redoStack', doc, TRUE)
      BY <1>a, <1>b, <3>5, <3>6, <3>7, PushTale
    <3> QED
      BY <1>e, <2>1, <3>8, StoryFocus DEF Tale, Done
  <2>3. CASE o \notin Tx
    <3>1. doc = Over(base, Wanted(o))
      BY <2>1 DEF EndingShape
    <3>2. entry[o] \in [entry : Entry, redo : BOOLEAN]
      BY <1>i, <2>1, <2>3 DEF EntryKnown, Owner
    <3>3. PICK e \in Entry : e = entry[o].entry
      BY <3>2
    <3>4. CASE entry[o].redo
      <4>1. Path(undoStack, base, FALSE) /\ Path(redoStack, doc, TRUE) /\ Leads(e, base, doc)
        BY <2>1, <2>3, <3>1, <3>3, <3>4 DEF TaleShape, Tale
      <4>2. undoStack' = Append(undoStack, e) /\ UNCHANGED redoStack
        BY <2>1, <2>3, <3>3, <3>4 DEF Succeed, Redoing
      <4>3. Path(Append(undoStack, e), doc, FALSE)
        BY <1>b, <1>g, <4>1, LongerPath
      <4> QED
        BY <1>e, <2>1, <4>1, <4>2, <4>3, StoryFocus DEF Tale, Done
    <3>5. CASE ~entry[o].redo
      <4>1. Path(undoStack, doc, FALSE) /\ Path(redoStack, base, TRUE) /\ Leads(e, doc, base)
        BY <2>1, <2>3, <3>1, <3>3, <3>5 DEF TaleShape, Tale
      <4>2. redoStack' = Append(redoStack, e) /\ UNCHANGED undoStack
        BY <2>1, <2>3, <3>3, <3>5 DEF Succeed, Redoing
      <4>3. Path(Append(redoStack, e), doc, TRUE)
        BY <1>b, <1>g, <4>1, LongerPath
      <4> QED
        BY <1>e, <2>1, <4>1, <4>2, <4>3, StoryFocus DEF Tale, Done
    <3> QED
      BY <3>4, <3>5
  <2> QED
    BY <2>2, <2>3
<1>11. ASSUME NEW o \in Owner, PushFailed(o) PROVE StoryInv'
  <2>1. /\ pc[o] = "ending" /\ pc[o] \notin Resting /\ o \in Tx /\ GiveUp(o, local)
        /\ doc' = base /\ UNCHANGED <<undoStack, redoStack>>
    BY <1>11 DEF PushFailed, Fails, Resting, Done
  <2>2. open = Nobody /\ \A p \in Owner \ {o} : pc[p] \in Resting
    BY <1>e, <2>1
  <2>3. pc'[o] = "failed" /\ \A p \in Owner \ {o} : pc'[p] = pc[p]
    BY <1>a, <2>1, <2>2 DEF GiveUp, EndDrop, To, OwnerType
  <2>4. Tale(doc, doc)'
    BY <1>d, <2>1 DEF TaleShape, Tale
  <2> QED
    BY <2>2, <2>3, <2>4, StoryFocus
<1>12. ASSUME NEW o \in Owner, DropServed(o) PROVE StoryInv'
  <2>1. /\ pc[o] = "cleaning" /\ pc[o] \notin Resting
        /\ UNCHANGED <<pc, base, first, last, entry, undoStack, redoStack>>
    BY <1>12, <1>i DEF DropServed, Discards, OwnInv, store, history, Resting, Done
  <2>2. Wanted(o)' = Wanted(o)
    BY <2>1, WantedStays
  <2>3. TaleShape(o, base)'
    BY <1>d, <2>1, <2>2 DEF TaleShape, Tale
  <2> QED
    BY <1>e, <2>1, <2>3, StoryFocus
<1>13. ASSUME NEW o \in Owner, DropReturns(o) PROVE StoryInv'
  <2>1. pc[o] = "cleaning" /\ target[o] = o
    BY <1>13, <1>i DEF DropReturns, Discards, OwnInv
  <2>2. o \in Tx
    BY <1>i, <2>1 DEF FreshInv, Discards, Owner
  <2>3. /\ pc[o] \notin Resting /\ doc = base /\ UNCHANGED <<doc, undoStack, redoStack>>
        /\ pc'[o] = "failed" /\ \A p \in Owner \ {o} : pc'[p] = pc[p]
    BY <1>13, <1>a, <1>d, <2>1 DEF DropReturns, PhaseShape, CleaningShape, To, OwnerType, history, kicad, Resting, Done
  <2>4. Tale(doc, doc)'
    BY <1>d, <2>1, <2>2, <2>3 DEF TaleShape, Tale
  <2> QED
    BY <1>e, <2>3, <2>4, StoryFocus
<1>14. ASSUME NEW u \in mode.undoers, Undo(u) PROVE StoryInv'
  <2>1. /\ \A p \in Owner : pc[p] \in Resting
        /\ pc'[u] = "waiting" /\ \A p \in Owner \ {u} : pc'[p] = pc[p]
        /\ u \in Undoer /\ u \in Owner /\ u \notin Tx /\ UNCHANGED doc
    BY <1>14, <1>a, <1>c DEF Undo, To, OwnerType, kicad
  <2>2. Path(undoStack, doc, FALSE) /\ Path(redoStack, doc, TRUE) /\ entry \in [Undoer -> Replay]
    BY <1>a, <1>d, <2>1 DEF Tale, HistoryType
  <2>3. CASE /\ undoStack # <<>>
             /\ undoStack' = SubSeq(undoStack, 1, Len(undoStack) - 1) /\ UNCHANGED redoStack
             /\ LET e == undoStack[Len(undoStack)] IN
                /\ entry' = [entry EXCEPT ![u] = [entry |-> e, redo |-> FALSE]]
                /\ todo' = [todo EXCEPT ![u] = e.inv]
    <3>1. PICK g \in Docs : Path(undoStack', g, FALSE) /\ Leads(undoStack[Len(undoStack)], g, doc)
      BY <1>g, <2>2, <2>3, ShorterPath
    <3>2. entry'[u].entry = undoStack[Len(undoStack)] /\ entry'[u].redo = FALSE
      BY <2>1, <2>2, <2>3
    <3>3. Wanted(u)' = undoStack[Len(undoStack)].inv
      BY <2>1, <3>2 DEF Wanted
    <3>4. Over(doc, Wanted(u)') = g
      BY <3>1, <3>3 DEF Leads
    <3>5. TaleShape(u, doc)'
      BY <2>1, <2>2, <2>3, <3>1, <3>2, <3>4 DEF TaleShape, Tale
    <3> QED
      BY <2>1, <3>5, StoryFocus DEF Resting, Done
  <2>4. CASE /\ redoStack # <<>>
             /\ redoStack' = SubSeq(redoStack, 1, Len(redoStack) - 1) /\ UNCHANGED undoStack
             /\ LET e == redoStack[Len(redoStack)] IN
                /\ entry' = [entry EXCEPT ![u] = [entry |-> e, redo |-> TRUE]]
                /\ todo' = [todo EXCEPT ![u] = e.fwd]
    <3>1. PICK g \in Docs : Path(redoStack', g, TRUE) /\ Leads(redoStack[Len(redoStack)], doc, g)
      BY <1>g, <2>2, <2>4, ShorterPath
    <3>2. entry'[u].entry = redoStack[Len(redoStack)] /\ entry'[u].redo = TRUE
      BY <2>1, <2>2, <2>4
    <3>3. Wanted(u)' = redoStack[Len(redoStack)].fwd
      BY <2>1, <3>2 DEF Wanted
    <3>4. Over(doc, Wanted(u)') = g
      BY <3>1, <3>3 DEF Leads
    <3>5. TaleShape(u, doc)'
      BY <2>1, <2>2, <2>4, <3>1, <3>2, <3>4 DEF TaleShape, Tale
    <3> QED
      BY <2>1, <3>5, StoryFocus DEF Resting, Done
  <2> QED
    BY <1>14, <2>3, <2>4 DEF Undo
<1>15. ASSUME NEW t \in Tx, NEW i \in mode.items, NEW v \in Value, Record(t, i, v) PROVE StoryInv'
  <2>1. /\ \A p \in Owner : pc[p] \in Resting
        /\ pc'[t] = "committed" /\ \A p \in Owner \ {t} : pc'[p] = pc[p]
        /\ doc[i] = Absent /\ doc' = [doc EXCEPT ![i] = v] /\ i \in Item
        /\ PushHistory([fwd |-> [j \in {i} |-> v], inv |-> [j \in {i} |-> Absent]])
    BY <1>15, <1>a, <1>c DEF Record, To, OwnerType
  <2>2. [j \in {i} |-> v] \in Ops /\ [j \in {i} |-> Absent] \in Ops
    <3>1. {i} \in SUBSET Item /\ [j \in {i} |-> v] \in [{i} -> Content] /\ [j \in {i} |-> Absent] \in [{i} -> Content]
      BY <2>1 DEF Content
    <3> QED
      BY <3>1, OpsFrom
  <2>3. PICK e \in Entry : e = [fwd |-> [j \in {i} |-> v], inv |-> [j \in {i} |-> Absent]]
    BY <2>2 DEF Entry
  <2>4. doc' \in Docs
    BY <1>b, <2>1 DEF Docs, Content
  <2>5. Over(doc, e.fwd) = doc'
    <3>1. /\ Over(doc, e.fwd) \in Docs
          /\ \A j \in Item : Over(doc, e.fwd)[j] = IF j \in DOMAIN e.fwd THEN e.fwd[j] ELSE doc[j]
      BY <1>b, <2>2, <2>3, OverType
    <3>2. DOMAIN e.fwd = {i} /\ e.fwd[i] = v
      BY <2>3
    <3>3. \A j \in Item : Over(doc, e.fwd)[j] = doc'[j]
      BY <1>b, <2>1, <3>1, <3>2 DEF Docs
    <3> QED
      BY <2>4, <3>1, <3>3, SameDocs
  <2>6. Over(doc', e.inv) = doc
    <3>1. /\ Over(doc', e.inv) \in Docs
          /\ \A j \in Item : Over(doc', e.inv)[j] = IF j \in DOMAIN e.inv THEN e.inv[j] ELSE doc'[j]
      BY <2>2, <2>3, <2>4, OverType
    <3>2. DOMAIN e.inv = {i} /\ e.inv[i] = Absent
      BY <2>3
    <3>3. \A j \in Item : Over(doc', e.inv)[j] = doc[j]
      BY <1>b, <2>1, <3>1, <3>2 DEF Docs
    <3> QED
      BY <1>b, <3>1, <3>3, SameDocs
  <2>7. ~replaying
    BY <1>a, <1>i, <2>1 DEF AloneInv
  <2>8. Path(undoStack, doc, FALSE)
    BY <1>d, <2>1 DEF Tale
  <2>9. Path(undoStack', doc', FALSE) /\ Path(redoStack', doc', TRUE)
    <3>1. PICK g \in Docs : g = doc'
      BY <2>4
    <3>2. Leads(e, doc, g) /\ PushHistory(e)
      BY <2>1, <2>3, <2>5, <2>6, <3>1 DEF Leads
    <3>3. Path(undoStack', g, FALSE) /\ Path(redoStack', g, TRUE)
      BY <1>a, <1>b, <2>7, <2>8, <3>2, PushTale
    <3> QED
      BY <3>1, <3>3
  <2> QED
    BY <1>a, <2>1, <2>9, StoryFocus DEF Tale
<1>16. CASE ClearHistory
  <2>1. /\ undoStack' = <<>> /\ redoStack' = <<>>
        /\ UNCHANGED <<pc, doc, base, first, last, entry>>
    BY <1>16 DEF ClearHistory, store, kicad
  <2>2. \A f \in Docs, back \in BOOLEAN : Path(<<>>, f, back)
    BY EmptyPath
  <2>3. ASSUME NEW o \in Owner, NEW f \in Docs, pc[o] # "idle", TaleShape(o, f)
        PROVE  IF o \in Tx THEN Path(undoStack', f, FALSE) /\ Path(redoStack', f, TRUE)
               ELSE LET aim == Over(f, Wanted(o)) IN
                    /\ \A back \in BOOLEAN : Path(<<>>, f, back) /\ Path(<<>>, aim, back)
                    /\ IF entry[o].redo THEN Leads(entry[o].entry, f, aim) ELSE Leads(entry[o].entry, aim, f)
    <3>1. Over(f, Wanted(o)) \in Docs
      BY <1>f, <2>3, OverType
    <3> QED
      BY <2>1, <2>2, <2>3, <3>1 DEF TaleShape
  <2>4. Tale(doc, doc)'
    BY <1>b, <2>1, <2>2 DEF Tale
  <2>5. \A o \in Owner : Wanted(o)' = Wanted(o)
    BY <2>1, WantedStays
  <2>6. \A o \in Owner : /\ pc[o] \in {"editing", "waiting"} => TaleShape(o, doc)'
                         /\ pc[o] \in {"applying", "ending", "cleaning"} => TaleShape(o, base)'
    <3> SUFFICES ASSUME NEW o \in Owner
                 PROVE  /\ pc[o] \in {"editing", "waiting"} => TaleShape(o, doc)'
                        /\ pc[o] \in {"applying", "ending", "cleaning"} => TaleShape(o, base)'
      OBVIOUS
    <3>1. ASSUME pc[o] \in {"editing", "waiting"} PROVE TaleShape(o, doc)'
      BY <1>b, <1>d, <2>1, <2>3, <2>5, <3>1 DEF TaleShape, Tale
    <3>2. ASSUME pc[o] \in {"applying", "ending", "cleaning"} PROVE TaleShape(o, base)'
      BY <1>b, <1>d, <2>1, <2>3, <2>5, <3>2 DEF TaleShape, Tale
    <3> QED
      BY <3>1, <3>2
  <2> QED
    BY <2>1, <2>4, <2>6 DEF StoryInv
<1> QED
  BY <1>1, <1>2, <1>3, <1>4, <1>5, <1>6, <1>7, <1>8, <1>9, <1>10, <1>11, <1>12, <1>13, <1>14,
     <1>15, <1>16 DEF Next, Running

LEMMA StoryInvariant ==
  ASSUME Failing \subseteq Tx
  PROVE  Spec => [](TypeOK /\ StoryInv)
<1>1. Init => StoryInv
  <2> SUFFICES ASSUME Init PROVE StoryInv
    OBVIOUS
  <2>1. /\ \A o \in Owner : pc[o] = "idle"
        /\ undoStack = <<>> /\ redoStack = <<>> /\ doc \in Docs
    BY DEF Init, Docs
  <2>2. Tale(doc, doc)
    BY <2>1, EmptyPath DEF Tale
  <2> QED
    BY <2>1, <2>2 DEF StoryInv
<1> QED
  BY <1>1, StoryStep, DataInvariant, PTL DEF Spec, ServiceInv

\* Ops that are applied already change nothing.
LEMMA AppliedTwice ==
  ASSUME NEW f \in Docs, NEW ops \in Ops
  PROVE  Over(Over(f, ops), ops) = Over(f, ops)
<1>1. PICK g \in Docs : g = Over(f, ops) /\ \A i \in Item : g[i] = IF i \in DOMAIN ops THEN ops[i] ELSE f[i]
  BY OverType
<1>2. /\ Over(g, ops) \in Docs
      /\ \A i \in Item : Over(g, ops)[i] = IF i \in DOMAIN ops THEN ops[i] ELSE g[i]
  BY OverType
<1>3. Over(g, ops) = g
  BY <1>1, <1>2, SameDocs
<1> QED
  BY <1>1, <1>3

\* The stacks of CommandService.ts:281-346: the newest undo entry describes the document
\* as it is and the newest redo entry the document before it, for transactions and
\* replays one after another, however many were undone, redone, refused or forgotten.
THEOREM StacksMatchDocument == ASSUME Failing \subseteq Tx PROVE Spec => []StacksMatch
<1>1. TypeOK /\ StoryInv => StacksMatch
  <2> SUFFICES ASSUME TypeOK, StoryInv, mode.alone, AllQuiet, ~lost
               PROVE  /\ undoStack # <<>> => Over(doc, undoStack[Len(undoStack)].fwd) = doc
                      /\ redoStack # <<>> => Over(doc, redoStack[Len(redoStack)].inv) = doc
    BY DEF StacksMatch
  <2>1. \A o \in Owner : pc[o] \in Resting
    BY DEF AllQuiet, Quiet, Resting, Done
  <2>2. Path(undoStack, doc, FALSE) /\ Path(redoStack, doc, TRUE)
    BY <2>1 DEF StoryInv, Tale
  <2>3. undoStack \in Seq(Entry) /\ redoStack \in Seq(Entry)
    BY TypeParts DEF HistoryType
  <2>4. ASSUME undoStack # <<>> PROVE Over(doc, undoStack[Len(undoStack)].fwd) = doc
    <3>1. PICK g \in Docs : Leads(undoStack[Len(undoStack)], g, doc)
      BY <2>2, <2>3, <2>4, ShorterPath
    <3>2. undoStack[Len(undoStack)].fwd \in Ops
      BY <2>3, <2>4, StackTypes, EntryType
    <3> QED
      BY <3>1, <3>2, AppliedTwice DEF Leads
  <2>5. ASSUME redoStack # <<>> PROVE Over(doc, redoStack[Len(redoStack)].inv) = doc
    <3>1. PICK g \in Docs : Leads(redoStack[Len(redoStack)], doc, g)
      BY <2>2, <2>3, <2>5, ShorterPath
    <3>2. redoStack[Len(redoStack)].inv \in Ops
      BY <2>3, <2>5, StackTypes, EntryType
    <3> QED
      BY <3>1, <3>2, AppliedTwice DEF Leads
  <2> QED
    BY <2>4, <2>5
<1> QED
  BY <1>1, StoryInvariant, PTL

-----------------------------------------------------------------------------
(* The history. *)

LEMMA NewestEntry ==
  ASSUME HistoryType, ~replaying, NEW e \in Entry, PushHistory(e)
  PROVE  redoStack' = <<>> /\ undoStack' # <<>> /\ undoStack'[Len(undoStack')] = e
<1>1. undoStack \in Seq(Entry) /\ undoStack' = LastFew(Append(undoStack, e)) /\ redoStack' = <<>>
  BY DEF HistoryType, PushHistory
<1>2. PICK n \in Nat : n = Len(undoStack)
  BY <1>1, LenProperties
<1>3. PICK s \in Seq(Entry) : s = Append(undoStack, e) /\ Len(s) = n + 1 /\ s[n + 1] = e /\ s # <<>>
  BY <1>1, <1>2, AppendProperties
<1>4. CASE n + 1 > Limit
  <2>1. n >= 1
    BY <1>4, CommandAssumption
  <2>2. Len(Tail(s)) = n /\ \A k \in 1..n : Tail(s)[k] = s[k + 1]
    BY <1>3, HeadTailProperties
  <2>3. Tail(s)[n] = e /\ Tail(s) # <<>>
    BY <1>3, <2>1, <2>2, EmptySeq
  <2>4. undoStack' = Tail(s)
    BY <1>1, <1>3, <1>4 DEF LastFew
  <2> QED
    BY <1>1, <2>2, <2>3, <2>4
<1>5. CASE ~(n + 1 > Limit)
  <2>1. undoStack' = s
    BY <1>1, <1>3, <1>5 DEF LastFew
  <2> QED
    BY <1>1, <1>3, <2>1
<1> QED
  BY <1>4, <1>5

\* A transaction whose commit() resolved is the newest undo entry, and nothing can be
\* redone any more (CommandService.ts:245-252, 281-289): whichever requests fail, also
\* when its end() finds no commit.
THEOREM CommitsAreRecorded == Spec => CommitIsRecorded
<1>1. TypeOK /\ FreshInv /\ AloneInv /\ [Next]_vars =>
        (mode.alone => \A t \in Tx : pc[t] \in {"applying", "ending"} /\ pc'[t] = "committed" =>
           redoStack' = <<>> /\ undoStack' # <<>> /\ undoStack'[Len(undoStack')].fwd = ForwardOps(t))
  <2> SUFFICES ASSUME TypeOK, FreshInv, AloneInv, [Next]_vars, mode.alone,
                      NEW t \in Tx, pc[t] \in {"applying", "ending"}, pc'[t] = "committed"
               PROVE  redoStack' = <<>> /\ undoStack' # <<>> /\ undoStack'[Len(undoStack')].fwd = ForwardOps(t)
    OBVIOUS
  <2>a. /\ StoreType /\ OwnerType /\ HistoryType /\ t \in Owner
        /\ Undoer \subseteq Owner /\ Tx \subseteq Owner /\ Tx \intersect Undoer = {} /\ mode.undoers \subseteq Undoer
    BY TypeParts, CommandAssumption DEF Owner, BackendType
  <2>b. pc[t] \notin Resting
    BY DEF Resting, Done
  <2>1. Succeed(t)
    <3>1. ASSUME NEW o \in Owner, EndCommit(o) \/ Pushed(o) PROVE Succeed(t)
      <4>1. Succeed(o) \/ pc' = [pc EXCEPT ![o] = "ending"]
        BY <3>1 DEF EndCommit, Pushed, To
      <4>2. Succeed(o)
        BY <2>a, <4>1 DEF OwnerType
      <4>3. Succeed(o) => pc' = [pc EXCEPT ![o] = IF o \in Tx THEN "committed" ELSE "returned"]
        BY DEF Succeed, To
      <4>4. o = t
        BY <2>a, <4>2, <4>3 DEF OwnerType
      <4> QED
        BY <4>2, <4>4
    <3>2. CASE UNCHANGED vars
      BY <3>2 DEF vars
    <3>3. ASSUME NEW o \in Owner, BeginCommit(o) \/ BeginRefused(o) \/ SendBatch(o) \/ EditRejected(o)
                 \/ BatchApplied(o) \/ BatchFailed(o) \/ PushFailed(o) \/ DropServed(o) \/ DropReturns(o)
          PROVE  FALSE
      BY <2>a, <3>3 DEF BeginCommit, BeginRefused, SendBatch, EditRejected, BatchApplied, BatchFailed,
         PushFailed, DropServed, DropReturns, GiveUp, EndDrop, To, OwnerType, Discards
    <3>4. ASSUME NEW u \in Tx, Begin(u) \/ Commit(u) \/ Drop(u) PROVE FALSE
      BY <2>a, <3>4 DEF Begin, Commit, Drop, EndDrop, To, OwnerType
    <3>5. ASSUME NEW u \in Tx, NEW i, NEW v, Edit(u, i, v) \/ Record(u, i, v) PROVE FALSE
      BY <2>a, <3>5 DEF Edit, Record, To, OwnerType
    <3>6. ASSUME NEW u \in Owner, Undo(u) PROVE FALSE
      BY <2>a, <3>6 DEF Undo, To, OwnerType
    <3>7. ~ClearHistory
      BY DEF ClearHistory
    <3> QED
      BY <2>a, <3>1, <3>2, <3>3, <3>4, <3>5, <3>6, <3>7 DEF Next, Running
  <2>2. ~replaying
    BY <2>a, <2>b DEF AloneInv
  <2>3. PICK e \in Entry : e = [fwd |-> ForwardOps(t), inv |-> InverseOps(t)]
    <3>1. ForwardOps(t) \in Ops /\ InverseOps(t) \in Ops
      BY <2>a, ChangeTypes DEF StoreType
    <3> QED
      BY <3>1 DEF Entry
  <2>4. PushHistory(e)
    BY <2>1, <2>3 DEF Succeed
  <2> QED
    BY <2>2, <2>3, <2>4, <2>a, NewestEntry
<1>2. Spec => [](TypeOK /\ FreshInv /\ AloneInv)
  BY TypeCorrect, AloneInvariant, PTL
<1> QED
  BY <1>1, <1>2, PTL DEF Spec, CommitIsRecorded

=============================================================================
