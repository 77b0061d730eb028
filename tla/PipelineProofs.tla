--------------------------- MODULE PipelineProofs ---------------------------
(***************************************************************************)
(* Proofs about Pipeline, for every number of clients, ring size and bound  *)
(* on the number of queries.                                                *)
(***************************************************************************)
EXTENDS Pipeline, SequenceTheorems, TLAPS

(* The answers are consumed, buffered and delivered in order.               *)
AnswersInOrder ==
  nsync <= nres /\ nres <= buffered /\ buffered <= arrived /\ arrived <= Len(cmds)

(* Whatever the ring has lost, a slot in use names commands that exist.     *)
SlotsNameCommands ==
  \A k \in Slots :
    q[k].exec => /\ q[k].first >= 1
                 /\ q[k].first + q[k].len <= Len(cmds) + 1

(* So does the chain that is being run.                                     *)
RunNamesCommands ==
  /\ pc \in {"exec", "callback"} => run.next >= 1 /\ run.last <= Len(cmds)
  /\ pc = "callback" => run.next <= run.last

(* A chain under construction starts with a command that has a callback.    *)
HeadHasCallback ==
  cur > 0 => cmds[Len(cmds) - cur + 1].exec

(* A chain is under construction only while a handler or callback runs.     *)
ChainOnlyInHandler ==
  cur > 0 => pc \in {"callback", "event", "close", "free"}

IInv ==
  /\ TypeOK
  /\ AnswersInOrder
  /\ SlotsNameCommands
  /\ RunNamesCommands
  /\ HeadHasCallback
  /\ ChainOnlyInHandler
  /\ RingInSendOrder
  /\ ChainRunsComplete

USE SizeAssumption, MaxQueriesAssumption, NoClientAssumption, CoalesceAssumption

-----------------------------------------------------------------------------
(* db_pipeline_enqueue: with every slot in its place, the slot at the write  *)
(* cursor is in use only when the ring is full.                              *)
LEMMA WriteSlotFree ==
  ASSUME TypeOK, RingInSendOrder, ~lost, q[wr] # EmptySlot
  PROVE  count = Size
BY DEF TypeOK, RingInSendOrder, Off, Slots

(* The ring after a chain is enqueued in a free slot.                        *)
LEMMA EnqueueKeepsOrder ==
  ASSUME IInv, cur > 0, ~lost, q[wr] = EmptySlot,
         q' = [q EXCEPT ![wr] = CurrentChain],
         wr' = Advance(wr), count' = count + 1, cur' = 0,
         UNCHANGED <<rd, cmds, nres>>
  PROVE  RingInSendOrder'
<1> DEFINE n == Len(cmds)
           chain == CurrentChain
<1>1. /\ n \in Nat /\ cur \in 1 .. n
      /\ q \in [Slots -> Slot] /\ rd \in Slots /\ wr \in Slots
      /\ nres \in Nat
  BY DEF IInv, TypeOK
<1>2. /\ chain.exec /\ chain.len = cur /\ chain.done = 0
      /\ chain.first = n - cur + 1
  BY <1>1 DEF CurrentChain, IInv, HeadHasCallback, TypeOK
<1>3. count \in 0 .. Size - 1
  <2>1. wr \in Slots /\ ~(Off(wr) < count)
    BY <1>1 DEF EmptySlot, IInv, RingInSendOrder, Off, Slots
  <2>2. QED  BY <2>1, <1>1 DEF IInv, RingInSendOrder, Off, Slots
<1>4. wr' = IF rd' + count' < Size THEN rd' + count' ELSE rd' + count' - Size
  BY <1>1, <1>3 DEF IInv, RingInSendOrder, Advance, Slots
<1>5. \A k \in Slots : Off(k)' = Off(k) /\ (Off(k) = count <=> k = wr)
                       /\ Off(k) \in 0 .. Size - 1
  BY <1>1, <1>3 DEF IInv, RingInSendOrder, Off, Slots
<1>6. q'[wr] = chain /\ \A k \in Slots : k # wr => q'[k] = q[k]
  BY <1>1
<1> HIDE DEF chain
<1>7. \A k \in Slots :
        IF Off(k)' < count'
        THEN q'[k].exec /\ q'[k].done < q'[k].len /\ (Off(k)' > 0 => q'[k].done = 0)
        ELSE q'[k] = EmptySlot
  BY <1>1, <1>2, <1>3, <1>5, <1>6 DEF IInv, RingInSendOrder
<1>8. \A j, k \in Slots :
        (Off(k)' < count' /\ Off(k)' = Off(j)' + 1)
          => q'[k].first = q'[j].first + q'[j].len
  BY <1>1, <1>2, <1>3, <1>5, <1>6 DEF IInv, RingInSendOrder
<1>9. q'[rd'].first + q'[rd'].done = nres' + 1
  <2>1. Off(rd) = 0  BY <1>1 DEF Off, Slots
  <2>2. CASE count = 0
    BY <2>1, <2>2, <1>1, <1>2, <1>5, <1>6 DEF IInv, RingInSendOrder
  <2>3. CASE count > 0
    BY <2>1, <2>3, <1>1, <1>5, <1>6 DEF IInv, RingInSendOrder
  <2>4. QED  BY <2>2, <2>3, <1>3
<1>10. \A k \in Slots :
         Off(k)' = count' - 1 => q'[k].first + q'[k].len = Len(cmds') - cur' + 1
  BY <1>1, <1>2, <1>3, <1>5, <1>6
<1>11. count' \in 0 .. Size /\ ~(count' = 0)
  BY <1>3
<1>12. QED
  BY <1>4, <1>7, <1>8, <1>9, <1>10, <1>11, Zenon DEF RingInSendOrder

(* db_pipeline_current_done keeps the ring's invariants and its types, and   *)
(* loses a chain only when the ring is full.                                 *)
LEMMA CurrentDone ==
  ASSUME IInv, db_pipeline_current_done, UNCHANGED <<cmds, nres>>
  PROVE  /\ RingInSendOrder'
         /\ SlotsNameCommands'
         /\ q' \in [Slots -> Slot] /\ rd' \in Slots /\ wr' \in Slots
         /\ count' \in Int /\ cur' = 0 /\ ctxClient' \in Pointer
         /\ lost' \in BOOLEAN /\ (lost => lost')
         /\ (~lost /\ lost') => count = Size
<1>1. CASE cur = 0
  <2>1. UNCHANGED <<q, rd, wr, count, cur, ctxClient, lost, cmds, nres>>
    BY <1>1 DEF db_pipeline_current_done, ring, IInv, TypeOK
  <2>2. QED
    BY <1>1, <2>1 DEF IInv, TypeOK, RingInSendOrder, SlotsNameCommands, Off
<1>2. CASE cur > 0
  <2>1. db_pipeline_enqueue(CurrentChain) /\ cur' = 0 /\ ctxClient' = NoClient
    BY <1>2 DEF db_pipeline_current_done
  <2>2. /\ CurrentChain \in Slot
        /\ CurrentChain.first >= 1
        /\ CurrentChain.first + CurrentChain.len = Len(cmds) + 1
    <3>1. cmds[Len(cmds) - cur + 1] \in Cmd /\ Len(cmds) - cur + 1 \in Nat
          /\ Len(cmds) - cur + 1 >= 1 /\ cur \in Nat /\ Len(cmds) \in Nat
      BY <1>2 DEF IInv, TypeOK
    <3>2. QED  BY <3>1 DEF CurrentChain, Slot, Cmd
  <2>3. CASE q[wr].client # NoClient
    <3>1. lost' = TRUE /\ UNCHANGED <<q, rd, wr, count>>
      BY <2>1, <2>3 DEF db_pipeline_enqueue, ring
    <3>2. q[wr] # EmptySlot
      BY <2>3 DEF EmptySlot
    <3>3. QED
      BY <2>1, <3>1, <3>2, WriteSlotFree
      DEF IInv, TypeOK, RingInSendOrder, SlotsNameCommands, Pointer
  <2>4. CASE q[wr].client = NoClient
    <3>1. /\ lost' = (lost \/ q[wr].exec)
          /\ q' = [q EXCEPT ![wr] = CurrentChain]
          /\ wr' = Advance(wr) /\ count' = count + 1 /\ rd' = rd
      BY <2>1, <2>4 DEF db_pipeline_enqueue, ring
    <3>2. /\ q' \in [Slots -> Slot] /\ rd' \in Slots /\ wr' \in Slots
          /\ count' \in Int /\ ctxClient' \in Pointer
      BY <2>1, <2>2, <3>1 DEF IInv, TypeOK, Advance, Slots, Pointer
    <3>3. lost' \in BOOLEAN /\ (lost => lost')
      BY <3>1 DEF IInv, TypeOK, Slot
    <3>4. SlotsNameCommands'
      BY <2>2, <3>1 DEF IInv, TypeOK, SlotsNameCommands
    <3>5. (~lost /\ lost') => count = Size
      <4>1. q[wr].exec => q[wr] # EmptySlot
        BY DEF EmptySlot
      <4>2. QED  BY <3>1, <4>1, WriteSlotFree DEF IInv
    <3>6. RingInSendOrder'
      <4>1. CASE lost'
        BY <4>1 DEF RingInSendOrder
      <4>2. CASE ~lost'
        <5>1. ~lost /\ ~q[wr].exec
          BY <4>2, <3>1
        <5>2. q[wr] = EmptySlot
          BY <5>1 DEF IInv, RingInSendOrder, TypeOK
        <5>3. QED
          BY <1>2, <2>1, <3>1, <5>1, <5>2, EnqueueKeepsOrder
      <4>3. QED  BY <4>1, <4>2
    <3>7. QED  BY <2>1, <3>2, <3>3, <3>4, <3>5, <3>6
  <2>5. QED  BY <2>3, <2>4
<1>3. QED  BY <1>1, <1>2 DEF IInv, TypeOK

-----------------------------------------------------------------------------
(* db_async_params, called from a handler or a callback, appends to the      *)
(* chain under construction and leaves the ring's order alone.               *)
LEMMA SendKeepsInvariant ==
  ASSUME IInv, NEW client \in Pointer, NEW exec \in BOOLEAN,
         exec \/ cur > 0, db_async_params(client, exec),
         pc \in {"callback", "event", "close"},
         pc' = pc \/ (pc = "close" /\ pc' = "free")
  PROVE  IInv' /\ (lost' = lost)
<1>1. /\ UNCHANGED <<q, rd, wr, count, ctxClient, nres, nsync, arrived, buffered,
                     run, ev, served, conn, lost>>
      /\ cur' = cur + 1
      /\ lq' = IF lq = "idle" THEN "busy" ELSE lq
  BY DEF db_async_params, ring
<1> DEFINE new == [client |-> IF client = NoClient THEN ctxClient ELSE client,
                   exec |-> exec]
<1>2. new \in Cmd /\ cmds \in Seq(Cmd)
  BY DEF Cmd, IInv, TypeOK
<1>3. cmds' = Append(cmds, new)
  BY DEF db_async_params
<1> HIDE DEF new
<1>4. /\ cmds' \in Seq(Cmd) /\ Len(cmds') = Len(cmds) + 1 /\ Len(cmds) \in Nat
      /\ \A i \in 1 .. Len(cmds) : cmds'[i] = cmds[i]
      /\ cmds'[Len(cmds) + 1] = new
  BY <1>2, <1>3
<1>5. TypeOK'
  BY <1>1, <1>4, SMTT(60) DEF IInv, TypeOK, PCs
<1>6. AnswersInOrder'
  BY <1>1, <1>4, SMTT(60) DEF IInv, TypeOK, AnswersInOrder
<1>7. SlotsNameCommands'
  BY <1>1, <1>4, SMTT(60) DEF IInv, TypeOK, SlotsNameCommands, Slot
<1>8. RunNamesCommands'
  BY <1>1, <1>4 DEF IInv, TypeOK, RunNamesCommands
<1>9. HeadHasCallback'
  <2>1. Len(cmds') - cur' + 1 = Len(cmds) - cur + 1 /\ cur \in 0 .. Len(cmds)
    BY <1>1, <1>4 DEF IInv, TypeOK
  <2>2. CASE cur > 0
    BY <1>1, <1>4, <2>1, <2>2 DEF IInv, HeadHasCallback
  <2>3. CASE cur = 0
    <3>1. new.exec  BY <2>3 DEF new
    <3>2. QED  BY <1>1, <1>4, <2>1, <2>3, <3>1 DEF HeadHasCallback
  <2>4. QED  BY <2>1, <2>2, <2>3
<1>10. ChainOnlyInHandler'
  BY DEF ChainOnlyInHandler
<1>11. RingInSendOrder'
  <2>1. Len(cmds') - cur' = Len(cmds) - cur
    BY <1>1, <1>4 DEF IInv, TypeOK
  <2>2. QED  BY <1>1, <1>4, <2>1 DEF IInv, TypeOK, RingInSendOrder, Off
<1>12. ChainRunsComplete'
  BY <1>1 DEF IInv, ChainRunsComplete
<1>13. QED
  BY <1>1, <1>5, <1>6, <1>7, <1>8, <1>9, <1>10, <1>11, <1>12 DEF IInv

(* Counting one more answered command of a chain.                            *)
LEMMA CountedSlot ==
  ASSUME NEW h \in Slot
  PROVE  [h EXCEPT !.done = @ + 1] \in Slot
BY DEF Slot

(* db_process_results with a result: the head of the ring is the command     *)
(* that sent the query, and the ring stays in order whether or not the chain *)
(* is now complete.                                                          *)
LEMMA ResultKeepsInvariant ==
  ASSUME IInv, QueryResult
  PROVE  IInv' /\ (lost' = lost)
<1> DEFINE head == q[rd]
<1>1. /\ pc = "results" /\ nres' = nres + 1 /\ nsync = nres /\ nres < buffered
      /\ lq' = "pidle"
      /\ UNCHANGED <<cur, ctxClient, cmds, nsync, arrived, buffered, ev, served,
                     conn, lost>>
  BY DEF QueryResult
<1>2. /\ rd \in Slots /\ wr \in Slots /\ q \in [Slots -> Slot] /\ head \in Slot
      /\ count \in Int /\ nres \in Nat /\ cur = 0 /\ Len(cmds) \in Nat
      /\ cmds \in Seq(Cmd) /\ Off(rd) = 0 /\ lost \in BOOLEAN
  BY <1>1 DEF IInv, TypeOK, ChainOnlyInHandler, Off, Slots
<1>3. AnswersInOrder' /\ HeadHasCallback' /\ ChainOnlyInHandler'
  BY <1>1, <1>2 DEF IInv, TypeOK, AnswersInOrder, HeadHasCallback, ChainOnlyInHandler
<1>4. CASE ~head.exec
  <2>1. UNCHANGED <<q, rd, wr, count, pc, run>>
    BY <1>4 DEF QueryResult, ring
  <2>2. lost
    BY <1>1, <1>2, <1>4 DEF IInv, RingInSendOrder, AnswersInOrder, TypeOK
  <2>3. QED
    BY <1>1, <1>2, <1>3, <2>1, <2>2
    DEF IInv, TypeOK, SlotsNameCommands, RunNamesCommands, RingInSendOrder,
        ChainRunsComplete
<1>5. CASE head.exec /\ head.done + 1 < head.len
  <2>1. /\ q' = [q EXCEPT ![rd].done = @ + 1]
        /\ UNCHANGED <<rd, wr, count, pc, run>>
    BY <1>2, <1>5 DEF QueryResult, Slot
  <2> DEFINE next == [head EXCEPT !.done = @ + 1]
  <2>2. /\ q' \in [Slots -> Slot]
        /\ \A k \in Slots : k # rd => q'[k] = q[k]
        /\ q'[rd] = next
    <3>1. q' = [q EXCEPT ![rd] = next]
      BY <2>1
    <3>2. next \in Slot
      BY <1>2, CountedSlot
    <3> HIDE DEF next
    <3>3. QED  BY <1>2, <3>1, <3>2
  <2>3. /\ q'[rd].exec = head.exec /\ q'[rd].first = head.first
        /\ q'[rd].len = head.len /\ q'[rd].done = head.done + 1
    BY <1>2, <2>2 DEF Slot
  <2>4. TypeOK' /\ SlotsNameCommands' /\ RunNamesCommands'
    BY <1>1, <1>2, <2>1, <2>2, <2>3
    DEF IInv, TypeOK, SlotsNameCommands, RunNamesCommands
  <2>5. ~lost => count > 0
    BY <1>2, <1>5 DEF IInv, RingInSendOrder, EmptySlot
  <2>6. RingInSendOrder'
    <3>1. SUFFICES ASSUME ~lost'  PROVE RingInSendOrder'
      BY DEF RingInSendOrder
    <3>2. \A k \in Slots : Off(k)' = Off(k) /\ (Off(k) > 0 <=> k # rd)
      BY <1>2, <2>1 DEF Off, Slots
    <3>3. ~lost /\ count > 0 /\ RingInSendOrder /\ rd' = rd /\ count' = count
          /\ wr' = wr /\ head.done \in Nat /\ head.first \in Nat
      BY <1>1, <1>2, <2>1, <2>5, <3>1 DEF IInv, Slot
    <3> HIDE DEF head
    <3>4. \A k \in Slots :
            IF Off(k)' < count'
            THEN q'[k].exec /\ q'[k].done < q'[k].len /\ (Off(k)' > 0 => q'[k].done = 0)
            ELSE q'[k] = EmptySlot
      <4>1. SUFFICES ASSUME NEW k \in Slots
                     PROVE  IF Off(k)' < count'
                            THEN /\ q'[k].exec /\ q'[k].done < q'[k].len
                                 /\ Off(k)' > 0 => q'[k].done = 0
                            ELSE q'[k] = EmptySlot
        OBVIOUS
      <4>2. /\ Off(k)' = Off(k) /\ count' = count
            /\ IF Off(k) < count
               THEN q[k].exec /\ q[k].done < q[k].len /\ (Off(k) > 0 => q[k].done = 0)
               ELSE q[k] = EmptySlot
        BY <3>2, <3>3 DEF RingInSendOrder
      <4>3. CASE k # rd
        <5>1. q'[k] = q[k]  BY <2>2, <4>3
        <5>2. QED  BY <4>2, <5>1
      <4>4. CASE k = rd
        <5>1. ~(Off(k) > 0) /\ Off(k) \in Int /\ count > 0 /\ count \in Int
          BY <1>2, <3>2, <3>3, <4>4 DEF Off, Slots, IInv, TypeOK
        <5>2. q'[k].exec /\ q'[k].done < q'[k].len
          BY <1>5, <2>3, <4>4 DEF head
        <5>3. QED  BY <4>2, <5>1, <5>2
      <4>5. QED  BY <4>3, <4>4
    <3>5. \A j, k \in Slots :
            (Off(k)' < count' /\ Off(k)' = Off(j)' + 1)
              => q'[k].first = q'[j].first + q'[j].len
      <4>1. \A k \in Slots : q'[k].first = q[k].first /\ q'[k].len = q[k].len
        BY <2>2, <2>3 DEF head
      <4>2. QED  BY <3>2, <3>3, <4>1 DEF RingInSendOrder
    <3>6. q'[rd'].first + q'[rd'].done = nres' + 1
      <4>1. head.first + head.done = nres + 1
        BY <3>3 DEF RingInSendOrder, head
      <4>2. QED  BY <1>1, <1>2, <2>3, <3>3, <4>1
    <3>7. \A k \in Slots :
            Off(k)' = count' - 1 => q'[k].first + q'[k].len = Len(cmds') - cur' + 1
      <4>1. \A k \in Slots : q'[k].first = q[k].first /\ q'[k].len = q[k].len
        BY <2>2, <2>3 DEF head
      <4>2. \A k \in Slots :
              Off(k) = count - 1 => q[k].first + q[k].len = Len(cmds) - cur + 1
        BY <3>3 DEF RingInSendOrder
      <4>3. cmds' = cmds /\ cur' = cur /\ count' = count
        BY <1>1, <3>3
      <4>4. QED  BY <3>2, <4>1, <4>2, <4>3
    <3>8. count' \in 0 .. Size /\ ~(count' = 0)
          /\ wr' = IF rd' + count' < Size THEN rd' + count' ELSE rd' + count' - Size
      BY <3>3 DEF RingInSendOrder
    <3>9. QED
      BY <3>4, <3>5, <3>6, <3>7, <3>8, Zenon DEF RingInSendOrder
  <2>7. ChainRunsComplete'
    BY <1>1, <2>1 DEF ChainRunsComplete
  <2>8. QED  BY <1>1, <1>3, <2>4, <2>6, <2>7 DEF IInv
<1>6. CASE head.exec /\ ~(head.done + 1 < head.len)
  <2>1. /\ q' = [q EXCEPT ![rd] = EmptySlot]
        /\ rd' = Advance(rd) /\ count' = count - 1 /\ wr' = wr
        /\ run' = [next |-> head.first, last |-> head.first + head.len - 1]
        /\ pc' = "exec"
    BY <1>2, <1>6 DEF QueryResult, Slot
  <2>2. /\ q' \in [Slots -> Slot] /\ rd' \in Slots
        /\ \A k \in Slots : k # rd => q'[k] = q[k]
        /\ q'[rd] = EmptySlot
    BY <1>2, <2>1, SMTT(60) DEF Slot, EmptySlot, Pointer, Advance, Slots
  <2>3. head.first >= 1 /\ head.first + head.len <= Len(cmds) + 1
    BY <1>2, <1>6 DEF IInv, SlotsNameCommands
  <2>4. TypeOK'
    <3>1. run' \in [next : Nat, last : Int]
      BY <1>2, <2>1 DEF Slot
    <3>2. count' \in Int /\ wr' \in Slots /\ pc' \in PCs /\ nres' \in Nat
      BY <1>1, <1>2, <2>1 DEF PCs
    <3>3. QED
      BY <1>1, <1>2, <2>2, <3>1, <3>2 DEF IInv, TypeOK
  <2>5. SlotsNameCommands'
    BY <1>1, <1>2, <2>2 DEF IInv, SlotsNameCommands, EmptySlot
  <2>6. RunNamesCommands'
    BY <1>1, <1>2, <2>1, <2>3 DEF RunNamesCommands, Slot
  <2>7. ~lost => /\ count \in 1 .. Size
                 /\ head.first + head.len - 1 = nres + 1
    BY <1>2, <1>6 DEF IInv, RingInSendOrder, EmptySlot, Slot
  <2>8. ChainRunsComplete'
    BY <1>1, <2>1, <2>7 DEF ChainRunsComplete
  <2>9. RingInSendOrder'
    <3>1. SUFFICES ASSUME ~lost'  PROVE RingInSendOrder'
      BY DEF RingInSendOrder
    <3>2. ~lost /\ count \in 1 .. Size /\ head.first + head.len - 1 = nres + 1
      BY <3>1, <2>7, <1>1
    <3>3. /\ \A k \in Slots : Off(k)' = IF k = rd THEN Size - 1 ELSE Off(k) - 1
          /\ \A k \in Slots : Off(k) \in 0 .. Size - 1
          /\ \A k \in Slots : (Off(k) = 0) <=> (k = rd)
      BY <1>2, <2>1 DEF Off, Slots, Advance
    <3>4. wr' = IF rd' + count' < Size THEN rd' + count' ELSE rd' + count' - Size
      BY <1>2, <2>1, <3>2 DEF IInv, RingInSendOrder, Advance, Slots
    <3>5. \A k \in Slots :
            IF Off(k)' < count'
            THEN q'[k].exec /\ q'[k].done < q'[k].len /\ (Off(k)' > 0 => q'[k].done = 0)
            ELSE q'[k] = EmptySlot
      BY <1>2, <2>1, <2>2, <3>2, <3>3 DEF IInv, RingInSendOrder
    <3>6. \A j, k \in Slots :
            (Off(k)' < count' /\ Off(k)' = Off(j)' + 1)
              => q'[k].first = q'[j].first + q'[j].len
      BY <1>2, <2>1, <2>2, <3>2, <3>3 DEF IInv, RingInSendOrder
    <3>7. count' > 0 => q'[rd'].first + q'[rd'].done = nres' + 1
      <4>1. SUFFICES ASSUME count' > 0
                     PROVE q'[rd'].first + q'[rd'].done = nres' + 1
        OBVIOUS
      <4>2. rd' \in Slots /\ rd' # rd /\ Off(rd') = 1
        BY <1>2, <2>1, <2>2, <3>2, <4>1 DEF Off, Slots, Advance
      <4>3. /\ q[rd'].first = head.first + head.len
            /\ q[rd'].done = 0
        BY <1>2, <2>1, <3>2, <3>3, <4>1, <4>2 DEF IInv, RingInSendOrder
      <4>4. q'[rd'].first = nres + 2 /\ q'[rd'].done = 0
        <5>1. q'[rd'] = q[rd']  BY <2>2, <4>2
        <5>2. head.first \in Nat /\ head.len \in Nat  BY <1>2 DEF Slot
        <5> HIDE DEF head
        <5>3. q[rd'].first = nres + 2  BY <1>2, <3>2, <4>3, <5>2
        <5>4. QED  BY <4>3, <5>1, <5>3
      <4>5. QED  BY <1>1, <1>2, <4>4
    <3>8. \A k \in Slots :
            Off(k)' = count' - 1 => q'[k].first + q'[k].len = Len(cmds') - cur' + 1
      <4>1. \A k \in Slots : Off(k)' = count' - 1 => k # rd /\ Off(k) = count - 1
        <5> TAKE k \in Slots
        <5>1. CASE k = rd
          BY <2>1, <3>2, <3>3, <5>1
        <5>2. CASE k # rd
          <6>1. Off(k)' = Off(k) - 1 /\ Off(k) \in Int  BY <3>3, <5>2
          <6>2. QED  BY <1>2, <2>1, <5>2, <6>1
        <5>3. QED  BY <5>1, <5>2
      <4>2. QED
        BY <1>1, <2>2, <3>2, <4>1 DEF IInv, RingInSendOrder
    <3>9. count' = 0 => nres' = Len(cmds') - cur'
      BY <1>1, <1>2, <2>1, <3>2, <3>3, SMTT(60) DEF IInv, RingInSendOrder, Slot
    <3>10. count' \in 0 .. Size
      BY <2>1, <3>2
    <3>11. QED
      BY <3>4, <3>5, <3>6, <3>7, <3>8, <3>9, <3>10, Zenon DEF RingInSendOrder
  <2>10. QED  BY <1>1, <1>3, <2>4, <2>5, <2>6, <2>8, <2>9 DEF IInv
<1>7. QED  BY <1>2, <1>4, <1>5, <1>6 DEF Slot

-----------------------------------------------------------------------------
(* Steps that touch neither the ring nor the commands.                       *)
LEMMA QuietStep ==
  ASSUME IInv, UNCHANGED <<q, rd, wr, count, cur, cmds, nres, lost>>
  PROVE  RingInSendOrder' /\ SlotsNameCommands' /\ HeadHasCallback'
BY DEF IInv, RingInSendOrder, SlotsNameCommands, HeadHasCallback, Off

(* The state in which server_eworker_init leaves the worker.                 *)
LEMMA InitInvariant ==
  Init => IInv
<1> SUFFICES ASSUME Init PROVE IInv
  OBVIOUS
<1>1. TypeOK
  <2>1. EmptySlot \in Slot  BY DEF EmptySlot, Slot, Pointer
  <2>2. q \in [Slots -> Slot]  BY <2>1 DEF Init
  <2>3. cmds \in Seq(Cmd) /\ Len(cmds) = 0  BY DEF Init
  <2>4. run \in [next : Nat, last : Int]  BY DEF Init
  <2>5. conn \in [Clients -> {"none", "open", "freed"}]  BY DEF Init
  <2>6. rd \in Slots /\ wr \in Slots  BY DEF Init, Slots
  <2>7. /\ count = 0 /\ cur = 0 /\ nres = 0 /\ nsync = 0 /\ arrived = 0
        /\ buffered = 0 /\ lq = "idle" /\ pc = "poll" /\ served = {}
        /\ lost = FALSE
    BY DEF Init
  <2>8. ctxClient \in Pointer /\ ev \in Pointer  BY DEF Init, Pointer
  <2>9. cur \in 0 .. Len(cmds)  BY <2>3, <2>7
  <2>10. count \in Int /\ nres \in Nat /\ nsync \in Nat /\ arrived \in Nat
         /\ buffered \in Nat /\ lq \in {"idle", "busy", "pidle"} /\ pc \in PCs
    BY <2>7 DEF PCs
  <2>11. served \subseteq Clients /\ lost \in BOOLEAN  BY <2>7
  <2>12. QED
    BY <2>2, <2>3, <2>4, <2>5, <2>6, <2>8, <2>9, <2>10, <2>11, Zenon DEF TypeOK
<1>2. AnswersInOrder /\ SlotsNameCommands /\ RunNamesCommands
  BY DEF Init, AnswersInOrder, SlotsNameCommands, RunNamesCommands, EmptySlot
<1>3. HeadHasCallback /\ ChainOnlyInHandler /\ ChainRunsComplete
  BY DEF Init, HeadHasCallback, ChainOnlyInHandler, ChainRunsComplete
<1>4. RingInSendOrder
  BY DEF Init, RingInSendOrder, Off, Slots
<1>5. QED  BY <1>1, <1>2, <1>3, <1>4 DEF IInv

(* Every step of the worker, of the other workers and of the database keeps  *)
(* the invariant, and a chain is lost only from a full ring.                 *)
LEMMA NextInvariant ==
  ASSUME IInv, [Next]_vars
  PROVE  IInv' /\ ((~lost /\ lost') => count = Size)
<1> USE DEF ring, libpq
<1> DEFINE Quiet == UNCHANGED <<q, rd, wr, count, cur, cmds, nres, lost>>
<1>1. CASE PollDb
  <2>1. Quiet  BY <1>1 DEF PollDb
  <2>2. QED
    BY <1>1, <2>1, QuietStep
    DEF PollDb, IInv, TypeOK, PCs, AnswersInOrder, RunNamesCommands,
        ChainOnlyInHandler, ChainRunsComplete
<1>2. CASE NoMoreResults
  <2>1. Quiet  BY <1>2 DEF NoMoreResults
  <2>2. QED
    BY <1>2, <2>1, QuietStep
    DEF NoMoreResults, IInv, TypeOK, PCs, AnswersInOrder, RunNamesCommands,
        ChainOnlyInHandler, ChainRunsComplete
<1>3. CASE ReadSocket
  <2>1. Quiet  BY <1>3 DEF ReadSocket
  <2>2. QED
    BY <1>3, <2>1, QuietStep
    DEF ReadSocket, IInv, TypeOK, AnswersInOrder, RunNamesCommands,
        ChainOnlyInHandler, ChainRunsComplete
<1>4. CASE SyncResult
  <2>1. Quiet  BY <1>4 DEF SyncResult
  <2>2. QED
    BY <1>4, <2>1, QuietStep
    DEF SyncResult, IInv, TypeOK, AnswersInOrder, RunNamesCommands,
        ChainOnlyInHandler, ChainRunsComplete
<1>5. CASE QueryResult
  BY <1>5, ResultKeepsInvariant
<1>6. CASE ExecNext
  <2>1. Quiet  BY <1>6 DEF ExecNext
  <2>2. QED
    BY <1>6, <2>1, QuietStep, SMTT(60)
    DEF ExecNext, IInv, TypeOK, PCs, AnswersInOrder, RunNamesCommands,
        ChainOnlyInHandler, ChainRunsComplete
<1>7. CASE ExecDone
  <2>1. /\ RingInSendOrder' /\ SlotsNameCommands'
        /\ q' \in [Slots -> Slot] /\ rd' \in Slots /\ wr' \in Slots
        /\ count' \in Int /\ cur' = 0 /\ ctxClient' \in Pointer
        /\ lost' \in BOOLEAN /\ (lost => lost')
        /\ (~lost /\ lost') => count = Size
    BY <1>7, CurrentDone DEF ExecDone
  <2>2. TypeOK'
    BY <1>7, <2>1, SMTT(60) DEF ExecDone, IInv, TypeOK, PCs
  <2>3. QED
    BY <1>7, <2>1, <2>2
    DEF ExecDone, IInv, TypeOK, AnswersInOrder, RunNamesCommands, HeadHasCallback,
        ChainOnlyInHandler, ChainRunsComplete
<1>8. CASE EpollTimeout
  <2>1. Quiet  BY <1>8 DEF EpollTimeout
  <2>2. QED
    BY <1>8, <2>1, QuietStep
    DEF EpollTimeout, IInv, TypeOK, PCs, AnswersInOrder, RunNamesCommands,
        ChainOnlyInHandler, ChainRunsComplete
<1>9. CASE EventDone \/ CloseDone
  <2>1. /\ RingInSendOrder' /\ SlotsNameCommands'
        /\ q' \in [Slots -> Slot] /\ rd' \in Slots /\ wr' \in Slots
        /\ count' \in Int /\ cur' = 0 /\ ctxClient' \in Pointer
        /\ lost' \in BOOLEAN /\ (lost => lost')
        /\ (~lost /\ lost') => count = Size
    BY <1>9, CurrentDone DEF EventDone, CloseDone
  <2>2. TypeOK'
    BY <1>9, <2>1 DEF EventDone, CloseDone, IInv, TypeOK, PCs, Pointer
  <2>3. QED
    BY <1>9, <2>1, <2>2
    DEF EventDone, CloseDone, IInv, TypeOK, AnswersInOrder, RunNamesCommands,
        HeadHasCallback, ChainOnlyInHandler, ChainRunsComplete
<1>10. CASE BatchDone
  <2>1. Quiet  BY <1>10 DEF BatchDone
  <2>2. QED
    BY <1>10, <2>1, QuietStep
    DEF BatchDone, IInv, TypeOK, PCs, AnswersInOrder, RunNamesCommands,
        ChainOnlyInHandler, ChainRunsComplete
<1>11. CASE HandlerQuery
  <2>1. PICK exec \in BOOLEAN : (exec \/ cur > 0) /\ db_async_params(NoClient, exec)
    BY <1>11 DEF HandlerQuery
  <2>2. QED
    BY <1>11, <2>1, SendKeepsInvariant DEF HandlerQuery, Pointer
<1>12. CASE CallbackQuery
  <2>1. PICK exec \in BOOLEAN, client \in {NoClient, cmds[run.next].client} :
           (exec \/ cur > 0) /\ db_async_params(client, exec)
    BY <1>12 DEF CallbackQuery
  <2>2. cmds[run.next] \in Cmd
    BY <1>12 DEF CallbackQuery, IInv, TypeOK, RunNamesCommands
  <2>3. client \in Pointer
    BY <2>1, <2>2 DEF Pointer, Cmd
  <2>4. QED
    BY <1>12, <2>1, <2>3, SendKeepsInvariant DEF CallbackQuery
<1>13. CASE DisconnectQuery
  BY <1>13, SendKeepsInvariant DEF DisconnectQuery, Pointer
<1>14. CASE ReadFailed
  <2>1. Quiet  BY <1>14 DEF ReadFailed
  <2>2. QED
    BY <1>14, <2>1, QuietStep
    DEF ReadFailed, IInv, TypeOK, PCs, AnswersInOrder, RunNamesCommands,
        ChainOnlyInHandler, ChainRunsComplete
<1>15. ASSUME NEW c \in Clients, ReadEvent(c) \/ HangupEvent(c)
       PROVE  IInv' /\ lost' = lost
  <2>1. Quiet  BY <1>15 DEF ReadEvent, HangupEvent
  <2>2. TypeOK'
    BY <1>15 DEF ReadEvent, HangupEvent, IInv, TypeOK, PCs, Pointer
  <2>3. QED
    BY <1>15, <2>1, <2>2, QuietStep
    DEF ReadEvent, HangupEvent, IInv, TypeOK, AnswersInOrder, RunNamesCommands,
        ChainOnlyInHandler, ChainRunsComplete
<1>16. ASSUME NEW c \in Clients, Accept(c) \/ OtherWorkerCloses(c)
       PROVE  IInv' /\ lost' = lost
  <2>1. Quiet  BY <1>16 DEF Accept, OtherWorkerCloses
  <2>2. QED
    BY <1>16, <2>1, QuietStep
    DEF Accept, OtherWorkerCloses, IInv, TypeOK, PCs, AnswersInOrder,
        RunNamesCommands, ChainOnlyInHandler, ChainRunsComplete
<1>17. CASE Answer
  <2>1. Quiet  BY <1>17 DEF Answer
  <2>2. QED
    BY <1>17, <2>1, QuietStep
    DEF Answer, IInv, TypeOK, AnswersInOrder, RunNamesCommands,
        ChainOnlyInHandler, ChainRunsComplete
<1>18. CASE UNCHANGED vars
  <2>1. Quiet  BY <1>18 DEF vars
  <2>2. QED
    BY <1>18, <2>1, QuietStep
    DEF vars, IInv, TypeOK, AnswersInOrder, RunNamesCommands,
        ChainOnlyInHandler, ChainRunsComplete
<1>19. QED
  BY <1>1, <1>2, <1>3, <1>4, <1>5, <1>6, <1>7, <1>8, <1>9, <1>10, <1>11, <1>12,
     <1>13, <1>14, <1>15, <1>16, <1>17, <1>18
  DEF Next, WorkerStep, PeerStep

-----------------------------------------------------------------------------
(* The inductive invariant holds throughout.                                 *)
THEOREM PipelineInvariant == Spec => []IInv
<1>1. IInv /\ [Next]_vars => IInv'
  BY NextInvariant
<1>2. QED  BY <1>1, InitInvariant, PTL DEF Spec

(* Type correctness: every cursor, counter, command and slot keeps its type, *)
(* even after the ring has overflowed.                                       *)
THEOREM TypeCorrect == Spec => []TypeOK
<1>1. IInv => TypeOK  BY DEF IInv
<1>2. QED  BY <1>1, PipelineInvariant, PTL

(* The ring holds the unanswered commands in send order, whatever its size.  *)
THEOREM RingOrder == Spec => []RingInSendOrder
<1>1. IInv => RingInSendOrder  BY DEF IInv
<1>2. QED  BY <1>1, PipelineInvariant, PTL

(* db_process_results hands every result to the command that asked for it.   *)
THEOREM ResultsMatch == Spec => []ResultMeetsItsCommand
<1>1. IInv => ResultMeetsItsCommand
  <2> SUFFICES ASSUME IInv, pc = "results", ~lost, nsync = nres, nres < buffered
               PROVE  q[rd].exec /\ q[rd].first + q[rd].done = nres + 1
    BY DEF ResultMeetsItsCommand
  <2>1. cur = 0 /\ nres < Len(cmds) /\ Len(cmds) \in Nat /\ nres \in Nat
    BY DEF IInv, TypeOK, ChainOnlyInHandler, AnswersInOrder
  <2>2. count > 0 /\ rd \in Slots /\ Off(rd) = 0
    BY <2>1 DEF IInv, TypeOK, RingInSendOrder, Off, Slots
  <2>3. QED  BY <2>2 DEF IInv, RingInSendOrder
<1>2. QED  BY <1>1, PipelineInvariant, PTL

(* A worker blocks in epoll_wait only when all its queries are answered.     *)
THEOREM BlockingIsSafe == Spec => []BlocksOnlyWhenDrained
<1>1. IInv => BlocksOnlyWhenDrained
  BY DEF IInv, TypeOK, ChainOnlyInHandler, RingInSendOrder, BlocksOnlyWhenDrained
<1>2. QED  BY <1>1, PipelineInvariant, PTL

(* A chain's callbacks run when, and only when, all its results are in.      *)
THEOREM ChainsRunComplete == Spec => []ChainRunsComplete
<1>1. IInv => ChainRunsComplete  BY DEF IInv
<1>2. QED  BY <1>1, PipelineInvariant, PTL

(* Nothing is lost while the ring has a free slot.                           *)
THEOREM NoEarlyLoss == Spec => LossOnlyWhenFull
<1>1. IInv /\ [Next]_vars => [(~lost /\ lost') => count = Size]_vars
  BY NextInvariant
<1>2. QED  BY <1>1, PipelineInvariant, PTL DEF Spec, LossOnlyWhenFull

-----------------------------------------------------------------------------
(* The refinement of QueryFifo                                               *)

(* The lengths of n chains from slot r on, around the end of the ring.       *)
Place(r, i) == IF r + i - 1 < Size THEN r + i - 1 ELSE r + i - 1 - Size
Chains(f, r, n) == [i \in 1 .. n |-> f[Place(r, i)].len]

LEMMA ChainsSeq ==
  ASSUME NEW f \in [Slots -> Slot], NEW r \in Slots, NEW n \in 0 .. Size
  PROVE  /\ Chains(f, r, n) \in Seq(Nat) /\ Len(Chains(f, r, n)) = n
         /\ \A i \in 1 .. n : Chains(f, r, n)[i] = f[Place(r, i)].len
         /\ \A i \in 1 .. n : Place(r, i) \in Slots
<1>1. \A i \in 1 .. n : Place(r, i) \in Slots  BY DEF Place, Slots
<1>2. \A i \in 1 .. n : f[Place(r, i)].len \in Nat  BY <1>1 DEF Slot
<1>3. QED  BY <1>1, <1>2 DEF Chains

(* db_pipeline_enqueue at the write cursor.                                  *)
LEMMA ChainsAppend ==
  ASSUME NEW f \in [Slots -> Slot], NEW r \in Slots, NEW n \in 0 .. Size - 1, NEW c \in Slot
  PROVE  Chains([f EXCEPT ![Place(r, n + 1)] = c], r, n + 1) = Append(Chains(f, r, n), c.len)
<1> DEFINE w == Place(r, n + 1)
<1>1. PICK g : g = [f EXCEPT ![w] = c]  OBVIOUS
<1>0. n \in Nat /\ n \in 0 .. Size /\ n + 1 \in 0 .. Size  OBVIOUS
<1>2. /\ w \in Slots
      /\ \A i \in 1 .. n : Place(r, i) \in Slots /\ Place(r, i) # w
  BY DEF Place, Slots
<1> HIDE DEF w
<1>3. g \in [Slots -> Slot] /\ g[w] = c /\ \A k \in Slots : k # w => g[k] = f[k]
  BY <1>1, <1>2
<1>4. c.len \in Nat  BY DEF Slot
<1>5. PICK s : s = Chains(f, r, n)  OBVIOUS
<1>6. s \in Seq(Nat) /\ Len(s) = n /\ \A i \in 1 .. n : s[i] = f[Place(r, i)].len
  BY <1>0, <1>5, ChainsSeq
<1>7. PICK t : t = Chains(g, r, n + 1)  OBVIOUS
<1>8. t \in Seq(Nat) /\ Len(t) = n + 1 /\ \A i \in 1 .. n + 1 : t[i] = g[Place(r, i)].len
  <2>1. PICK m \in 0 .. Size : m = n + 1  BY <1>0
  <2>2. /\ Chains(g, r, m) \in Seq(Nat) /\ Len(Chains(g, r, m)) = m
        /\ \A i \in 1 .. m : Chains(g, r, m)[i] = g[Place(r, i)].len
    <3>1. g \in [Slots -> Slot]  BY <1>3
    <3>2. QED  BY <3>1, ChainsSeq
  <2>3. QED  BY <2>1, <2>2, <1>7
<1>9. /\ Append(s, c.len) \in Seq(Nat) /\ Len(Append(s, c.len)) = n + 1
      /\ \A i \in 1 .. n : Append(s, c.len)[i] = s[i]
      /\ Append(s, c.len)[n + 1] = c.len
  BY <1>4, <1>6
<1>10. \A i \in 1 .. n + 1 : t[i] = Append(s, c.len)[i]
  <2> TAKE i \in 1 .. n + 1
  <2>1. CASE i = n + 1
    <3>1. t[i] = g[w].len  BY <2>1, <1>8 DEF w
    <3>2. QED  BY <2>1, <3>1, <1>3, <1>9
  <2>2. CASE i \in 1 .. n
    <3>1. t[i] = g[Place(r, i)].len /\ s[i] = f[Place(r, i)].len  BY <2>2, <1>6, <1>8
    <3>2. g[Place(r, i)] = f[Place(r, i)]  BY <2>2, <1>2, <1>3
    <3>3. QED  BY <2>2, <3>1, <3>2, <1>9
  <2>3. i = n + 1 \/ i \in 1 .. n  BY <1>0
  <2>4. QED  BY <2>1, <2>2, <2>3
<1>11. t = Append(s, c.len)  BY <1>8, <1>9, <1>10, SeqEqual
<1>12. QED  BY <1>1, <1>5, <1>7, <1>11 DEF w

(* db_pipeline_dequeue at the read cursor.                                   *)
LEMMA ChainsTail ==
  ASSUME NEW f \in [Slots -> Slot], NEW r \in Slots, NEW n \in 1 .. Size, NEW c \in Slot
  PROVE  /\ Chains(f, r, n) # <<>> /\ Head(Chains(f, r, n)) = f[r].len
         /\ Chains([f EXCEPT ![r] = c], Advance(r), n - 1) = Tail(Chains(f, r, n))
<1>1. PICK g : g = [f EXCEPT ![r] = c]  OBVIOUS
<1>2. g \in [Slots -> Slot] /\ \A k \in Slots : k # r => g[k] = f[k]  BY <1>1
<1>3. Advance(r) \in Slots /\ n - 1 \in 0 .. Size  BY DEF Advance, Slots
<1>4. \A i \in 1 .. n - 1 : /\ Place(Advance(r), i) = Place(r, i + 1)
                           /\ Place(r, i + 1) \in Slots /\ Place(r, i + 1) # r
  BY DEF Place, Advance, Slots
<1>5. Place(r, 1) = r  BY DEF Place, Slots
<1>6. PICK s : s = Chains(f, r, n)  OBVIOUS
<1>7. s \in Seq(Nat) /\ Len(s) = n /\ \A i \in 1 .. n : s[i] = f[Place(r, i)].len
  <2>1. n \in 0 .. Size  OBVIOUS
  <2>2. QED  BY <2>1, <1>6, ChainsSeq
<1>8. PICK t : t = Chains(g, Advance(r), n - 1)  OBVIOUS
<1>9. t \in Seq(Nat) /\ Len(t) = n - 1 /\ \A i \in 1 .. n - 1 : t[i] = g[Place(Advance(r), i)].len
  <2>1. PICK m \in 0 .. Size, a \in Slots : m = n - 1 /\ a = Advance(r)  BY <1>3
  <2>2. /\ Chains(g, a, m) \in Seq(Nat) /\ Len(Chains(g, a, m)) = m
        /\ \A i \in 1 .. m : Chains(g, a, m)[i] = g[Place(a, i)].len
    BY <1>2, ChainsSeq
  <2>3. QED  BY <2>1, <2>2, <1>8
<1>10. /\ s # <<>> /\ Head(s) = s[1] /\ Tail(s) \in Seq(Nat) /\ Len(Tail(s)) = n - 1
       /\ \A i \in 1 .. n - 1 : Tail(s)[i] = s[i + 1]
  BY <1>7
<1>11. s[1] = f[r].len  BY <1>5, <1>7
<1>12. \A i \in 1 .. n - 1 : t[i] = Tail(s)[i]
  <2> TAKE i \in 1 .. n - 1
  <2>1. t[i] = g[Place(r, i + 1)].len /\ Tail(s)[i] = s[i + 1]  BY <1>4, <1>9, <1>10
  <2>2. i + 1 \in 1 .. n  OBVIOUS
  <2>3. s[i + 1] = f[Place(r, i + 1)].len  BY <1>7, <2>2
  <2>4. QED  BY <2>1, <2>3, <1>2, <1>4
<1>13. t = Tail(s)  BY <1>9, <1>10, <1>12, SeqEqual
<1>14. QED  BY <1>1, <1>6, <1>8, <1>10, <1>11, <1>13

LEMMA ChainsSame ==
  ASSUME NEW f \in [Slots -> Slot], NEW g \in [Slots -> Slot], NEW r \in Slots,
         NEW n \in 0 .. Size, \A k \in Slots : g[k].len = f[k].len
  PROVE  Chains(g, r, n) = Chains(f, r, n)
<1>1. \A i \in 1 .. n : Place(r, i) \in Slots  BY DEF Place, Slots
<1>2. QED  BY <1>1 DEF Chains

(* What was run last ends where the first chain of the ring begins.          *)
RunBeforeHead ==
  ~lost => run.last = IF count = 0 THEN nres ELSE q[rd].first - 1

(* The state of QueryFifo, in the next state too.                            *)
LEMMA Mapped ==
  ASSUME IInv, ~lost
  PROVE  /\ Queue = Chains(q, rd, count) /\ count \in 0 .. Size
BY DEF Queue, Chains, Place, IInv, RingInSendOrder

(* Steps that QueryFifo does not see.                                        *)
LEMMA FifoStutters ==
  ASSUME UNCHANGED <<q, rd, count, cur, lost>>, run'.last = run.last
  PROVE  UNCHANGED Fifo!vars
<1>1. Queue' = Queue  BY DEF Queue
<1>2. QED  BY <1>1 DEF Fifo!vars

(* Once a chain is lost QueryFifo does not move.                             *)
LEMMA FifoBroken ==
  ASSUME lost, lost'
  PROVE  UNCHANGED Fifo!vars
BY DEF Fifo!vars

(* db_async_params is Send.                                                  *)
LEMMA QuerySends ==
  ASSUME ~lost, NEW client, NEW exec, db_async_params(client, exec)
  PROVE  Fifo!Send
<1>1. UNCHANGED <<q, rd, count, lost, run>> /\ cur' = cur + 1
  BY DEF db_async_params, ring
<1>2. Queue' = Queue  BY <1>1 DEF Queue
<1>3. QED  BY <1>1, <1>2 DEF Fifo!Send

(* The end of a handler or callback that has sent queries is HandlerReturns, *)
(* or Overflow if a chain is lost.                                           *)
LEMMA DoneReturns ==
  ASSUME IInv, RunBeforeHead, ~lost, db_pipeline_current_done,
         UNCHANGED <<cmds, nres>>, run'.last = run.last
  PROVE  [Fifo!Next]_(Fifo!vars) /\ RunBeforeHead'
<1>1. /\ q \in [Slots -> Slot] /\ rd \in Slots /\ wr \in Slots /\ cur \in Nat
      /\ Len(cmds) \in Nat /\ nres \in Nat /\ run.last \in Int
  BY DEF IInv, TypeOK
<1>2. CASE cur = 0
  <2>1. UNCHANGED <<q, rd, count, cur, lost>>
    BY <1>2 DEF db_pipeline_current_done, ring
  <2>2. QED  BY <2>1, FifoStutters DEF RunBeforeHead
<1>3. CASE cur > 0 /\ lost'
  <2>1. cur' = 0  BY <1>3 DEF db_pipeline_current_done
  <2>2. Fifo!Overflow  BY <1>3, <2>1 DEF Fifo!Overflow
  <2>3. QED  BY <1>3, <2>2 DEF Fifo!Next, RunBeforeHead
<1>4. CASE cur > 0 /\ ~lost'
  <2>1. /\ ~q[wr].exec /\ cur' = 0
        /\ q' = [q EXCEPT ![wr] = CurrentChain] /\ count' = count + 1 /\ rd' = rd
    <3>1. db_pipeline_enqueue(CurrentChain) /\ cur' = 0
      BY <1>4 DEF db_pipeline_current_done
    <3>2. q[wr].client = NoClient  BY <1>4, <3>1 DEF db_pipeline_enqueue
    <3>3. /\ lost' = (lost \/ q[wr].exec)
          /\ q' = [q EXCEPT ![wr] = CurrentChain] /\ count' = count + 1 /\ rd' = rd
      BY <3>1, <3>2 DEF db_pipeline_enqueue
    <3>4. ~q[wr].exec  BY <1>4, <3>3
    <3>5. QED  BY <3>1, <3>3, <3>4
  <2>2. /\ CurrentChain \in Slot /\ CurrentChain.len = cur /\ CurrentChain.done = 0
        /\ CurrentChain.first = Len(cmds) - cur + 1
    <3>1. cmds[Len(cmds) - cur + 1] \in Cmd /\ Len(cmds) - cur + 1 \in Nat
      BY <1>4 DEF IInv, TypeOK
    <3>2. QED  BY <3>1, <1>1 DEF CurrentChain, Slot, Cmd
  <2>3. count \in 0 .. Size - 1 /\ Off(wr) = count
    <3>1. ~(Off(wr) < count)  BY <1>1, <2>1 DEF IInv, RingInSendOrder
    <3>2. count \in 0 .. Size /\ wr = IF rd + count < Size THEN rd + count ELSE rd + count - Size
      BY DEF IInv, RingInSendOrder
    <3>3. count # Size  BY <3>1, <3>2, <1>1 DEF Off, Slots
    <3>4. QED  BY <3>2, <3>3, <1>1 DEF Off, Slots
  <2>4. wr = Place(rd, count + 1)
    BY <1>1, <2>3 DEF IInv, RingInSendOrder, Place, Slots
  <2>5. Queue = Chains(q, rd, count)  BY Mapped
  <2>6. Queue' = Chains(q', rd', count')  BY DEF Queue, Chains, Place
  <2>7. Queue' = Append(Queue, cur)
    <3>1. Chains([q EXCEPT ![Place(rd, count + 1)] = CurrentChain], rd, count + 1)
            = Append(Chains(q, rd, count), CurrentChain.len)
      <4>1. q \in [Slots -> Slot] /\ rd \in Slots  BY <1>1
      <4>2. CurrentChain \in Slot /\ count \in 0 .. Size - 1  BY <2>2, <2>3
      <4>3. QED  BY <4>1, <4>2, ChainsAppend
    <3>2. QED  BY <3>1, <2>1, <2>2, <2>4, <2>5, <2>6
  <2>8. q'[wr] = CurrentChain /\ (rd # wr => q'[rd] = q[rd])  BY <1>1, <2>1
  <2>9. count = 0 <=> rd = wr  BY <1>1, <2>3 DEF Off, Slots
  <2>10. (IF count = 0 THEN 0 ELSE q[rd].done) = q'[rd'].done /\ count' # 0
    BY <2>1, <2>2, <2>3, <2>8, <2>9
  <2>11. Fifo!HandlerReturns
    <3>1. lost' = lost  BY <1>4, CurrentDone DEF IInv, TypeOK
    <3>2. QED  BY <1>4, <3>1, <2>1, <2>7, <2>10 DEF Fifo!HandlerReturns
  <2>12. RunBeforeHead'
    <3>1. CASE count = 0
      <4>1. run.last = nres /\ nres = Len(cmds) - cur
        BY <3>1 DEF RunBeforeHead, IInv, RingInSendOrder
      <4>2. q'[rd'].first = Len(cmds) - cur + 1  BY <3>1, <2>1, <2>2, <2>8, <2>9
      <4>3. QED  BY <4>1, <4>2, <2>10, <1>1 DEF RunBeforeHead
    <3>2. CASE count # 0
      BY <3>2, <2>1, <2>8, <2>9, <2>10 DEF RunBeforeHead
    <3>3. QED  BY <3>1, <3>2
  <2>13. QED  BY <2>11, <2>12 DEF Fifo!Next
<1>5. QED  BY <1>1, <1>2, <1>3, <1>4

(* A result of the database is Result.                                       *)
LEMMA ResultArrives ==
  ASSUME IInv, RunBeforeHead, ~lost, QueryResult, IInv'
  PROVE  Fifo!Result /\ RunBeforeHead'
<1>1. /\ pc = "results" /\ nres' = nres + 1 /\ nsync = nres /\ nres < buffered
      /\ UNCHANGED <<cur, cmds, lost>>
  BY DEF QueryResult
<1>2. /\ rd \in Slots /\ q \in [Slots -> Slot] /\ q[rd] \in Slot /\ nres \in Nat /\ cur = 0
      /\ Len(cmds) \in Nat
      /\ run.last \in Int /\ Off(rd) = 0
  BY <1>1 DEF IInv, TypeOK, ChainOnlyInHandler, Off, Slots
<1>3. /\ count \in 1 .. Size /\ q[rd].exec /\ q[rd].done < q[rd].len
      /\ q[rd].first + q[rd].done = nres + 1 /\ run.last = q[rd].first - 1
  <2>1. nres < Len(cmds)  BY <1>1, <1>2 DEF IInv, TypeOK, AnswersInOrder
  <2>2. count \in 1 .. Size  BY <2>1, <1>2 DEF IInv, RingInSendOrder
  <2>3. QED  BY <2>2, <1>2 DEF IInv, RingInSendOrder, RunBeforeHead
<1>4. q[rd].first \in Nat /\ q[rd].len \in Nat /\ q[rd].done \in Nat  BY <1>2 DEF Slot
<1>5. Queue = Chains(q, rd, count)  BY Mapped
<1>6. Queue' = Chains(q', rd', count')  BY DEF Queue, Chains, Place
<1>7. Queue # <<>> /\ Head(Queue) = q[rd].len  BY <1>2, <1>3, <1>5, ChainsTail
<1>8. CASE q[rd].done + 1 < q[rd].len
  <2>1. /\ q' = [q EXCEPT ![rd].done = @ + 1]
        /\ UNCHANGED <<rd, count, run>>
    BY <1>3, <1>4, <1>8 DEF QueryResult
  <2>2. PICK next : next = [q[rd] EXCEPT !.done = @ + 1]  OBVIOUS
  <2>3. next \in Slot /\ next.first = q[rd].first /\ next.len = q[rd].len
        /\ next.done = q[rd].done + 1
    BY <1>2, <2>2 DEF Slot
  <2>4. q' = [q EXCEPT ![rd] = next]  BY <2>1, <2>2
  <2>5. q' \in [Slots -> Slot] /\ q'[rd] = next /\ \A k \in Slots : k # rd => q'[k] = q[k]
    BY <1>2, <2>3, <2>4
  <2>6. \A k \in Slots : q'[k].len = q[k].len  BY <2>3, <2>5
  <2>7. Queue' = Queue
    <3>1. count \in 0 .. Size  BY <1>3
    <3>2. Chains(q', rd, count) = Chains(q, rd, count)  BY <1>2, <2>5, <2>6, <3>1, ChainsSame
    <3>3. QED  BY <3>2, <1>5, <1>6, <2>1
  <2>8. /\ (IF count = 0 THEN 0 ELSE q[rd].done) = q[rd].done
        /\ (IF count' = 0 THEN 0 ELSE q'[rd'].done) = q[rd].done + 1
    BY <1>3, <2>1, <2>3, <2>5
  <2>9. Fifo!Result  BY <1>1, <1>7, <1>8, <2>1, <2>7, <2>8 DEF Fifo!Result
  <2>10. RunBeforeHead'  BY <1>1, <1>3, <2>1, <2>3, <2>5 DEF RunBeforeHead
  <2>11. QED  BY <2>9, <2>10
<1>9. CASE ~(q[rd].done + 1 < q[rd].len)
  <2>1. /\ q' = [q EXCEPT ![rd] = EmptySlot]
        /\ rd' = Advance(rd) /\ count' = count - 1
        /\ run'.last = q[rd].first + q[rd].len - 1
    BY <1>3, <1>4, <1>9 DEF QueryResult
  <2>2. EmptySlot \in Slot  BY DEF EmptySlot, Slot, Pointer
  <2>3. Queue' = Tail(Queue)
    BY <1>2, <1>3, <1>5, <1>6, <2>1, <2>2, ChainsTail
  <2>4. q[rd].first + q[rd].len - 1 = nres + 1  BY <1>2, <1>3, <1>4, <1>9
  <2>5. count' # 0 => q'[rd'].done = 0 /\ q'[rd'].first = nres + 2
    <3> SUFFICES ASSUME count' # 0 PROVE q'[rd'].done = 0 /\ q'[rd'].first = nres + 2
      OBVIOUS
    <3>1. count > 1  BY <1>3, <2>1
    <3>2. rd' \in Slots /\ rd' # rd /\ Off(rd') = 1
      BY <1>2, <1>3, <2>1, <3>1 DEF Off, Slots, Advance
    <3>3. q'[rd'] = q[rd']  BY <1>2, <2>1, <3>2
    <3>4. q[rd'].first = q[rd].first + q[rd].len /\ q[rd'].done = 0
      BY <1>2, <3>1, <3>2 DEF IInv, RingInSendOrder
    <3>5. QED  BY <1>2, <1>4, <2>4, <3>3, <3>4
  <2>6. run'.last = run.last + q[rd].len
    <3>1. run.last = q[rd].first - 1 /\ run'.last = q[rd].first + q[rd].len - 1  BY <1>3, <2>1
    <3>2. PICK a \in Nat, b \in Nat : a = q[rd].first /\ b = q[rd].len  BY <1>4
    <3>3. a + b - 1 = (a - 1) + b  OBVIOUS
    <3>4. QED  BY <3>1, <3>2, <3>3
  <2>7. /\ (IF count = 0 THEN 0 ELSE q[rd].done) = q[rd].done
        /\ (IF count' = 0 THEN 0 ELSE q'[rd'].done) = 0
    BY <1>3, <2>5
  <2>8. Fifo!Result  BY <1>1, <1>7, <1>9, <2>3, <2>6, <2>7 DEF Fifo!Result
  <2>9. RunBeforeHead'  BY <1>1, <1>2, <2>1, <2>4, <2>5 DEF RunBeforeHead
  <2>10. QED  BY <2>8, <2>9
<1>10. QED  BY <1>8, <1>9

(* Every step of the worker is a step of QueryFifo or none.                  *)
LEMMA NextRefines ==
  ASSUME IInv, RunBeforeHead, [Next]_vars, IInv'
  PROVE  [Fifo!Next]_(Fifo!vars) /\ RunBeforeHead'
<1> USE DEF ring, libpq
<1> DEFINE Goal == [Fifo!Next]_(Fifo!vars) /\ RunBeforeHead'
<1>1. CASE lost
  <2>1. lost'
    BY <1>1 DEF Next, WorkerStep, PeerStep, PollDb, NoMoreResults, ReadSocket, SyncResult, QueryResult,
       ExecNext, ExecDone, EpollTimeout, EventDone, CloseDone, BatchDone, HandlerQuery,
       CallbackQuery, DisconnectQuery, ReadFailed, ReadEvent, HangupEvent, Accept,
       OtherWorkerCloses, Answer, db_pipeline_current_done, db_pipeline_enqueue,
       db_async_params, vars
  <2>2. QED  BY <1>1, <2>1, FifoBroken DEF RunBeforeHead
<1>2. CASE ~lost
  <2>1. ASSUME UNCHANGED <<q, rd, count, cur, lost, nres>>, run'.last = run.last PROVE Goal
    BY <2>1, FifoStutters DEF RunBeforeHead
  <2>2. CASE PollDb \/ NoMoreResults \/ ReadSocket \/ SyncResult \/ EpollTimeout \/ BatchDone
             \/ ReadFailed \/ Answer \/ UNCHANGED vars
    BY <2>2, <2>1 DEF PollDb, NoMoreResults, ReadSocket, SyncResult, EpollTimeout, BatchDone,
       ReadFailed, Answer, vars
  <2>3. ASSUME NEW c \in Clients,
               ReadEvent(c) \/ HangupEvent(c) \/ Accept(c) \/ OtherWorkerCloses(c)
        PROVE  Goal
    BY <2>3, <2>1 DEF ReadEvent, HangupEvent, Accept, OtherWorkerCloses
  <2>4. CASE ExecNext
    <3>1. run'.last = run.last  BY <2>4 DEF ExecNext, IInv, TypeOK
    <3>2. QED  BY <2>4, <3>1, <2>1 DEF ExecNext
  <2>5. CASE QueryResult  BY <2>5, <1>2, ResultArrives DEF Fifo!Next
  <2>6. CASE ExecDone
    <3>1. run'.last = run.last  BY <2>6 DEF ExecDone, IInv, TypeOK
    <3>2. QED  BY <2>6, <3>1, <1>2, DoneReturns DEF ExecDone
  <2>7. CASE EventDone \/ CloseDone
    BY <2>7, <1>2, DoneReturns DEF EventDone, CloseDone
  <2>8. ASSUME NEW client, NEW exec, db_async_params(client, exec) PROVE Goal
    <3>1. UNCHANGED <<q, rd, count, lost, nres, run>>  BY <2>8 DEF db_async_params
    <3>2. QED  BY <2>8, <3>1, <1>2, QuerySends DEF RunBeforeHead, Fifo!Next
  <2>9. CASE HandlerQuery \/ CallbackQuery \/ DisconnectQuery
    BY <2>9, <2>8 DEF HandlerQuery, CallbackQuery, DisconnectQuery
  <2>10. QED
    BY <2>2, <2>3, <2>4, <2>5, <2>6, <2>7, <2>9 DEF Next, WorkerStep, PeerStep
<1>3. QED  BY <1>1, <1>2

LEMMA InitRefines == Init => Fifo!Init /\ RunBeforeHead
<1> SUFFICES ASSUME Init PROVE Fifo!Init /\ RunBeforeHead  OBVIOUS
<1>1. Queue = <<>>  BY DEF Init, Queue
<1>2. QED  BY <1>1 DEF Init, Fifo!Init, RunBeforeHead

(* Until a chain is lost, ring, counter, copied heads and libpq's one result *)
(* at a time behave as a queue of chains, for every size of the ring.        *)
THEOREM FifoImplemented == Spec => ImplementsQueryFifo
<1>1. IInv /\ RunBeforeHead /\ [Next]_vars /\ IInv' => [Fifo!Next]_(Fifo!vars) /\ RunBeforeHead'
  BY NextRefines
<1>2. QED
  BY <1>1, InitRefines, PipelineInvariant, PTL DEF Spec, ImplementsQueryFifo, Fifo!Spec
=============================================================================
