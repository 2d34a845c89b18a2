--------------------------- MODULE RingBufProofs ---------------------------
(***************************************************************************)
(* Proofs about RingBuf, for every capacity, every set of writers, every   *)
(* combination of flags and every bound on the sequence numbers.           *)
(***************************************************************************)
EXTENDS RingBuf, SequenceTheorems, TLAPS

USE CapacityAssumption

-----------------------------------------------------------------------------
(* Index arithmetic without remainders                                     *)

(* The next index wraps around at the end of the ring.                     *)
LEMMA IncValue ==
  ASSUME NEW i \in Index
  PROVE  /\ Inc(i) = IF i = Capacity - 1 THEN 0 ELSE i + 1
         /\ Inc(i) \in Index
  BY DEF Inc, Index

(* The distance between two indices of the ring.                           *)
LEMMA FwdValue ==
  ASSUME NEW a \in Index, NEW b \in Index
  PROVE  Fwd(a, b) = IF b >= a THEN b - a ELSE b - a + Capacity
  BY DEF Fwd, Index

(* The number of slots strictly between two indices.                       *)
LEMMA BetweenValue ==
  ASSUME NEW a \in Index, NEW b \in Index
  PROVE  (b - (a + 1)) % Capacity = IF b > a THEN b - a - 1
                                    ELSE b - a - 1 + Capacity
  BY DEF Index

-----------------------------------------------------------------------------
(* Every step keeps the types.                                             *)
LEMMA TypeStep == TypeOK /\ [Next]_vars => TypeOK'
<1> SUFFICES ASSUME TypeOK, [Next]_vars PROVE TypeOK'
  OBVIOUS
<1> USE DEF TypeOK, Goto
<1>1. CASE UNCHANGED vars
  BY <1>1 DEF vars, writerVars, readerVars
<1>2. ASSUME NEW w \in Writers, WriterNext(w) PROVE TypeOK'
  <2>1. ASSUME NEW o \in Ops, Lock(w, o) PROVE TypeOK'
    BY <2>1 DEF Lock, readerVars, PCs
  <2>2. CASE Begin(w)
    <3>1. [slot[tail] EXCEPT !.seq = seqnum, !.kind = "log"] \in Record
      BY ZenonT(30) DEF Record, Ops
    <3> QED
      BY <2>2, <3>1 DEF Begin, PushBegin, readerVars, PCs
  <2>3. CASE TakeSeq(w)
    BY <2>3 DEF TakeSeq, readerVars, PCs
  <2>4. CASE RoomFound(w)
    BY <2>4 DEF RoomFound, readerVars, PCs
  <2>5. CASE RoomTimeout(w)
    BY <2>5 DEF RoomTimeout, readerVars, PCs
  <2>6. CASE BeginSpecial(w)
    BY <2>6 DEF BeginSpecial, PushBegin, readerVars, PCs, Record
  <2>7. CASE SetArgs(w)
    BY <2>7, ZenonT(30) DEF SetArgs, Filled, readerVars, PCs, Record, Ops
  <2>8. CASE CommitCheck(w)
    <3>1. PICK l \in PCs : pc' = [pc EXCEPT ![w] = l]
      BY <2>8 DEF CommitCheck, PCs
    <3>2. pc' \in [Writers -> PCs]
      BY <3>1
    <3>3. dropcnt' \in Nat
      BY <2>8 DEF CommitCheck
    <3> QED
      BY <2>8, <3>2, <3>3 DEF CommitCheck, readerVars
  <2>9. CASE CommitTail(w)
    BY <2>9, IncValue DEF CommitTail, readerVars, PCs
  <2>10. CASE Block(w)
    BY <2>10 DEF Block, readerVars, PCs
  <2>11. CASE SpuriousWakeup(w)
    BY <2>11 DEF SpuriousWakeup, readerVars, PCs
  <2>12. CASE Acked(w)
    BY <2>12 DEF Acked, readerVars, PCs
  <2>13. CASE AckTimeout(w)
    BY <2>13 DEF AckTimeout, readerVars, PCs
  <2>14. CASE Unlock(w)
    BY <2>14 DEF Unlock, readerVars, PCs
  <2> QED
    BY <1>2, <2>1, <2>2, <2>3, <2>4, <2>5, <2>6, <2>7, <2>8, <2>9, <2>10,
       <2>11, <2>12, <2>13, <2>14 DEF WriterNext, WriterStep
<1>3. CASE ItReset
  BY <1>3 DEF ItReset, writerVars
<1>4. CASE FlushRecord
  <2>1. Inc(itHead) \in Index
    BY IncValue
  <2>2. Flushed(slot[Inc(itHead)]) \in Record /\ slot[Inc(itHead)].seq \in Nat
    BY <2>1 DEF Flushed, Record
  <2>3. slot' \in [Index -> Record]
    BY <1>4, <2>1, <2>2 DEF FlushRecord
  <2>4. consumed' \in Seq(Nat)
    BY <1>4, <2>2 DEF FlushRecord
  <2> QED
    BY <1>4, <2>1, <2>3, <2>4 DEF FlushRecord, writerVars
<1>5. CASE Commit
  BY <1>5 DEF Commit, CommittedHead, writerVars
<1>6. CASE SkipCommit
  BY <1>6 DEF SkipCommit, writerVars
<1>7. CASE Unblock
  BY <1>7 DEF Unblock, writerVars
<1>8. CASE Signal
  BY <1>8 DEF Signal, PCs
<1> QED
  BY <1>1, <1>2, <1>3, <1>4, <1>5, <1>6, <1>7, <1>8 DEF Next, EngineNext

(* The types hold initially.                                               *)
LEMMA TypeInit == Init => TypeOK
<1> SUFFICES ASSUME Init PROVE TypeOK
  OBVIOUS
<1>1. [seq |-> 0, args |-> 0, kind |-> "log", ack |-> FALSE] \in Record
  BY DEF Record, Ops
<1>2. slot \in [Index -> Record]
  BY <1>1 DEF Init
<1>3. pc \in [Writers -> PCs] /\ op \in [Writers -> Ops]
  BY DEF Init, PCs, Ops
<1>4. cur \in [Writers -> Nat] /\ rec \in [Writers -> Index]
  BY DEF Init, Index
<1>5. consumed \in Seq(Nat)
  BY DEF Init
<1>6. {head, tail, itHead, itTail} \subseteq Index
  BY DEF Init, Index
<1>7. {seqnum, dropcnt, abandoned} \subseteq Nat
  BY DEF Init
<1> QED
  BY <1>2, <1>3, <1>4, <1>5, <1>6, <1>7, Zenon DEF Init, TypeOK

(* Every reachable state is well typed: RingBuf's TypeOK is inductive.     *)
THEOREM TypeCorrect == Spec => []TypeOK
  BY TypeInit, TypeStep, PTL DEF Spec

-----------------------------------------------------------------------------
(* The inductive invariant                                                 *)

(* A writer inside the library holds the mutex of a shared ring.           *)
MutexInv == \A w \in Writers : Shared /\ pc[w] # "idle" => mutex = w

(* The engine's iterator stays within what was published: from _head over  *)
(* the records it took to its snapshot of _tail, not beyond _tail.         *)
Snapshot == (itTail - (head + 1)) % Capacity

ReaderInv ==
  rpc = "iter" => Fwd(head, itHead) <= Snapshot /\ Snapshot <= Size

(* A record that is being pushed is in the tail slot.                      *)
TailInv ==
  \A w \in Writers :
    /\ pc[w] \in {"args", "check", "commit", "block", "waiting"} =>
         rec[w] = tail /\ slot[tail].seq = cur[w]
    /\ pc[w] \in {"check", "commit", "block", "waiting"} =>
         /\ slot[tail].args = cur[w]
         /\ op[w] \in Special => ~slot[tail].ack

(* Room that was seen stays: only the holder of the ring moves _tail, and  *)
(* the engine only frees slots.                                            *)
RoomInv ==
  \A w \in Writers :
    /\ pc[w] = "commit" => ~Full
    /\ op[w] \in Special /\ pc[w] \in {"begin", "args", "check"} => ~Full
    /\ op[w] \in Special => pc[w] \notin {"block", "waiting"}
    /\ op[w] = "log" => pc[w] \notin {"seq", "room", "ack"}

(* A special record that waits for its acknowledgement is the last of the  *)
(* ring, and acknowledged only after it was taken.                         *)
AckInv ==
  \A w \in Writers :
    pc[w] = "ack" =>
      /\ slot[rec[w]].seq = cur[w]
      /\ tail = Inc(rec[w])
      /\ slot[rec[w]].ack =>
           /\ UnreadCount = 0
           /\ Len(consumed) > 0 /\ consumed[Len(consumed)] = cur[w]

(* Sequence numbers grow from what was delivered over what is unread, in   *)
(* ring order, to the record in the hands of a writer.                     *)
OrderInv ==
  /\ DeliveredInOrder
  /\ \A k \in DOMAIN consumed : consumed[k] < seqnum
  /\ \A i \in Unread : slot[i].seq < seqnum
  /\ \A k \in DOMAIN consumed, i \in Unread : consumed[k] < slot[i].seq
  /\ \A i, j \in Unread :
       Fwd(Cursor, i) < Fwd(Cursor, j) => slot[i].seq < slot[j].seq
  /\ \A w \in Writers : InFlight(w) =>
       /\ cur[w] < seqnum
       /\ \A k \in DOMAIN consumed : consumed[k] < cur[w]
       /\ \A i \in Unread : slot[i].seq < cur[w]

IInv ==
  /\ TypeOK
  /\ MutexInv
  /\ ReaderInv
  /\ TailInv
  /\ RoomInv
  /\ AckInv
  /\ OrderInv
  /\ WindowComplete
  /\ Accounting

-----------------------------------------------------------------------------
(* Where the records are                                                   *)

(* At most one writer is inside the library.                               *)
LEMMA OneWriter ==
  ASSUME MutexInv, NEW v \in Writers, NEW w \in Writers,
         pc[v] # "idle", pc[w] # "idle"
  PROVE  v = w
  BY OwnerAssumption DEF MutexInv

(* The counts of RingBuf without remainders.                               *)
LEMMA Counts ==
  ASSUME TypeOK
  PROVE  /\ Cursor \in Index
         /\ Size = IF tail > head THEN tail - head - 1
                   ELSE tail - head - 1 + Capacity
         /\ UnreadCount = IF tail > Cursor THEN tail - Cursor - 1
                          ELSE tail - Cursor - 1 + Capacity
         /\ Snapshot = IF itTail > head THEN itTail - head - 1
                       ELSE itTail - head - 1 + Capacity
  <1>1. Cursor \in Index
    BY DEF TypeOK, Cursor
  <1> QED
    BY <1>1, BetweenValue DEF TypeOK, Size, UnreadCount, Snapshot

(* The unread records are among the published ones, the tail slot is not.  *)
LEMMA Regions ==
  ASSUME TypeOK, ReaderInv
  PROVE  /\ Unread \subseteq Window
         /\ tail \notin Window
         /\ UnreadCount = Size - Fwd(head, Cursor)
         /\ UnreadCount \in Nat /\ Size \in Nat /\ Fwd(head, Cursor) \in Nat
  <1> USE DEF TypeOK
  <1>1. Cursor \in Index
    BY Counts
  <1>2. Fwd(head, Cursor) = IF Cursor >= head THEN Cursor - head
                            ELSE Cursor - head + Capacity
    BY <1>1, FwdValue
  <1>3. Fwd(head, Cursor) <= Size
    <2>1. CASE rpc = "iter"
      BY <2>1, <1>2, Counts DEF ReaderInv, Cursor, Index
    <2>2. CASE rpc # "iter"
      BY <2>2, <1>2, Counts DEF Cursor, Index
    <2> QED
      BY <2>1, <2>2
  <1>4. /\ UnreadCount = Size - Fwd(head, Cursor)
        /\ UnreadCount \in Nat /\ Size \in Nat /\ Fwd(head, Cursor) \in Nat
    BY <1>1, <1>2, <1>3, Counts DEF Index
  <1>5. tail \notin Window
    <2>1. Fwd(head, tail) = IF tail >= head THEN tail - head
                            ELSE tail - head + Capacity
      BY FwdValue
    <2> QED
      BY <2>1, Counts DEF Window, Index
  <1>6. ASSUME NEW i \in Unread PROVE i \in Window
    <2>1. i \in Index /\ Fwd(Cursor, i) \in 1 .. UnreadCount
      BY DEF Unread
    <2>2. Fwd(Cursor, i) = IF i >= Cursor THEN i - Cursor
                           ELSE i - Cursor + Capacity
      BY <1>1, <2>1, FwdValue
    <2>3. Fwd(head, i) = IF i >= head THEN i - head ELSE i - head + Capacity
      BY <2>1, FwdValue
    <2> QED
      BY <1>1, <1>2, <1>3, <2>1, <2>2, <2>3, Counts, SMTT(30) DEF Window, Index
  <1> QED
    BY <1>4, <1>5, <1>6

(* A record that next() returns is the first unread one.                   *)
LEMMA NextRecord ==
  ASSUME TypeOK, ReaderInv, rpc = "iter", HasNext
  PROVE  /\ Inc(itHead) \in Unread
         /\ Fwd(head, Inc(itHead)) = Fwd(head, itHead) + 1
         /\ Fwd(head, Inc(itHead)) <= Snapshot
         /\ \A i \in Unread : i = Inc(itHead) \/ 1 < Fwd(itHead, i)
         /\ Fwd(itHead, Inc(itHead)) = 1
  <1> USE DEF TypeOK
  <1> DEFINE h == Inc(itHead)
  <1>1. h \in Index /\ h = IF itHead = Capacity - 1 THEN 0 ELSE itHead + 1
    BY IncValue
  <1>2. Cursor = itHead
    BY DEF Cursor
  <1> HIDE DEF h
  <1>3. /\ Fwd(head, itHead) = IF itHead >= head THEN itHead - head
                               ELSE itHead - head + Capacity
        /\ Fwd(head, h) = IF h >= head THEN h - head ELSE h - head + Capacity
        /\ Fwd(itHead, h) = IF h >= itHead THEN h - itHead
                            ELSE h - itHead + Capacity
    BY <1>1, FwdValue
  <1>4. h # itTail
    BY DEF HasNext, h
  <1>5. /\ Fwd(head, h) = Fwd(head, itHead) + 1
        /\ Fwd(head, h) <= Snapshot
        /\ Fwd(itHead, h) = 1
        /\ 1 <= UnreadCount
    BY <1>1, <1>2, <1>3, <1>4, Counts DEF ReaderInv, Index
  <1>6. h \in Unread
    BY <1>1, <1>2, <1>5, Counts DEF Unread, Index
  <1>7. ASSUME NEW i \in Unread PROVE i = h \/ 1 < Fwd(itHead, i)
    <2>1. i \in Index
      BY DEF Unread
    <2>2. Fwd(itHead, i) = IF i >= itHead THEN i - itHead
                           ELSE i - itHead + Capacity
      BY <2>1, FwdValue
    <2>3. 1 <= Fwd(itHead, i)
      BY <1>2, <1>5, Counts DEF Unread, Index
    <2> QED
      BY <1>1, <1>3, <1>5, <2>1, <2>2, <2>3 DEF Index
  <1> QED
    BY <1>5, <1>6, <1>7 DEF h

(* Steps that move no index leave the regions of the ring alone.           *)
LEMMA Unmoved ==
  ASSUME UNCHANGED <<head, tail, rpc, itHead, itTail>>
  PROVE  /\ Cursor' = Cursor /\ UnreadCount' = UnreadCount
         /\ Unread' = Unread /\ Window' = Window
         /\ Full' = Full
         /\ ReaderInv => ReaderInv'
  BY DEF Cursor, UnreadCount, Unread, Window, Size, Full, ReaderInv, Snapshot

(* The number of the record in the hands of a writer.                      *)
LEMMA InFlightOne ==
  ASSUME MutexInv, NEW w \in Writers, pc[w] # "idle"
  PROVE  (\E v \in Writers : InFlight(v)) <=> InFlight(w)
  BY OneWriter DEF InFlight

(* A step of writer w that leaves the unread records and the indices alone *)
(* keeps the order of sequence numbers.                                    *)
LEMMA QuietOrder ==
  ASSUME OrderInv, TypeOK,
         UNCHANGED <<head, tail, rpc, itHead, itTail, consumed>>,
         \A i \in Unread : slot'[i].seq = slot[i].seq,
         NEW w \in Writers,
         \A v \in Writers \ {w} :
           (InFlight(v)' => InFlight(v)) /\ cur'[v] = cur[v],
         \/ seqnum' = seqnum /\ (InFlight(w)' => InFlight(w) /\ cur'[w] = cur[w])
         \/ seqnum' = seqnum + 1 /\ cur'[w] = seqnum
  PROVE  OrderInv'
  <1>1. Unread' = Unread /\ Cursor' = Cursor
    BY Unmoved
  <1>2. \A i \in Unread : slot[i].seq \in Nat
    BY DEF TypeOK, Unread, Record
  <1>3. \A k \in DOMAIN consumed : consumed[k] \in Nat
    BY DEF TypeOK
  <1>4. seqnum \in Nat /\ \A v \in Writers : cur[v] \in Nat
    BY DEF TypeOK
  <1>5. \A v \in Writers : InFlight(v)' =>
          /\ cur'[v] < seqnum'
          /\ \A k \in DOMAIN consumed : consumed[k] < cur'[v]
          /\ \A i \in Unread : slot[i].seq < cur'[v]
    <2> SUFFICES ASSUME NEW v \in Writers, InFlight(v)'
                 PROVE  /\ cur'[v] < seqnum'
                        /\ \A k \in DOMAIN consumed : consumed[k] < cur'[v]
                        /\ \A i \in Unread : slot[i].seq < cur'[v]
      OBVIOUS
    <2>1. CASE v # w
      BY <2>1, <1>2, <1>3, <1>4 DEF OrderInv
    <2>2. CASE v = w
      BY <2>2, <1>2, <1>3, <1>4 DEF OrderInv
    <2> QED
      BY <2>1, <2>2
  <1>6. DeliveredInOrder'
    BY DEF OrderInv, DeliveredInOrder
  <1> QED
    BY <1>1, <1>2, <1>3, <1>4, <1>5, <1>6 DEF OrderInv, Fwd

-----------------------------------------------------------------------------
(* A writer's steps that touch neither the records nor the indices keep    *)
(* the invariant.                                                          *)
LEMMA QuietWriterStep ==
  ASSUME IInv, [Next]_vars, NEW w \in Writers,
         \/ \E o \in Ops : Lock(w, o)
         \/ TakeSeq(w) \/ RoomFound(w) \/ RoomTimeout(w) \/ CommitCheck(w)
         \/ Block(w) \/ SpuriousWakeup(w) \/ Acked(w) \/ AckTimeout(w)
         \/ Unlock(w)
  PROVE  IInv'
  <1> USE DEF Goto
  <1>1. TypeOK'
    BY TypeStep DEF IInv
  <1>2. UNCHANGED <<slot, head, tail, rpc, itHead, itTail, consumed, rec>>
    BY DEF Lock, TakeSeq, RoomFound, RoomTimeout, CommitCheck, Block,
           SpuriousWakeup, Acked, AckTimeout, Unlock, readerVars
  <1>3. /\ Cursor' = Cursor /\ UnreadCount' = UnreadCount
        /\ Unread' = Unread /\ Window' = Window /\ Full' = Full
        /\ ReaderInv'
    BY <1>2, Unmoved DEF IInv
  <1>4. WindowComplete'
    BY <1>2, <1>3 DEF IInv, WindowComplete
  <1>5. \A v \in Writers \ {w} :
          pc'[v] = pc[v] /\ op'[v] = op[v] /\ cur'[v] = cur[v]
    BY DEF IInv, TypeOK, Lock, TakeSeq, RoomFound, RoomTimeout, CommitCheck,
           Block, SpuriousWakeup, Acked, AckTimeout, Unlock
  <1>6. \A v \in Writers \ {w} : InFlight(v)' <=> InFlight(v)
    BY <1>5 DEF InFlight
  <1>7. MutexInv'
    BY <1>5, WriterAssumption
    DEF IInv, TypeOK, MutexInv, Lock, TakeSeq, RoomFound, RoomTimeout,
        CommitCheck, Block, SpuriousWakeup, Acked, AckTimeout, Unlock
  <1>8. TailInv'
    BY <1>2, <1>5
    DEF IInv, TypeOK, TailInv, Lock, TakeSeq, RoomFound, RoomTimeout,
        CommitCheck, Block, SpuriousWakeup, Acked, AckTimeout, Unlock
  <1>9. RoomInv'
    <2>1. RoomFound(w) => ~Full
      BY DEF RoomFound, Room, Full, IInv, TypeOK, Index
    <2> QED
      BY <1>3, <1>5, <2>1
      DEF IInv, TypeOK, RoomInv, Lock, TakeSeq, RoomFound, RoomTimeout,
          CommitCheck, Block, SpuriousWakeup, Acked, AckTimeout, Unlock,
          Special, Ops
  <1>10. pc'[w] # "ack"
    BY DEF IInv, TypeOK, RoomInv, Lock, TakeSeq, RoomFound, RoomTimeout,
           CommitCheck, Block, SpuriousWakeup, Acked, AckTimeout, Unlock,
           Special, Ops
  <1>11. AckInv'
    BY <1>2, <1>3, <1>5, <1>10 DEF IInv, AckInv, Inc
  <1>12. OrderInv'
    <2>1. \/ seqnum' = seqnum /\ (InFlight(w)' => InFlight(w) /\ cur'[w] = cur[w])
          \/ seqnum' = seqnum + 1 /\ cur'[w] = seqnum
      BY DEF InFlight, IInv, TypeOK, RoomInv, Lock, TakeSeq, RoomFound,
             RoomTimeout, CommitCheck, Block, SpuriousWakeup, Acked,
             AckTimeout, Unlock, Special, Ops
    <2> QED
      BY <1>2, <1>5, <1>6, <2>1, QuietOrder DEF IInv
  <1>13. Accounting'
    <2>1. CASE \E o \in Ops : Lock(w, o)
      <3>1. ~InFlight(w) /\ ~InFlight(w)'
        BY <2>1 DEF Lock, InFlight, IInv, TypeOK, Special, Ops
      <3>2. (\E v \in Writers : InFlight(v))' <=> \E v \in Writers : InFlight(v)
        BY <1>6, <3>1
      <3> QED
        BY <1>2, <1>3, <2>1, <3>2 DEF Lock, IInv, Accounting
    <2>2. CASE ~(\E o \in Ops : Lock(w, o))
      <3>1. pc[w] # "idle"
        BY <2>2 DEF TakeSeq, RoomFound, RoomTimeout, CommitCheck, Block,
                    SpuriousWakeup, Acked, AckTimeout, Unlock
      <3>2. (\E v \in Writers : InFlight(v)) <=> InFlight(w)
        BY <3>1, InFlightOne DEF IInv
      <3>3. (\E v \in Writers : InFlight(v))' <=> InFlight(w)'
        BY <1>6, <3>1, OneWriter DEF InFlight, IInv
      <3>4. \/ /\ InFlight(w)' <=> InFlight(w)
               /\ seqnum' = seqnum /\ dropcnt' + abandoned' = dropcnt + abandoned
            \/ /\ ~InFlight(w) /\ InFlight(w)'
               /\ seqnum' = seqnum + 1
               /\ dropcnt' + abandoned' = dropcnt + abandoned
            \/ /\ InFlight(w) /\ ~InFlight(w)'
               /\ seqnum' = seqnum
               /\ dropcnt' + abandoned' = dropcnt + abandoned + 1
        <4> USE DEF InFlight, IInv, TypeOK
        <4>1. CASE TakeSeq(w)
          BY <4>1 DEF TakeSeq, Special
        <4>2. CASE RoomFound(w)
          BY <4>2 DEF RoomFound, RoomInv, Special, Ops
        <4>3. CASE RoomTimeout(w)
          BY <4>3 DEF RoomTimeout
        <4>4. CASE CommitCheck(w)
          <5>1. pc[w] = "check" /\ InFlight(w) /\ seqnum' = seqnum
            BY <4>4 DEF CommitCheck
          <5>2. CASE pc'[w] \in {"commit", "block"} /\ dropcnt' = dropcnt
            BY <4>4, <5>1, <5>2 DEF CommitCheck
          <5>3. CASE pc'[w] \in {"unlock", "ack"} /\ dropcnt' = dropcnt + 1
            BY <4>4, <5>1, <5>3 DEF CommitCheck
          <5> QED
            BY <4>4, <5>2, <5>3 DEF CommitCheck
        <4>5. CASE Block(w) \/ SpuriousWakeup(w)
          BY <4>5 DEF Block, SpuriousWakeup
        <4>6. CASE Acked(w) \/ AckTimeout(w) \/ Unlock(w)
          BY <4>6 DEF Acked, AckTimeout, Unlock
        <4> QED
          BY <2>2, <4>1, <4>2, <4>3, <4>4, <4>5, <4>6
      <3>5. Len(consumed) \in Nat /\ UnreadCount \in Nat
        BY Regions DEF IInv, TypeOK
      <3>6. seqnum = Len(consumed) + UnreadCount + dropcnt + abandoned
                       + (IF InFlight(w) THEN 1 ELSE 0)
        BY <3>2 DEF IInv, Accounting
      <3>7. seqnum' = Len(consumed) + UnreadCount + dropcnt' + abandoned'
                       + (IF InFlight(w)' THEN 1 ELSE 0)
        <4>1. /\ {seqnum, dropcnt, abandoned} \subseteq Nat
              /\ {seqnum', dropcnt', abandoned'} \subseteq Nat
          BY <1>1 DEF IInv, TypeOK
        <4>2. CASE InFlight(w)
          BY <3>4, <3>5, <3>6, <4>1, <4>2
        <4>3. CASE ~InFlight(w)
          BY <3>4, <3>5, <3>6, <4>1, <4>3
        <4> QED
          BY <4>2, <4>3
      <3> QED
        BY <1>2, <1>3, <3>3, <3>7 DEF Accounting
    <2> QED
      BY <2>1, <2>2
  <1> QED
    BY <1>1, <1>3, <1>4, <1>7, <1>8, <1>9, 
       <1>11, <1>12, <1>13 DEF IInv

(* A writer that fills in its record writes the tail slot, which is not    *)
(* among the published ones.                                               *)
LEMMA FillStep ==
  ASSUME IInv, [Next]_vars, NEW w \in Writers,
         Begin(w) \/ BeginSpecial(w) \/ SetArgs(w)
  PROVE  IInv'
  <1> USE DEF Goto
  <1>1. TypeOK'
    BY TypeStep DEF IInv
  <1>2. /\ UNCHANGED <<head, tail, rpc, itHead, itTail, consumed>>
        /\ UNCHANGED <<dropcnt, abandoned, mutex, op>>
    BY DEF Begin, BeginSpecial, SetArgs, readerVars
  <1>3. /\ Cursor' = Cursor /\ UnreadCount' = UnreadCount
        /\ Unread' = Unread /\ Window' = Window /\ Full' = Full
        /\ ReaderInv'
    BY <1>2, Unmoved DEF IInv
  <1>4. pc[w] \in {"begin", "args"} /\ pc'[w] \in {"args", "check"}
    BY DEF Begin, BeginSpecial, SetArgs, IInv, TypeOK
  <1>5. \A v \in Writers \ {w} :
          pc[v] = "idle" /\ pc'[v] = "idle" /\ cur'[v] = cur[v]
    BY <1>4, OneWriter DEF IInv, TypeOK, Begin, BeginSpecial, SetArgs
  <1>6. \A i \in Index \ {tail} : slot'[i] = slot[i]
    BY DEF IInv, TypeOK, TailInv, Begin, BeginSpecial, SetArgs, PushBegin
  <1>7. \A i \in Window : slot'[i] = slot[i]
    BY <1>6, Regions DEF IInv, Window
  <1>8. WindowComplete'
    BY <1>3, <1>7 DEF IInv, WindowComplete
  <1>9. MutexInv'
    BY <1>2, <1>4, <1>5 DEF IInv, MutexInv
  <1>10. RoomInv'
    BY <1>2, <1>3, <1>5 DEF IInv, TypeOK, RoomInv, Begin, BeginSpecial,
       SetArgs, Special
  <1>11. AckInv'
    BY <1>4, <1>5 DEF AckInv
  <1>12. TailInv'
    <2>1. CASE Begin(w)
      <3>1. slot'[tail].seq = seqnum
        BY <2>1 DEF Begin, PushBegin, IInv, TypeOK, Record
      <3>2. cur'[w] = seqnum /\ rec'[w] = tail /\ pc'[w] = "args" /\ tail' = tail
        BY <2>1 DEF Begin, PushBegin, IInv, TypeOK
      <3> QED
        BY <1>5, <3>1, <3>2 DEF TailInv
    <2>2. CASE BeginSpecial(w)
      <3>1. slot'[tail].seq = cur[w]
        BY <2>2 DEF BeginSpecial, PushBegin, IInv, TypeOK, Record
      <3>2. cur' = cur /\ rec'[w] = tail /\ pc'[w] = "args" /\ tail' = tail
        BY <2>2 DEF BeginSpecial, PushBegin, IInv, TypeOK
      <3> QED
        BY <1>5, <3>1, <3>2 DEF TailInv
    <2>3. CASE SetArgs(w)
      <3>1. rec[w] = tail /\ slot[tail].seq = cur[w] /\ slot[tail] \in Record
        BY <2>3 DEF TailInv, SetArgs, IInv, TypeOK
      <3>2. /\ slot'[tail].seq = cur[w] /\ slot'[tail].args = cur[w]
            /\ op[w] \in Special => ~slot'[tail].ack
        BY <2>3, <3>1 DEF SetArgs, Filled, IInv, TypeOK, Record, Special
      <3>3. UNCHANGED <<cur, rec, tail, op>> /\ pc'[w] = "check"
        BY <2>3 DEF SetArgs, IInv, TypeOK
      <3> QED
        BY <1>5, <3>1, <3>2, <3>3 DEF TailInv
    <2> QED
      BY <2>1, <2>2, <2>3
  <1>13. \/ /\ InFlight(w)' /\ InFlight(w)
            /\ seqnum' = seqnum /\ cur'[w] = cur[w]
         \/ /\ InFlight(w)' /\ ~InFlight(w)
            /\ seqnum' = seqnum + 1 /\ cur'[w] = seqnum
    BY DEF InFlight, Begin, BeginSpecial, SetArgs, IInv, TypeOK, Special
  <1>14. OrderInv'
    <2>1. \A i \in Unread : slot'[i].seq = slot[i].seq
      BY <1>7, Regions DEF IInv
    <2>2. \A v \in Writers \ {w} :
            (InFlight(v)' => InFlight(v)) /\ cur'[v] = cur[v]
      BY <1>5 DEF InFlight
    <2> QED
      BY <1>2, <1>13, <2>1, <2>2, QuietOrder DEF IInv
  <1>15. Accounting'
    <2>1. (\E v \in Writers : InFlight(v)) <=> InFlight(w)
      BY <1>4, InFlightOne DEF IInv
    <2>2. (\E v \in Writers : InFlight(v))' 
      BY <1>13
    <2>3. Len(consumed) \in Nat /\ UnreadCount \in Nat
      BY Regions DEF IInv, TypeOK
    <2>4. seqnum' = Len(consumed) + UnreadCount + dropcnt + abandoned + 1
      <3>1. seqnum = Len(consumed) + UnreadCount + dropcnt + abandoned
                       + (IF InFlight(w) THEN 1 ELSE 0)
        BY <2>1 DEF IInv, Accounting
      <3> QED
        BY <1>13, <2>3, <3>1 DEF IInv, TypeOK
    <2> QED
      BY <1>2, <1>3, <2>2, <2>4 DEF Accounting
  <1> QED
    BY <1>1, <1>3, <1>8, <1>9, <1>10, <1>11, <1>12, <1>14, <1>15 DEF IInv

(* commit_tail adds the record of the tail slot, and nothing else, to the  *)
(* published records.                                                      *)
LEMMA PublishRegions ==
  ASSUME TypeOK, ReaderInv, ~Full, tail' = Inc(tail),
         UNCHANGED <<head, rpc, itHead, itTail>>
  PROVE  /\ Cursor' = Cursor
         /\ UnreadCount' = UnreadCount + 1
         /\ Unread' = Unread \cup {tail}
         /\ Window' = Window \cup {tail}
         /\ \A i \in Unread : Fwd(Cursor, i) < Fwd(Cursor, tail)
         /\ ReaderInv'
  <1> USE DEF TypeOK
  <1>1. Cursor' = Cursor /\ Cursor \in Index
    BY Counts DEF Cursor
  <1>2. tail' \in Index /\ tail' = IF tail = Capacity - 1 THEN 0 ELSE tail + 1
    BY IncValue
  <1>3. head # tail
    BY DEF Full
  <1>4. /\ Size = IF tail > head THEN tail - head - 1
                  ELSE tail - head - 1 + Capacity
        /\ UnreadCount = IF tail > Cursor THEN tail - Cursor - 1
                         ELSE tail - Cursor - 1 + Capacity
    BY Counts
  <1>5. /\ Size' = IF tail' > head THEN tail' - head - 1
                   ELSE tail' - head - 1 + Capacity
        /\ UnreadCount' = IF tail' > Cursor THEN tail' - Cursor - 1
                          ELSE tail' - Cursor - 1 + Capacity
    BY <1>1, <1>2, BetweenValue DEF Size, UnreadCount
  <1>6. /\ Fwd(head, Cursor) = IF Cursor >= head THEN Cursor - head
                               ELSE Cursor - head + Capacity
        /\ Fwd(head, tail) = IF tail >= head THEN tail - head
                             ELSE tail - head + Capacity
        /\ Fwd(Cursor, tail) = IF tail >= Cursor THEN tail - Cursor
                               ELSE tail - Cursor + Capacity
    BY <1>1, FwdValue
  <1>7. Fwd(head, Cursor) <= Size
    BY Regions
  <1>8. /\ Size' = Size + 1 /\ UnreadCount' = UnreadCount + 1
        /\ Fwd(head, tail) = Size + 1 /\ Fwd(Cursor, tail) = UnreadCount + 1
        /\ Size \in Nat /\ UnreadCount \in Nat
    BY <1>1, <1>2, <1>3, <1>4, <1>5, <1>6, <1>7 DEF Index
  <1>9. \A i \in Index : /\ Fwd(head, i) = Fwd(head, tail) => i = tail
                         /\ Fwd(Cursor, i) = Fwd(Cursor, tail) => i = tail
                         /\ Fwd(head, i) \in Nat /\ Fwd(Cursor, i) \in Nat
    <2> TAKE i \in Index
    <2>1. /\ Fwd(head, i) = IF i >= head THEN i - head ELSE i - head + Capacity
          /\ Fwd(Cursor, i) = IF i >= Cursor THEN i - Cursor
                              ELSE i - Cursor + Capacity
      BY <1>1, FwdValue
    <2> QED
      BY <1>1, <1>6, <2>1 DEF Index
  <1>10. Window' = Window \cup {tail}
    <2>1. Window' = {i \in Index : Fwd(head, i) \in 1 .. Size'}
      BY DEF Window, Fwd
    <2> QED
      BY <2>1, <1>8, <1>9 DEF Window
  <1>11. Unread' = Unread \cup {tail}
    <2>1. Unread' = {i \in Index : Fwd(Cursor, i) \in 1 .. UnreadCount'}
      BY <1>1 DEF Unread, Fwd
    <2>2. ASSUME NEW i \in Index
          PROVE  Fwd(Cursor, i) \in 1 .. UnreadCount'
                   <=> Fwd(Cursor, i) \in 1 .. UnreadCount \/ i = tail
      BY <1>8, <1>9
    <2> QED
      BY <2>1, <2>2 DEF Unread
  <1>12. \A i \in Unread : Fwd(Cursor, i) < Fwd(Cursor, tail)
    BY <1>8, <1>9 DEF Unread
  <1>13. ReaderInv'
    <2>1. Snapshot' = Snapshot /\ Fwd(head, itHead)' = Fwd(head, itHead)
      BY DEF Snapshot, Fwd
    <2>2. Snapshot \in Int
      BY Counts DEF Index
    <2> QED
      BY <1>8, <2>1, <2>2 DEF ReaderInv
  <1> QED
    BY <1>1, <1>8, <1>10, <1>11, <1>12, <1>13

(* Publishing a record keeps the invariant.                                *)
LEMMA PublishStep ==
  ASSUME IInv, [Next]_vars, NEW w \in Writers, CommitTail(w)
  PROVE  IInv'
  <1> USE DEF Goto
  <1>1. TypeOK'
    BY TypeStep DEF IInv
  <1>2. /\ UNCHANGED <<slot, head, rpc, itHead, itTail, consumed, seqnum>>
        /\ UNCHANGED <<dropcnt, abandoned, mutex, op, cur, rec>>
        /\ tail' = Inc(tail)
    BY DEF CommitTail, readerVars
  <1>3. pc[w] = "commit" /\ pc'[w] \in {"unlock", "ack"}
    BY DEF CommitTail, IInv, TypeOK
  <1>4. ~Full
    BY <1>3 DEF IInv, RoomInv
  <1>5. /\ Cursor' = Cursor
        /\ UnreadCount' = UnreadCount + 1
        /\ Unread' = Unread \cup {tail}
        /\ Window' = Window \cup {tail}
        /\ \A i \in Unread : Fwd(Cursor, i) < Fwd(Cursor, tail)
        /\ ReaderInv'
    BY <1>2, <1>4, PublishRegions DEF IInv
  <1>6. \A v \in Writers \ {w} : pc[v] = "idle" /\ pc'[v] = "idle"
    BY <1>3, OneWriter DEF IInv, TypeOK, CommitTail
  <1>7. /\ rec[w] = tail /\ slot[tail].seq = cur[w] /\ slot[tail].args = cur[w]
        /\ op[w] \in Special => ~slot[tail].ack
    BY <1>3 DEF IInv, TailInv
  <1>8. MutexInv'
    BY <1>2, <1>3, <1>6 DEF IInv, MutexInv
  <1>9. TailInv'
    BY <1>3, <1>6 DEF TailInv
  <1>10. RoomInv'
    BY <1>2, <1>3, <1>6 DEF IInv, TypeOK, RoomInv, CommitTail, Special
  <1>11. AckInv'
    <2>1. pc'[w] = "ack" => op[w] \in Special
      BY DEF CommitTail, IInv, TypeOK, Special
    <2> QED
      BY <1>2, <1>6, <1>7, <2>1 DEF AckInv
  <1>12. WindowComplete'
    BY <1>2, <1>5, <1>7 DEF IInv, WindowComplete
  <1>13. InFlight(w) /\ \A v \in Writers : ~InFlight(v)'
    BY <1>3, <1>6 DEF InFlight
  <1>14. OrderInv'
    <2>1. \A i \in Unread : slot[i].seq < cur[w]
      BY <1>13 DEF IInv, OrderInv
    <2>2. \A k \in DOMAIN consumed : consumed[k] < cur[w]
      BY <1>13 DEF IInv, OrderInv
    <2>3. cur[w] < seqnum
      BY <1>13 DEF IInv, OrderInv
    <2>4. ASSUME NEW i \in Unread', NEW j \in Unread',
                 Fwd(Cursor, i) < Fwd(Cursor, j)
          PROVE  slot[i].seq < slot[j].seq
      <3>1. Fwd(Cursor, tail) \in Int
        BY Counts DEF Fwd, IInv, TypeOK, Index
      <3>2. i # tail
        <4>1. \A k \in Unread : Fwd(Cursor, k) \in Int
          BY Counts DEF Fwd, Unread, IInv, TypeOK, Index
        <4> QED
          BY <1>5, <2>4, <3>1, <4>1
      <3>3. i \in Unread
        BY <1>5, <3>2
      <3> QED
        BY <1>5, <1>7, <2>1, <2>4, <3>3 DEF IInv, OrderInv
    <2>5. \A i, j \in Unread' :
            Fwd(Cursor', i) < Fwd(Cursor', j) => slot'[i].seq < slot'[j].seq
      BY <1>2, <1>5, <2>4
    <2>6. DeliveredInOrder'
      BY <1>2 DEF IInv, OrderInv, DeliveredInOrder
    <2> QED
      BY <1>2, <1>5, <1>7, <1>13, <2>1, <2>2, <2>3, <2>5, <2>6
      DEF IInv, OrderInv, Fwd
  <1>15. Accounting'
    <2>1. (\E v \in Writers : InFlight(v)) /\ ~(\E v \in Writers : InFlight(v))'
      BY <1>13
    <2>2. seqnum = Len(consumed) + UnreadCount + dropcnt + abandoned + 1
      BY <2>1 DEF IInv, Accounting
    <2>3. {Len(consumed), UnreadCount, dropcnt, abandoned} \subseteq Nat
      BY Regions DEF IInv, TypeOK
    <2>4. seqnum = Len(consumed) + (UnreadCount + 1) + dropcnt + abandoned
      BY <2>2, <2>3
    <2> QED
      BY <1>2, <1>5, <2>1, <2>4, <2>3 DEF Accounting
  <1> QED
    BY <1>1, <1>5, <1>8, <1>9, <1>10, <1>11, <1>12, <1>14, <1>15 DEF IInv

(* Taking and giving up a snapshot, and releasing records, leave the       *)
(* unread records alone and can only make room.                            *)
LEMMA EngineRegions ==
  ASSUME TypeOK, ReaderInv,
         ItReset \/ Commit \/ SkipCommit \/ Unblock \/ Signal
  PROVE  /\ Cursor' = Cursor /\ UnreadCount' = UnreadCount /\ Unread' = Unread
         /\ Window' \subseteq Window
         /\ Full' => Full
         /\ ReaderInv'
  <1> USE DEF TypeOK
  <1>1. UNCHANGED tail
    BY DEF ItReset, Commit, SkipCommit, Unblock, Signal
  <1>2. Cursor' = Cursor
    BY DEF Cursor, ItReset, Commit, CommittedHead, SkipCommit, Unblock, Signal
  <1>3. UnreadCount' = UnreadCount /\ Unread' = Unread
    BY <1>1, <1>2 DEF UnreadCount, Unread, Fwd
  <1>4. ReaderInv'
    <2>1. CASE ItReset
      <3>1. /\ rpc' = "iter" /\ itHead' = head /\ itTail' = tail
            /\ head' = head
        BY <2>1 DEF ItReset
      <3>2. Fwd(head, head) = 0
        BY FwdValue DEF Index
      <3>3. Fwd(head, itHead)' = 0 /\ Snapshot' = Size /\ Size' = Size
        BY <1>1, <3>1, <3>2 DEF Fwd, Snapshot, Size
      <3> QED
        BY <3>3, Regions DEF ReaderInv
    <2>2. CASE ~ItReset
      BY <2>2 DEF ReaderInv, Commit, SkipCommit, Unblock, Signal
    <2> QED
      BY <2>1, <2>2
  <1>5. CASE Commit
    <2>1. /\ head' = itHead /\ rpc = "iter"
      BY <1>5 DEF Commit, CommittedHead
    <2>2. /\ Size = IF tail > head THEN tail - head - 1
                    ELSE tail - head - 1 + Capacity
          /\ Fwd(head, itHead) = IF itHead >= head THEN itHead - head
                                 ELSE itHead - head + Capacity
      BY Counts, FwdValue
    <2>3. Fwd(head, itHead) <= Size
      BY <2>1, Regions DEF Cursor
    <2>4. Full' => Full
      BY <1>1, <2>1, <2>2, <2>3 DEF Full, Index
    <2>5. Size' = IF tail > itHead THEN tail - itHead - 1
                  ELSE tail - itHead - 1 + Capacity
      BY <1>1, <2>1, BetweenValue DEF Size
    <2>6. ASSUME NEW i \in Window' PROVE i \in Window
      <3>1. i \in Index /\ Fwd(itHead, i) \in 1 .. Size'
        BY <2>1 DEF Window, Fwd
      <3>2. /\ Fwd(head, i) = IF i >= head THEN i - head
                              ELSE i - head + Capacity
            /\ Fwd(itHead, i) = IF i >= itHead THEN i - itHead
                                ELSE i - itHead + Capacity
        BY <3>1, FwdValue
      <3>3. Fwd(head, i) \in 1 .. Size
        BY <2>2, <2>3, <2>5, <3>1, <3>2 DEF Index
      <3> QED
        BY <3>1, <3>3 DEF Window
    <2> QED
      BY <1>2, <1>3, <1>4, <2>4, <2>6
  <1>6. CASE ~Commit
    <2>1. UNCHANGED head
      BY <1>6 DEF ItReset, SkipCommit, Unblock, Signal
    <2> QED
      BY <1>1, <1>2, <1>3, <1>4, <2>1 DEF Window, Size, Fwd, Full
  <1> QED
    BY <1>5, <1>6

(* The engine's steps that flush no record keep the invariant.             *)
LEMMA EngineStep ==
  ASSUME IInv, [Next]_vars,
         ItReset \/ Commit \/ SkipCommit \/ Unblock \/ Signal
  PROVE  IInv'
  <1> USE DEF Goto
  <1>1. TypeOK'
    BY TypeStep DEF IInv
  <1>2. /\ UNCHANGED <<slot, tail, seqnum, dropcnt, mutex, consumed, abandoned>>
        /\ UNCHANGED <<op, cur, rec>>
    BY DEF ItReset, Commit, SkipCommit, Unblock, Signal, writerVars
  <1>3. /\ Cursor' = Cursor /\ UnreadCount' = UnreadCount /\ Unread' = Unread
        /\ Window' \subseteq Window
        /\ Full' => Full
        /\ ReaderInv'
    BY EngineRegions DEF IInv
  <1>4. \A w \in Writers : pc'[w] = pc[w] \/ (pc[w] = "waiting" /\ pc'[w] = "check")
    BY DEF ItReset, Commit, SkipCommit, Unblock, Signal, writerVars, IInv, TypeOK
  <1>5. \A w \in Writers : InFlight(w)' <=> InFlight(w)
    BY <1>2, <1>4 DEF InFlight
  <1>6. MutexInv'
    BY <1>2, <1>4 DEF IInv, MutexInv
  <1>7. TailInv'
    BY <1>2, <1>4 DEF IInv, TailInv
  <1>8. RoomInv'
    BY <1>2, <1>3, <1>4 DEF IInv, RoomInv
  <1>9. AckInv'
    BY <1>2, <1>3, <1>4 DEF IInv, AckInv, Inc
  <1>10. OrderInv'
    BY <1>2, <1>3, <1>5 DEF IInv, OrderInv, DeliveredInOrder, Fwd
  <1>11. WindowComplete'
    BY <1>2, <1>3 DEF IInv, WindowComplete
  <1>12. Accounting'
    BY <1>2, <1>3, <1>5 DEF IInv, Accounting
  <1> QED
    BY <1>1, <1>3, <1>6, <1>7, <1>8, <1>9, <1>10, <1>11, <1>12 DEF IInv

(* Flushing a record takes the first of the unread ones.                   *)
LEMMA FlushRegions ==
  ASSUME TypeOK, ReaderInv, FlushRecord
  PROVE  /\ Cursor = itHead /\ Cursor' = Inc(itHead)
         /\ UnreadCount' = UnreadCount - 1
         /\ Unread' = Unread \ {Inc(itHead)}
         /\ \A i \in Unread' : /\ Fwd(Cursor', i) = Fwd(Cursor, i) - 1
                               /\ Fwd(Cursor, Inc(itHead)) < Fwd(Cursor, i)
         /\ Inc(itHead) \in Unread
         /\ Window' = Window
         /\ Full' = Full
         /\ ReaderInv'
         /\ Inc(Inc(itHead)) = tail => UnreadCount' = 0
  <1> USE DEF TypeOK
  <1> DEFINE h == Inc(itHead)
  <1>1. /\ rpc = "iter" /\ rpc' = "iter" /\ HasNext
        /\ itHead' = h /\ UNCHANGED <<head, tail, itTail>>
    BY DEF FlushRecord
  <1>2. Cursor = itHead /\ Cursor' = h
    BY <1>1 DEF Cursor
  <1>3. h \in Index /\ h = IF itHead = Capacity - 1 THEN 0 ELSE itHead + 1
    BY IncValue
  <1>4. /\ h \in Unread
        /\ Fwd(head, h) = Fwd(head, itHead) + 1
        /\ Fwd(head, h) <= Snapshot
        /\ Fwd(itHead, h) = 1
        /\ \A i \in Unread : i = h \/ 1 < Fwd(itHead, i)
    BY <1>1, NextRecord
  <1> HIDE DEF h
  <1>5. /\ UnreadCount = IF tail > itHead THEN tail - itHead - 1
                         ELSE tail - itHead - 1 + Capacity
        /\ UnreadCount' = IF tail > h THEN tail - h - 1
                          ELSE tail - h - 1 + Capacity
    BY <1>1, <1>2, <1>3, BetweenValue DEF UnreadCount
  <1>6. 1 <= UnreadCount
    BY <1>2, <1>4, <1>5 DEF Unread, Index
  <1>7. UnreadCount' = UnreadCount - 1
    BY <1>3, <1>5, <1>6 DEF Index
  <1>8. ASSUME NEW i \in Index
        PROVE  /\ i # h => Fwd(h, i) = Fwd(itHead, i) - 1 \/ i = itHead
               /\ Fwd(h, h) = 0 /\ Fwd(itHead, itHead) = 0
               /\ Fwd(h, itHead) >= UnreadCount
               /\ Fwd(h, i) \in Nat /\ Fwd(itHead, i) \in Nat
               /\ i # itHead => Fwd(itHead, i) >= 1
    <2>1. /\ Fwd(h, i) = IF i >= h THEN i - h ELSE i - h + Capacity
          /\ Fwd(itHead, i) = IF i >= itHead THEN i - itHead
                              ELSE i - itHead + Capacity
          /\ Fwd(h, itHead) = IF itHead >= h THEN itHead - h
                              ELSE itHead - h + Capacity
      BY <1>3, FwdValue
    <2>2. Fwd(h, h) = 0 /\ Fwd(itHead, itHead) = 0
      BY <1>3, FwdValue DEF Index
    <2>3. Fwd(h, itHead) >= UnreadCount
      BY <1>3, <1>5, <1>6, <2>1 DEF Index
    <2>4. ASSUME i # h, i # itHead PROVE Fwd(h, i) = Fwd(itHead, i) - 1
      <3>1. CASE itHead = Capacity - 1
        BY <1>3, <2>1, <2>4, <3>1 DEF Index
      <3>2. CASE itHead # Capacity - 1
        BY <1>3, <2>1, <2>4, <3>2 DEF Index
      <3> QED
        BY <3>1, <3>2
    <2>5. Fwd(h, i) \in Nat /\ Fwd(itHead, i) \in Nat
      BY <1>3, <2>1 DEF Index
    <2>6. i # itHead => Fwd(itHead, i) >= 1
      BY <2>1 DEF Index
    <2> QED
      BY <2>2, <2>3, <2>4, <2>5, <2>6
  <1>9. Unread' = {i \in Index : Fwd(h, i) \in 1 .. UnreadCount - 1}
    BY <1>2, <1>7 DEF Unread, Fwd
  <1>10. Unread = {i \in Index : Fwd(itHead, i) \in 1 .. UnreadCount}
    BY <1>2 DEF Unread
  <1>11. ASSUME NEW i \in Index
         PROVE  Fwd(h, i) \in 1 .. UnreadCount - 1
                  <=> Fwd(itHead, i) \in 1 .. UnreadCount /\ i # h
    <2>1. CASE i = h
      BY <2>1, <1>8
    <2>2. CASE i = itHead
      BY <2>2, <1>3, <1>5, <1>6, <1>8, SMTT(30) DEF Index
    <2>3. CASE i # h /\ i # itHead
      <3>1. /\ Fwd(h, i) = Fwd(itHead, i) - 1
            /\ Fwd(h, i) \in Nat /\ Fwd(itHead, i) \in Nat
        BY <2>3, <1>8
      <3>2. Fwd(h, i) # 0
        <4>1. Fwd(h, i) = IF i >= h THEN i - h ELSE i - h + Capacity
          BY <1>3, FwdValue
        <4> QED
          BY <1>3, <2>3, <4>1 DEF Index
      <3>3. UnreadCount \in Int
        BY <1>3, <1>5 DEF Index
      <3> QED
        BY <2>3, <3>1, <3>2, <3>3
    <2> QED
      BY <2>1, <2>2, <2>3
  <1>12. Unread' = Unread \ {h}
    BY <1>9, <1>10, <1>11
  <1>13. \A i \in Unread' : /\ Fwd(h, i) = Fwd(itHead, i) - 1
                            /\ Fwd(itHead, h) < Fwd(itHead, i)
    BY <1>4, <1>8, <1>10, <1>12
  <1>14. Window' = Window /\ Full' = Full
    BY <1>1 DEF Window, Size, Fwd, Full
  <1>15. ReaderInv'
    <2>1. Snapshot' = Snapshot /\ Size' = Size /\ Fwd(head, itHead)' = Fwd(head, h)
      BY <1>1 DEF Snapshot, Size, Fwd
    <2> QED
      BY <1>1, <1>4, <2>1 DEF ReaderInv
  <1>16. Inc(h) = tail => UnreadCount' = 0
    <2>1. Inc(h) = IF h = Capacity - 1 THEN 0 ELSE h + 1
      BY <1>3, IncValue
    <2> QED
      BY <1>3, <1>5, <2>1 DEF Index
  <1> QED
    BY <1>2, <1>4, <1>7, <1>12, <1>13, <1>14, <1>15, <1>16 DEF h, Fwd

(* Flushing a record keeps the invariant.                                  *)
LEMMA FlushStep ==
  ASSUME IInv, [Next]_vars, FlushRecord
  PROVE  IInv'
  <1> DEFINE h == Inc(itHead)
             s == slot[h].seq
  <1>1. TypeOK'
    BY TypeStep DEF IInv
  <1>2. /\ UNCHANGED <<head, tail, seqnum, dropcnt, mutex, abandoned>>
        /\ UNCHANGED <<pc, op, cur, rec>>
        /\ consumed' = Append(consumed, s)
    BY DEF FlushRecord, writerVars
  <1>3. /\ Cursor = itHead /\ Cursor' = h
        /\ UnreadCount' = UnreadCount - 1
        /\ Unread' = Unread \ {h}
        /\ \A i \in Unread' : /\ Fwd(Cursor', i) = Fwd(Cursor, i) - 1
                              /\ Fwd(Cursor, h) < Fwd(Cursor, i)
        /\ h \in Unread
        /\ Window' = Window
        /\ Full' = Full
        /\ ReaderInv'
        /\ Inc(h) = tail => UnreadCount' = 0
    BY FlushRegions DEF IInv
  <1>4. h \in Window /\ h \in Index /\ h # tail
    BY <1>3, Regions DEF IInv, Window
  <1>5. s \in Nat
    BY <1>4 DEF IInv, TypeOK, Record
  <1>6. \A i \in Index : /\ slot'[i].seq = slot[i].seq
                         /\ slot'[i].args = slot[i].args
    BY <1>4 DEF FlushRecord, Flushed, IInv, TypeOK, Record
  <1>7. \A i \in Index \ {h} : slot'[i] = slot[i]
    BY DEF FlushRecord, IInv, TypeOK
  <1>8. MutexInv'
    BY <1>2 DEF IInv, MutexInv
  <1>9. TailInv'
    BY <1>2, <1>4, <1>7 DEF IInv, TailInv, TypeOK
  <1>10. RoomInv'
    BY <1>2, <1>3 DEF IInv, RoomInv
  <1>11. WindowComplete'
    BY <1>3, <1>6 DEF IInv, WindowComplete, Window
  <1>12. /\ Len(consumed') = Len(consumed) + 1
         /\ consumed'[Len(consumed) + 1] = s
         /\ \A k \in DOMAIN consumed : consumed'[k] = consumed[k]
         /\ DOMAIN consumed' = DOMAIN consumed \cup {Len(consumed) + 1}
         /\ Len(consumed) \in Nat
         /\ DOMAIN consumed = 1 .. Len(consumed)
    BY <1>2, <1>5 DEF IInv, TypeOK
  <1>13. UnreadCount \in Nat /\ UnreadCount >= 1
    BY <1>3, Regions DEF IInv, Unread
  <1> HIDE DEF h, s
  <1>14. AckInv'
    <2> SUFFICES ASSUME NEW w \in Writers, pc'[w] = "ack"
                 PROVE  /\ slot'[rec'[w]].seq = cur'[w]
                        /\ tail' = Inc(rec'[w])
                        /\ slot'[rec'[w]].ack =>
                             /\ UnreadCount' = 0
                             /\ Len(consumed') > 0
                             /\ consumed'[Len(consumed')] = cur'[w]
      BY DEF AckInv, Inc
    <2>1. /\ rec[w] \in Index /\ slot[rec[w]].seq = cur[w]
          /\ tail = Inc(rec[w])
          /\ slot[rec[w]].ack => UnreadCount = 0
      BY <1>2 DEF IInv, AckInv, TypeOK
    <2>2. CASE rec[w] = h
      BY <1>2, <1>3, <1>6, <1>12, <2>1, <2>2 DEF s
    <2>3. CASE rec[w] # h
      BY <1>2, <1>6, <1>7, <1>13, <2>1, <2>3
    <2> QED
      BY <2>2, <2>3
  <1>15. OrderInv'
    <2>1. DeliveredInOrder'
      <3>1. \A k \in DOMAIN consumed : consumed[k] < s
        BY <1>3 DEF IInv, OrderInv, s
      <3> QED
        BY <1>12, <3>1 DEF DeliveredInOrder, IInv, OrderInv
    <2>2. s < seqnum
      BY <1>3 DEF IInv, OrderInv, s
    <2>3. \A i \in Unread' : i \in Unread /\ s < slot[i].seq /\ i \in Index
      BY <1>3 DEF IInv, OrderInv, s, Unread
    <2>4. \A w \in Writers : InFlight(w)' => InFlight(w) /\ s < cur[w]
      BY <1>2, <1>3 DEF IInv, OrderInv, s, InFlight
    <2>5. \A i, j \in Unread' :
            Fwd(Cursor', i) < Fwd(Cursor', j) => slot[i].seq < slot[j].seq
      <3> SUFFICES ASSUME NEW i \in Unread', NEW j \in Unread',
                          Fwd(Cursor', i) < Fwd(Cursor', j)
                   PROVE  slot[i].seq < slot[j].seq
        OBVIOUS
      <3>1. Fwd(Cursor, i) \in Int /\ Fwd(Cursor, j) \in Int
        BY <2>3, Counts DEF Fwd, IInv, Index
      <3> QED
        BY <1>3, <2>3, <3>1 DEF IInv, OrderInv
    <2>6. \A k \in DOMAIN consumed' :
            /\ consumed'[k] < seqnum
            /\ \A i \in Unread' : consumed'[k] < slot[i].seq
            /\ \A w \in Writers : InFlight(w)' => consumed'[k] < cur[w]
      <3> TAKE k \in DOMAIN consumed'
      <3>1. CASE k \in DOMAIN consumed
        BY <1>12, <2>3, <2>4, <3>1 DEF IInv, OrderInv
      <3>2. CASE k = Len(consumed) + 1
        BY <1>12, <2>2, <2>3, <2>4, <3>2
      <3> QED
        BY <1>12, <3>1, <3>2
    <2>7. \A i \in Unread' :
            /\ slot[i].seq < seqnum
            /\ \A w \in Writers : InFlight(w)' => slot[i].seq < cur[w]
      BY <2>3, <2>4 DEF IInv, OrderInv
    <2>8. \A w \in Writers : InFlight(w)' => cur[w] < seqnum
      BY <2>4 DEF IInv, OrderInv
    <2>9. \A i \in Unread' : slot'[i].seq = slot[i].seq
      BY <1>6, <2>3
    <2> QED
      BY <1>2, <2>1, <2>5, <2>6, <2>7, <2>8, <2>9 DEF OrderInv, Fwd
  <1>16. Accounting'
    <2>1. (\E v \in Writers : InFlight(v))' <=> \E v \in Writers : InFlight(v)
      BY <1>2 DEF InFlight
    <2>2. Len(consumed') + UnreadCount' = Len(consumed) + UnreadCount
      BY <1>3, <1>12, <1>13
    <2>3. {Len(consumed'), UnreadCount', Len(consumed), UnreadCount} \subseteq Int
      BY <1>3, <1>12, <1>13
    <2> QED
      BY <1>2, <2>1, <2>2, <2>3 DEF IInv, TypeOK, Accounting
  <1> QED
    BY <1>1, <1>3, <1>8, <1>9, <1>10, <1>11, <1>14, <1>15, <1>16 DEF IInv

-----------------------------------------------------------------------------
(* The invariant is inductive                                              *)

(* An empty ring satisfies the invariant.                                  *)
LEMMA IInvInit == Init => IInv
  <1> SUFFICES ASSUME Init PROVE IInv
    OBVIOUS
  <1>1. TypeOK
    BY TypeInit
  <1>2. /\ pc = [w \in Writers |-> "idle"] /\ rpc = "idle" /\ consumed = <<>>
        /\ head = Capacity - 1 /\ tail = 0
        /\ seqnum = 0 /\ dropcnt = 0 /\ abandoned = 0
    BY DEF Init
  <1>3. Cursor = head /\ UnreadCount = 0 /\ Size = 0
    BY <1>1, <1>2, Counts DEF Cursor, Index
  <1>4. Unread = {} /\ Window = {}
    BY <1>3 DEF Unread, Window
  <1>5. \A w \in Writers : ~InFlight(w)
    BY <1>2 DEF InFlight
  <1>6. MutexInv /\ ReaderInv /\ TailInv /\ AckInv /\ WindowComplete
    BY <1>2, <1>4 DEF MutexInv, ReaderInv, TailInv, AckInv, WindowComplete
  <1>7. RoomInv
    BY <1>2 DEF RoomInv
  <1>8. OrderInv /\ Accounting
    BY <1>2, <1>3, <1>4, <1>5 DEF OrderInv, DeliveredInOrder, Accounting
  <1> QED
    BY <1>1, <1>6, <1>7, <1>8 DEF IInv

(* Every step of a writer or of the engine keeps the invariant.            *)
LEMMA IInvStep == IInv /\ [Next]_vars => IInv'
  <1> SUFFICES ASSUME IInv, [Next]_vars PROVE IInv'
    OBVIOUS
  <1>1. CASE UNCHANGED vars
    <2>1. /\ UNCHANGED <<slot, head, tail, seqnum, dropcnt, mutex, consumed>>
          /\ UNCHANGED <<pc, op, cur, rec, rpc, itHead, itTail, abandoned>>
      BY <1>1 DEF vars, writerVars, readerVars
    <2>2. TypeOK'
      BY TypeStep DEF IInv
    <2>3. /\ Cursor' = Cursor /\ UnreadCount' = UnreadCount
          /\ Unread' = Unread /\ Window' = Window
          /\ Full' = Full /\ ReaderInv'
      BY <2>1, Unmoved DEF IInv
    <2>4. \A w \in Writers : InFlight(w)' <=> InFlight(w)
      BY <2>1 DEF InFlight
    <2>5. MutexInv' /\ TailInv' /\ RoomInv' /\ WindowComplete'
      BY <2>1, <2>3 DEF IInv, MutexInv, TailInv, RoomInv, WindowComplete
    <2>6. AckInv'
      BY <2>1, <2>3 DEF IInv, AckInv, Inc
    <2>7. OrderInv'
      BY <2>1, <2>3, <2>4 DEF IInv, OrderInv, DeliveredInOrder, Fwd
    <2>8. Accounting'
      BY <2>1, <2>3, <2>4 DEF IInv, Accounting
    <2> QED
      BY <2>2, <2>3, <2>5, <2>6, <2>7, <2>8 DEF IInv
  <1>2. ASSUME NEW w \in Writers, WriterNext(w) PROVE IInv'
    BY <1>2, QuietWriterStep, FillStep, PublishStep DEF WriterNext, WriterStep
  <1>3. CASE EngineNext
    BY <1>3, EngineStep, FlushStep DEF EngineNext
  <1> QED
    BY <1>1, <1>2, <1>3 DEF Next

(* The invariant holds in every reachable state.                           *)
THEOREM Invariance == Spec => []IInv
  BY IInvInit, IInvStep, PTL DEF Spec

(* The engine never reads a half-written record.                           *)
THEOREM WindowCompleteHolds == Spec => []WindowComplete
  <1>1. IInv => WindowComplete
    BY DEF IInv
  <1> QED
    BY <1>1, Invariance, PTL

(* Records reach the output in order and at most once.                     *)
THEOREM DeliveredInOrderHolds == Spec => []DeliveredInOrder
  <1>1. IInv => DeliveredInOrder
    BY DEF IInv, OrderInv
  <1> QED
    BY <1>1, Invariance, PTL

(* No record disappears without being counted.                             *)
THEOREM AccountingHolds == Spec => []Accounting
  <1>1. IInv => Accounting
    BY DEF IInv
  <1> QED
    BY <1>1, Invariance, PTL

(* An acknowledged flush means that all earlier records were handed to the *)
(* output.                                                                 *)
THEOREM AckMeansFlushedHolds == Spec => []AckMeansFlushed
  <1>1. IInv => AckMeansFlushed
    BY DEF IInv, AckInv, AckMeansFlushed
  <1> QED
    BY <1>1, Invariance, PTL

(* A special record that found room is never dropped or blocked.           *)
THEOREM SpecialHasRoomHolds == Spec => []SpecialHasRoom
  <1>1. IInv => SpecialHasRoom
    BY DEF IInv, RoomInv, SpecialHasRoom
  <1> QED
    BY <1>1, Invariance, PTL

(* No step rewrites a published record before it is released, apart from   *)
(* its acknowledgement.                                                    *)
THEOREM WindowStableHolds == Spec => WindowStable
  <1> DEFINE A == \A i \in Window :
                    slot'[i] = [slot[i] EXCEPT !.ack = slot'[i].ack]
  <1>1. IInv /\ [Next]_vars => [A]_vars
    <2> SUFFICES ASSUME IInv, Next, NEW i \in Window
                 PROVE  slot'[i] = [slot[i] EXCEPT !.ack = slot'[i].ack]
      OBVIOUS
    <2>1. i \in Index /\ i # tail /\ slot[i] \in Record
      BY Regions DEF IInv, TypeOK, Window
    <2>2. slot'[i] = slot[i] => slot'[i] = [slot[i] EXCEPT !.ack = slot'[i].ack]
      BY <2>1 DEF Record
    <2>3. CASE \E w \in Writers : Begin(w) \/ BeginSpecial(w) \/ SetArgs(w)
      BY <2>1, <2>2, <2>3
      DEF IInv, TypeOK, TailInv, Begin, BeginSpecial, SetArgs, PushBegin
    <2>4. CASE FlushRecord
      BY <2>1, <2>2, <2>4 DEF FlushRecord, Flushed, IInv, TypeOK, Record
    <2>5. CASE UNCHANGED slot
      BY <2>2, <2>5
    <2> QED
      BY <2>3, <2>4, <2>5
      DEF Next, WriterNext, WriterStep, EngineNext, Lock, TakeSeq, RoomFound,
          RoomTimeout, CommitCheck, CommitTail, Block, SpuriousWakeup, Acked,
          AckTimeout, Unlock, ItReset, Commit, SkipCommit, Unblock, Signal
  <1> QED
    BY <1>1, Invariance, PTL DEF Spec, WindowStable

-----------------------------------------------------------------------------
(* The ring is a queue                                                     *)

(* No writer takes a number beyond the bound of the model.                 *)
BoundInv ==
  /\ seqnum <= MaxSeq
  /\ \A w \in Writers :
       pc[w] = "seq" \/ (pc[w] = "begin" /\ op[w] = "log") => seqnum < MaxSeq

(* The test of Lock still holds when the number is taken.                  *)
LEMMA BoundStep == IInv /\ BoundInv /\ [Next]_vars => BoundInv'
  <1> SUFFICES ASSUME IInv, BoundInv, [Next]_vars PROVE BoundInv'
    OBVIOUS
  <1> USE MaxSeqAssumption DEF Goto
  <1>0. /\ seqnum \in Nat /\ pc \in [Writers -> PCs] /\ op \in [Writers -> Ops]
        /\ MutexInv
    BY DEF IInv, TypeOK
  <1>1. CASE UNCHANGED <<seqnum, pc, op>>
    BY <1>1 DEF BoundInv
  <1>2. ASSUME NEW w \in Writers, NEW o \in Ops, Lock(w, o) PROVE BoundInv'
    BY <1>0, <1>2 DEF Lock, BoundInv
  <1>3. ASSUME NEW w \in Writers, Begin(w) \/ TakeSeq(w) PROVE BoundInv'
    <2>1. /\ pc[w] = "seq" \/ (pc[w] = "begin" /\ op[w] = "log")
          /\ seqnum' = seqnum + 1 /\ op' = op
          /\ pc' = [pc EXCEPT ![w] = "args"] \/ pc' = [pc EXCEPT ![w] = "room"]
      BY <1>3 DEF Begin, TakeSeq
    <2>2. \A v \in Writers : v # w => pc[v] = "idle"
      BY <1>0, <2>1, OneWriter
    <2>3. seqnum < MaxSeq
      BY <2>1 DEF BoundInv
    <2>4. seqnum' <= MaxSeq
      BY <1>0, <2>1, <2>3
    <2>5. \A v \in Writers : pc'[v] \notin {"seq", "begin"}
      BY <1>0, <2>1, <2>2
    <2> QED
      BY <2>4, <2>5 DEF BoundInv
  <1>4. ASSUME NEW w \in Writers,
               \/ RoomFound(w) \/ RoomTimeout(w) \/ BeginSpecial(w)
               \/ SetArgs(w) \/ CommitCheck(w) \/ CommitTail(w) \/ Block(w)
               \/ SpuriousWakeup(w) \/ Acked(w) \/ AckTimeout(w) \/ Unlock(w)
        PROVE  BoundInv'
    <2>1. UNCHANGED <<seqnum, op>>
      BY <1>4
      DEF RoomFound, RoomTimeout, BeginSpecial, SetArgs, CommitCheck,
          CommitTail, Block, SpuriousWakeup, Acked, AckTimeout, Unlock
    <2>2. \/ \E l \in PCs \ {"seq", "begin"} : pc' = [pc EXCEPT ![w] = l]
          \/ pc[w] = "room" /\ pc' = [pc EXCEPT ![w] = "begin"]
      BY <1>4
      DEF RoomFound, RoomTimeout, BeginSpecial, SetArgs, CommitCheck,
          CommitTail, Block, SpuriousWakeup, Acked, AckTimeout, Unlock, PCs
    <2>3. pc[w] = "room" => op[w] # "log"
      BY DEF IInv, RoomInv
    <2> QED
      BY <1>0, <2>1, <2>2, <2>3 DEF BoundInv
  <1>5. CASE Signal
    <2>1. UNCHANGED <<seqnum, op>>
      BY <1>5 DEF Signal
    <2>2. pc' = pc \/ \E w \in Writers : pc' = [pc EXCEPT ![w] = "check"]
      BY <1>5 DEF Signal
    <2> QED
      BY <1>0, <2>1, <2>2 DEF BoundInv
  <1> QED
    BY <1>1, <1>2, <1>3, <1>4, <1>5
    DEF Next, WriterNext, WriterStep, EngineNext, ItReset, FlushRecord, Commit,
        SkipCommit, Unblock, vars, writerVars, readerVars

(* The index k steps after another one.                                    *)
LEMMA StepsOn ==
  ASSUME NEW c \in Index, NEW k \in 1 .. Capacity
  PROVE  /\ (c + k) % Capacity = IF c + k < Capacity THEN c + k
                                 ELSE c + k - Capacity
         /\ (c + k) % Capacity \in Index
  BY DEF Index

(* The queue that RingFifo sees: the numbers of the unread records.        *)
Queue == [k \in 1 .. UnreadCount |-> slot[(Cursor + k) % Capacity].seq]

QueueIsSeq ==
  /\ Queue \in Seq(Nat) /\ Len(Queue) = UnreadCount /\ UnreadCount \in Nat
  /\ \A k \in 1 .. UnreadCount :
       /\ (Cursor + k) % Capacity \in Unread
       /\ Fwd(Cursor, (Cursor + k) % Capacity) = k
       /\ Queue[k] = slot[(Cursor + k) % Capacity].seq

(* It is a sequence, and it consists of the unread records in ring order.  *)
LEMMA QueueFacts == IInv => QueueIsSeq
  <1> SUFFICES ASSUME IInv PROVE QueueIsSeq
    OBVIOUS
  <1>1. TypeOK /\ ReaderInv
    BY DEF IInv
  <1>2. /\ Cursor \in Index /\ UnreadCount \in Nat
        /\ UnreadCount <= Capacity - 1
    BY <1>1, Counts DEF TypeOK, Index
  <1>3. ASSUME NEW k \in 1 .. UnreadCount
        PROVE  /\ (Cursor + k) % Capacity \in Index
               /\ Fwd(Cursor, (Cursor + k) % Capacity) = k
    <2>1. k \in 1 .. Capacity
      BY <1>2
    <2> DEFINE i == (Cursor + k) % Capacity
    <2>2. /\ i = IF Cursor + k < Capacity THEN Cursor + k
                 ELSE Cursor + k - Capacity
          /\ i \in Index
      BY <1>2, <2>1, StepsOn
    <2> HIDE DEF i
    <2>3. Fwd(Cursor, i) = IF i >= Cursor THEN i - Cursor
                           ELSE i - Cursor + Capacity
      BY <1>2, <2>2, FwdValue
    <2>4. Fwd(Cursor, i) = k
      BY <1>2, <2>1, <2>2, <2>3 DEF Index
    <2> QED
      BY <2>2, <2>4 DEF i
  <1>4. \A k \in 1 .. UnreadCount : (Cursor + k) % Capacity \in Unread
    BY <1>3 DEF Unread
  <1>5. \A k \in 1 .. UnreadCount : slot[(Cursor + k) % Capacity].seq \in Nat
    BY <1>1, <1>3 DEF TypeOK, Record
  <1>6. Queue \in [1 .. UnreadCount -> Nat]
    BY <1>5 DEF Queue
  <1>7. Queue \in Seq(Nat) /\ Len(Queue) = UnreadCount
    BY <1>2, <1>6
  <1>8. \A k \in 1 .. UnreadCount :
          Queue[k] = slot[(Cursor + k) % Capacity].seq
    BY DEF Queue
  <1> QED
    BY <1>2, <1>3, <1>4, <1>7, <1>8 DEF QueueIsSeq

(* A step that moves no index and keeps the numbers of the unread records  *)
(* is invisible in the queue.                                              *)
LEMMA QueueKept ==
  ASSUME IInv, IInv', Cursor' = Cursor, UnreadCount' = UnreadCount,
         \A i \in Unread : slot'[i].seq = slot[i].seq
  PROVE  Queue' = Queue
  <1>1. QueueIsSeq
    BY QueueFacts
  <1>2. QueueIsSeq'
    BY QueueFacts, PTL
  <1>3. /\ Queue \in Seq(Nat) /\ Queue' \in Seq(Nat)
        /\ Len(Queue') = Len(Queue) /\ Len(Queue) = UnreadCount
    BY <1>1, <1>2 DEF QueueIsSeq
  <1>4. \A k \in 1 .. UnreadCount : Queue'[k] = Queue[k]
    BY <1>1, <1>2 DEF QueueIsSeq
  <1> QED
    BY <1>3, <1>4, SeqEqual

(* commit_tail puts the record at the end of the queue.                    *)
LEMMA CommitPuts ==
  ASSUME IInv, IInv', BoundInv, NEW w \in Writers, CommitTail(w)
  PROVE  Fifo!Put
  <1>1. /\ TypeOK /\ ReaderInv /\ TailInv /\ RoomInv /\ OrderInv
        /\ pc[w] = "commit" /\ tail' = Inc(tail)
        /\ UNCHANGED <<slot, head, rpc, itHead, itTail, consumed, dropcnt>>
    BY DEF IInv, CommitTail, readerVars
  <1>2. ~Full /\ slot[tail].seq = cur[w] /\ InFlight(w)
    BY <1>1 DEF RoomInv, TailInv, InFlight
  <1>3. /\ Cursor' = Cursor /\ UnreadCount' = UnreadCount + 1
    BY <1>1, <1>2, PublishRegions
  <1>4. QueueIsSeq
    BY QueueFacts
  <1>5. QueueIsSeq'
    BY QueueFacts, PTL
  <1>6. Cursor \in Index /\ tail \in Index /\ head \in Index
        /\ cur[w] \in Nat /\ seqnum \in Nat
    BY <1>1, Counts DEF TypeOK
  <1>7. (Cursor + (UnreadCount + 1)) % Capacity = tail
    <2>1. UnreadCount = IF tail > Cursor THEN tail - Cursor - 1
                        ELSE tail - Cursor - 1 + Capacity
      BY <1>1, Counts
    <2>2. UnreadCount + 1 \in 1 .. Capacity
      BY <1>6, <2>1 DEF Index
    <2>3. (Cursor + (UnreadCount + 1)) % Capacity =
            IF Cursor + (UnreadCount + 1) < Capacity
            THEN Cursor + (UnreadCount + 1)
            ELSE Cursor + (UnreadCount + 1) - Capacity
      BY <1>6, <2>2, StepsOn
    <2> QED
      BY <1>6, <2>1, <2>2, <2>3 DEF Index
  <1>8. Queue' = Append(Queue, cur[w])
    <2>1. /\ Queue \in Seq(Nat) /\ Len(Queue) = UnreadCount
          /\ UnreadCount \in Nat /\ Queue' \in Seq(Nat)
          /\ Len(Queue') = UnreadCount + 1
      BY <1>3, <1>4, <1>5 DEF QueueIsSeq
    <2>2. /\ Append(Queue, cur[w]) \in Seq(Nat)
          /\ Len(Append(Queue, cur[w])) = UnreadCount + 1
          /\ \A k \in 1 .. UnreadCount : Append(Queue, cur[w])[k] = Queue[k]
          /\ Append(Queue, cur[w])[UnreadCount + 1] = cur[w]
      BY <1>6, <2>1
    <2>3. ASSUME NEW k \in 1 .. UnreadCount + 1
          PROVE  Queue'[k] = Append(Queue, cur[w])[k]
      <3>1. Queue'[k] = slot[(Cursor + k) % Capacity].seq
        BY <1>1, <1>3, <1>5 DEF QueueIsSeq
      <3>2. CASE k \in 1 .. UnreadCount
        BY <1>4, <2>2, <3>1, <3>2 DEF QueueIsSeq
      <3>3. CASE k = UnreadCount + 1
        BY <1>2, <1>7, <2>2, <3>1, <3>3
      <3> QED
        BY <2>1, <3>2, <3>3
    <2> QED
      BY <2>1, <2>2, <2>3, SeqEqual
  <1>9. Len(Queue) + Fwd(head, Cursor) < Capacity - 1
    <2>1. /\ UnreadCount = Size - Fwd(head, Cursor)
          /\ UnreadCount \in Nat /\ Size \in Nat /\ Fwd(head, Cursor) \in Nat
      BY <1>1, Regions
    <2>2. Size < Capacity - 1
      BY <1>1, <1>2, <1>6, Counts DEF Full, Index
    <2>3. Len(Queue) = UnreadCount
      BY <1>4 DEF QueueIsSeq
    <2> QED
      BY <2>1, <2>2, <2>3
  <1>10. cur[w] \in 0 .. MaxSeq - 1
    BY <1>1, <1>2, <1>6, MaxSeqAssumption DEF OrderInv, BoundInv
  <1>11. \A k \in DOMAIN consumed : consumed[k] < cur[w]
    BY <1>1, <1>2 DEF OrderInv
  <1>12. \A k \in DOMAIN Queue : Queue[k] < cur[w]
    <2>1. DOMAIN Queue = 1 .. UnreadCount
      BY DEF Queue
    <2> QED
      BY <1>1, <1>2, <1>4, <2>1 DEF OrderInv, QueueIsSeq
  <1>13. UNCHANGED <<Fwd(head, Cursor), consumed, dropcnt>>
    BY <1>1, <1>3 DEF Fwd
  <1> QED
    BY <1>8, <1>9, <1>10, <1>11, <1>12, <1>13
    DEF Fifo!Put, Fifo!HasRoom, Queue

(* flush_record takes the first record of the queue.                       *)
LEMMA FlushTakes ==
  ASSUME IInv, IInv', FlushRecord
  PROVE  Fifo!Take
  <1> DEFINE h == Inc(itHead)
  <1>1. /\ TypeOK /\ ReaderInv /\ rpc = "iter" /\ HasNext
        /\ consumed' = Append(consumed, slot[h].seq)
        /\ slot' = [slot EXCEPT ![h] = Flushed(@)]
        /\ UNCHANGED <<head, dropcnt>>
    BY DEF IInv, FlushRecord
  <1>2. /\ Cursor = itHead /\ Cursor' = h
        /\ UnreadCount' = UnreadCount - 1 /\ h \in Unread
    BY <1>1, FlushRegions
  <1>3. /\ Fwd(head, h) = Fwd(head, itHead) + 1 /\ Fwd(itHead, h) = 1
    BY <1>1, NextRecord
  <1>4. /\ itHead \in Index /\ h \in Index
        /\ h = IF itHead = Capacity - 1 THEN 0 ELSE itHead + 1
    BY <1>1, IncValue DEF TypeOK
  <1> HIDE DEF h
  <1>5. QueueIsSeq
    BY QueueFacts
  <1>6. QueueIsSeq'
    BY QueueFacts, PTL
  <1>7. /\ UnreadCount \in Nat /\ 1 <= UnreadCount
        /\ UnreadCount <= Capacity - 1
    <2>1. 1 \in 1 .. UnreadCount
      BY <1>2, <1>3 DEF Unread
    <2>2. UnreadCount \in Nat
      BY <1>5 DEF QueueIsSeq
    <2>3. UnreadCount <= Capacity - 1
      BY <1>1, Counts DEF TypeOK, Index
    <2> QED
      BY <2>1, <2>2, <2>3
  <1>8. ASSUME NEW k \in 1 .. UnreadCount - 1
        PROVE  (h + k) % Capacity = (itHead + (k + 1)) % Capacity
    <2>1. k \in 1 .. Capacity /\ k + 1 \in 1 .. Capacity
      BY <1>7
    <2>2. (h + k) % Capacity = IF h + k < Capacity THEN h + k
                               ELSE h + k - Capacity
      BY <1>4, <2>1, StepsOn
    <2>3. (itHead + (k + 1)) % Capacity =
            IF itHead + (k + 1) < Capacity THEN itHead + (k + 1)
            ELSE itHead + (k + 1) - Capacity
      BY <1>4, <2>1, StepsOn
    <2> QED
      BY <1>4, <2>1, <2>2, <2>3 DEF Index
  <1>9. (itHead + 1) % Capacity = h
    BY DEF h, Inc
  <1>10. \A i \in Index : slot'[i].seq = slot[i].seq
    BY <1>1, <1>4 DEF TypeOK, Flushed, Record
  <1>11. /\ Queue \in Seq(Nat) /\ Len(Queue) = UnreadCount
         /\ Queue' \in Seq(Nat) /\ Len(Queue') = UnreadCount - 1
    BY <1>2, <1>5, <1>6 DEF QueueIsSeq
  <1>12. Queue # <<>> /\ Head(Queue) = slot[h].seq
    <2>1. Queue # <<>> /\ Head(Queue) = Queue[1]
      BY <1>7, <1>11
    <2>2. Queue[1] = slot[(itHead + 1) % Capacity].seq
      BY <1>2, <1>5, <1>7 DEF QueueIsSeq
    <2> QED
      BY <1>9, <2>1, <2>2
  <1>13. /\ Tail(Queue) \in Seq(Nat) /\ Len(Tail(Queue)) = UnreadCount - 1
         /\ \A k \in 1 .. UnreadCount - 1 : Tail(Queue)[k] = Queue[k + 1]
    BY <1>11, <1>12, HeadTailProperties
  <1>14. ASSUME NEW k \in 1 .. UnreadCount - 1
         PROVE  Queue'[k] = Tail(Queue)[k]
    <2>1. /\ Queue'[k] = slot'[(h + k) % Capacity].seq
          /\ (h + k) % Capacity \in Index
      BY <1>2, <1>6 DEF QueueIsSeq, Unread
    <2>2. k + 1 \in 1 .. UnreadCount
      BY <1>7
    <2>3. Queue[k + 1] = slot[(itHead + (k + 1)) % Capacity].seq
      BY <1>2, <1>5, <2>2 DEF QueueIsSeq
    <2> QED
      BY <1>8, <1>10, <1>13, <2>1, <2>3
  <1>15. Queue' = Tail(Queue)
    BY <1>11, <1>13, <1>14, SeqEqual
  <1>16. Fwd(head, Cursor)' = Fwd(head, Cursor) + 1
    BY <1>1, <1>2, <1>3 DEF Fwd
  <1> QED
    BY <1>1, <1>12, <1>15, <1>16 DEF Fifo!Take, Queue

(* push_commit counts a drop only when every slot is taken.                *)
LEMMA CheckDrops ==
  ASSUME IInv, IInv', NEW w \in Writers, CommitCheck(w)
  PROVE  Fifo!Drop \/ UNCHANGED Fifo!fifoVars
  <1>1. /\ TypeOK /\ ReaderInv
        /\ UNCHANGED <<slot, head, tail, rpc, itHead, itTail, consumed>>
    BY DEF IInv, CommitCheck, readerVars
  <1>2. UNCHANGED <<Cursor, UnreadCount, Fwd(head, Cursor)>>
    BY <1>1 DEF Cursor, UnreadCount, Fwd
  <1>3. Queue' = Queue
    BY <1>1, <1>2 DEF Queue
  <1>4. CASE UNCHANGED dropcnt
    BY <1>1, <1>2, <1>3, <1>4 DEF Fifo!fifoVars, Queue
  <1>5. CASE Full /\ dropcnt' = dropcnt + 1
    <2>1. /\ UnreadCount = Size - Fwd(head, Cursor)
          /\ UnreadCount \in Nat /\ Size \in Nat /\ Fwd(head, Cursor) \in Nat
      BY <1>1, Regions
    <2>2. Size = Capacity - 1
      BY <1>1, <1>5, Counts DEF Full, Index, TypeOK
    <2>3. Len(Queue) = UnreadCount
      BY QueueFacts DEF QueueIsSeq
    <2>4. ~(Len(Queue) + Fwd(head, Cursor) < Capacity - 1)
      BY <2>1, <2>2, <2>3
    <2> QED
      BY <1>1, <1>2, <1>3, <1>5, <2>4 DEF Fifo!Drop, Fifo!HasRoom, Queue
  <1> QED
    BY <1>4, <1>5 DEF CommitCheck

(* The commit of the engine releases what was taken; its other steps are   *)
(* invisible in the queue.                                                 *)
LEMMA EngineReleases ==
  ASSUME IInv, IInv', ItReset \/ Commit \/ SkipCommit \/ Unblock \/ Signal
  PROVE  Fifo!Release \/ UNCHANGED Fifo!fifoVars
  <1>1. /\ TypeOK /\ ReaderInv
        /\ UNCHANGED <<slot, tail, consumed, dropcnt>>
    BY DEF IInv, ItReset, Commit, SkipCommit, Unblock, Signal, writerVars
  <1>2. Cursor' = Cursor /\ UnreadCount' = UnreadCount
    BY <1>1, EngineRegions
  <1>3. Queue' = Queue
    BY <1>1, <1>2, QueueKept
  <1>4. /\ Cursor \in Index /\ head \in Index
        /\ Fwd(head, head) = 0 /\ Fwd(Cursor, Cursor) = 0
    BY <1>1, Counts, FwdValue DEF TypeOK, Index
  <1>5. CASE UNCHANGED head
    BY <1>1, <1>2, <1>3, <1>5 DEF Fifo!fifoVars, Queue, Fwd
  <1>6. CASE Commit
    <2>1. Cursor = itHead /\ head' = itHead
      BY <1>6 DEF Commit, Cursor, CommittedHead
    <2>2. Fwd(head, Cursor)' = 0
      BY <1>2, <1>4, <2>1 DEF Fwd
    <2>3. Fwd(head, Cursor) \in Nat
      BY <1>1, Regions
    <2>4. CASE Fwd(head, Cursor) = 0
      BY <1>1, <1>3, <2>2, <2>4 DEF Fifo!fifoVars, Queue
    <2>5. CASE Fwd(head, Cursor) > 0
      BY <1>1, <1>3, <2>2, <2>5 DEF Fifo!Release, Queue
    <2> QED
      BY <2>3, <2>4, <2>5
  <1> QED
    BY <1>5, <1>6 DEF ItReset, SkipCommit, Unblock, Signal

(* Writing a record that is not published yet is invisible in the queue.   *)
LEMMA FillHidden ==
  ASSUME IInv, IInv', NEW w \in Writers,
         Begin(w) \/ BeginSpecial(w) \/ SetArgs(w)
  PROVE  UNCHANGED Fifo!fifoVars
  <1>1. /\ TypeOK /\ ReaderInv /\ TailInv
        /\ UNCHANGED <<head, tail, rpc, itHead, itTail, consumed, dropcnt>>
    BY DEF IInv, Begin, BeginSpecial, SetArgs, readerVars
  <1>2. \A i \in Index : i # tail => slot'[i] = slot[i]
    BY <1>1 DEF Begin, BeginSpecial, SetArgs, PushBegin, TailInv, TypeOK
  <1>3. tail \notin Unread /\ Unread \subseteq Index
    BY <1>1, Regions DEF Unread
  <1>4. Cursor' = Cursor /\ UnreadCount' = UnreadCount
    BY <1>1 DEF Cursor, UnreadCount
  <1>5. Queue' = Queue
    BY <1>2, <1>3, <1>4, QueueKept
  <1> QED
    BY <1>1, <1>4, <1>5 DEF Fifo!fifoVars, Queue, Fwd

(* The ring of slots, indices and flags implements the bounded queue of    *)
(* RingFifo: push_commit puts or drops, flush_record takes, commit         *)
(* releases, and every other step of a writer or of the engine is          *)
(* invisible.                                                              *)
THEOREM RefinesFifoHolds == Spec => RefinesFifo
  <1>1. Init => BoundInv /\ Fifo!Init
    <2> SUFFICES ASSUME Init PROVE BoundInv /\ Fifo!Init
      OBVIOUS
    <2>1. /\ pc = [w \in Writers |-> "idle"] /\ rpc = "idle" /\ seqnum = 0
          /\ head = Capacity - 1 /\ tail = 0 /\ consumed = <<>> /\ dropcnt = 0
      BY DEF Init
    <2>2. BoundInv
      BY <2>1, MaxSeqAssumption DEF BoundInv
    <2>3. TypeOK
      BY TypeInit
    <2>4. Cursor = head /\ UnreadCount = 0 /\ head \in Index
      BY <2>1, <2>3, Counts DEF Cursor, Index
    <2>5. Fwd(head, Cursor) = 0
      BY <2>4, FwdValue DEF Index
    <2>6. Queue = <<>>
      BY <2>4 DEF Queue
    <2> QED
      BY <2>1, <2>2, <2>5, <2>6 DEF Fifo!Init, Queue
  <1>2. IInv /\ IInv' /\ BoundInv /\ [Next]_vars => [Fifo!Next]_(Fifo!fifoVars)
    <2> SUFFICES ASSUME IInv, IInv', BoundInv, [Next]_vars
                 PROVE  Fifo!Next \/ UNCHANGED Fifo!fifoVars
      OBVIOUS
    <2>1. CASE UNCHANGED <<slot, head, tail, rpc, itHead, itTail, consumed,
                           dropcnt>>
      BY <2>1 DEF Fifo!fifoVars, Cursor, UnreadCount, Fwd
    <2>2. ASSUME NEW w \in Writers, WriterNext(w)
          PROVE  Fifo!Next \/ UNCHANGED Fifo!fifoVars
      <3>1. CASE CommitTail(w)
        BY <3>1, CommitPuts DEF Fifo!Next
      <3>2. CASE CommitCheck(w)
        BY <3>2, CheckDrops DEF Fifo!Next
      <3>3. CASE Begin(w) \/ BeginSpecial(w) \/ SetArgs(w)
        BY <3>3, FillHidden
      <3> QED
        BY <2>1, <2>2, <3>1, <3>2, <3>3
        DEF WriterNext, WriterStep, Lock, TakeSeq, RoomFound, RoomTimeout,
            Block, SpuriousWakeup, Acked, AckTimeout, Unlock, readerVars
    <2>3. CASE EngineNext
      <3>1. CASE FlushRecord
        BY <3>1, FlushTakes DEF Fifo!Next
      <3>2. CASE ItReset \/ Commit \/ SkipCommit \/ Unblock \/ Signal
        BY <3>2, EngineReleases DEF Fifo!Next
      <3> QED
        BY <2>3, <3>1, <3>2 DEF EngineNext
    <2> QED
      BY <2>1, <2>2, <2>3 DEF Next, vars, readerVars
  <1> QED
    BY <1>1, <1>2, BoundStep, IInvInit, IInvStep, PTL
    DEF Spec, RefinesFifo, Fifo!Spec
=============================================================================
