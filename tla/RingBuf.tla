------------------------------ MODULE RingBuf ------------------------------
(***************************************************************************)
(* One log ring (hogl::ringbuf) with the threads that use it: writers that *)
(* post ordinary records and special records (flush, timesource change),   *)
(* and the engine thread that drains the ring through a pop_iterator.      *)
(*                                                                         *)
(* A step is one access to state that another thread can see: the header   *)
(* and the arguments of a record are written in two steps, push_commit     *)
(* reads _head and publishes _tail in two steps, and so on. Memory is      *)
(* sequentially consistent, which is what volatile accesses and the        *)
(* barriers of barrier-x86.hpp give for the accesses ordered here.         *)
(***************************************************************************)
EXTENDS Integers, Sequences

CONSTANTS
  Capacity,   \* ringbuf::capacity(), the number of slots (_capacity + 1)
  Writers,    \* the threads that post into this ring
  NoWriter,   \* the holder of an unlocked _mutex
  Shared,     \* flag SHARED
  Blocking,   \* flag BLOCKING
  Tso,        \* the engine runs without DISABLE_TSO
  MaxSeq      \* bound: sequence numbers handed out by the model

ASSUME CapacityAssumption == Capacity \in Nat \ {0}
ASSUME MaxSeqAssumption == MaxSeq \in Nat
ASSUME FlagAssumption == {Shared, Blocking, Tso} \subseteq BOOLEAN
ASSUME WriterAssumption == NoWriter \notin Writers
(* A ring without the SHARED flag belongs to one thread.                   *)
ASSUME OwnerAssumption == Shared \/ \A v, w \in Writers : v = w

VARIABLES
  slot,         \* the records: _rec_top
  head, tail,   \* _head, _tail
  seqnum,       \* _seqnum
  dropcnt,      \* _dropcnt
  mutex,        \* holder of _mutex
  blockActive,  \* _block_active
  pc, op, cur, rec,   \* a writer: control point, operation, its sequence
                      \* number, and the slot its record pointer names
  rpc, itHead, itTail,  \* the engine: control point, its pop_iterator
  consumed,     \* history: sequence numbers handed to the output, in order
  abandoned     \* history: special records given up before they got a slot

writerVars == <<pc, op, cur, rec>>
readerVars == <<rpc, itHead, itTail>>
vars == <<slot, head, tail, seqnum, dropcnt, mutex, blockActive,
          writerVars, readerVars, consumed, abandoned>>

Index == 0 .. Capacity - 1
Ops == {"log", "flush", "tschange"}
Special == {"flush", "tschange"}

(* A record as far as the ring protocol can tell records apart: the        *)
(* sequence number in its header, the sequence number its arguments belong *)
(* to (they differ while the record is half written), its kind, and        *)
(* whether argval[0] holds the acknowledgement 0x7e7f.                     *)
Record == [seq: Nat, args: Nat, kind: Ops, ack: BOOLEAN]

-----------------------------------------------------------------------------
(* Index arithmetic. `& _capacity' is a remainder: capacity() is a power   *)
(* of two.                                                                 *)

Inc(i) == (i + 1) % Capacity

Size == (tail - (head + 1)) % Capacity

Room == (head - tail) % Capacity

-----------------------------------------------------------------------------
(* Writers: post_impl::locked, do_flush, do_change_timesource              *)

Goto(w, l) == pc' = [pc EXCEPT ![w] = l]

(* ring->lock(), a noop for a ring that is not shared.                     *)
Lock(w, o) ==
  /\ pc[w] = "idle"
  /\ seqnum < MaxSeq
  /\ Shared => mutex = NoWriter
  /\ mutex' = IF Shared THEN w ELSE mutex
  /\ op' = [op EXCEPT ![w] = o]
  /\ Goto(w, IF o = "log" THEN "begin" ELSE "seq")
  /\ UNCHANGED <<slot, head, tail, seqnum, dropcnt, blockActive, cur, rec,
                 readerVars, consumed, abandoned>>

(* push_begin: the slot a new record is written to, before anybody knows   *)
(* whether it will fit. Deliberately wrong variants of a definition end in *)
(* Bug and stand before it: they show that the properties notice the       *)
(* difference.                                                             *)
PushBegin_NextBug == Inc(tail)

PushBegin == tail

(* push_begin and the header fields of an ordinary record.                 *)
Begin(w) ==
  /\ pc[w] = "begin" /\ op[w] = "log"
  /\ cur' = [cur EXCEPT ![w] = seqnum]
  /\ rec' = [rec EXCEPT ![w] = PushBegin]
  /\ seqnum' = seqnum + 1
  /\ slot' = [slot EXCEPT ![PushBegin] = [@ EXCEPT !.seq = seqnum,
                                                      !.kind = "log"]]
  /\ Goto(w, "args")
  /\ UNCHANGED <<head, tail, dropcnt, mutex, blockActive, op,
                 readerVars, consumed, abandoned>>

(* A special record takes its sequence number first...                     *)
TakeSeq(w) ==
  /\ pc[w] = "seq"
  /\ cur' = [cur EXCEPT ![w] = seqnum]
  /\ seqnum' = seqnum + 1
  /\ Goto(w, "room")
  /\ UNCHANGED <<slot, head, tail, dropcnt, mutex, blockActive, op, rec,
                 readerVars, consumed, abandoned>>

(* ... waits for room...                                                   *)
RoomFound_NoWaitBug(w) ==
  /\ pc[w] = "room"
  /\ Goto(w, "begin")
  /\ UNCHANGED <<slot, head, tail, seqnum, dropcnt, mutex, blockActive, op,
                 cur, rec, readerVars, consumed, abandoned>>

RoomFound(w) ==
  /\ pc[w] = "room"
  /\ Room # 0
  /\ Goto(w, "begin")
  /\ UNCHANGED <<slot, head, tail, seqnum, dropcnt, mutex, blockActive, op,
                 cur, rec, readerVars, consumed, abandoned>>

(* ... or gives up when the timeout expires first, ...                     *)
RoomTimeout(w) ==
  /\ pc[w] = "room"
  /\ Room = 0
  /\ abandoned' = abandoned + 1
  /\ Goto(w, "unlock")
  /\ UNCHANGED <<slot, head, tail, seqnum, dropcnt, mutex, blockActive, op,
                 cur, rec, readerVars, consumed>>

(* ... and then grabs the tail slot.                                       *)
BeginSpecial(w) ==
  /\ pc[w] = "begin" /\ op[w] \in Special
  /\ rec' = [rec EXCEPT ![w] = PushBegin]
  /\ slot' = [slot EXCEPT ![PushBegin].seq = cur[w]]
  /\ Goto(w, "args")
  /\ UNCHANGED <<head, tail, seqnum, dropcnt, mutex, blockActive, op, cur,
                 readerVars, consumed, abandoned>>

(* record::special clears argval[0]; set_args leaves it alone in a record  *)
(* without arguments.                                                      *)
Filled_StaleAckBug(r, o, n) ==
  IF o = "log" THEN [r EXCEPT !.args = n]
               ELSE [r EXCEPT !.args = n, !.kind = o]

Filled_StaleArgsBug(r, o, n) ==
  IF o = "log" THEN r ELSE [r EXCEPT !.args = n, !.kind = o, !.ack = FALSE]

Filled(r, o, n) ==
  IF o = "log" THEN [r EXCEPT !.args = n]
               ELSE [r EXCEPT !.args = n, !.kind = o, !.ack = FALSE]

(* set_args or special: the rest of the record.                            *)
SetArgs(w) ==
  /\ pc[w] = "args"
  /\ slot' = [slot EXCEPT ![rec[w]] = Filled(@, op[w], cur[w])]
  /\ Goto(w, "check")
  /\ UNCHANGED <<head, tail, seqnum, dropcnt, mutex, blockActive, op, cur,
                 rec, readerVars, consumed, abandoned>>

(* The condition of the loop in push_commit.                               *)
Full_NeverBug == FALSE

Full_EarlyBug == Room <= 1

Full == head = tail

(* push_commit: one test of the loop, and the drop of a non-blocking ring. *)
CommitCheck(w) ==
  /\ pc[w] = "check"
  /\ \/ ~Full /\ Goto(w, "commit") /\ UNCHANGED dropcnt
     \/ Full /\ Blocking /\ Goto(w, "block") /\ UNCHANGED dropcnt
     \/ /\ Full /\ ~Blocking
        /\ Goto(w, IF op[w] = "log" THEN "unlock" ELSE "ack")
        /\ dropcnt' = dropcnt + 1
  /\ UNCHANGED <<slot, head, tail, seqnum, mutex, blockActive, op, cur,
                 rec, readerVars, consumed, abandoned>>

(* push_commit: commit_tail publishes the record. change_timesource with a *)
(* zero timeout does not wait for the acknowledgement.                     *)
CommitTail(w) ==
  /\ pc[w] = "commit"
  /\ tail' = Inc(tail)
  /\ \/ op[w] = "log" /\ Goto(w, "unlock")
     \/ op[w] \in Special /\ Goto(w, "ack")
     \/ op[w] = "tschange" /\ Goto(w, "unlock")
  /\ UNCHANGED <<slot, head, seqnum, dropcnt, mutex, blockActive, op, cur,
                 rec, readerVars, consumed, abandoned>>

(* block(): _block_active is set and the wait begins while _block_mutex is *)
(* held, so nobody who takes that mutex sees one without the other.        *)
Block(w) ==
  /\ pc[w] = "block"
  /\ blockActive' = TRUE
  /\ Goto(w, "waiting")
  /\ UNCHANGED <<slot, head, tail, seqnum, dropcnt, mutex, op, cur, rec,
                 readerVars, consumed, abandoned>>

(* pthread_cond_wait may return without a signal; push_commit tests again. *)
SpuriousWakeup(w) ==
  /\ pc[w] = "waiting"
  /\ Goto(w, "check")
  /\ UNCHANGED <<slot, head, tail, seqnum, dropcnt, mutex, blockActive, op,
                 cur, rec, readerVars, consumed, abandoned>>

(* The wait for r->acked() ends with the acknowledgement...                *)
Acked(w) ==
  /\ pc[w] = "ack"
  /\ slot[rec[w]].ack
  /\ Goto(w, "unlock")
  /\ UNCHANGED <<slot, head, tail, seqnum, dropcnt, mutex, blockActive, op,
                 cur, rec, readerVars, consumed, abandoned>>

(* ... or with the timeout; the record stays in the ring.                  *)
AckTimeout(w) ==
  /\ pc[w] = "ack"
  /\ ~slot[rec[w]].ack
  /\ Goto(w, "unlock")
  /\ UNCHANGED <<slot, head, tail, seqnum, dropcnt, mutex, blockActive, op,
                 cur, rec, readerVars, consumed, abandoned>>

Unlock(w) ==
  /\ pc[w] = "unlock"
  /\ mutex' = IF Shared THEN NoWriter ELSE mutex
  /\ Goto(w, "idle")
  /\ UNCHANGED <<slot, head, tail, seqnum, dropcnt, blockActive, op, cur,
                 rec, readerVars, consumed, abandoned>>

-----------------------------------------------------------------------------
(* The engine thread: one pass of process_rings over this ring             *)

(* pop_iterator::reset                                                     *)
ItReset ==
  /\ rpc = "idle"
  /\ itHead' = head
  /\ itTail' = tail
  /\ rpc' = "iter"
  /\ UNCHANGED <<slot, head, tail, seqnum, dropcnt, mutex, blockActive,
                 writerVars, consumed, abandoned>>

(* next() has a record to return.                                          *)
HasNext == Inc(itHead) # itTail

(* flush_record: a special record is acknowledged.                         *)
Flushed_NoAckBug(r) == IF r.kind = "tschange" THEN [r EXCEPT !.ack = TRUE] ELSE r

Flushed(r) == IF r.kind \in Special THEN [r EXCEPT !.ack = TRUE] ELSE r

(* next() and flush_record: the record goes to the output. With TSO the    *)
(* records of a ring leave the TSO buffer in ring order too (module        *)
(* TsoEngine), only the pass may stop early.                               *)
FlushRecord ==
  LET h == Inc(itHead)
  IN  /\ rpc = "iter"
      /\ HasNext
      /\ itHead' = h
      /\ consumed' = Append(consumed, slot[h].seq)
      /\ slot' = [slot EXCEPT ![h] = Flushed(@)]
      /\ UNCHANGED <<head, tail, seqnum, dropcnt, mutex, blockActive,
                     writerVars, rpc, itTail, abandoned>>

(* The index that commit() writes to _head: that of the last record that   *)
(* was flushed.                                                            *)
CommittedHead_StuckBug == head

CommittedHead_PastBug == itHead + 1

CommittedHead == itHead

(* The end of a pass. Without TSO every record of the snapshot was         *)
(* flushed; with TSO the iterator is rewound to the last flushed one.      *)
Commit ==
  /\ rpc = "iter"
  /\ IF Tso THEN itHead # head ELSE ~HasNext
  /\ head' = CommittedHead
  /\ rpc' = "unblock"
  /\ UNCHANGED <<slot, tail, seqnum, dropcnt, mutex, blockActive, writerVars,
                 itHead, itTail, consumed, abandoned>>

(* With TSO a ring none of whose records was flushed is skipped: lastrec   *)
(* is null, so there is neither a commit nor an unblock().                 *)
SkipCommit ==
  /\ rpc = "iter"
  /\ Tso /\ itHead = head
  /\ rpc' = "idle"
  /\ UNCHANGED <<slot, head, tail, seqnum, dropcnt, mutex, blockActive,
                 writerVars, itHead, itTail, consumed, abandoned>>

(* unblock(): the test outside of _block_mutex...                          *)
Unblock_NeverBug ==
  /\ rpc = "unblock"
  /\ rpc' = "idle"
  /\ UNCHANGED <<slot, head, tail, seqnum, dropcnt, mutex, blockActive,
                 writerVars, itHead, itTail, consumed, abandoned>>

Unblock ==
  /\ rpc = "unblock"
  /\ rpc' = IF blockActive THEN "signal" ELSE "idle"
  /\ UNCHANGED <<slot, head, tail, seqnum, dropcnt, mutex, blockActive,
                 writerVars, itHead, itTail, consumed, abandoned>>

(* ... and the signal under it, which wakes one waiting writer if any.     *)
Signal ==
  LET waiting == {w \in Writers : pc[w] = "waiting"}
  IN  /\ rpc = "signal"
      /\ \/ waiting = {} /\ UNCHANGED pc
         \/ \E w \in waiting : Goto(w, "check")
      /\ blockActive' = FALSE
      /\ rpc' = "idle"
      /\ UNCHANGED <<slot, head, tail, seqnum, dropcnt, mutex, op, cur, rec,
                     itHead, itTail, consumed, abandoned>>

-----------------------------------------------------------------------------
(* The constructor: all records zeroed, head one behind tail.              *)
Init ==
  /\ slot = [i \in Index |-> [seq |-> 0, args |-> 0, kind |-> "log",
                              ack |-> FALSE]]
  /\ tail = 0
  /\ head = Capacity - 1
  /\ seqnum = 0
  /\ dropcnt = 0
  /\ mutex = NoWriter
  /\ blockActive = FALSE
  /\ pc = [w \in Writers |-> "idle"]
  /\ op = [w \in Writers |-> "log"]
  /\ cur = [w \in Writers |-> 0]
  /\ rec = [w \in Writers |-> 0]
  /\ rpc = "idle"
  /\ itHead = Capacity - 1
  /\ itTail = 0
  /\ consumed = <<>>
  /\ abandoned = 0

(* The steps of a post that do not wait for another thread.                *)
WriterStep(w) ==
  \/ Begin(w) \/ TakeSeq(w) \/ RoomFound(w) \/ BeginSpecial(w)
  \/ SetArgs(w) \/ CommitCheck(w) \/ CommitTail(w) \/ Block(w)
  \/ Acked(w) \/ Unlock(w)

WriterNext(w) ==
  \/ \E o \in Ops : Lock(w, o)
  \/ WriterStep(w)
  \/ RoomTimeout(w) \/ AckTimeout(w) \/ SpuriousWakeup(w)

EngineNext ==
  ItReset \/ FlushRecord \/ Commit \/ SkipCommit \/ Unblock \/ Signal

Next == (\E w \in Writers : WriterNext(w)) \/ EngineNext

Spec == Init /\ [][Next]_vars

(* A thread inside the library keeps running and so does the engine loop.  *)
(* Nothing makes a thread post, and neither timeouts nor spurious wakeups  *)
(* ever have to happen. SF on FlushRecord: a pass may leave records behind *)
(* for the next one, which flushes at least as many as were left           *)
(* (_tso_leftover).                                                        *)
Fairness ==
  /\ \A w \in Writers : WF_vars(WriterStep(w))
  /\ WF_vars(EngineNext)
  /\ SF_vars(FlushRecord)

FairSpec == Spec /\ Fairness

-----------------------------------------------------------------------------
(* What the ring promises                                                  *)

PCs == {"idle", "seq", "room", "begin", "args", "check", "commit", "block",
        "waiting", "ack", "unlock"}

(* The variables keep their types; indices stay within the ring.           *)
TypeOK ==
  /\ slot \in [Index -> Record]
  /\ head \in Index /\ tail \in Index
  /\ seqnum \in Nat /\ dropcnt \in Nat /\ abandoned \in Nat
  /\ mutex \in Writers \cup {NoWriter}
  /\ blockActive \in BOOLEAN
  /\ pc \in [Writers -> PCs]
  /\ op \in [Writers -> Ops]
  /\ cur \in [Writers -> Nat]
  /\ rec \in [Writers -> Index]
  /\ rpc \in {"idle", "iter", "unblock", "signal"}
  /\ itHead \in Index /\ itTail \in Index
  /\ consumed \in Seq(Nat)

(* The number of steps forward from index a to index b.                    *)
Fwd(a, b) == (b - a) % Capacity

(* The slots of published records that the engine has not released: those  *)
(* strictly between _head and _tail.                                       *)
Window == {i \in Index : Fwd(head, i) \in 1 .. Size}

(* The slot of the last record that went to the output.                    *)
Cursor == IF rpc = "iter" THEN itHead ELSE head

(* The number of published records that did not go to the output yet.      *)
UnreadCount == (tail - (Cursor + 1)) % Capacity

Unread == {i \in Index : Fwd(Cursor, i) \in 1 .. UnreadCount}

(* A writer that took a sequence number for a record that it has neither   *)
(* published nor counted as dropped.                                       *)
InFlight(w) ==
  \/ pc[w] \in {"args", "check", "commit", "block", "waiting", "room"}
  \/ pc[w] = "begin" /\ op[w] \in Special

(* commit_tail publishes nothing but complete records: what the engine may *)
(* read has the arguments that belong to its header.                       *)
WindowComplete == \A i \in Window : slot[i].args = slot[i].seq

(* Records reach the output in the order of their sequence numbers and     *)
(* none reaches it twice, across passes that stop early and are resumed.   *)
DeliveredInOrder ==
  \A j, k \in DOMAIN consumed : j < k => consumed[j] < consumed[k]

(* Every sequence number is accounted for exactly once: delivered, still   *)
(* unread, counted in _dropcnt, given up by a flush that found no room, or *)
(* in the hands of a writer.                                               *)
Accounting ==
  seqnum = Len(consumed) + UnreadCount + dropcnt + abandoned
             + (IF \E w \in Writers : InFlight(w) THEN 1 ELSE 0)

(* flush() and change_timesource() see the acknowledgement only once       *)
(* their own record was the last to be handed to the output: all the       *)
(* records that were posted before are out.                                *)
AckMeansFlushed ==
  \A w \in Writers :
    pc[w] = "ack" /\ slot[rec[w]].ack =>
      /\ UnreadCount = 0
      /\ Len(consumed) > 0 /\ consumed[Len(consumed)] = cur[w]

(* A special record that found room is neither dropped nor blocked by      *)
(* push_commit, which waits for its acknowledgement in any case.           *)
SpecialHasRoom ==
  \A w \in Writers : pc[w] = "check" /\ op[w] \in Special => ~Full

(* No step, the engine's acknowledgements aside, rewrites a record that is *)
(* published and not released; push_begin hands out the tail slot before   *)
(* it is known that there is room.                                         *)
WindowStable ==
  [][\A i \in Window : slot'[i] = [slot[i] EXCEPT !.ack = slot'[i].ack]]_vars

(* A writer that waits for room in a blocking ring publishes its record.   *)
PushCompletes ==
  \A w \in Writers : pc[w] = "check" ~> pc[w] \notin {"check", "block", "waiting"}

(* A flush or timesource change that was published returns without the     *)
(* help of its timeout.                                                    *)
FlushReturns == \A w \in Writers : pc[w] = "ack" ~> pc[w] = "unlock"

(* The ring implements a bounded queue of Capacity - 1 records that drops  *)
(* only when it is full.                                                   *)
Fifo == INSTANCE RingFifo WITH
  Slots <- Capacity - 1,
  queue <- [k \in 1 .. UnreadCount |-> slot[(Cursor + k) % Capacity].seq],
  held  <- Fwd(head, Cursor),
  out   <- consumed,
  lost  <- dropcnt

RefinesFifo == Fifo!Spec
=============================================================================
