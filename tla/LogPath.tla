------------------------------ MODULE LogPath ------------------------------
(***************************************************************************)
(* From the ring to the file: the engine takes records from a ring, the    *)
(* format handler pushes them in pieces into an output buffer (ostrbuf),   *)
(* and the buffer writes to one stream or, as a tee, to several. Writes    *)
(* may fail or come short, and the process may crash at any point; then    *)
(* the recovery engine works on the core dump.                             *)
(*                                                                         *)
(* RingBuf and RecordFormat have the details of the ring and of records;   *)
(* here a record is the sequence of its pieces: the timestamp and sequence *)
(* number, the names, and the arguments.                                   *)
(***************************************************************************)
EXTENDS Integers, SequencesExt

CONSTANTS
  Slots,      \* slots of the ring
  Start,      \* where the head is after the records before the model starts
  MaxRec,     \* bound: records posted
  BufCap,     \* capacity of the output buffer, in pieces
  Outputs,    \* the outputs of the engine: sequences of kinds of streams
  MaxFaults   \* bound: writes that fail or come short

(* How a stream treats a failure: ostrbuf_fd, ostrbuf_stdio, ostrbuf_file. *)
Kinds == {"fd", "stdio", "file"}
Pieces == 3

ASSUME SlotsAssumption == Slots \in Nat \ {0, 1} /\ Start \in 0 .. Slots - 1
ASSUME BoundsAssumption == {MaxRec, BufCap, MaxFaults} \subseteq Nat
ASSUME OutputsAssumption == Outputs \subseteq Seq(Kinds) \ {<<>>}

VARIABLES
  slot, head, tail,   \* the ring
  posted, lost,       \* records posted, and those that found no room
  acked,              \* flush records that were acknowledged
  epc, it, itTail,    \* the engine and its pop_iterator
  piece,              \* pieces of the record that were pushed
  kinds, streams,     \* the streams: what was written, how much of it has
                      \* left the process, and _failed
  buf,                \* the output buffer
  data, target, back, \* do_flush: the new data, the stream being written,
                      \* where it returns to
  sent,               \* history: all the pieces that were pushed
  faults,             \* writes that failed or came short
  alive,              \* the process has not crashed
  dump                \* what the recovery engine has printed

ringVars == <<slot, head, tail, posted, lost>>
engineVars == <<acked, it, itTail, piece>>
flushVars == <<data, target, back>>
logVars == <<ringVars, engineVars, epc, kinds, streams, buf, flushVars, sent,
             faults, alive, dump>>

-----------------------------------------------------------------------------
(* The ring                                                                *)

Inc(i) == (i + 1) % Slots

(* The slots that an iterator visits between a head and a tail.            *)
Between(h, t) == [i \in 1 .. (t - h - 1) % Slots |-> (h + i) % Slots]

NoRecord == [id |-> 0, ts |-> 0, special |-> FALSE]

(* Timestamps of successive records grow or stay the same.                 *)
LastTs == IF posted = 0 THEN 1 ELSE slot[(tail + Slots - 1) % Slots].ts

(* A record is published or dropped. The first timestamp may be any.       *)
Post(tick) ==
  /\ alive /\ posted < MaxRec
  /\ posted = 0 => tick = 0
  /\ posted' = posted + 1
  /\ IF tail = head
     THEN lost' = lost \cup {posted'} /\ UNCHANGED <<slot, tail>>
     ELSE /\ slot' = [slot EXCEPT ![tail] =
                        [id |-> posted', ts |-> LastTs + tick,
                         special |-> FALSE]]
          /\ tail' = Inc(tail)
          /\ UNCHANGED lost
  /\ UNCHANGED <<head, engineVars, epc, kinds, streams, buf, flushVars, sent,
                 faults, alive, dump>>

(* flush() waits for room.                                                 *)
PostFlush ==
  /\ alive /\ posted < MaxRec
  /\ tail # head
  /\ posted' = posted + 1
  /\ slot' = [slot EXCEPT ![tail] =
                [id |-> posted', ts |-> LastTs, special |-> TRUE]]
  /\ tail' = Inc(tail)
  /\ UNCHANGED <<head, lost, engineVars, epc, kinds, streams, buf, flushVars,
                 sent, faults, alive, dump>>

-----------------------------------------------------------------------------
(* The output buffer and its streams                                       *)

Tee == Len(kinds) > 1

(* do_flush gives up at once when the stream has failed. ostrbuf_file does *)
(* not look, and a tee looks at both of its streams.                       *)
StopsWhenFailed_NeverBug(kind) == FALSE

StopsWhenFailed(kind) == kind # "file"

FlushFails ==
  IF Tee THEN \E s \in DOMAIN kinds : streams[s].failed
  ELSE streams[1].failed /\ StopsWhenFailed(kinds[1])

(* writev: the data is in the file at once. It may fail, and it may come   *)
(* short, which nobody notices.                                            *)
Writev(s, chunk) ==
  LET Wrote(n) == [s EXCEPT !.out = @ \o SubSeq(chunk, 1, n),
                            !.filed = Len(s.out) + n]
  IN  {Wrote(n) : n \in 1 .. Len(chunk)} \cup {[s EXCEPT !.failed = TRUE]}

(* fwrite: libc keeps any part of the data in its own buffer, which nobody *)
(* flushes. After an error what was in that buffer is lost as well.        *)
Fwrite(s, chunk) ==
  LET all == s.out \o chunk
  IN  IF chunk = <<>> THEN {s}
      ELSE {[s EXCEPT !.out = all, !.filed = n] : n \in s.filed .. Len(all)}
             \cup {[out |-> SubSeq(all, 1, n), filed |-> n, failed |-> TRUE] :
                     n \in s.filed .. Len(all) - 1}

(* do_flush of a stream, with what its buffer holds and new data.          *)
(* ostrbuf_fd and ostrbuf_file write both at once. ostrbuf_stdio calls     *)
(* fwrite for each, and looks for an error after both.                     *)
Written(s, kind, held, new) ==
  IF held \o new = <<>> \/ (s.failed /\ StopsWhenFailed(kind)) THEN {s}
  ELSE IF kind = "stdio" THEN UNION {Fwrite(t, new) : t \in Fwrite(s, held)}
  ELSE Writev(s, held \o new)

(* ostrbuf_tee hands its buffer and the new data to the streams one after  *)
(* the other, as new data.                                                 *)
FlushedTo(s, kind) ==
  IF Tee THEN UNION {Written(t, kind, <<>>, data) :
                       t \in Written(s, kind, <<>>, buf)}
  ELSE Written(s, kind, buf, data)

DoFlush(new, next) ==
  IF FlushFails \/ (buf = <<>> /\ new = <<>>)
  THEN epc' = next /\ UNCHANGED flushVars
  ELSE epc' = "write" /\ data' = new /\ target' = 1 /\ back' = next

FlushStream ==
  LET s == streams[target]
  IN  /\ alive /\ epc = "write" /\ target <= Len(kinds)
      /\ \E t \in FlushedTo(s, kinds[target]) :
           /\ streams' = [streams EXCEPT ![target] = t]
           /\ faults' = IF t.out = s.out \o buf \o data THEN faults
                        ELSE faults + 1
      /\ faults' <= MaxFaults
      /\ target' = target + 1
      /\ UNCHANGED <<ringVars, engineVars, epc, kinds, buf, data, back, sent,
                     alive, dump>>

FlushReset ==
  /\ alive /\ epc = "write" /\ target > Len(kinds)
  /\ buf' = <<>>
  /\ data' = <<>>
  /\ epc' = back
  /\ UNCHANGED <<ringVars, engineVars, kinds, streams, target, back, sent,
                 faults, alive, dump>>

-----------------------------------------------------------------------------
(* The engine: process_rings and flush_record                              *)

BeginPass ==
  /\ alive /\ epc = "idle"
  /\ it' = head /\ itTail' = tail
  /\ epc' = "next"
  /\ UNCHANGED <<ringVars, acked, piece, kinds, streams, buf, flushVars, sent,
                 faults, alive, dump>>

(* The iterator moves on when the record before it is done.                *)
ReadyForNext == alive /\ (epc = "next" \/ (epc = "push" /\ piece = Pieces))

(* A special record is acknowledged, others go to the output.              *)
NextRecord ==
  LET r == slot[Inc(it)]
  IN  /\ ReadyForNext /\ Inc(it) # itTail
      /\ it' = Inc(it)
      /\ acked' = IF r.special THEN acked \cup {r.id} ELSE acked
      /\ epc' = IF r.special THEN "next" ELSE "push"
      /\ piece' = 0
      /\ UNCHANGED <<ringVars, itTail, kinds, streams, buf, flushVars, sent,
                     faults, alive, dump>>

(* ostrbuf::push_back of the next piece.                                   *)
Fits == Len(buf) < BufCap

PushBack ==
  LET p == [id |-> slot[it].id, k |-> piece + 1]
  IN  /\ alive /\ epc = "push" /\ piece < Pieces
      /\ piece' = piece + 1
      /\ sent' = Append(sent, p)
      /\ IF Fits THEN buf' = Append(buf, p) /\ UNCHANGED <<epc, flushVars>>
         ELSE DoFlush(<<p>>, "push") /\ UNCHANGED buf
      /\ UNCHANGED <<ringVars, acked, it, itTail, kinds, streams, faults,
                     alive, dump>>

Commit ==
  /\ ReadyForNext /\ Inc(it) = itTail
  /\ head' = it
  /\ epc' = "flush"
  /\ UNCHANGED <<slot, tail, posted, lost, engineVars, kinds, streams, buf,
                 flushVars, sent, faults, alive, dump>>

(* The pass ends with _output.flush().                                     *)
OutputFlush_NeverBug == epc' = "idle" /\ UNCHANGED flushVars

OutputFlush == DoFlush(<<>>, "idle")

EndPass ==
  /\ alive /\ epc = "flush"
  /\ OutputFlush
  /\ UNCHANGED <<ringVars, engineVars, kinds, streams, buf, sent, faults,
                 alive, dump>>

-----------------------------------------------------------------------------
(* Crash and recovery                                                      *)

Crash ==
  /\ alive
  /\ alive' = FALSE
  /\ UNCHANGED <<ringVars, engineVars, epc, kinds, streams, buf, flushVars,
                 sent, faults, dump>>

(* ring_validator::fixup and fixup_records: the slots that are looked at.  *)
(* With --all, head and tail are set to the first and the last slot.       *)
RecoveredSlots_HeadBug(all) == Between(Inc(head), tail)

RecoveredSlots(all) ==
  IF all THEN Between(0, Slots - 1) ELSE Between(head, tail)

(* dump_records: a set ordered by timestamp keeps the first of those that  *)
(* have the same.                                                          *)
RecordSet(seq) ==
  {seq[i] : i \in {k \in DOMAIN seq :
                     \A j \in 1 .. k - 1 : seq[j].ts # seq[k].ts}}

DumpRecords(all) ==
  RecordSet([i \in DOMAIN RecoveredSlots(all) |->
               slot[RecoveredSlots(all)[i]]])

(* ostrbuf_validator::fixup: the plausibility of an output buffer. An      *)
(* output is found by its magic, and the buffer by way of the output.      *)
ValidOutbuf == BufCap > 0 /\ Len(buf) <= BufCap

FoundOutbuf == IF ValidOutbuf THEN buf ELSE <<>>

(* dump_outbufs: what is in the buffer, without the zero bytes at its end. *)
(* A timestamp and a sequence number, or arguments, may end in zeros and   *)
(* be nothing else; names do not. With --all, what is behind is printed    *)
(* too.                                                                    *)
DumpOutbufs ==
  {SubSeq(FoundOutbuf, 1, n) :
     n \in {m \in 0 .. Len(FoundOutbuf) :
             \A i \in m + 1 .. Len(FoundOutbuf) : FoundOutbuf[i].k # 2}}

(* hogl-recover                                                            *)
Recover(all) ==
  /\ ~alive /\ dump = <<>>
  /\ \E b \in DumpOutbufs :
       dump' = [all |-> all, buf |-> b, recs |-> DumpRecords(all)]
  /\ UNCHANGED <<ringVars, engineVars, epc, kinds, streams, buf, flushVars,
                 sent, faults, alive>>

-----------------------------------------------------------------------------
LogInit ==
  /\ slot = [i \in 0 .. Slots - 1 |-> NoRecord]
  /\ head = Start /\ tail = Inc(Start)
  /\ posted = 0 /\ lost = {}
  /\ acked = {}
  /\ epc = "idle" /\ it = Start /\ itTail = Inc(Start) /\ piece = 0
  /\ kinds \in Outputs
  /\ streams = [s \in DOMAIN kinds |->
                  [out |-> <<>>, filed |-> 0, failed |-> FALSE]]
  /\ buf = <<>>
  /\ data = <<>> /\ target = 1 /\ back = "idle"
  /\ sent = <<>>
  /\ faults = 0
  /\ alive = TRUE
  /\ dump = <<>>

EngineNext ==
  \/ BeginPass
  \/ NextRecord
  \/ PushBack
  \/ Commit
  \/ EndPass
  \/ FlushStream
  \/ FlushReset

LogNext ==
  \/ \E tick \in 0 .. 1 : Post(tick)
  \/ PostFlush
  \/ EngineNext
  \/ Crash
  \/ \E all \in BOOLEAN : Recover(all)

-----------------------------------------------------------------------------
(* Properties                                                              *)

(* The output buffer is not overrun, and a log is only ever cut at its     *)
(* end: what was written to a stream is a prefix of what the format        *)
(* handler has produced, also after a failure and when the other stream of *)
(* a tee fails. Streams that write through ostrbuf_fd come to have holes   *)
(* once writev has come short, and ostrbuf_file goes on after failures.    *)
(* ostrbuf_stdio may leave a gap when its first fwrite fails and the       *)
(* second does not: then the new data is the last that is written.         *)
Unbroken(s) ==
  \/ faults = 0
  \/ kinds[s] = "fd" /\ faults = 1 /\ streams[s].failed
  \/ kinds[s] = "stdio" /\ (Tee \/ ~streams[s].failed)

NoHole ==
  /\ Len(buf) <= BufCap
  /\ \A s \in DOMAIN kinds :
       /\ Unbroken(s) => IsPrefix(streams[s].out, sent)
       /\ kinds[s] = "stdio" /\ streams[s].out # <<>>
            => IsPrefix(Front(streams[s].out), sent)

(* A record in a sequence of pieces.                                       *)
RecordIn(id, seq) ==
  \E i \in DOMAIN seq :
    /\ i + Pieces - 1 <= Len(seq)
    /\ \A k \in 1 .. Pieces : seq[i + k - 1] = [id |-> id, k |-> k]

(* What is in the file of a stream, whatever becomes of the process.       *)
InFile(s) == SubSeq(streams[s].out, 1, streams[s].filed)

(* What no tool sees of a record: what libc had in its buffer, and the     *)
(* zero bytes that end the output buffer.                                  *)
InLibc(id, s) ==
  /\ kinds[s] = "stdio"
  /\ \E i \in streams[s].filed + 1 .. Len(streams[s].out) :
       streams[s].out[i].id = id

Cut(id) == \E i \in Len(dump.buf) + 1 .. Len(buf) : buf[i].id = id

(* Wherever the process crashes, a record that was posted and not dropped  *)
(* is in the log, across the end of the log and the recovered buffer, or   *)
(* among the recovered records. If several unread records have the same    *)
(* timestamp one of them is there for all, and --all leaves out the first  *)
(* and the last slot. Of the records that were read, those that libc holds *)
(* back and the one that ends in zero bytes are not complete.              *)
RecoveryComplete ==
  dump # <<>> /\ faults = 0 =>
    \A id \in (1 .. posted) \ (lost \cup acked), s \in DOMAIN kinds :
      \/ RecordIn(id, InFile(s) \o dump.buf) \/ InLibc(id, s) \/ Cut(id)
      \/ \E i \in 0 .. Slots - 1 :
           /\ slot[i].id = id
           /\ \/ slot[i].special
              \/ \E q \in dump.recs : q.ts = slot[i].ts
              \/ dump.all /\ i \in {0, Slots - 1}

(* flush() returns when its record is acknowledged, before the output      *)
(* buffer is flushed. The records before it are written nevertheless, if   *)
(* nothing fails, without any further post; to a stdio stream that means   *)
(* handed to libc, which may keep them.                                    *)
OutputComplete(id) ==
  \A i \in 0 .. Slots - 1, s \in DOMAIN kinds :
    slot[i].id \in 1 .. id /\ ~slot[i].special
      => RecordIn(slot[i].id, streams[s].out)

AckedWritten ==
  \A id \in 1 .. MaxRec :
    (id \in acked) ~> (OutputComplete(id) \/ ~alive \/ faults > 0)
=============================================================================
