----------------------------- MODULE TsoEngine -----------------------------
(***************************************************************************)
(* The passes of the engine thread with timestamp ordering:                *)
(* engine::process_rings_tso and the buffer it sorts in (hogl::tsobuf).    *)
(*                                                                         *)
(* A ring is what RingFifo promises: a bounded queue of records that keeps *)
(* the slots of the records that were taken until the end of the pass.     *)
(* Writers go on posting while a pass is under way.                        *)
(***************************************************************************)
EXTENDS Naturals, Sequences, FiniteSets

CONSTANTS
  NumRings,   \* _ring_index.count; ring 1 has the highest priority
  Slots,      \* number of records that fit into a ring
  TsoCaps,    \* the values of tso_buffer_capacity
  Times,      \* the timestamps a record may carry
  MaxSeq      \* bound: sequence numbers handed out by one ring

ASSUME NumRingsAssumption == NumRings \in Nat
ASSUME SlotsAssumption == Slots \in Nat
ASSUME TsoCapsAssumption == TsoCaps \subseteq Nat \ {0}
ASSUME TimesAssumption == Times \subseteq Nat
ASSUME BoundAssumption == MaxSeq \in Nat

Rings == 1 .. NumRings

VARIABLES
  TsoCap,    \* the option tso_buffer_capacity of this engine
  pend,      \* the published records of each ring, up to its _tail
  seqnum,    \* _seqnum of each ring
  dropcnt,   \* _dropcnt of each ring
  pc,        \* control point of the engine
  ri,        \* the loop variable i, a ring
  it,        \* the pop_iterator: number of records of pend[ri] pushed
  snap,      \* its snapshot of the number of published records
  tsoTs,     \* tso_ts, the timestamp of the last entry of this ring
  tso,       \* the entries of _tso
  todo,      \* what is left of `size' in do_flush_tso
  leftover,  \* _tso_leftover
  lastrec,   \* of each ring: position of lastrec in pend, 0 for null
  expected,  \* of each ring: the seqnum of its index entry
  reported,  \* _stats.recs_dropped, by ring
  out,       \* history: sequence numbers flushed, by ring
  passOut,   \* history: timestamps of the entries flushed in this pass
  marked     \* a TSOFULLMARK record was injected in this pass

ringVars == <<pend, seqnum, dropcnt>>
scanVars == <<ri, it, snap, tsoTs>>
flushVars == <<lastrec, expected, reported, out, passOut>>
vars == <<TsoCap, ringVars, pc, scanVars, tso, todo, leftover, flushVars, marked>>

(* A record as far as the engine tells records apart.                      *)
Record == [seq: Nat, ts: Nat]

(* An entry of the buffer: its timestamp, its ring (the tag) and the       *)
(* position of its record in the ring.                                     *)
Entry == [ts: Nat, ring: Rings, pos: Nat]

-----------------------------------------------------------------------------
(* Writers                                                                 *)

(* Posting a record: it is published, or dropped if the ring is full.      *)
Post(r, t) ==
  /\ seqnum[r] < MaxSeq
  /\ seqnum' = [seqnum EXCEPT ![r] = @ + 1]
  /\ \/ /\ Len(pend[r]) < Slots
        /\ pend' = [pend EXCEPT ![r] = Append(@, [seq |-> seqnum[r], ts |-> t])]
        /\ UNCHANGED dropcnt
     \/ /\ Len(pend[r]) = Slots
        /\ dropcnt' = [dropcnt EXCEPT ![r] = @ + 1]
        /\ UNCHANGED pend
  /\ UNCHANGED <<pc, scanVars, tso, todo, leftover, flushVars, marked>>

(* A flush that gives up for want of room leaves a gap as well.            *)
Abandon(r) ==
  /\ seqnum[r] < MaxSeq
  /\ Len(pend[r]) = Slots
  /\ seqnum' = [seqnum EXCEPT ![r] = @ + 1]
  /\ UNCHANGED <<pend, dropcnt, pc, scanVars, tso, todo, leftover, flushVars,
                 marked>>

-----------------------------------------------------------------------------
(* The engine: filling the buffer                                          *)

(* it.reset() for the next ring of the index.                              *)
ScanRing ==
  /\ pc = "ring" /\ ri <= NumRings
  /\ it' = 0
  /\ snap' = Len(pend[ri])
  /\ tsoTs' = 0
  /\ pc' = "next"
  /\ UNCHANGED <<ringVars, ri, tso, todo, leftover, flushVars, marked>>

(* Timestamps of one ring never go backwards, whatever its timesource does.*)
(* Variants with the suffix Bug are deliberately wrong: they show that the *)
(* properties notice the difference.                                       *)
OrderedTs_AsIsBug(t) == t

OrderedTs(t) == IF t <= tsoTs THEN tsoTs + 1 ELSE t

(* tsobuf::full                                                            *)
TsoFull(entries) == Cardinality(entries) = TsoCap

PushRecord ==
  LET t == OrderedTs(pend[ri][it + 1].ts)
      pushed == tso \cup {[ts |-> t, ring |-> ri, pos |-> it + 1]}
  IN  /\ pc = "next" /\ it < snap
      /\ it' = it + 1
      /\ tsoTs' = t
      /\ tso' = pushed
      /\ pc' = IF TsoFull(pushed) THEN "full" ELSE "next"
      /\ UNCHANGED <<ringVars, ri, snap, todo, leftover, flushVars, marked>>

EndRing ==
  /\ pc = "next" /\ it = snap
  /\ ri' = ri + 1
  /\ pc' = "ring"
  /\ UNCHANGED <<ringVars, it, snap, tsoTs, tso, todo, leftover, flushVars,
                 marked>>

-----------------------------------------------------------------------------
(* The engine: emptying the buffer                                         *)

(* flush_full_tso: half of the buffer, after a mark.                       *)
FullFlushSize_QuarterBug == Cardinality(tso) \div 4

FullFlushSize == Cardinality(tso) \div 2

(* inject_record: the mark goes to the output at once.                     *)
InjectMark == marked' = TRUE

BeginFullFlush ==
  /\ pc = "full"
  /\ todo' = FullFlushSize
  /\ InjectMark
  /\ pc' = "flushfull"
  /\ UNCHANGED <<ringVars, scanVars, tso, leftover, flushVars>>

(* flush_tso: all but an eighth of the capacity, and no less than was left *)
(* behind by the pass before.                                              *)
Keep == TsoCap \div 8

FlushSize_NoLeftoverBug ==
  IF Cardinality(tso) > Keep THEN Cardinality(tso) - Keep ELSE 0

FlushSize ==
  LET size == IF Cardinality(tso) > Keep THEN Cardinality(tso) - Keep ELSE 0
  IN  IF size < leftover THEN leftover ELSE size

BeginFlush ==
  /\ pc = "ring" /\ ri = NumRings + 1
  /\ todo' = FlushSize
  /\ pc' = "flush"
  /\ UNCHANGED <<ringVars, scanVars, tso, leftover, flushVars, marked>>

(* sort() and pop(): an entry with the smallest timestamp. Entries with    *)
(* the same timestamp come in any order.                                   *)
Top_UnsortedBug == tso

Top == {e \in tso : \A f \in tso : e.ts <= f.ts}

(* The sequence number that is expected after that of a flushed record.    *)
Following_SameBug(seq) == seq

Following_SkipBug(seq) == seq + 2

Following(seq) == seq + 1

(* do_flush_tso: one turn of the loop, flush_record included.              *)
FlushOne ==
  /\ pc \in {"flush", "flushfull"}
  /\ todo > 0
  /\ \E e \in Top :
       LET r == e.ring
           seq == pend[r][e.pos].seq
       IN  /\ tso' = tso \ {e}
           /\ reported' = [reported EXCEPT ![r] = @ + (seq - expected[r])]
           /\ expected' = [expected EXCEPT ![r] = Following(seq)]
           /\ lastrec' = [lastrec EXCEPT ![r] = e.pos]
           /\ out' = [out EXCEPT ![r] = Append(@, seq)]
           /\ passOut' = Append(passOut, e.ts)
  /\ todo' = todo - 1
  /\ UNCHANGED <<ringVars, pc, scanVars, leftover, marked>>

FlushDone == todo = 0 \/ tso = {}

(* The end of flush_full_tso: the scan goes on. flip() makes room at the   *)
(* end of the buffer, which a set does not show.                           *)
EndFullFlush ==
  /\ pc = "flushfull" /\ FlushDone
  /\ leftover' = 0
  /\ pc' = "next"
  /\ UNCHANGED <<ringVars, scanVars, tso, todo, flushVars, marked>>

(* The end of flush_tso: entries that were not flushed are forgotten, the  *)
(* next pass finds their records in the rings again.                       *)
EndFlush ==
  /\ pc = "flush" /\ FlushDone
  /\ leftover' = Cardinality(tso)
  /\ tso' = {}
  /\ ri' = 1
  /\ pc' = "commit"
  /\ UNCHANGED <<ringVars, it, snap, tsoTs, todo, flushVars, marked>>

(* rewind(lastrec) and commit(): the records of the ring up to lastrec.    *)
Released(r) == lastrec[r]

CommitRing ==
  /\ pc = "commit" /\ ri <= NumRings
  /\ pend' = IF lastrec[ri] = 0 THEN pend
             ELSE [pend EXCEPT ![ri] = SubSeq(@, Released(ri) + 1, Len(@))]
  /\ lastrec' = [lastrec EXCEPT ![ri] = 0]
  /\ ri' = ri + 1
  /\ UNCHANGED <<seqnum, dropcnt, pc, it, snap, tsoTs, tso, todo, leftover,
                 expected, reported, out, passOut, marked>>

(* The next pass of the engine loop.                                       *)
EndPass ==
  /\ pc = "commit" /\ ri = NumRings + 1
  /\ ri' = 1
  /\ pc' = "ring"
  /\ passOut' = <<>>
  /\ marked' = FALSE
  /\ UNCHANGED <<ringVars, it, snap, tsoTs, tso, todo, leftover, lastrec,
                 expected, reported, out>>

-----------------------------------------------------------------------------
Init ==
  /\ TsoCap \in TsoCaps
  /\ pend = [r \in Rings |-> <<>>]
  /\ seqnum = [r \in Rings |-> 0]
  /\ dropcnt = [r \in Rings |-> 0]
  /\ pc = "ring" /\ ri = 1
  /\ it = 0 /\ snap = 0 /\ tsoTs = 0
  /\ tso = {} /\ todo = 0 /\ leftover = 0
  /\ lastrec = [r \in Rings |-> 0]
  /\ expected = [r \in Rings |-> 0]
  /\ reported = [r \in Rings |-> 0]
  /\ out = [r \in Rings |-> <<>>]
  /\ passOut = <<>> /\ marked = FALSE

WriterNext ==
  /\ UNCHANGED TsoCap
  /\ \E r \in Rings : Abandon(r) \/ \E t \in Times : Post(r, t)

EngineNext ==
  /\ UNCHANGED TsoCap
  /\ \/ ScanRing \/ PushRecord \/ EndRing
     \/ BeginFullFlush \/ BeginFlush \/ FlushOne \/ EndFullFlush \/ EndFlush
     \/ CommitRing \/ EndPass

Next == WriterNext \/ EngineNext

Spec == Init /\ [][Next]_vars

(* The engine thread loops for as long as it runs.                         *)
FairSpec == Spec /\ WF_vars(EngineNext)

-----------------------------------------------------------------------------
(* What the engine promises                                                *)

(* The variables keep their types.                                         *)
TypeOK ==
  /\ TsoCap \in TsoCaps
  /\ pend \in [Rings -> Seq(Record)]
  /\ seqnum \in [Rings -> Nat] /\ dropcnt \in [Rings -> Nat]
  /\ lastrec \in [Rings -> Nat] /\ expected \in [Rings -> Nat]
  /\ reported \in [Rings -> Nat]
  /\ pc \in {"ring", "next", "full", "flushfull", "flush", "commit"}
  /\ ri \in 1 .. NumRings + 1
  /\ it \in Nat /\ snap \in Nat /\ tsoTs \in Nat
  /\ todo \in Nat /\ leftover \in Nat
  /\ tso \subseteq Entry
  /\ out \in [Rings -> Seq(Nat)]
  /\ passOut \in Seq(Nat)
  /\ marked \in BOOLEAN

(* tsobuf::push is never called on a full buffer: the caller must have     *)
(* checked, and process_rings_tso checks after the push before.            *)
TsoRoom == pc = "next" /\ it < snap => Cardinality(tso) < TsoCap

(* Each gap in the sequence numbers of a ring is reported once, with its   *)
(* size: what was flushed and what was reported add up.                    *)
GapsReported == \A r \in Rings : expected[r] = Len(out[r]) + reported[r]

(* Within a pass records leave in the order of their timestamps, unless    *)
(* the buffer ran full and the output says so.                             *)
SortedUnlessMarked ==
  ~marked => \A j, k \in DOMAIN passOut : j < k => passOut[j] <= passOut[k]

(* The view of one ring: its records are taken in ring order, each once,   *)
(* and the commit at the end of the pass releases those that were taken.   *)
View(r) == INSTANCE RingFifo WITH
  queue <- [k \in 1 .. Len(pend[r]) - lastrec[r] |-> pend[r][lastrec[r] + k].seq],
  held  <- lastrec[r],
  out   <- out[r],
  lost  <- dropcnt[r]

(* The engine treats every ring as a queue.                                *)
RefinesFifo ==
  /\ \A r \in Rings : View(r)!Init
  /\ [][\A r \in Rings : View(r)!Next \/ UNCHANGED View(r)!fifoVars]_vars

(* Once the writers stop the rings drain: every published record is        *)
(* flushed, those that stay behind in the buffer at the end of a pass      *)
(* included, without any further post.                                     *)
AllFlushed == <>[](\A r \in Rings : pend[r] = <<>>)
=============================================================================
