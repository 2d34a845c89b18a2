-------------------------- MODULE TsoEngineProofs --------------------------
(***************************************************************************)
(* Proofs about TsoEngine, for every number of rings, every size of them,  *)
(* every capacity of the buffer and every set of timestamps.               *)
(***************************************************************************)
EXTENDS TsoEngine, FiniteSetTheorems, SequenceTheorems, TLAPS

USE NumRingsAssumption, SlotsAssumption, TsoCapsAssumption, TimesAssumption,
    BoundAssumption

-----------------------------------------------------------------------------
(* The inductive invariant                                                 *)

(* The entries of a ring are those that follow its last flushed record,    *)
(* without a gap, and their timestamps increase strictly: OrderedTs sees   *)
(* to that whatever the timesource does.                                   *)
EntryInv ==
  /\ IsFiniteSet(tso)
  /\ \A e \in tso :
       /\ lastrec[e.ring] < e.pos /\ e.pos <= Len(pend[e.ring])
       /\ \A p \in Nat : lastrec[e.ring] < p /\ p < e.pos =>
            \E f \in tso : f.ring = e.ring /\ f.pos = p
  /\ \A e, f \in tso :
       e.ring = f.ring => /\ e.pos < f.pos => e.ts < f.ts
                          /\ e.pos = f.pos => e = f

(* Nothing of ring r is in the buffer and nothing of it was flushed.       *)
Untouched(r) == lastrec[r] = 0 /\ \A e \in tso : e.ring # r

(* The scan has pushed the records of the ring at hand up to `it', and     *)
(* has not touched the rings to come.                                      *)
ScanInv ==
  /\ \A r \in Rings : lastrec[r] <= Len(pend[r])
  /\ pc \in {"next", "full", "flushfull"} =>
       /\ ri \in Rings
       /\ it <= snap /\ snap <= Len(pend[ri]) /\ lastrec[ri] <= it
       /\ \A p \in Nat : lastrec[ri] < p /\ p <= it =>
            \E f \in tso : f.ring = ri /\ f.pos = p
       /\ \A e \in tso : e.ring = ri => e.pos <= it /\ e.ts <= tsoTs
       /\ \A r \in Rings : r > ri => Untouched(r)
  /\ pc = "ring" => \A r \in Rings : r >= ri => Untouched(r)
  /\ pc = "commit" => tso = {} /\ \A r \in Rings : r < ri => Untouched(r)

(* The records of a ring are numbered in order, the ones to be flushed     *)
(* come after those that were, and there is no number that was not handed  *)
(* out.                                                                    *)
SeqInv ==
  \A r \in Rings :
    /\ \A j, k \in 1 .. Len(pend[r]) : j < k => pend[r][j].seq < pend[r][k].seq
    /\ \A k \in 1 .. Len(pend[r]) :
         /\ pend[r][k].seq < seqnum[r]
         /\ lastrec[r] < k => expected[r] <= pend[r][k].seq
    /\ expected[r] <= seqnum[r] /\ seqnum[r] <= MaxSeq
    /\ \A k \in 1 .. Len(out[r]) : out[r][k] < expected[r]

(* Without a mark nothing leaves before flush_tso, and then the smallest   *)
(* timestamp leaves first.                                                 *)
OrderInv ==
  /\ pc = "flushfull" => marked
  /\ ~marked =>
       /\ pc \in {"ring", "next", "full"} => passOut = <<>>
       /\ \A j \in DOMAIN passOut : \A e \in tso : passOut[j] <= e.ts

IInv ==
  /\ TypeOK
  /\ EntryInv /\ ScanInv /\ SeqInv
  /\ GapsReported
  /\ OrderInv /\ SortedUnlessMarked

-----------------------------------------------------------------------------
(* The entry with the smallest timestamp is the next record of its ring.   *)
LEMMA TopIsNext ==
  ASSUME TypeOK, EntryInv, SeqInv, NEW e \in Top
  PROVE  /\ e \in tso /\ e.ring \in Rings /\ e.ts \in Nat
         /\ e.pos = lastrec[e.ring] + 1
         /\ e.pos \in Nat /\ e.pos \in 1 .. Len(pend[e.ring])
         /\ pend[e.ring][e.pos] \in Record
         /\ expected[e.ring] <= pend[e.ring][e.pos].seq
<1>1. e \in tso /\ \A f \in tso : e.ts <= f.ts
  BY DEF Top
<1>2. e \in Entry
  BY <1>1 DEF TypeOK
<1>3. e.ring \in Rings /\ e.ts \in Nat /\ e.pos \in Nat
  BY <1>2 DEF Entry
<1>4. lastrec \in [Rings -> Nat] /\ expected \in [Rings -> Nat]
  BY DEF TypeOK
<1>5. ASSUME e.pos # lastrec[e.ring] + 1
      PROVE  FALSE
  <2>1. lastrec[e.ring] < e.pos
    BY <1>1 DEF EntryInv
  <2>2. lastrec[e.ring] + 1 \in Nat /\ lastrec[e.ring] + 1 < e.pos
    BY <1>3, <1>4, <1>5, <2>1
  <2>3. PICK f \in tso : f.ring = e.ring /\ f.pos = lastrec[e.ring] + 1
    BY <1>1, <1>3, <1>4, <2>2 DEF EntryInv
  <2>4. f.ts < e.ts
    BY <1>1, <2>2, <2>3 DEF EntryInv
  <2>5. f \in Entry
    BY <2>3 DEF TypeOK
  <2> QED
    BY <1>1, <1>3, <2>3, <2>4, <2>5 DEF Entry
<1>6. e.pos \in 1 .. Len(pend[e.ring])
  BY <1>1, <1>3, <1>4, <1>5 DEF EntryInv, TypeOK
<1>7. pend[e.ring][e.pos] \in Record
  BY <1>3, <1>6 DEF TypeOK
<1>8. expected[e.ring] <= pend[e.ring][e.pos].seq
  BY <1>3, <1>4, <1>5, <1>6 DEF SeqInv
<1> QED
  BY <1>1, <1>3, <1>5, <1>6, <1>7, <1>8

(* What one turn of do_flush_tso does, with what is known of the entry.    *)
LEMMA FlushFacts ==
  ASSUME IInv, FlushOne
  PROVE  \E e \in tso, r \in Rings, seq \in Nat :
           /\ e.ring = r /\ e.ts \in Nat /\ e.pos \in Nat
           /\ \A f \in tso : e.ts <= f.ts
           /\ e.pos = lastrec[r] + 1 /\ e.pos \in 1 .. Len(pend[r])
           /\ pend[r][e.pos].seq = seq /\ expected[r] <= seq
           /\ tso' = tso \ {e}
           /\ reported' = [reported EXCEPT ![r] = @ + (seq - expected[r])]
           /\ expected' = [expected EXCEPT ![r] = seq + 1]
           /\ lastrec' = [lastrec EXCEPT ![r] = e.pos]
           /\ out' = [out EXCEPT ![r] = Append(@, seq)]
           /\ passOut' = Append(passOut, e.ts)
<1>1. PICK e \in Top :
        /\ tso' = tso \ {e}
        /\ reported' = [reported EXCEPT ![e.ring] =
                          @ + (pend[e.ring][e.pos].seq - expected[e.ring])]
        /\ expected' = [expected EXCEPT ![e.ring] =
                          pend[e.ring][e.pos].seq + 1]
        /\ lastrec' = [lastrec EXCEPT ![e.ring] = e.pos]
        /\ out' = [out EXCEPT ![e.ring] =
                     Append(@, pend[e.ring][e.pos].seq)]
        /\ passOut' = Append(passOut, e.ts)
  BY Zenon DEF FlushOne, Following
<1>2. TypeOK /\ EntryInv /\ SeqInv
  BY DEF IInv
<1>3. /\ e \in tso /\ e.ring \in Rings /\ e.ts \in Nat
      /\ e.pos = lastrec[e.ring] + 1 /\ e.pos \in Nat
      /\ e.pos \in 1 .. Len(pend[e.ring])
      /\ pend[e.ring][e.pos] \in Record
      /\ expected[e.ring] <= pend[e.ring][e.pos].seq
  BY <1>2, TopIsNext
<1>4. pend[e.ring][e.pos].seq \in Nat
  BY <1>3 DEF Record
<1>5. \A f \in tso : e.ts <= f.ts
  BY DEF Top
<1> e \in tso /\ e.ring \in Rings /\ pend[e.ring][e.pos].seq \in Nat
  BY <1>3, <1>4
<1> WITNESS e \in tso, e.ring \in Rings, pend[e.ring][e.pos].seq \in Nat
<1> QED
  BY <1>1, <1>3, <1>5, Zenon

-----------------------------------------------------------------------------
(* Types                                                                   *)

(* The types hold initially.                                               *)
LEMMA TypeInit == Init => TypeOK
<1> SUFFICES ASSUME Init PROVE TypeOK
  OBVIOUS
<1>1. pend \in [Rings -> Seq(Record)] /\ out \in [Rings -> Seq(Nat)]
      /\ passOut \in Seq(Nat)
  BY DEF Init
<1>2. /\ seqnum \in [Rings -> Nat] /\ dropcnt \in [Rings -> Nat]
      /\ lastrec \in [Rings -> Nat] /\ expected \in [Rings -> Nat]
      /\ reported \in [Rings -> Nat]
  BY DEF Init
<1>3. ri \in 1 .. NumRings + 1
  BY DEF Init
<1>4. tso \subseteq Entry
  BY DEF Init
<1> QED
  BY <1>1, <1>2, <1>3, <1>4 DEF Init, TypeOK

(* Every step keeps the types.                                             *)
LEMMA TypeStep == IInv /\ [Next]_vars => TypeOK'
<1> SUFFICES ASSUME IInv, [Next]_vars PROVE TypeOK'
  OBVIOUS
<1> USE DEF ringVars, scanVars, flushVars
<1>0. TypeOK /\ EntryInv /\ ScanInv /\ SeqInv
  BY DEF IInv
<1>1. Cardinality(tso) \in Nat
  BY <1>0, FS_CardinalityType DEF EntryInv
<1>2. CASE UNCHANGED vars
  BY <1>0, <1>2 DEF vars, TypeOK
<1>3. ASSUME WriterNext PROVE TypeOK'
  <2>0. UNCHANGED TsoCap
    BY <1>3 DEF WriterNext
  <2>1. ASSUME NEW r \in Rings, NEW t \in Times, Post(r, t) PROVE TypeOK'
    <3>1. pend[r] \in Seq(Record) /\ seqnum[r] \in Nat /\ dropcnt[r] \in Nat
      BY <1>0 DEF TypeOK
    <3>2. [seq |-> seqnum[r], ts |-> t] \in Record
      BY <3>1 DEF Record
    <3>3. Append(pend[r], [seq |-> seqnum[r], ts |-> t]) \in Seq(Record)
      BY <3>1, <3>2
    <3>4. pend' \in [Rings -> Seq(Record)]
      BY <1>0, <2>1, <3>3, Zenon DEF Post, TypeOK
    <3>5. seqnum' = [seqnum EXCEPT ![r] = @ + 1]
          /\ (dropcnt' = [dropcnt EXCEPT ![r] = @ + 1] \/ dropcnt' = dropcnt)
      BY <2>1, Zenon DEF Post
    <3>6. seqnum' \in [Rings -> Nat] /\ dropcnt' \in [Rings -> Nat]
      BY <1>0, <3>5, SMTT(30) DEF TypeOK
    <3>7. UNCHANGED <<pc, scanVars, tso, todo, leftover, flushVars, marked>>
      BY <2>1 DEF Post
    <3> QED
      BY <1>0, <2>0, <3>4, <3>6, <3>7 DEF TypeOK
  <2>2. ASSUME NEW r \in Rings, Abandon(r) PROVE TypeOK'
    BY <1>0, <2>0, <2>2 DEF Abandon, TypeOK
  <2> QED
    BY <1>3, <2>1, <2>2 DEF WriterNext
<1>4. ASSUME EngineNext PROVE TypeOK'
  <2>0. UNCHANGED TsoCap
    BY <1>4 DEF EngineNext
  <2>1. CASE ScanRing
    <3>1. Len(pend[ri]) \in Nat
      BY <1>0, <2>1 DEF ScanRing, Rings, TypeOK
    <3> QED
      BY <1>0, <2>0, <2>1, <3>1 DEF ScanRing, TypeOK
  <2>2. CASE PushRecord
    <3>1. it + 1 \in 1 .. Len(pend[ri]) /\ ri \in Rings
      BY <1>0, <2>2 DEF PushRecord, ScanInv, TypeOK
    <3>2. pend[ri][it + 1] \in Record
      BY <1>0, <3>1 DEF TypeOK
    <3>3. OrderedTs(pend[ri][it + 1].ts) \in Nat
      BY <1>0, <3>2 DEF OrderedTs, Record, TypeOK
    <3>4. [ts |-> OrderedTs(pend[ri][it + 1].ts), ring |-> ri,
           pos |-> it + 1] \in Entry
      BY <3>1, <3>3 DEF Entry
    <3>5. tso' \subseteq Entry
      BY <1>0, <2>2, <3>4 DEF PushRecord, TypeOK
    <3> QED
      BY <1>0, <2>0, <2>2, <3>3, <3>5 DEF PushRecord, TypeOK
  <2>3. CASE EndRing
    <3>1. ri' \in 1 .. NumRings + 1
      BY <1>0, <2>3 DEF EndRing, ScanInv, Rings
    <3> QED
      BY <1>0, <2>0, <2>3, <3>1 DEF EndRing, TypeOK
  <2>4. CASE BeginFullFlush
    BY <1>0, <1>1, <2>0, <2>4
    DEF BeginFullFlush, FullFlushSize, InjectMark, TypeOK
  <2>5. CASE BeginFlush
    <3>1. FlushSize \in Nat
      BY <1>0, <1>1 DEF FlushSize, Keep, TypeOK
    <3> QED
      BY <1>0, <2>0, <2>5, <3>1 DEF BeginFlush, TypeOK
  <2>6. CASE FlushOne
    <3>1. PICK e \in tso, r \in Rings, seq \in Nat :
            /\ e.ts \in Nat /\ e.pos \in Nat /\ expected[r] <= seq
            /\ tso' = tso \ {e}
            /\ reported' = [reported EXCEPT ![r] = @ + (seq - expected[r])]
            /\ expected' = [expected EXCEPT ![r] = seq + 1]
            /\ lastrec' = [lastrec EXCEPT ![r] = e.pos]
            /\ out' = [out EXCEPT ![r] = Append(@, seq)]
            /\ passOut' = Append(passOut, e.ts)
      BY <2>6, FlushFacts, Zenon
    <3>2. expected[r] \in Nat /\ reported[r] \in Nat /\ out[r] \in Seq(Nat)
      BY <1>0 DEF TypeOK
    <3>3. reported' \in [Rings -> Nat]
      BY <1>0, <3>1, <3>2, SMTT(30) DEF TypeOK
    <3>4. lastrec' \in [Rings -> Nat] /\ expected' \in [Rings -> Nat]
      BY <1>0, <3>1 DEF TypeOK
    <3>5. out' \in [Rings -> Seq(Nat)] /\ passOut' \in Seq(Nat)
      BY <1>0, <3>1, <3>2 DEF TypeOK
    <3>6. tso' \subseteq Entry
      BY <1>0, <3>1 DEF TypeOK
    <3>7. /\ todo' \in Nat
          /\ UNCHANGED <<ringVars, pc, scanVars, leftover, marked>>
      BY <1>0, <2>6 DEF FlushOne, TypeOK
    <3> QED
      BY <1>0, <2>0, <3>3, <3>4, <3>5, <3>6, <3>7 DEF TypeOK
  <2>7. CASE EndFullFlush
    BY <1>0, <2>0, <2>7 DEF EndFullFlush, TypeOK
  <2>8. CASE EndFlush
    BY <1>0, <1>1, <2>0, <2>8 DEF EndFlush, TypeOK
  <2>9. CASE CommitRing
    <3>1. ri \in Rings /\ ri' \in 1 .. NumRings + 1
      BY <1>0, <2>9 DEF CommitRing, Rings, TypeOK
    <3>2. /\ pend[ri] \in Seq(Record) /\ lastrec[ri] \in Nat
          /\ lastrec[ri] <= Len(pend[ri])
      BY <1>0, <3>1 DEF TypeOK, ScanInv
    <3>3. SubSeq(pend[ri], lastrec[ri] + 1, Len(pend[ri])) \in Seq(Record)
      BY <3>2
    <3>4. pend' \in [Rings -> Seq(Record)]
      BY <1>0, <2>9, <3>3 DEF CommitRing, Released, TypeOK
    <3>5. lastrec' \in [Rings -> Nat]
      BY <1>0, <2>9 DEF CommitRing, TypeOK
    <3>6. UNCHANGED <<seqnum, dropcnt, pc, it, snap, tsoTs, tso, todo, leftover,
                      expected, reported, out, passOut, marked>>
      BY <2>9 DEF CommitRing
    <3> QED
      BY <1>0, <2>0, <3>1, <3>4, <3>5, <3>6 DEF TypeOK
  <2>10. CASE EndPass
    <3>1. passOut' \in Seq(Nat) /\ ri' \in 1 .. NumRings + 1
      BY <2>10 DEF EndPass
    <3> QED
      BY <1>0, <2>0, <2>10, <3>1 DEF EndPass, TypeOK
  <2> QED
    BY <1>4, <2>1, <2>2, <2>3, <2>4, <2>5, <2>6, <2>7, <2>8, <2>9, <2>10
    DEF EngineNext
<1> QED
  BY <1>2, <1>3, <1>4 DEF Next

-----------------------------------------------------------------------------
(* The entries of the buffer                                               *)

(* Posting leaves the records that are in the rings where they are.        *)
LEMMA PostGrows ==
  ASSUME TypeOK, NEW r \in Rings, NEW t \in Times, Post(r, t)
  PROVE  \A q \in Rings : /\ Len(pend[q]) \in Nat /\ Len(pend'[q]) \in Nat
                          /\ Len(pend[q]) <= Len(pend'[q])
                          /\ \A k \in 1 .. Len(pend[q]) :
                               pend'[q][k] = pend[q][k]
<1> TAKE q \in Rings
<1>1. pend[q] \in Seq(Record) /\ pend \in [Rings -> Seq(Record)]
  BY DEF TypeOK
<1>2. CASE pend' = [pend EXCEPT ![r] =
                      Append(@, [seq |-> seqnum[r], ts |-> t])] /\ q = r
  <2>1. pend'[q] = Append(pend[q], [seq |-> seqnum[r], ts |-> t])
    BY <1>1, <1>2
  <2> QED
    BY <1>1, <2>1
<1>3. CASE pend'[q] = pend[q]
  BY <1>1, <1>3
<1>4. \/ pend' = [pend EXCEPT ![r] =
                     Append(@, [seq |-> seqnum[r], ts |-> t])] /\ q = r
      \/ pend'[q] = pend[q]
  BY <1>1 DEF Post
<1> QED
  BY <1>2, <1>3, <1>4

(* A new entry is the latest of its ring.                                  *)
LEMMA PushFacts ==
  ASSUME IInv, PushRecord
  PROVE  \E t \in Nat :
           /\ ri \in Rings /\ it + 1 \in Nat /\ it + 1 <= Len(pend[ri])
           /\ it + 1 <= snap /\ tsoTs < t /\ tsoTs' = t /\ it' = it + 1
           /\ tso' = tso \cup {[ts |-> t, ring |-> ri, pos |-> it + 1]}
           /\ pc = "next" /\ pc' \in {"full", "next"}
           /\ pc' = "full" <=> TsoFull(tso')
           /\ UNCHANGED <<ringVars, ri, snap, todo, leftover, flushVars,
                           marked>>
<1>1. TypeOK /\ ScanInv
  BY DEF IInv
<1>2. ri \in Rings /\ it \in Nat /\ it + 1 <= Len(pend[ri]) /\ it + 1 <= snap
  BY <1>1 DEF TypeOK, ScanInv, PushRecord
<1>3. pend[ri] \in Seq(Record) /\ it + 1 \in 1 .. Len(pend[ri])
  BY <1>1, <1>2 DEF TypeOK
<1>4. pend[ri][it + 1].ts \in Nat /\ tsoTs \in Nat
  <2>1. pend[ri][it + 1] \in Record
    BY <1>3
  <2> QED
    BY <1>1, <2>1 DEF TypeOK, Record
<1> DEFINE t == OrderedTs(pend[ri][it + 1].ts)
<1> t \in Nat
  BY <1>4 DEF OrderedTs
<1>5. tsoTs < t
  BY <1>4 DEF OrderedTs
<1> WITNESS t \in Nat
<1> HIDE DEF t
<1>6. it + 1 \in Nat
  BY <1>2
<1> QED
  BY <1>2, <1>5, <1>6 DEF PushRecord, TsoFull, t

(* Every step keeps the entries of each ring in order.                     *)
LEMMA EntryStep == IInv /\ [Next]_vars => EntryInv'
<1> SUFFICES ASSUME IInv, [Next]_vars PROVE EntryInv'
  OBVIOUS
<1> USE DEF ringVars, scanVars, flushVars
<1>0. TypeOK /\ EntryInv /\ ScanInv
  BY DEF IInv
<1>1. CASE UNCHANGED <<tso, lastrec, pend>>
  BY <1>0, <1>1 DEF EntryInv
<1>2. ASSUME NEW r \in Rings, NEW t \in Times, Post(r, t) PROVE EntryInv'
  <2>1. tso' = tso /\ lastrec' = lastrec
    BY <1>2 DEF Post
  <2>2. \A e \in tso : /\ e.ring \in Rings /\ e.pos \in Nat
                       /\ e.pos <= Len(pend'[e.ring])
    <3> TAKE e \in tso
    <3>1. e.ring \in Rings /\ e.pos \in Nat
      BY <1>0 DEF TypeOK, Entry
    <3>2. e.pos <= Len(pend[e.ring])
      BY <1>0 DEF EntryInv
    <3> QED
      BY <1>0, <1>2, <3>1, <3>2, PostGrows
  <2> QED
    BY <1>0, <2>1, <2>2 DEF EntryInv
<1>3. CASE PushRecord
  <2>1. PICK t \in Nat :
          /\ ri \in Rings /\ it + 1 \in Nat /\ it + 1 <= Len(pend[ri])
          /\ tsoTs < t /\ pc = "next"
          /\ tso' = tso \cup {[ts |-> t, ring |-> ri, pos |-> it + 1]}
          /\ UNCHANGED <<pend, lastrec>>
    BY <1>3, PushFacts
  <2> DEFINE new == [ts |-> t, ring |-> ri, pos |-> it + 1]
  <2>2. new.ts = t /\ new.ring = ri /\ new.pos = it + 1
    OBVIOUS
  <2>3. /\ lastrec[ri] \in Nat /\ lastrec[ri] <= it
        /\ it \in Nat /\ tsoTs \in Nat
        /\ \A p \in Nat : lastrec[ri] < p /\ p <= it =>
             \E f \in tso : f.ring = ri /\ f.pos = p
        /\ \A e \in tso : e.ring = ri => e.pos <= it /\ e.ts <= tsoTs
    BY <1>0, <2>1 DEF ScanInv, TypeOK
  <2>4. \A e \in tso : e.ring \in Rings /\ e.pos \in Nat /\ e.ts \in Nat
    BY <1>0 DEF TypeOK, Entry
  <2> HIDE DEF new
  <2>5. tso' = tso \cup {new}
    BY <2>1 DEF new
  <2>6. IsFiniteSet(tso')
    BY <1>0, <2>5, FS_AddElement DEF EntryInv
  <2>7. ASSUME NEW e \in tso'
        PROVE  /\ lastrec[e.ring] < e.pos /\ e.pos <= Len(pend[e.ring])
               /\ \A p \in Nat : lastrec[e.ring] < p /\ p < e.pos =>
                    \E f \in tso' : f.ring = e.ring /\ f.pos = p
    <3>1. CASE e \in tso
      BY <1>0, <2>5, <3>1 DEF EntryInv
    <3>2. CASE e = new
      BY <2>1, <2>2, <2>3, <2>5, <3>2
    <3> QED
      BY <2>5, <3>1, <3>2
  <2>8. ASSUME NEW e \in tso', NEW f \in tso', e.ring = f.ring
        PROVE  /\ e.pos < f.pos => e.ts < f.ts
               /\ e.pos = f.pos => e = f
    <3>1. CASE e \in tso /\ f \in tso
      BY <1>0, <2>8, <3>1 DEF EntryInv
    <3>2. CASE e \in tso /\ f = new
      BY <2>1, <2>2, <2>3, <2>4, <2>8, <3>2
    <3>3. CASE e = new /\ f \in tso
      BY <2>1, <2>2, <2>3, <2>4, <2>8, <3>3
    <3>4. CASE e = new /\ f = new
      BY <2>1, <2>2, <3>4
    <3> QED
      BY <2>5, <3>1, <3>2, <3>3, <3>4
  <2> QED
    BY <2>1, <2>6, <2>7, <2>8 DEF EntryInv
<1>4. CASE FlushOne
  <2>1. PICK e \in tso, r \in Rings :
          /\ e.ring = r /\ e.pos \in Nat /\ e.pos = lastrec[r] + 1
          /\ tso' = tso \ {e}
          /\ lastrec' = [lastrec EXCEPT ![r] = e.pos]
    BY <1>4, FlushFacts, Zenon
  <2>2. pend' = pend
    BY <1>4 DEF FlushOne
  <2>3. /\ lastrec \in [Rings -> Nat]
        /\ \A f \in tso : f.ring \in Rings /\ f.pos \in Nat
    BY <1>0 DEF TypeOK, Entry
  <2>4. IsFiniteSet(tso')
    BY <1>0, <2>1, FS_RemoveElement DEF EntryInv
  <2>5. ASSUME NEW f \in tso'
        PROVE  /\ lastrec'[f.ring] < f.pos /\ f.pos <= Len(pend[f.ring])
               /\ \A p \in Nat : lastrec'[f.ring] < p /\ p < f.pos =>
                    \E g \in tso' : g.ring = f.ring /\ g.pos = p
    <3>1. f \in tso /\ f # e
      BY <2>1
    <3>2. /\ lastrec[f.ring] < f.pos /\ f.pos <= Len(pend[f.ring])
          /\ \A p \in Nat : lastrec[f.ring] < p /\ p < f.pos =>
               \E g \in tso : g.ring = f.ring /\ g.pos = p
          /\ f.ring = r => f.pos # e.pos
      BY <1>0, <2>1, <3>1 DEF EntryInv
    <3>3. CASE f.ring # r
      <4>1. lastrec'[f.ring] = lastrec[f.ring]
        BY <2>1, <2>3, <3>1, <3>3
      <4> QED
        BY <2>1, <3>2, <3>3, <4>1
    <3>4. CASE f.ring = r
      <4>1. lastrec'[f.ring] = e.pos
        BY <2>1, <2>3, <3>4
      <4> QED
        BY <2>1, <2>3, <3>1, <3>2, <3>4, <4>1
    <3> QED
      BY <3>3, <3>4
  <2>6. tso' \subseteq tso
    BY <2>1
  <2> QED
    BY <1>0, <2>2, <2>4, <2>5, <2>6 DEF EntryInv
<1>5. CASE tso' = {}
  BY <1>5, FS_EmptySet DEF EntryInv
<1>6. CASE CommitRing
  <2>1. tso' = {}
    BY <1>0, <1>6 DEF CommitRing, ScanInv
  <2> QED
    BY <1>5, <2>1
<1> QED
  BY <1>1, <1>2, <1>3, <1>4, <1>5, <1>6
  DEF Next, WriterNext, EngineNext, Abandon, ScanRing, EndRing,
      BeginFullFlush, BeginFlush, EndFullFlush, EndFlush, EndPass, vars

(* Every step keeps what is known of the scan.                             *)
LEMMA ScanStep == IInv /\ [Next]_vars => ScanInv'
<1> SUFFICES ASSUME IInv, [Next]_vars PROVE ScanInv'
  OBVIOUS
<1> USE DEF ringVars, scanVars, flushVars
<1>0. TypeOK /\ EntryInv /\ ScanInv
  BY DEF IInv
<1>1. CASE UNCHANGED <<tso, lastrec, pend, pc, scanVars>>
  BY <1>0, <1>1 DEF ScanInv, Untouched
<1>2. ASSUME NEW r \in Rings, NEW t \in Times, Post(r, t) PROVE ScanInv'
  <2>1. UNCHANGED <<tso, lastrec, pc, scanVars>>
    BY <1>2 DEF Post
  <2>2. \A q \in Rings : /\ Len(pend[q]) \in Nat /\ Len(pend'[q]) \in Nat
                         /\ Len(pend[q]) <= Len(pend'[q])
    BY <1>0, <1>2, PostGrows
  <2>3. snap \in Nat /\ \A q \in Rings : lastrec[q] \in Nat
    BY <1>0 DEF TypeOK
  <2>4. \A q \in Rings : lastrec[q] <= Len(pend'[q])
    BY <1>0, <2>2, <2>3 DEF ScanInv
  <2>5. ri \in Rings /\ snap <= Len(pend[ri]) => snap <= Len(pend'[ri])
    BY <2>2, <2>3
  <2> QED
    BY <1>0, <2>1, <2>4, <2>5 DEF ScanInv, Untouched
<1>3. CASE ScanRing
  <2>1. /\ pc = "ring" /\ ri \in Rings /\ it' = 0 /\ snap' = Len(pend[ri])
        /\ pc' = "next" /\ UNCHANGED <<tso, lastrec, pend, ri>>
    BY <1>0, <1>3 DEF ScanRing, TypeOK, Rings
  <2>2. Len(pend[ri]) \in Nat
    BY <1>0, <2>1 DEF TypeOK
  <2>3. Untouched(ri) /\ \A r \in Rings : r > ri => Untouched(r)
    BY <1>0, <2>1 DEF ScanInv, Rings
  <2> QED
    BY <1>0, <2>1, <2>2, <2>3 DEF ScanInv, Untouched
<1>4. CASE PushRecord
  <2>1. PICK t \in Nat :
          /\ ri \in Rings /\ it + 1 \in Nat /\ it + 1 <= snap
          /\ tsoTs < t /\ tsoTs' = t /\ it' = it + 1
          /\ pc = "next" /\ pc' \in {"full", "next"}
          /\ tso' = tso \cup {[ts |-> t, ring |-> ri, pos |-> it + 1]}
          /\ UNCHANGED <<pend, lastrec, ri, snap>>
    BY <1>4, PushFacts
  <2> DEFINE new == [ts |-> t, ring |-> ri, pos |-> it + 1]
  <2>2. new.ts = t /\ new.ring = ri /\ new.pos = it + 1
    OBVIOUS
  <2> HIDE DEF new
  <2>3. tso' = tso \cup {new}
    BY <2>1 DEF new
  <2>4. it \in Nat /\ tsoTs \in Nat /\ lastrec[ri] \in Nat
    BY <1>0, <2>1 DEF TypeOK
  <2>5. \A e \in tso : e.ring \in Rings /\ e.pos \in Nat /\ e.ts \in Nat
    BY <1>0 DEF TypeOK, Entry
  <2>6. \A e \in tso' : e.ring = ri => e.pos <= it + 1 /\ e.ts <= t
    BY <1>0, <2>1, <2>2, <2>3, <2>4, <2>5 DEF ScanInv
  <2>7. \A p \in Nat : lastrec[ri] < p /\ p <= it + 1 =>
          \E f \in tso' : f.ring = ri /\ f.pos = p
    BY <1>0, <2>1, <2>2, <2>3, <2>4 DEF ScanInv
  <2>8. \A r \in Rings : r > ri => Untouched(r)'
    BY <1>0, <2>1, <2>2, <2>3 DEF ScanInv, Untouched, Rings
  <2>9. lastrec[ri] <= it + 1 /\ snap <= Len(pend[ri])
    BY <1>0, <2>1, <2>4 DEF ScanInv
  <2> QED
    BY <1>0, <2>1, <2>6, <2>7, <2>8, <2>9 DEF ScanInv
<1>5. CASE EndRing
  BY <1>0, <1>5 DEF EndRing, ScanInv, Untouched, Rings
<1>6. CASE BeginFullFlush
  BY <1>0, <1>6 DEF BeginFullFlush, ScanInv, Untouched
<1>7. CASE BeginFlush
  BY <1>0, <1>7 DEF BeginFlush, ScanInv
<1>8. CASE FlushOne
  <2>1. PICK e \in tso, r \in Rings :
          /\ e.ring = r /\ e.pos \in Nat /\ e.pos = lastrec[r] + 1
          /\ e.pos \in 1 .. Len(pend[r])
          /\ tso' = tso \ {e}
          /\ lastrec' = [lastrec EXCEPT ![r] = e.pos]
    BY <1>8, FlushFacts, Zenon
  <2>2. /\ UNCHANGED <<pend, pc, scanVars>>
        /\ pc \in {"flush", "flushfull"}
    BY <1>8 DEF FlushOne
  <2>3. lastrec \in [Rings -> Nat] /\ \A q \in Rings : Len(pend[q]) \in Nat
    BY <1>0 DEF TypeOK
  <2>4. /\ lastrec'[r] = e.pos
        /\ \A q \in Rings : q # r => lastrec'[q] = lastrec[q]
    BY <2>1, <2>3
  <2>5. \A q \in Rings : lastrec'[q] <= Len(pend[q])
    BY <1>0, <2>1, <2>3, <2>4 DEF ScanInv
  <2>6. ASSUME pc = "flushfull"
        PROVE  /\ ri \in Rings
               /\ it <= snap /\ snap <= Len(pend[ri]) /\ lastrec'[ri] <= it
               /\ \A p \in Nat : lastrec'[ri] < p /\ p <= it =>
                    \E f \in tso' : f.ring = ri /\ f.pos = p
               /\ \A f \in tso' : f.ring = ri => f.pos <= it /\ f.ts <= tsoTs
               /\ \A q \in Rings : q > ri => Untouched(q)'
    <3>1. /\ ri \in Rings
          /\ it <= snap /\ snap <= Len(pend[ri]) /\ lastrec[ri] <= it
          /\ \A p \in Nat : lastrec[ri] < p /\ p <= it =>
               \E f \in tso : f.ring = ri /\ f.pos = p
          /\ \A f \in tso : f.ring = ri => f.pos <= it /\ f.ts <= tsoTs
          /\ \A q \in Rings : q > ri => Untouched(q)
      BY <1>0, <2>6 DEF ScanInv
    <3>2. lastrec'[ri] <= it
      BY <2>1, <2>4, <3>1
    <3>3. \A p \in Nat : lastrec'[ri] < p /\ p <= it =>
            \E f \in tso' : f.ring = ri /\ f.pos = p
      BY <2>1, <2>3, <2>4, <3>1
    <3>4. \A q \in Rings : q > ri => Untouched(q)'
      BY <2>1, <2>4, <3>1 DEF Untouched
    <3> QED
      BY <2>1, <3>1, <3>2, <3>3, <3>4
  <2> QED
    BY <2>2, <2>5, <2>6 DEF ScanInv
<1>9. CASE EndFullFlush
  BY <1>0, <1>9 DEF EndFullFlush, ScanInv, Untouched
<1>10. CASE EndFlush
  BY <1>0, <1>10 DEF EndFlush, ScanInv, Rings
<1>11. CASE CommitRing
  <2>1. /\ pc = "commit" /\ pc' = "commit" /\ ri \in Rings /\ ri' = ri + 1
        /\ lastrec' = [lastrec EXCEPT ![ri] = 0] /\ tso' = tso /\ tso = {}
    BY <1>0, <1>11 DEF CommitRing, TypeOK, Rings, ScanInv
  <2>2. \A r \in Rings : r # ri => pend'[r] = pend[r]
    BY <1>0, <1>11, <2>1 DEF CommitRing, TypeOK
  <2>3. pend'[ri] \in Seq(Record)
    BY <2>1, TypeStep DEF TypeOK
  <2>4. ASSUME NEW r \in Rings
        PROVE  lastrec'[r] <= Len(pend'[r])
    <3>1. lastrec'[r] = IF r = ri THEN 0 ELSE lastrec[r]
      BY <1>0, <2>1 DEF TypeOK
    <3>2. Len(pend'[ri]) >= 0 /\ lastrec[r] <= Len(pend[r])
      BY <1>0, <2>3 DEF ScanInv
    <3> QED
      BY <2>2, <3>1, <3>2
  <2>5. \A r \in Rings : r < ri + 1 => Untouched(r)'
    BY <1>0, <2>1 DEF ScanInv, TypeOK, Untouched, Rings
  <2> QED
    BY <2>1, <2>4, <2>5 DEF ScanInv
<1>12. CASE EndPass
  BY <1>0, <1>12 DEF EndPass, ScanInv, Untouched, Rings
<1> QED
  BY <1>1, <1>2, <1>3, <1>4, <1>5, <1>6, <1>7, <1>8, <1>9, <1>10, <1>11,
     <1>12
  DEF Next, WriterNext, EngineNext, Abandon, vars

-----------------------------------------------------------------------------
(* Sequence numbers                                                        *)

(* What SeqInv says of one ring.                                           *)
Numbered(r) ==
  /\ \A j, k \in 1 .. Len(pend[r]) : j < k => pend[r][j].seq < pend[r][k].seq
  /\ \A k \in 1 .. Len(pend[r]) :
       /\ pend[r][k].seq < seqnum[r]
       /\ lastrec[r] < k => expected[r] <= pend[r][k].seq
  /\ expected[r] <= seqnum[r] /\ seqnum[r] <= MaxSeq
  /\ \A k \in 1 .. Len(out[r]) : out[r][k] < expected[r]

(* The commit of a ring drops the records up to lastrec.                   *)
LEMMA CommitFacts ==
  ASSUME IInv, CommitRing
  PROVE  /\ ri \in Rings
         /\ \A q \in Rings : q # ri => /\ pend'[q] = pend[q]
                                     /\ lastrec'[q] = lastrec[q]
         /\ lastrec'[ri] = 0
         /\ pend'[ri] \in Seq(Record)
         /\ Len(pend'[ri]) = Len(pend[ri]) - lastrec[ri]
         /\ \A k \in 1 .. Len(pend'[ri]) :
              pend'[ri][k] = pend[ri][lastrec[ri] + k]
<1>1. TypeOK /\ ScanInv
  BY DEF IInv
<1>2. /\ ri \in Rings
      /\ lastrec' = [lastrec EXCEPT ![ri] = 0]
      /\ pend' = IF lastrec[ri] = 0 THEN pend
                 ELSE [pend EXCEPT ![ri] =
                         SubSeq(@, lastrec[ri] + 1, Len(@))]
  BY <1>1 DEF CommitRing, Released, TypeOK, Rings
<1>3. /\ pend \in [Rings -> Seq(Record)] /\ lastrec \in [Rings -> Nat]
      /\ pend[ri] \in Seq(Record) /\ lastrec[ri] \in Nat
      /\ lastrec[ri] <= Len(pend[ri]) /\ Len(pend[ri]) \in Nat
  BY <1>1, <1>2 DEF TypeOK, ScanInv
<1>4. /\ \A q \in Rings : q # ri => /\ pend'[q] = pend[q]
                                  /\ lastrec'[q] = lastrec[q]
      /\ lastrec'[ri] = 0
  BY <1>2, <1>3
<1>5. CASE lastrec[ri] = 0
  BY <1>2, <1>3, <1>4, <1>5
<1>6. CASE lastrec[ri] # 0
  <2>1. pend'[ri] = SubSeq(pend[ri], lastrec[ri] + 1, Len(pend[ri]))
    BY <1>2, <1>3, <1>6
  <2> QED
    BY <1>2, <1>3, <1>4, <2>1
<1> QED
  BY <1>5, <1>6

(* Every step keeps the numbers in order.                                  *)
LEMMA SeqStep == IInv /\ [Next]_vars => SeqInv'
<1> SUFFICES ASSUME IInv, [Next]_vars, NEW q \in Rings PROVE Numbered(q)'
  BY DEF SeqInv, Numbered
<1> USE DEF ringVars, scanVars, flushVars
<1>0. TypeOK /\ ScanInv /\ Numbered(q)
  BY DEF IInv, SeqInv, Numbered
<1>1. /\ pend[q] \in Seq(Record) /\ out[q] \in Seq(Nat) /\ seqnum[q] \in Nat
      /\ expected[q] \in Nat /\ lastrec[q] \in Nat /\ Len(pend[q]) \in Nat
      /\ Len(out[q]) \in Nat
  BY <1>0 DEF TypeOK
<1>2. \A k \in 1 .. Len(pend[q]) : pend[q][k].seq \in Nat
  <2> TAKE k \in 1 .. Len(pend[q])
  <2>1. pend[q][k] \in Record
    BY <1>1
  <2> QED
    BY <2>1 DEF Record
<1>3. CASE UNCHANGED <<pend, seqnum, lastrec, expected, out>>
  BY <1>0, <1>3 DEF Numbered
<1>4. ASSUME NEW r \in Rings, NEW t \in Times, Post(r, t) PROVE Numbered(q)'
  <2>1. UNCHANGED <<lastrec, expected, out>>
    BY <1>4 DEF Post
  <2>2. /\ seqnum[r] < MaxSeq
        /\ seqnum' = [seqnum EXCEPT ![r] = @ + 1]
        /\ \/ pend' = [pend EXCEPT ![r] =
                          Append(@, [seq |-> seqnum[r], ts |-> t])]
           \/ pend' = pend
    BY <1>4 DEF Post
  <2>3. /\ seqnum'[q] \in Nat /\ seqnum[q] <= seqnum'[q] /\ seqnum'[q] <= MaxSeq
        /\ q = r => seqnum[q] < seqnum'[q]
    BY <1>0, <1>1, <2>2, SMTT(30) DEF TypeOK, Numbered
  <2>4. CASE pend'[q] = pend[q]
    BY <1>0, <1>1, <1>2, <2>1, <2>3, <2>4 DEF Numbered
  <2>5. CASE /\ q = r
             /\ pend'[q] = Append(pend[q], [seq |-> seqnum[r], ts |-> t])
    <3>1. /\ Len(pend'[q]) = Len(pend[q]) + 1
          /\ \A k \in 1 .. Len(pend[q]) : pend'[q][k] = pend[q][k]
          /\ pend'[q][Len(pend[q]) + 1] = [seq |-> seqnum[q], ts |-> t]
      BY <1>1, <2>5
    <3>2. pend'[q][Len(pend[q]) + 1].seq = seqnum[q]
      BY <3>1
    <3>3. \A k \in 1 .. Len(pend'[q]) :
            k \in 1 .. Len(pend[q]) \/ k = Len(pend[q]) + 1
      BY <1>1, <3>1
    <3> HIDE <2>5
    <3>4. \A j, k \in 1 .. Len(pend'[q]) :
            j < k => pend'[q][j].seq < pend'[q][k].seq
      <4> TAKE j, k \in 1 .. Len(pend'[q])
      <4> HAVE j < k
      <4>1. j \in 1 .. Len(pend[q])
        BY <1>1, <3>1
      <4>2. pend'[q][j].seq = pend[q][j].seq
        BY <3>1, <4>1
      <4>3. CASE k \in 1 .. Len(pend[q])
        <5>1. pend'[q][k].seq = pend[q][k].seq
          BY <3>1, <4>3
        <5> QED
          BY <1>0, <4>1, <4>2, <4>3, <5>1 DEF Numbered
      <4>4. CASE k = Len(pend[q]) + 1
        BY <1>0, <3>2, <4>1, <4>2, <4>4 DEF Numbered
      <4> QED
        BY <3>3, <4>3, <4>4
    <3>5. \A k \in 1 .. Len(pend'[q]) :
            /\ pend'[q][k].seq < seqnum'[q]
            /\ lastrec[q] < k => expected[q] <= pend'[q][k].seq
      <4> TAKE k \in 1 .. Len(pend'[q])
      <4>1. CASE k \in 1 .. Len(pend[q])
        <5>1. pend'[q][k].seq = pend[q][k].seq
          BY <3>1, <4>1
        <5> QED
          BY <1>0, <1>1, <1>2, <2>3, <4>1, <5>1 DEF Numbered
      <4>2. CASE k = Len(pend[q]) + 1
        BY <1>0, <1>1, <2>3, <2>5, <3>2, <4>2 DEF Numbered
      <4> QED
        BY <3>3, <4>1, <4>2
    <3> QED
      BY <1>0, <1>1, <2>1, <2>3, <3>4, <3>5 DEF Numbered
  <2>6. \/ pend'[q] = pend[q]
        \/ /\ q = r
           /\ pend'[q] = Append(pend[q], [seq |-> seqnum[r], ts |-> t])
    BY <1>0, <2>2 DEF TypeOK
  <2> QED
    BY <2>4, <2>5, <2>6
<1>5. ASSUME NEW r \in Rings, Abandon(r) PROVE Numbered(q)'
  <2>1. UNCHANGED <<pend, lastrec, expected, out>>
    BY <1>5 DEF Abandon
  <2>2. seqnum'[q] \in Nat /\ seqnum[q] <= seqnum'[q] /\ seqnum'[q] <= MaxSeq
    BY <1>0, <1>1, <1>5, SMTT(30) DEF Abandon, TypeOK, Numbered
  <2> QED
    BY <1>0, <1>1, <1>2, <2>1, <2>2 DEF Numbered
<1>6. CASE FlushOne
  <2>1. PICK e \in tso, r \in Rings, seq \in Nat :
          /\ e.pos \in Nat
          /\ e.pos = lastrec[r] + 1 /\ e.pos \in 1 .. Len(pend[r])
          /\ pend[r][e.pos].seq = seq /\ expected[r] <= seq
          /\ expected' = [expected EXCEPT ![r] = seq + 1]
          /\ lastrec' = [lastrec EXCEPT ![r] = e.pos]
          /\ out' = [out EXCEPT ![r] = Append(@, seq)]
    BY <1>6, FlushFacts
  <2>2. UNCHANGED <<pend, seqnum>>
    BY <1>6 DEF FlushOne
  <2>3. CASE q # r
    <3>1. /\ expected'[q] = expected[q] /\ lastrec'[q] = lastrec[q]
          /\ out'[q] = out[q]
      BY <1>0, <2>1, <2>3 DEF TypeOK
    <3> QED
      BY <1>0, <2>2, <3>1 DEF Numbered
  <2>4. CASE q = r
    <3>1. /\ expected'[q] = seq + 1 /\ lastrec'[q] = e.pos
          /\ out'[q] = Append(out[q], seq)
      BY <1>0, <2>1, <2>4 DEF TypeOK
    <3>2. seq < seqnum[q] /\ \A k \in 1 .. Len(pend[q]) :
                               e.pos < k => seq < pend[q][k].seq
      BY <1>0, <2>1, <2>4 DEF Numbered
    <3>3. \A k \in 1 .. Len(pend[q]) :
            e.pos < k => seq + 1 <= pend[q][k].seq
      BY <1>2, <2>1, <3>2
    <3>4. /\ Len(out'[q]) = Len(out[q]) + 1
          /\ \A k \in 1 .. Len(out[q]) : out'[q][k] = out[q][k]
          /\ out'[q][Len(out[q]) + 1] = seq
      BY <1>1, <3>1
    <3>5. \A k \in 1 .. Len(out'[q]) : out'[q][k] < seq + 1
      <4> TAKE k \in 1 .. Len(out'[q])
      <4>1. CASE k = Len(out[q]) + 1
        BY <3>4, <4>1
      <4>2. CASE k \in 1 .. Len(out[q])
        <5>1. out[q][k] \in Nat /\ out[q][k] < expected[q]
          BY <1>0, <1>1, <4>2 DEF Numbered
        <5> QED
          BY <1>1, <2>1, <2>4, <3>4, <4>2, <5>1
      <4> QED
        BY <1>1, <3>4, <4>1, <4>2
    <3> QED
      BY <1>0, <1>1, <2>2, <3>1, <3>2, <3>3, <3>5 DEF Numbered
  <2> QED
    BY <2>3, <2>4
<1>7. CASE CommitRing
  <2>1. UNCHANGED <<seqnum, expected, out>>
    BY <1>7 DEF CommitRing
  <2>2. CASE q # ri
    BY <1>0, <1>7, <2>1, <2>2, CommitFacts DEF Numbered
  <2>3. CASE q = ri
    <3>1. /\ lastrec'[q] = 0
          /\ Len(pend'[q]) = Len(pend[q]) - lastrec[q]
          /\ \A k \in 1 .. Len(pend'[q]) :
               pend'[q][k] = pend[q][lastrec[q] + k]
      BY <1>7, <2>3, CommitFacts
    <3>2. \A k \in 1 .. Len(pend'[q]) : /\ lastrec[q] + k \in 1 .. Len(pend[q])
                                        /\ lastrec[q] < lastrec[q] + k
      BY <1>1, <3>1
    <3>3. \A j, k \in 1 .. Len(pend'[q]) :
            j < k => lastrec[q] + j < lastrec[q] + k
      BY <1>1
    <3> QED
      BY <1>0, <2>1, <3>1, <3>2, <3>3 DEF Numbered
  <2> QED
    BY <2>2, <2>3
<1> QED
  BY <1>3, <1>4, <1>5, <1>6, <1>7
  DEF Next, WriterNext, EngineNext, ScanRing, PushRecord, EndRing,
      BeginFullFlush, BeginFlush, EndFullFlush, EndFlush, EndPass, vars

-----------------------------------------------------------------------------
(* Gaps and order                                                          *)

(* Every step reports the gap it meets, once.                              *)
LEMMA GapsStep == IInv /\ [Next]_vars => GapsReported'
<1> SUFFICES ASSUME IInv, [Next]_vars, NEW q \in Rings
             PROVE  expected'[q] = Len(out'[q]) + reported'[q]
  BY DEF GapsReported
<1> USE DEF ringVars, scanVars, flushVars
<1>0. TypeOK /\ expected[q] = Len(out[q]) + reported[q]
  BY DEF IInv, GapsReported
<1>1. CASE UNCHANGED <<expected, out, reported>>
  BY <1>0, <1>1
<1>2. CASE FlushOne
  <2>1. PICK e \in tso, r \in Rings, seq \in Nat :
          /\ expected[r] <= seq
          /\ reported' = [reported EXCEPT ![r] = @ + (seq - expected[r])]
          /\ expected' = [expected EXCEPT ![r] = seq + 1]
          /\ out' = [out EXCEPT ![r] = Append(@, seq)]
    BY <1>2, FlushFacts, Zenon
  <2>2. /\ expected \in [Rings -> Nat] /\ reported \in [Rings -> Nat]
        /\ out \in [Rings -> Seq(Nat)]
    BY <1>0 DEF TypeOK
  <2>3. CASE q # r
    BY <1>0, <2>1, <2>2, <2>3
  <2>4. CASE q = r
    <3>1. Len(out'[q]) = Len(out[q]) + 1 /\ Len(out[q]) \in Nat
      BY <2>1, <2>2, <2>4
    <3>2. /\ expected'[q] = seq + 1 /\ expected[q] \in Nat
          /\ reported'[q] = reported[q] + (seq - expected[q])
          /\ reported[q] \in Nat
      BY <2>1, <2>2, <2>4
    <3> QED
      BY <1>0, <3>1, <3>2
  <2> QED
    BY <2>3, <2>4
<1> QED
  BY <1>1, <1>2
  DEF Next, WriterNext, EngineNext, Post, Abandon, ScanRing, PushRecord,
      EndRing, BeginFullFlush, BeginFlush, EndFullFlush, EndFlush, CommitRing,
      EndPass, vars

(* Every step keeps the order of what left, or has marked the output.      *)
LEMMA OrderStep == IInv /\ [Next]_vars => (OrderInv /\ SortedUnlessMarked)'
<1> SUFFICES ASSUME IInv, [Next]_vars
             PROVE  OrderInv' /\ SortedUnlessMarked'
  OBVIOUS
<1> USE DEF ringVars, scanVars, flushVars
<1>0. TypeOK /\ OrderInv /\ SortedUnlessMarked /\ passOut \in Seq(Nat)
  BY DEF IInv, TypeOK
<1>1. CASE UNCHANGED <<pc, tso, passOut, marked>>
  BY <1>0, <1>1 DEF OrderInv, SortedUnlessMarked
<1>2. CASE ScanRing \/ EndRing
  BY <1>0, <1>2 DEF ScanRing, EndRing, OrderInv, SortedUnlessMarked
<1>3. CASE PushRecord
  <2>1. /\ pc = "next" /\ pc' \in {"full", "next"}
        /\ UNCHANGED <<passOut, marked>>
    BY <1>3 DEF PushRecord
  <2>2. ~marked => passOut = <<>> /\ DOMAIN passOut = {}
    BY <1>0, <2>1 DEF OrderInv
  <2> QED
    BY <2>1, <2>2 DEF OrderInv, SortedUnlessMarked
<1>4. CASE BeginFullFlush
  BY <1>4 DEF BeginFullFlush, InjectMark, OrderInv, SortedUnlessMarked
<1>5. CASE BeginFlush
  BY <1>0, <1>5 DEF BeginFlush, OrderInv, SortedUnlessMarked
<1>6. CASE FlushOne
  <2>1. PICK e \in tso :
          /\ e.ts \in Nat /\ \A f \in tso : e.ts <= f.ts
          /\ tso' = tso \ {e} /\ passOut' = Append(passOut, e.ts)
    BY <1>6, FlushFacts, Zenon
  <2>2. UNCHANGED <<pc, marked>> /\ pc \in {"flush", "flushfull"}
    BY <1>6 DEF FlushOne
  <2>3. /\ DOMAIN passOut' = 1 .. Len(passOut) + 1
        /\ DOMAIN passOut = 1 .. Len(passOut) /\ Len(passOut) \in Nat
        /\ \A k \in 1 .. Len(passOut) : passOut'[k] = passOut[k]
        /\ passOut'[Len(passOut) + 1] = e.ts
    BY <1>0, <2>1
  <2>4. ASSUME ~marked, NEW j \in DOMAIN passOut'
        PROVE  passOut'[j] <= e.ts
    BY <1>0, <2>1, <2>3, <2>4 DEF OrderInv
  <2>5. ASSUME ~marked, NEW j \in DOMAIN passOut', NEW f \in tso'
        PROVE  passOut'[j] <= f.ts
    <3>1. passOut'[j] <= e.ts /\ e.ts <= f.ts /\ f \in tso
      BY <2>1, <2>4, <2>5
    <3>2. f.ts \in Nat
      BY <1>0, <3>1 DEF TypeOK, Entry
    <3>3. passOut'[j] \in Nat
      BY <1>0, <2>1, <2>3
    <3> QED
      BY <2>1, <3>1, <3>2, <3>3
  <2>6. ASSUME ~marked, NEW j \in DOMAIN passOut', NEW k \in DOMAIN passOut',
               j < k
        PROVE  passOut'[j] <= passOut'[k]
    <3>1. CASE k = Len(passOut) + 1
      BY <2>3, <2>4, <2>6, <3>1
    <3>2. CASE k \in 1 .. Len(passOut)
      <4>1. j \in 1 .. Len(passOut)
        BY <2>3, <2>6, <3>2
      <4> QED
        BY <1>0, <2>3, <2>6, <3>2, <4>1 DEF SortedUnlessMarked
    <3> QED
      BY <2>3, <3>1, <3>2
  <2> QED
    BY <1>0, <2>2, <2>5, <2>6 DEF OrderInv, SortedUnlessMarked
<1>7. CASE EndFullFlush
  BY <1>0, <1>7 DEF EndFullFlush, OrderInv, SortedUnlessMarked
<1>8. CASE EndFlush
  BY <1>0, <1>8 DEF EndFlush, OrderInv, SortedUnlessMarked
<1>9. CASE EndPass
  <2>1. passOut' = <<>> /\ pc' = "ring" /\ marked' = FALSE
    BY <1>9 DEF EndPass
  <2>2. DOMAIN passOut' = {}
    BY <2>1
  <2> QED
    BY <2>1, <2>2 DEF OrderInv, SortedUnlessMarked
<1> QED
  BY <1>1, <1>2, <1>3, <1>4, <1>5, <1>6, <1>7, <1>8, <1>9
  DEF Next, WriterNext, EngineNext, Post, Abandon, CommitRing, vars

-----------------------------------------------------------------------------
(* The theorems                                                            *)

(* The invariant holds initially.                                          *)
LEMMA IInvInit == Init => IInv
<1> SUFFICES ASSUME Init PROVE IInv
  OBVIOUS
<1>1. TypeOK
  BY TypeInit
<1>2. \A r \in Rings : /\ pend[r] = <<>> /\ out[r] = <<>> /\ seqnum[r] = 0
                       /\ lastrec[r] = 0 /\ expected[r] = 0
                       /\ reported[r] = 0
  BY DEF Init
<1>3. tso = {} /\ pc = "ring" /\ passOut = <<>> /\ marked = FALSE
  BY DEF Init
<1>4. EntryInv
  BY <1>3, FS_EmptySet DEF EntryInv
<1>5. ScanInv
  BY <1>2, <1>3 DEF ScanInv, Untouched
<1>6. SeqInv /\ GapsReported
  BY <1>2 DEF SeqInv, GapsReported
<1>7. DOMAIN passOut = {}
  BY <1>3
<1>8. OrderInv /\ SortedUnlessMarked
  BY <1>3, <1>7 DEF OrderInv, SortedUnlessMarked
<1> QED
  BY <1>1, <1>4, <1>5, <1>6, <1>8 DEF IInv

(* Every step keeps it.                                                    *)
LEMMA IInvStep == IInv /\ [Next]_vars => IInv'
  BY TypeStep, EntryStep, ScanStep, SeqStep, GapsStep, OrderStep DEF IInv

(* The variables of the engine keep their types: the positions of the      *)
(* iterator and of lastrec stay within the rings.                          *)
THEOREM TypeCorrect == Spec => []TypeOK
<1>1. IInv => TypeOK
  BY DEF IInv
<1> QED
  BY <1>1, IInvInit, IInvStep, PTL DEF Spec

(* Each gap in the numbers of a ring is reported once, with its size, for  *)
(* every interleaving of the writers with the passes of process_rings_tso. *)
THEOREM GapsReportedHolds == Spec => []GapsReported
<1>1. IInv => GapsReported
  BY DEF IInv
<1> QED
  BY <1>1, IInvInit, IInvStep, PTL DEF Spec

(* A pass of process_rings_tso writes its records in the order of their    *)
(* timestamps unless it has written TSOFULLMARK.                           *)
THEOREM SortedUnlessMarkedHolds == Spec => []SortedUnlessMarked
<1>1. IInv => SortedUnlessMarked
  BY DEF IInv
<1> QED
  BY <1>1, IInvInit, IInvStep, PTL DEF Spec

-----------------------------------------------------------------------------
(* Room in the buffer                                                      *)

(* How full the buffer is: a full one is emptied by half before the scan   *)
(* goes on.                                                                *)
RoomInv ==
  /\ pc \in {"ring", "next"} => Cardinality(tso) < TsoCap
  /\ pc = "full" => Cardinality(tso) = TsoCap
  /\ pc = "flushfull" => Cardinality(tso) + TsoCap \div 2 = TsoCap + todo

(* A push adds one entry: the record at hand is not in the buffer yet.     *)
LEMMA PushCounts ==
  ASSUME IInv, PushRecord
  PROVE  /\ Cardinality(tso') = Cardinality(tso) + 1
         /\ pc = "next"
         /\ pc' = IF Cardinality(tso') = TsoCap THEN "full" ELSE "next"
<1>1. PICK t \in Nat :
        /\ ri \in Rings
        /\ tso' = tso \cup {[ts |-> t, ring |-> ri, pos |-> it + 1]}
  BY PushFacts
<1>2. [ts |-> t, ring |-> ri, pos |-> it + 1] \notin tso
  <2>1. TypeOK /\ ScanInv /\ pc = "next"
    BY DEF IInv, PushRecord
  <2>2. it \in Nat /\ \A e \in tso : e.ring = ri => e.pos <= it
    BY <2>1 DEF ScanInv, TypeOK
  <2> QED
    BY <2>2
<1>3. IsFiniteSet(tso)
  BY DEF IInv, EntryInv
<1>4. Cardinality(tso') = Cardinality(tso) + 1
  BY <1>1, <1>2, <1>3, FS_AddElement
<1> QED
  BY <1>4 DEF PushRecord, TsoFull

(* Half of a buffer that holds two entries or more is at least one: every  *)
(* step keeps room for the next push.                                      *)
LEMMA RoomStep ==
  ASSUME 1 \notin TsoCaps
  PROVE  IInv /\ RoomInv /\ [Next]_vars => RoomInv'
<1> SUFFICES ASSUME IInv, RoomInv, [Next]_vars PROVE RoomInv'
  OBVIOUS
<1> USE DEF ringVars, scanVars, flushVars
<1>0. TypeOK /\ EntryInv /\ ScanInv
  BY DEF IInv
<1>1. /\ TsoCap \in Nat /\ TsoCap >= 2 /\ todo \in Nat
      /\ TsoCap \div 2 \in Nat /\ 1 <= TsoCap \div 2 /\ TsoCap \div 2 <= TsoCap
  <2>1. TsoCap \in Nat /\ TsoCap # 0 /\ TsoCap # 1 /\ todo \in Nat
    BY <1>0 DEF TypeOK
  <2> QED
    BY <2>1
<1>2. IsFiniteSet(tso) /\ Cardinality(tso) \in Nat
  BY <1>0, FS_CardinalityType DEF EntryInv
<1>3. TsoCap' = TsoCap
  BY DEF Next, WriterNext, EngineNext, vars
<1>4. CASE UNCHANGED <<pc, tso, todo>>
  BY <1>3, <1>4 DEF RoomInv
<1>5. CASE ScanRing \/ EndRing
  BY <1>3, <1>5 DEF ScanRing, EndRing, RoomInv
<1>6. CASE PushRecord
  <2>1. /\ Cardinality(tso') = Cardinality(tso) + 1
        /\ pc = "next"
        /\ pc' = IF Cardinality(tso') = TsoCap THEN "full" ELSE "next"
    BY <1>6, PushCounts
  <2>2. Cardinality(tso) < TsoCap
    BY <2>1 DEF RoomInv
  <2> QED
    BY <1>1, <1>2, <1>3, <2>1, <2>2 DEF RoomInv
<1>7. CASE BeginFullFlush
  BY <1>1, <1>2, <1>3, <1>7 DEF BeginFullFlush, FullFlushSize, RoomInv
<1>8. CASE BeginFlush \/ EndFlush
  BY <1>8 DEF BeginFlush, EndFlush, RoomInv
<1>9. CASE FlushOne
  <2>1. /\ pc \in {"flush", "flushfull"} /\ pc' = pc
        /\ todo' = todo - 1 /\ todo > 0
    BY <1>9 DEF FlushOne
  <2>2. PICK e \in tso : tso' = tso \ {e}
    BY <1>9, FlushFacts, Zenon
  <2>3. Cardinality(tso') = Cardinality(tso) - 1
    BY <1>2, <2>2, FS_RemoveElement
  <2> QED
    BY <1>1, <1>2, <1>3, <2>1, <2>3 DEF RoomInv
<1>10. CASE EndFullFlush
  <2>1. /\ pc = "flushfull" /\ pc' = "next" /\ tso' = tso
        /\ todo = 0 \/ tso = {}
    BY <1>10 DEF EndFullFlush, FlushDone
  <2>2. tso = {} => Cardinality(tso) = 0
    BY FS_EmptySet
  <2> QED
    BY <1>1, <1>2, <1>3, <2>1, <2>2 DEF RoomInv
<1>11. CASE CommitRing
  BY <1>11 DEF CommitRing, RoomInv
<1>12. CASE EndPass
  <2>1. pc = "commit" /\ pc' = "ring" /\ tso' = tso
    BY <1>12 DEF EndPass
  <2>2. Cardinality(tso') = 0
    BY <1>0, <2>1, FS_EmptySet DEF ScanInv
  <2> QED
    BY <1>1, <1>3, <2>1, <2>2 DEF RoomInv
<1> QED
  BY <1>4, <1>5, <1>6, <1>7, <1>8, <1>9, <1>10, <1>11, <1>12
  DEF Next, WriterNext, EngineNext, Post, Abandon, vars

(* tsobuf::push always finds room, for every tso_buffer_capacity but 1.    *)
(* With that one the theorem is false: flush_full_tso then flushes nothing.*)
THEOREM TsoRoomHolds ==
  ASSUME 1 \notin TsoCaps
  PROVE  Spec => []TsoRoom
<1>1. Init => RoomInv
  <2> SUFFICES ASSUME Init PROVE RoomInv
    OBVIOUS
  <2>1. pc = "ring" /\ Cardinality(tso) = 0 /\ TsoCap \in Nat \ {0}
    BY FS_EmptySet DEF Init
  <2> QED
    BY <2>1 DEF RoomInv
<1>2. IInv /\ RoomInv /\ [Next]_vars => RoomInv'
  BY RoomStep
<1>3. RoomInv => TsoRoom
  BY DEF RoomInv, TsoRoom
<1> QED
  BY <1>1, <1>2, <1>3, IInvInit, IInvStep, PTL DEF Spec

-----------------------------------------------------------------------------
(* Every ring is a queue                                                   *)

(* The queue that RingFifo sees of ring r.                                 *)
Queue(r) ==
  [k \in 1 .. Len(pend[r]) - lastrec[r] |-> pend[r][lastrec[r] + k].seq]

QueueIsSeq ==
  \A r \in Rings :
    /\ Queue(r) \in Seq(Nat)
    /\ Len(Queue(r)) = Len(pend[r]) - lastrec[r]
    /\ Len(Queue(r)) \in Nat /\ lastrec[r] \in Nat /\ Len(pend[r]) \in Nat
    /\ \A k \in 1 .. Len(Queue(r)) :
         /\ lastrec[r] + k \in 1 .. Len(pend[r])
         /\ Queue(r)[k] = pend[r][lastrec[r] + k].seq

(* It is the sequence of the numbers of the records after lastrec.         *)
LEMMA QueueFacts == IInv => QueueIsSeq
<1> SUFFICES
      ASSUME TypeOK, ScanInv, NEW r \in Rings
      PROVE  /\ Queue(r) \in Seq(Nat)
             /\ Len(Queue(r)) = Len(pend[r]) - lastrec[r]
             /\ Len(Queue(r)) \in Nat /\ lastrec[r] \in Nat
             /\ Len(pend[r]) \in Nat
             /\ \A k \in 1 .. Len(Queue(r)) :
                  /\ lastrec[r] + k \in 1 .. Len(pend[r])
                  /\ Queue(r)[k] = pend[r][lastrec[r] + k].seq
  BY DEF QueueIsSeq, IInv
<1>1. /\ pend[r] \in Seq(Record) /\ Len(pend[r]) \in Nat
      /\ lastrec[r] \in Nat /\ lastrec[r] <= Len(pend[r])
  BY DEF TypeOK, ScanInv
<1> DEFINE n == Len(pend[r]) - lastrec[r]
<1>2. n \in Nat /\ \A k \in 1 .. n : lastrec[r] + k \in 1 .. Len(pend[r])
  BY <1>1
<1>3. \A k \in 1 .. n : pend[r][lastrec[r] + k].seq \in Nat
  <2> TAKE k \in 1 .. n
  <2>1. pend[r][lastrec[r] + k] \in Record
    BY <1>1, <1>2
  <2> QED
    BY <2>1 DEF Record
<1>4. Queue(r) = [k \in 1 .. n |-> pend[r][lastrec[r] + k].seq]
  BY DEF Queue
<1> HIDE DEF n
<1>5. Queue(r) \in [1 .. n -> Nat]
  BY <1>3, <1>4
<1>6. Queue(r) \in Seq(Nat) /\ Len(Queue(r)) = n
  BY <1>2, <1>5
<1> QED
  BY <1>1, <1>2, <1>4, <1>6 DEF n

(* A post that finds room puts the record at the end of the queue.         *)
LEMMA PostPuts ==
  ASSUME IInv, IInv', NEW r \in Rings, NEW t \in Times, Post(r, t)
  PROVE  View(r)!Put \/ View(r)!Drop
<1> USE DEF ringVars, scanVars, flushVars
<1>1. TypeOK /\ ScanInv /\ SeqInv /\ TypeOK' /\ ScanInv'
  BY DEF IInv
<1>2. UNCHANGED <<lastrec, out>>
  BY DEF Post
<1>3. /\ pend[r] \in Seq(Record) /\ seqnum[r] \in Nat /\ out[r] \in Seq(Nat)
      /\ pend \in [Rings -> Seq(Record)] /\ dropcnt \in [Rings -> Nat]
      /\ lastrec \in [Rings -> Nat] /\ expected[r] \in Nat
  BY <1>1 DEF TypeOK
<1>4. /\ Queue(r) \in Seq(Nat) /\ Len(Queue(r)) = Len(pend[r]) - lastrec[r]
      /\ Len(Queue(r)) \in Nat /\ lastrec[r] \in Nat /\ Len(pend[r]) \in Nat
      /\ \A k \in 1 .. Len(Queue(r)) :
           /\ lastrec[r] + k \in 1 .. Len(pend[r])
           /\ Queue(r)[k] = pend[r][lastrec[r] + k].seq
  BY QueueFacts DEF QueueIsSeq
<1>5. CASE /\ Len(pend[r]) < Slots
           /\ pend' = [pend EXCEPT ![r] =
                         Append(@, [seq |-> seqnum[r], ts |-> t])]
           /\ UNCHANGED dropcnt
  <2>1. /\ Len(pend'[r]) = Len(pend[r]) + 1
        /\ \A k \in 1 .. Len(pend[r]) : pend'[r][k] = pend[r][k]
        /\ pend'[r][Len(pend[r]) + 1].seq = seqnum[r]
    <3>1. pend'[r] = Append(pend[r], [seq |-> seqnum[r], ts |-> t])
      BY <1>3, <1>5
    <3>2. /\ Len(pend'[r]) = Len(pend[r]) + 1
          /\ \A k \in 1 .. Len(pend[r]) : pend'[r][k] = pend[r][k]
          /\ pend'[r][Len(pend[r]) + 1] = [seq |-> seqnum[r], ts |-> t]
      BY <1>3, <3>1
    <3> QED
      BY <3>2
  <2>2. /\ Queue(r)' \in Seq(Nat)
        /\ Len(Queue(r)') = Len(pend'[r]) - lastrec'[r]
        /\ \A k \in 1 .. Len(Queue(r)') :
             /\ lastrec'[r] + k \in 1 .. Len(pend'[r])
             /\ Queue(r)'[k] = pend'[r][lastrec'[r] + k].seq
    <3>1. QueueIsSeq'
      BY QueueFacts, PTL
    <3> QED
      BY <3>1 DEF QueueIsSeq
  <2>3. Len(Queue(r)') = Len(Queue(r)) + 1
    BY <1>2, <1>3, <1>4, <2>1, <2>2
  <2>4. Append(Queue(r), seqnum[r]) \in Seq(Nat)
        /\ Len(Append(Queue(r), seqnum[r])) = Len(Queue(r)) + 1
        /\ \A k \in 1 .. Len(Queue(r)) :
             Append(Queue(r), seqnum[r])[k] = Queue(r)[k]
        /\ Append(Queue(r), seqnum[r])[Len(Queue(r)) + 1] = seqnum[r]
    BY <1>3, <1>4
  <2>5. \A k \in 1 .. Len(Queue(r)') :
          Queue(r)'[k] = Append(Queue(r), seqnum[r])[k]
    <3> TAKE k \in 1 .. Len(Queue(r)')
    <3>0. Queue(r)'[k] = pend'[r][lastrec[r] + k].seq
      BY <1>2, <2>2
    <3>1. CASE k \in 1 .. Len(Queue(r))
      <4>1. pend'[r][lastrec[r] + k] = pend[r][lastrec[r] + k]
        BY <1>4, <2>1, <3>1
      <4> QED
        BY <1>4, <2>4, <3>0, <3>1, <4>1
    <3>2. CASE k = Len(Queue(r)) + 1
      <4>1. lastrec[r] + k = Len(pend[r]) + 1
        BY <1>4, <3>2
      <4> QED
        BY <2>1, <2>4, <3>0, <3>2, <4>1
    <3> QED
      BY <1>4, <2>3, <3>1, <3>2
  <2>6. Queue(r)' = Append(Queue(r), seqnum[r])
    BY <2>2, <2>3, <2>4, <2>5, SeqEqual
  <2>7. Len(Queue(r)) + lastrec[r] < Slots
    BY <1>4, <1>5
  <2>8. seqnum[r] \in 0 .. MaxSeq - 1
    BY <1>3 DEF Post
  <2>9. /\ \A k \in DOMAIN Queue(r) : Queue(r)[k] < seqnum[r]
        /\ \A k \in DOMAIN out[r] : out[r][k] < seqnum[r]
    <3>1. \A k \in 1 .. Len(Queue(r)) : Queue(r)[k] < seqnum[r]
      BY <1>1, <1>4 DEF SeqInv
    <3>2. \A k \in 1 .. Len(out[r]) : out[r][k] \in Nat
      BY <1>3
    <3>3. \A k \in 1 .. Len(out[r]) : out[r][k] < seqnum[r]
      BY <1>1, <1>3, <3>2, SMTT(30) DEF SeqInv
    <3>4. DOMAIN Queue(r) = 1 .. Len(Queue(r))
      BY <1>4
    <3>5. DOMAIN out[r] = 1 .. Len(out[r])
      BY <1>3
    <3> QED
      BY <3>1, <3>3, <3>4, <3>5
  <2>10. /\ out'[r] = out[r] /\ lastrec'[r] = lastrec[r]
         /\ dropcnt'[r] = dropcnt[r]
    BY <1>2, <1>5
  <2> QED
    BY <2>6, <2>7, <2>8, <2>9, <2>10
    DEF View!Put, View!HasRoom, Queue
<1>6. CASE /\ Len(pend[r]) = Slots
           /\ dropcnt' = [dropcnt EXCEPT ![r] = @ + 1]
           /\ UNCHANGED pend
  <2>1. ~(Len(Queue(r)) + lastrec[r] < Slots)
    BY <1>4, <1>6
  <2>2. dropcnt'[r] = dropcnt[r] + 1
    BY <1>3, <1>6
  <2>3. Queue(r)' = Queue(r) /\ lastrec'[r] = lastrec[r] /\ out'[r] = out[r]
    BY <1>2, <1>6 DEF Queue
  <2> QED
    BY <2>1, <2>2, <2>3 DEF View!Drop, View!HasRoom, Queue
<1> QED
  BY <1>5, <1>6 DEF Post

(* A turn of do_flush_tso takes the first record of the queue of its ring  *)
(* and leaves the other rings alone.                                       *)
LEMMA FlushTakes ==
  ASSUME IInv, IInv', NEW q \in Rings, FlushOne
  PROVE  View(q)!Take \/ UNCHANGED View(q)!fifoVars
<1> USE DEF ringVars, scanVars, flushVars
<1>1. TypeOK
  BY DEF IInv
<1>2. UNCHANGED <<pend, dropcnt>>
  BY DEF FlushOne
<1>3. PICK e \in tso, r \in Rings, seq \in Nat :
        /\ e.pos \in Nat /\ e.pos = lastrec[r] + 1
        /\ e.pos \in 1 .. Len(pend[r]) /\ pend[r][e.pos].seq = seq
        /\ lastrec' = [lastrec EXCEPT ![r] = e.pos]
        /\ out' = [out EXCEPT ![r] = Append(@, seq)]
  BY FlushFacts, ZenonT(30)
<1>4. lastrec \in [Rings -> Nat] /\ out \in [Rings -> Seq(Nat)]
  BY <1>1 DEF TypeOK
<1>5. CASE q # r
  <2>1. lastrec'[q] = lastrec[q] /\ out'[q] = out[q]
    BY <1>3, <1>4, <1>5
  <2> QED
    BY <1>2, <2>1 DEF View!fifoVars
<1>6. CASE q = r
  <2>1. lastrec'[q] = lastrec[q] + 1 /\ out'[q] = Append(out[q], seq)
    BY <1>3, <1>4, <1>6
  <2>2. /\ Queue(q) \in Seq(Nat) /\ Len(Queue(q)) = Len(pend[q]) - lastrec[q]
        /\ Len(Queue(q)) \in Nat /\ lastrec[q] \in Nat /\ Len(pend[q]) \in Nat
        /\ \A k \in 1 .. Len(Queue(q)) :
             Queue(q)[k] = pend[q][lastrec[q] + k].seq
    BY QueueFacts DEF QueueIsSeq
  <2>3. /\ Queue(q)' \in Seq(Nat)
        /\ Len(Queue(q)') = Len(pend'[q]) - lastrec'[q]
        /\ \A k \in 1 .. Len(Queue(q)') :
             Queue(q)'[k] = pend'[q][lastrec'[q] + k].seq
    <3>1. QueueIsSeq'
      BY QueueFacts, PTL
    <3> QED
      BY <3>1 DEF QueueIsSeq
  <2>4. Len(Queue(q)) >= 1
    BY <1>3, <1>6, <2>2
  <2>5. Queue(q) # <<>> /\ Head(Queue(q)) = Queue(q)[1]
    BY <2>2, <2>4
  <2>6. Head(Queue(q)) = seq
    <3>1. 1 \in 1 .. Len(Queue(q))
      BY <2>2, <2>4
    <3>2. Queue(q)[1] = pend[q][lastrec[q] + 1].seq
      BY <2>2, <3>1
    <3> QED
      BY <1>3, <1>6, <2>5, <3>2
  <2>7. /\ Tail(Queue(q)) \in Seq(Nat)
        /\ Len(Tail(Queue(q))) = Len(Queue(q)) - 1
        /\ \A k \in 1 .. Len(Tail(Queue(q))) :
             Tail(Queue(q))[k] = Queue(q)[k + 1]
    BY <2>2, <2>5, HeadTailProperties
  <2>8. Len(Queue(q)') = Len(Tail(Queue(q)))
    BY <1>2, <2>1, <2>2, <2>3, <2>7
  <2>9. \A k \in 1 .. Len(Queue(q)') : Queue(q)'[k] = Tail(Queue(q))[k]
    <3> TAKE k \in 1 .. Len(Queue(q)')
    <3>1. Queue(q)'[k] = pend[q][lastrec[q] + 1 + k].seq
      BY <1>2, <2>1, <2>3
    <3>2. k + 1 \in 1 .. Len(Queue(q)) /\ k \in Nat
      BY <2>2, <2>7, <2>8
    <3>3. Queue(q)[k + 1] = pend[q][lastrec[q] + (k + 1)].seq
      BY <2>2, <3>2
    <3>4. \A a, b \in Nat : a + (b + 1) = a + 1 + b
      OBVIOUS
    <3>5. lastrec[q] + (k + 1) = lastrec[q] + 1 + k
      BY <2>2, <3>2, <3>4, Zenon
    <3> QED
      BY <2>7, <2>8, <3>1, <3>3, <3>5
  <2>10. Queue(q)' = Tail(Queue(q))
    BY <2>3, <2>7, <2>8, <2>9, SeqEqual
  <2> QED
    BY <1>2, <2>1, <2>5, <2>6, <2>10 DEF View!Take, Queue
<1> QED
  BY <1>5, <1>6

(* The commit of a ring releases the records that were taken from it.      *)
LEMMA CommitReleases ==
  ASSUME IInv, IInv', NEW q \in Rings, CommitRing
  PROVE  View(q)!Release \/ UNCHANGED View(q)!fifoVars
<1>1. UNCHANGED <<dropcnt, out>>
  BY DEF CommitRing
<1>2. CASE q # ri
  <2>1. pend'[q] = pend[q] /\ lastrec'[q] = lastrec[q]
    BY <1>2, CommitFacts
  <2> QED
    BY <1>1, <2>1 DEF View!fifoVars
<1>3. CASE q = ri
  <2>1. /\ lastrec'[q] = 0 /\ Len(pend'[q]) = Len(pend[q]) - lastrec[q]
        /\ \A k \in 1 .. Len(pend'[q]) :
             pend'[q][k] = pend[q][lastrec[q] + k]
    BY <1>3, CommitFacts
  <2>2. /\ Queue(q) \in Seq(Nat) /\ Len(Queue(q)) = Len(pend[q]) - lastrec[q]
        /\ Len(Queue(q)) \in Nat /\ lastrec[q] \in Nat
        /\ \A k \in 1 .. Len(Queue(q)) :
             Queue(q)[k] = pend[q][lastrec[q] + k].seq
    BY QueueFacts DEF QueueIsSeq
  <2>3. /\ Queue(q)' \in Seq(Nat)
        /\ Len(Queue(q)') = Len(pend'[q]) - lastrec'[q]
        /\ \A k \in 1 .. Len(Queue(q)') :
             Queue(q)'[k] = pend'[q][lastrec'[q] + k].seq
    <3>1. QueueIsSeq'
      BY QueueFacts, PTL
    <3> QED
      BY <3>1 DEF QueueIsSeq
  <2>4. Len(Queue(q)') = Len(Queue(q)) /\ Len(Queue(q)') = Len(pend'[q])
    BY <2>1, <2>2, <2>3
  <2>5. \A k \in 1 .. Len(Queue(q)') : Queue(q)'[k] = Queue(q)[k]
    <3> TAKE k \in 1 .. Len(Queue(q)')
    <3>1. Queue(q)'[k] = pend'[q][0 + k].seq
      BY <2>1, <2>3
    <3>2. 0 + k = k
      BY <2>2, <2>4
    <3>3. pend'[q][k] = pend[q][lastrec[q] + k]
      BY <2>1, <2>4
    <3> QED
      BY <2>2, <2>4, <3>1, <3>2, <3>3
  <2>6. Queue(q)' = Queue(q)
    BY <2>2, <2>3, <2>4, <2>5, SeqEqual
  <2>7. CASE lastrec[q] = 0
    BY <1>1, <2>1, <2>6, <2>7 DEF View!fifoVars, Queue
  <2>8. CASE lastrec[q] > 0
    BY <1>1, <2>1, <2>6, <2>8 DEF View!Release, Queue
  <2> QED
    BY <2>2, <2>7, <2>8
<1> QED
  BY <1>2, <1>3

(* The engine treats every ring as the bounded queue that RingFifo         *)
(* specifies: it takes the records of a ring in order, each once, whatever *)
(* their timestamps, and the commit at the end of a pass frees exactly the *)
(* slots of those that were flushed, while the writers go on posting.      *)
THEOREM RefinesFifoHolds == Spec => RefinesFifo
<1>1. Init => \A r \in Rings : View(r)!Init
  <2> SUFFICES ASSUME Init, NEW r \in Rings PROVE View(r)!Init
    OBVIOUS
  <2>1. /\ pend[r] = <<>> /\ lastrec[r] = 0 /\ out[r] = <<>>
        /\ dropcnt[r] = 0
    BY DEF Init
  <2> QED
    BY <2>1 DEF View!Init
<1>2. IInv /\ IInv' /\ [Next]_vars =>
        [\A r \in Rings : View(r)!Next \/ UNCHANGED View(r)!fifoVars]_vars
  <2> SUFFICES ASSUME IInv, IInv', Next, NEW q \in Rings
               PROVE  View(q)!Next \/ UNCHANGED View(q)!fifoVars
    OBVIOUS
  <2> USE DEF ringVars, scanVars, flushVars
  <2>1. CASE UNCHANGED <<pend, lastrec, out, dropcnt>>
    BY <2>1 DEF View!fifoVars
  <2>2. ASSUME NEW r \in Rings, NEW t \in Times, Post(r, t)
        PROVE  View(q)!Next \/ UNCHANGED View(q)!fifoVars
    <3>1. CASE q = r
      <4>1. View(r)!Put \/ View(r)!Drop
        BY <2>2, PostPuts
      <4> QED
        BY <3>1, <4>1 DEF View!Next
    <3>2. CASE q # r
      <4>1. /\ pend'[q] = pend[q] /\ lastrec'[q] = lastrec[q]
            /\ out'[q] = out[q] /\ dropcnt'[q] = dropcnt[q]
        BY <2>2, <3>2 DEF Post, IInv, TypeOK
      <4> QED
        BY <4>1 DEF View!fifoVars
    <3> QED
      BY <3>1, <3>2
  <2>3. CASE FlushOne
    <3>1. View(q)!Take \/ UNCHANGED View(q)!fifoVars
      BY <2>3, FlushTakes
    <3> QED
      BY <3>1 DEF View!Next
  <2>4. CASE CommitRing
    <3>1. View(q)!Release \/ UNCHANGED View(q)!fifoVars
      BY <2>4, CommitReleases
    <3> QED
      BY <3>1 DEF View!Next
  <2> QED
    BY <2>1, <2>2, <2>3, <2>4
    DEF Next, WriterNext, EngineNext, Abandon, ScanRing, PushRecord, EndRing,
        BeginFullFlush, BeginFlush, EndFullFlush, EndFlush, EndPass
<1> QED
  BY <1>1, <1>2, IInvInit, IInvStep, PTL DEF Spec, RefinesFifo
=============================================================================
