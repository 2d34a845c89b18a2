--------------------------- MODULE RegistryProofs ---------------------------
(***************************************************************************)
(* Proofs about Registry, for every finite set of threads and of names,    *)
(* every set of objects, timesources and flags and every bound.            *)
(***************************************************************************)
EXTENDS Registry, FiniteSetTheorems, TLAPS

USE NamesAssumption, FiniteAssumption, BoundsAssumption, NoRingAssumption,
    NoTsAssumption, FlagsAssumption

-----------------------------------------------------------------------------
(* The inductive invariant                                                 *)

(* What a thread refers to at each point of add_ring. Before it inserts a  *)
(* new ring nobody else knows that ring.                                   *)
ThreadInv ==
  \A t \in Threads :
    /\ tnew[t] = NoRing <=> tpc[t] \in {"none", "reuse", "own", "look"}
    /\ tring[t] = NoRing <=> tpc[t] \in {"none", "insert"}
    /\ tpc[t] = "insert" =>
         tnew[t] \notin Registered /\ name[tnew[t]] = tname[t]
    /\ tpc[t] = "inserted" => tring[t] = tnew[t]
    /\ tpc[t] = "found" => tring[t] # tnew[t]
    /\ \A u \in Threads : tnew[t] # NoRing /\ tnew[u] = tnew[t] => u = t

(* A ring is registered under its own name, hence under one name only.     *)
NameInv == \A n \in Names : map[n] # NoRing => name[map[n]] = n

(* The engine works on registered rings, on each once in a pass.           *)
EngineInv ==
  /\ todo \subseteq index /\ index \subseteq Registered
  /\ epc \in {"orphan", "empty", "kill"} =>
       ering \in Registered /\ ering \notin todo
  /\ epc = "release" => ering \in RingIds /\ ering \notin index
  /\ rebuilding <=> epc = "rebuild"

(* The engine commits no more than a ring holds. A ring outside the index  *)
(* has nothing in the TSO buffer, and without TSO no ring has.             *)
TakenInv ==
  /\ \A r \in RingIds : /\ taken[r] <= recs[r]
                        /\ r \notin index \/ ~tso => taken[r] = 0
  /\ epc = "kill" => taken[ering] = 0

(* Once the engine is told to stop nobody registers a ring.                *)
StopInv ==
  /\ draining \/ epc = "stopped" => killed
  /\ killed => \A t \in Threads : tpc[t] \in {"none", "own", "look"}

IInv ==
  /\ TypeOK
  /\ ThreadInv /\ NameInv
  /\ EngineInv /\ TakenInv /\ StopInv
  /\ IndexedOrDirty
  /\ RefsCounted
  /\ StoppedEmpty

-----------------------------------------------------------------------------
(* Counting references                                                     *)

MapRefs(r) == {n \in Names : map[n] = r}
HeldRefs(r) == {t \in Threads : tring[t] = r /\ tnew[t] # r}
NewRefs(r) == {t \in Threads : tnew[t] = r}
ReleaseRefs(r) == IF epc = "release" /\ ering = r THEN 1 ELSE 0

(* A set of references is finite; one more element counts one more.        *)
LEMMA OneMore ==
  ASSUME NEW S, NEW T, NEW x, IsFiniteSet(S), x \notin S, T = S \cup {x}
  PROVE  Cardinality(S) \in Nat /\ Cardinality(T) = Cardinality(S) + 1
  BY FS_AddElement, FS_CardinalityType

(* One element less counts one less.                                       *)
LEMMA OneLess ==
  ASSUME NEW S, NEW T, NEW x, IsFiniteSet(S), x \in S, T = S \ {x}
  PROVE  Cardinality(T) \in Nat /\ Cardinality(T) = Cardinality(S) - 1
  BY FS_RemoveElement, FS_CardinalityType

(* The references to a ring, by who has them.                              *)
LEMMA RefsSum ==
  ASSUME NEW r
  PROVE  /\ References(r) = Cardinality(MapRefs(r)) + ReleaseRefs(r)
                            + Cardinality(HeldRefs(r)) + Cardinality(NewRefs(r))
         /\ IsFiniteSet(MapRefs(r)) /\ Cardinality(MapRefs(r)) \in Nat
         /\ IsFiniteSet(HeldRefs(r)) /\ Cardinality(HeldRefs(r)) \in Nat
         /\ IsFiniteSet(NewRefs(r)) /\ Cardinality(NewRefs(r)) \in Nat
         /\ ReleaseRefs(r) \in {0, 1}
<1>1. MapRefs(r) \subseteq Names /\ HeldRefs(r) \subseteq Threads
      /\ NewRefs(r) \subseteq Threads
  BY DEF MapRefs, HeldRefs, NewRefs
<1>2. /\ IsFiniteSet(MapRefs(r)) /\ IsFiniteSet(HeldRefs(r))
      /\ IsFiniteSet(NewRefs(r))
  BY <1>1, FS_Subset
<1>3. /\ Cardinality(MapRefs(r)) \in Nat /\ Cardinality(HeldRefs(r)) \in Nat
      /\ Cardinality(NewRefs(r)) \in Nat
  BY <1>2, FS_CardinalityType
<1> QED
  BY <1>2, <1>3 DEF References, MapRefs, HeldRefs, NewRefs, ReleaseRefs

(* Whoever refers to a ring keeps it alive.                                *)
LEMMA Referred ==
  ASSUME IInv, NEW r \in RingIds,
         \/ \E n \in Names : map[n] = r
         \/ \E t \in Threads : tring[t] = r \/ tnew[t] = r
         \/ epc = "release" /\ ering = r
  PROVE  r \in live /\ ref[r] > 0 /\ ref[r] = References(r)
<1>1. \/ MapRefs(r) # {} \/ HeldRefs(r) # {} \/ NewRefs(r) # {}
      \/ ReleaseRefs(r) = 1
  BY DEF MapRefs, HeldRefs, NewRefs, ReleaseRefs
<1>2. \/ Cardinality(MapRefs(r)) # 0 \/ Cardinality(HeldRefs(r)) # 0
      \/ Cardinality(NewRefs(r)) # 0 \/ ReleaseRefs(r) = 1
  BY <1>1, RefsSum, FS_EmptySet
<1>3. References(r) > 0
  BY <1>2, RefsSum
<1> QED
  BY <1>3 DEF IInv, RefsCounted

(* Nobody refers to a ring that is not alive.                              *)
LEMMA Unreferred ==
  ASSUME IInv, NEW r \in RingIds, r \notin live
  PROVE  /\ \A n \in Names : map[n] # r
         /\ \A t \in Threads : tring[t] # r /\ tnew[t] # r
         /\ References(r) = 0
<1>1. /\ \A n \in Names : map[n] # r
      /\ \A t \in Threads : tring[t] # r /\ tnew[t] # r
  BY Referred
<1>2. ~(References(r) > 0)
  BY DEF IInv, RefsCounted
<1> QED
  BY <1>1, <1>2, RefsSum

-----------------------------------------------------------------------------
(* Types                                                                   *)

(* Every step keeps the types: no count of references goes below zero and  *)
(* no commit takes more than the ring holds.                               *)
LEMMA TypeStep == IInv /\ [Next]_vars => TypeOK'
<1> SUFFICES ASSUME IInv, [Next]_vars PROVE TypeOK'
  OBVIOUS
<1> USE DEF TypeOK, Go, ringVars, engineVars, threadVars
<1>0. TypeOK
  BY DEF IInv
<1>1. CASE UNCHANGED vars
  BY <1>0, <1>1 DEF vars
<1>2. ASSUME NEW t \in Threads, ThreadNext(t) PROVE TypeOK'
  <2>1. ASSUME NEW n \in Names, NewRing(t, n) PROVE TypeOK'
    BY <1>0, <2>1 DEF NewRing
  <2>2. ASSUME NEW n \in Names, FindRing(t, n) PROVE TypeOK'
    BY <1>0, <2>2 DEF FindRing, Hold
  <2>3. CASE InsertOrFind(t)
    <3> DEFINE r == IF map[tname[t]] = NoRing THEN tnew[t] ELSE map[tname[t]]
    <3>1. r \in RingIds
      BY <1>0, <2>3 DEF InsertOrFind, IInv, ThreadInv
    <3>2. /\ map' \in [Names -> RingIds \cup {NoRing}]
          /\ ref' \in [RingIds -> Nat]
          /\ tring' \in [Threads -> RingIds \cup {NoRing}]
      BY <1>0, <2>3, <3>1 DEF InsertOrFind, Hold
    <3> QED
      BY <1>0, <2>3, <3>2 DEF InsertOrFind
  <2>4. CASE InsertExisting(t)
    <3>1. tnew[t] \in RingIds
      BY <1>0, <2>4 DEF InsertExisting, IInv, ThreadInv
    <3>2. {dirty, rebuilding, killed, draining, tso}' \subseteq BOOLEAN
      BY <1>0, <2>4 DEF InsertExisting
    <3>3. /\ map' \in [Names -> RingIds \cup {NoRing}]
          /\ ref' \in [RingIds -> Nat] /\ rts' \in [RingIds -> TimeSources]
          /\ tring' \in [Threads -> RingIds \cup {NoRing}]
      BY <1>0, <2>4, <3>1 DEF InsertExisting, Hold
    <3> QED
      BY <1>0, <2>4, <3>2, <3>3 DEF InsertExisting
  <2>5. CASE SetDirty(t)
    BY <1>0, <2>5 DEF SetDirty
  <2>6. CASE DropNew(t)
    <3>1. tnew[t] \in RingIds /\ ref[tnew[t]] > 0
      BY <1>0, <2>6, Referred DEF IInv, ThreadInv, DropNew
    <3> QED
      BY <1>0, <2>6, <3>1 DEF DropNew, Release
  <2>7. CASE CheckReuse(t)
    BY <1>0, <2>7 DEF CheckReuse
  <2>8. CASE Post(t)
    <3>1. tring[t] \in RingIds
      BY <1>0, <2>8 DEF Post, IInv, ThreadInv
    <3> QED
      BY <1>0, <2>8, <3>1 DEF Post
  <2>9. CASE ReleaseRing(t)
    <3>1. tring[t] \in RingIds /\ ref[tring[t]] > 0
      BY <1>0, <2>9, Referred DEF IInv, ThreadInv, ReleaseRing
    <3> QED
      BY <1>0, <2>9, <3>1 DEF ReleaseRing, Release
  <2>10. ASSUME NEW s \in TimeSources, PostChange(t, s) PROVE TypeOK'
    <3>1. tring[t] \in RingIds
      BY <1>0, <2>10 DEF PostChange, IInv, ThreadInv
    <3>2. [to |-> s, pos |-> recs[tring[t]] + 1] \in
            [to: TimeSources, pos: 1 .. MaxRecs]
      BY <1>0, <2>10, <3>1 DEF PostChange
    <3> QED
      BY <1>0, <2>10, <3>1, <3>2 DEF PostChange
  <2> QED
    BY <1>2, <2>1, <2>2, <2>3, <2>4, <2>5, <2>6, <2>7, <2>8, <2>9, <2>10
    DEF ThreadNext, AddStep
<1>3. CASE Kill
  BY <1>0, <1>3 DEF Kill
<1>4. CASE TryRebuild
  BY <1>0, <1>4 DEF TryRebuild
<1>5. CASE Rebuild
  <2>1. Registered \subseteq RingIds
    BY <1>0 DEF Registered
  <2>2. {dirty, rebuilding, killed, draining, tso}' \subseteq BOOLEAN
    BY <1>0, <1>5 DEF Rebuild
  <2> QED
    BY <1>0, <1>5, <2>1, <2>2 DEF Rebuild
<1>6. CASE DrainRing
  BY <1>0, <1>6 DEF DrainRing
<1>7. CASE ScanRing
  BY <1>0, <1>7 DEF ScanRing
<1>8. CASE FlushTso
  BY <1>0, <1>8 DEF FlushTso
<1>9. CASE CommitRing
  BY <1>0, <1>9 DEF CommitRing, ChangeDue, IInv, TakenInv
<1>10. CASE SwitchTimesource
  BY <1>0, <1>10 DEF SwitchTimesource, ChangeDue
<1>11. CASE TestOrphan
  BY <1>0, <1>11 DEF TestOrphan
<1>12. CASE TestEmpty
  BY <1>0, <1>12 DEF TestEmpty
<1>13. CASE KillOrphan
  BY <1>0, <1>13 DEF KillOrphan
<1>14. CASE KillFails
  BY <1>0, <1>14 DEF KillFails
<1>15. CASE ReleaseOrphan
  <2>1. ering \in RingIds /\ ref[ering] > 0
    BY <1>0, <1>15, Referred DEF IInv, EngineInv, ReleaseOrphan
  <2> QED
    BY <1>0, <1>15, <2>1 DEF ReleaseOrphan, Release
<1>16. CASE EndPass
  BY <1>0, <1>16 DEF EndPass
<1> QED
  BY <1>1, <1>2, <1>3, <1>4, <1>5, <1>6, <1>7, <1>8, <1>9, <1>10, <1>11,
     <1>12, <1>13, <1>14, <1>15, <1>16 DEF Next, EngineNext

-----------------------------------------------------------------------------
(* Threads and names                                                       *)

(* Every step keeps what is known of the threads and of the names: a new   *)
(* ring is one that nobody refers to, and it is inserted where there is    *)
(* none.                                                                   *)
LEMMA ThreadStep == IInv /\ [Next]_vars => (ThreadInv /\ NameInv /\ StopInv)'
<1> SUFFICES ASSUME IInv, [Next]_vars PROVE (ThreadInv /\ NameInv /\ StopInv)'
  OBVIOUS
<1> USE DEF ThreadInv, NameInv, StopInv, Registered, Go, ringVars, engineVars,
            threadVars
<1>0. TypeOK /\ ThreadInv /\ NameInv /\ StopInv
  BY DEF IInv
<1>1. CASE UNCHANGED vars
  BY <1>0, <1>1 DEF vars
<1>2. ASSUME NEW t \in Threads, ThreadNext(t)
      PROVE  (ThreadInv /\ NameInv /\ StopInv)'
  <2>1. ASSUME NEW n \in Names, NewRing(t, n)
        PROVE  (ThreadInv /\ NameInv /\ StopInv)'
    BY <1>0, <2>1, Unreferred DEF NewRing, TypeOK
  <2>2. ASSUME NEW n \in Names, FindRing(t, n)
        PROVE  (ThreadInv /\ NameInv /\ StopInv)'
    BY <1>0, <2>2 DEF FindRing, TypeOK
  <2>3. CASE InsertOrFind(t)
    BY <1>0, <2>3 DEF InsertOrFind, TypeOK
  <2>4. CASE InsertExisting(t)
    BY <1>0, <2>4 DEF InsertExisting, TypeOK
  <2>5. CASE SetDirty(t)
    BY <1>0, <2>5 DEF SetDirty, TypeOK
  <2>6. CASE DropNew(t)
    BY <1>0, <2>6 DEF DropNew, TypeOK
  <2>7. CASE CheckReuse(t)
    BY <1>0, <2>7 DEF CheckReuse, TypeOK
  <2>8. CASE Post(t)
    BY <1>0, <2>8 DEF Post
  <2>9. CASE ReleaseRing(t)
    BY <1>0, <2>9 DEF ReleaseRing, TypeOK
  <2>10. ASSUME NEW s \in TimeSources, PostChange(t, s)
         PROVE  (ThreadInv /\ NameInv /\ StopInv)'
    BY <1>0, <2>10 DEF PostChange
  <2> QED
    BY <1>2, <2>1, <2>2, <2>3, <2>4, <2>5, <2>6, <2>7, <2>8, <2>9, <2>10
    DEF ThreadNext, AddStep
<1>3. CASE Kill
  BY <1>0, <1>3 DEF Kill
<1>4. CASE TryRebuild
  BY <1>0, <1>4 DEF TryRebuild
<1>5. CASE Rebuild
  BY <1>0, <1>5 DEF Rebuild
<1>6. CASE DrainRing
  BY <1>0, <1>6 DEF DrainRing
<1>7. CASE ScanRing
  BY <1>0, <1>7 DEF ScanRing
<1>8. CASE FlushTso
  BY <1>0, <1>8 DEF FlushTso
<1>9. CASE CommitRing
  BY <1>0, <1>9 DEF CommitRing
<1>10. CASE SwitchTimesource
  BY <1>0, <1>10 DEF SwitchTimesource
<1>11. CASE TestOrphan
  BY <1>0, <1>11 DEF TestOrphan
<1>12. CASE TestEmpty
  BY <1>0, <1>12 DEF TestEmpty
<1>13. CASE KillOrphan
  BY <1>0, <1>13 DEF KillOrphan, TypeOK
<1>14. CASE KillFails
  BY <1>0, <1>14 DEF KillFails
<1>15. CASE ReleaseOrphan
  BY <1>0, <1>15 DEF ReleaseOrphan
<1>16. CASE EndPass
  BY <1>0, <1>16 DEF EndPass
<1> QED
  BY <1>1, <1>2, <1>3, <1>4, <1>5, <1>6, <1>7, <1>8, <1>9, <1>10, <1>11,
     <1>12, <1>13, <1>14, <1>15, <1>16 DEF Next, EngineNext

-----------------------------------------------------------------------------
(* The engine and its index                                                *)

IndexInv == EngineInv /\ TakenInv /\ IndexedOrDirty /\ StoppedEmpty

(* Every step keeps what is known of the index: a ring enters the map with *)
(* the index dirty or about to be, and leaves both at once. When the       *)
(* engine stops no insertion is under way.                                 *)
LEMMA IndexStep == IInv /\ [Next]_vars => IndexInv'
<1> SUFFICES ASSUME IInv, [Next]_vars PROVE IndexInv'
  OBVIOUS
<1> USE DEF IndexInv, EngineInv, TakenInv, IndexedOrDirty, StoppedEmpty,
            Go, ringVars, engineVars, threadVars
<1>0. TypeOK /\ ThreadInv /\ NameInv /\ StopInv /\ IndexInv
  BY DEF IInv
<1>. UNCHANGED map => Registered' = Registered
  BY DEF Registered
<1>1. CASE UNCHANGED vars
  BY <1>0, <1>1 DEF vars
<1>2. ASSUME NEW t \in Threads, ThreadNext(t) PROVE IndexInv'
  <2>1. ASSUME NEW n \in Names, NewRing(t, n) PROVE IndexInv'
    <3>1. PICK r \in RingIds \ live :
            recs' = [recs EXCEPT ![r] = 0] /\ ref' = [ref EXCEPT ![r] = 1]
      BY <2>1 DEF NewRing
    <3>2. r \notin index
      BY <1>0, <3>1, Unreferred DEF Registered
    <3>3. TakenInv'
      BY <1>0, <2>1, <3>1, <3>2 DEF NewRing, TypeOK
    <3>4. IndexedOrDirty'
      BY <1>0, <2>1 DEF NewRing, TypeOK
    <3> QED
      BY <1>0, <2>1, <3>3, <3>4 DEF NewRing
  <2>2. ASSUME NEW n \in Names, FindRing(t, n) PROVE IndexInv'
    BY <1>0, <2>2 DEF FindRing, TypeOK
  <2>3. CASE InsertOrFind(t)
    BY <1>0, <2>3 DEF InsertOrFind, TypeOK, Registered, ThreadInv, StopInv
  <2>4. CASE InsertExisting(t)
    BY <1>0, <2>4 DEF InsertExisting, TypeOK, Registered, ThreadInv, StopInv
  <2>5. CASE SetDirty(t)
    BY <1>0, <2>5 DEF SetDirty, TypeOK
  <2>6. CASE DropNew(t)
    BY <1>0, <2>6 DEF DropNew, TypeOK
  <2>7. CASE CheckReuse(t)
    BY <1>0, <2>7 DEF CheckReuse, TypeOK
  <2>8. CASE Post(t)
    BY <1>0, <2>8 DEF Post, TypeOK
  <2>9. CASE ReleaseRing(t)
    BY <1>0, <2>9 DEF ReleaseRing, TypeOK
  <2>10. ASSUME NEW s \in TimeSources, PostChange(t, s) PROVE IndexInv'
    BY <1>0, <2>10 DEF PostChange, TypeOK
  <2> QED
    BY <1>2, <2>1, <2>2, <2>3, <2>4, <2>5, <2>6, <2>7, <2>8, <2>9, <2>10
    DEF ThreadNext, AddStep
<1>3. CASE Kill
  BY <1>0, <1>3 DEF Kill
<1>4. CASE TryRebuild
  BY <1>0, <1>4 DEF TryRebuild
<1>5. CASE Rebuild
  BY <1>0, <1>5 DEF Rebuild
<1>6. CASE DrainRing
  BY <1>0, <1>6 DEF DrainRing, Flushing, TypeOK
<1>7. CASE ScanRing
  BY <1>0, <1>7 DEF ScanRing, TypeOK
<1>8. CASE FlushTso
  BY <1>0, <1>8 DEF FlushTso
<1>9. CASE CommitRing
  BY <1>0, <1>9 DEF CommitRing, Flushing, TypeOK
<1>10. CASE SwitchTimesource
  BY <1>0, <1>10 DEF SwitchTimesource
<1>11. CASE TestOrphan
  BY <1>0, <1>11 DEF TestOrphan
<1>12. CASE TestEmpty
  BY <1>0, <1>12 DEF TestEmpty, TypeOK, Registered
<1>13. CASE KillOrphan
  BY <1>0, <1>13 DEF KillOrphan, TypeOK, Registered, NameInv
<1>14. CASE KillFails
  BY <1>0, <1>14 DEF KillFails
<1>15. CASE ReleaseOrphan
  BY <1>0, <1>15 DEF ReleaseOrphan
<1>16. CASE EndPass
  BY <1>0, <1>16 DEF EndPass, Drained, StopInv
<1> QED
  BY <1>1, <1>2, <1>3, <1>4, <1>5, <1>6, <1>7, <1>8, <1>9, <1>10, <1>11,
     <1>12, <1>13, <1>14, <1>15, <1>16 DEF Next, EngineNext

-----------------------------------------------------------------------------
(* The reference counts                                                    *)

(* The count of one ring is right.                                         *)
Counted(r) ==
  /\ r \in live <=> References(r) > 0
  /\ r \in live => ref[r] = References(r)

(* Steps that concern no reference to a ring keep its count.               *)
LEMMA CountKept ==
  ASSUME NEW r \in RingIds, Counted(r),
         MapRefs(r)' = MapRefs(r), HeldRefs(r)' = HeldRefs(r),
         NewRefs(r)' = NewRefs(r), ReleaseRefs(r)' = ReleaseRefs(r),
         ref'[r] = ref[r], r \in live' <=> r \in live
  PROVE  Counted(r)'
<1>1. References(r)' = References(r)
  BY DEF References, MapRefs, HeldRefs, NewRefs, ReleaseRefs
<1> QED
  BY <1>1 DEF Counted

(* hold() and one more reference keep the count.                           *)
LEMMA CountHold ==
  ASSUME IInv, NEW r \in RingIds, Counted(r), r \in live,
         References(r)' = References(r) + 1, Hold(r), live' = live
  PROVE  Counted(r)'
<1>1. References(r) \in Nat
  BY RefsSum
<1> QED
  BY <1>1 DEF Counted, Hold, IInv, TypeOK

(* release() and one reference less keep the count, and delete the ring    *)
(* with the last one.                                                      *)
LEMMA CountRelease ==
  ASSUME IInv, NEW r \in RingIds, Counted(r), r \in live,
         References(r)' = References(r) - 1, Release(r)
  PROVE  Counted(r)'
<1>1. References(r) \in Nat
  BY RefsSum
<1> QED
  BY <1>1 DEF Counted, Release, IInv, TypeOK

(* The references of the next state, by who has them.                      *)
LEMMA RefsSumNext ==
  ASSUME NEW r
  PROVE  References(r)' =
           Cardinality(MapRefs(r)') + ReleaseRefs(r)'
           + Cardinality(HeldRefs(r)') + Cardinality(NewRefs(r)')
  BY DEF References, MapRefs, HeldRefs, NewRefs, ReleaseRefs

(* add_ring: the new ring has the reference of its allocation.             *)
LEMMA NewRingCounts ==
  ASSUME IInv, NEW t \in Threads, NEW n \in Names, NewRing(t, n),
         NEW q \in RingIds
  PROVE  Counted(q)'
<1>0. TypeOK /\ ThreadInv /\ Counted(q)
  BY DEF IInv, RefsCounted, Counted
<1>1. PICK r \in RingIds \ live :
        /\ live' = live \cup {r}
        /\ ref' = [ref EXCEPT ![r] = 1]
        /\ tnew' = [tnew EXCEPT ![t] = r]
  BY DEF NewRing
<1>2. tnew[t] = NoRing /\ tring[t] = NoRing /\ tring' = tring /\ map' = map
      /\ epc' = epc /\ ering' = ering
  BY <1>0 DEF NewRing, ThreadInv, engineVars
<1>3. CASE q # r
  <2>1. HeldRefs(q)' = HeldRefs(q) /\ NewRefs(q)' = NewRefs(q)
    BY <1>0, <1>1, <1>2, <1>3 DEF TypeOK, HeldRefs, NewRefs
  <2>2. MapRefs(q)' = MapRefs(q) /\ ReleaseRefs(q)' = ReleaseRefs(q)
    BY <1>2 DEF MapRefs, ReleaseRefs
  <2> QED
    BY <1>0, <1>1, <1>3, <2>1, <2>2, CountKept DEF TypeOK
<1>4. CASE q = r
  <2>1. /\ MapRefs(r)' = {} /\ HeldRefs(r)' = {} /\ NewRefs(r)' = {t}
        /\ ReleaseRefs(r)' = 0
    BY <1>0, <1>1, <1>2, Unreferred, Referred
    DEF TypeOK, MapRefs, HeldRefs, NewRefs, ReleaseRefs
  <2>2. Cardinality({}) = 0 /\ Cardinality({t}) = 1
    BY FS_EmptySet, FS_Singleton
  <2>3. References(r)' = 1
    BY <2>1, <2>2, RefsSumNext
  <2> QED
    BY <1>0, <1>1, <1>4, <2>3 DEF Counted, TypeOK
<1> QED
  BY <1>3, <1>4

(* add_ring: the engine's reference comes with the registration, the       *)
(* thread's with the ring that it finds.                                   *)
LEMMA InsertCounts ==
  ASSUME IInv, NEW t \in Threads, InsertOrFind(t), NEW q \in RingIds
  PROVE  Counted(q)'
<1> DEFINE n == tname[t]
           r == IF map[n] = NoRing THEN tnew[t] ELSE map[n]
<1>0. TypeOK /\ ThreadInv /\ Counted(q) /\ n \in Names
  BY DEF IInv, RefsCounted, Counted, TypeOK
<1>1. /\ tnew[t] \in RingIds /\ tring[t] = NoRing
      /\ map[n] # NoRing => map[n] # tnew[t]
      /\ \A m \in Names : map[m] # tnew[t]
  BY <1>0 DEF InsertOrFind, ThreadInv, TypeOK, Registered
<1>2. r \in RingIds /\ r \in live
  BY <1>0, <1>1, Referred DEF TypeOK
<1>3. /\ map' = [map EXCEPT ![n] = r] /\ tring' = [tring EXCEPT ![t] = r]
      /\ Hold(r) /\ live' = live /\ tnew' = tnew
      /\ epc' = epc /\ ering' = ering
  BY DEF InsertOrFind, engineVars
<1> HIDE DEF r, n
<1>4. NewRefs(q)' = NewRefs(q) /\ ReleaseRefs(q)' = ReleaseRefs(q)
  BY <1>3 DEF NewRefs, ReleaseRefs
<1>5. CASE q # r
  <2>1. MapRefs(q)' = MapRefs(q)
    BY <1>0, <1>1, <1>3, <1>5 DEF MapRefs, TypeOK, r
  <2>2. HeldRefs(q)' = HeldRefs(q)
    BY <1>0, <1>1, <1>3, <1>5 DEF HeldRefs, TypeOK
  <2>3. ref'[q] = ref[q]
    BY <1>0, <1>2, <1>3, <1>5 DEF Hold, TypeOK
  <2> QED
    BY <1>0, <1>3, <1>4, <2>1, <2>2, <2>3, CountKept
<1>6. CASE q = r
  <2>1. CASE map[n] = NoRing
    <3>1. n \notin MapRefs(q) /\ MapRefs(q)' = MapRefs(q) \cup {n}
      BY <1>0, <1>2, <1>3, <1>6, <2>1 DEF MapRefs, TypeOK
    <3>2. HeldRefs(q)' = HeldRefs(q)
      BY <1>0, <1>1, <1>3, <1>6, <2>1 DEF HeldRefs, TypeOK, r
    <3>3. Cardinality(MapRefs(q)') = Cardinality(MapRefs(q)) + 1
      BY <3>1, OneMore, RefsSum
    <3>4. References(q)' = References(q) + 1
      BY <1>4, <3>2, <3>3, RefsSum, RefsSumNext
    <3> QED
      BY <1>0, <1>2, <1>3, <1>6, <3>4, CountHold
  <2>2. CASE map[n] # NoRing
    <3>1. MapRefs(q)' = MapRefs(q)
      BY <1>0, <1>3, <1>6, <2>2 DEF MapRefs, TypeOK, r
    <3>2. t \notin HeldRefs(q) /\ HeldRefs(q)' = HeldRefs(q) \cup {t}
      BY <1>0, <1>1, <1>3, <1>6, <2>2 DEF HeldRefs, TypeOK, r
    <3>3. Cardinality(HeldRefs(q)') = Cardinality(HeldRefs(q)) + 1
      BY <3>2, OneMore, RefsSum
    <3>4. References(q)' = References(q) + 1
      BY <1>4, <3>1, <3>3, RefsSum, RefsSumNext
    <3> QED
      BY <1>0, <1>2, <1>3, <1>6, <3>4, CountHold
  <2> QED
    BY <2>1, <2>2
<1> QED
  BY <1>5, <1>6

(* add_ring of an existing ring: the thread keeps the reference it came    *)
(* with, the engine gets one if the ring is registered.                    *)
LEMMA ExistingCounts ==
  ASSUME IInv, NEW t \in Threads, InsertExisting(t), NEW q \in RingIds
  PROVE  Counted(q)'
<1> DEFINE n == tname[t]
           r == tnew[t]
<1>0. TypeOK /\ ThreadInv /\ Counted(q) /\ n \in Names
  BY DEF IInv, RefsCounted, Counted, TypeOK
<1>1. r \in RingIds /\ r \in live /\ tring[t] = NoRing
      /\ \A m \in Names : map[m] # r
  BY <1>0, Referred DEF InsertExisting, ThreadInv, TypeOK, Registered
<1>2. /\ tring' = [tring EXCEPT ![t] = r]
      /\ tnew' = [tnew EXCEPT ![t] = NoRing]
      /\ live' = live /\ epc' = epc /\ ering' = ering
  BY DEF InsertExisting, engineVars
<1>3. ReleaseRefs(q)' = ReleaseRefs(q)
  BY <1>2 DEF ReleaseRefs
<1>4. \/ /\ map[n] = NoRing
         /\ map' = [map EXCEPT ![n] = r] /\ Hold(r)
      \/ map' = map /\ ref' = ref
  BY DEF InsertExisting
<1> HIDE DEF r, n
<1>5. CASE q # r
  <2>1. MapRefs(q)' = MapRefs(q)
    BY <1>0, <1>1, <1>4, <1>5 DEF MapRefs, TypeOK
  <2>2. HeldRefs(q)' = HeldRefs(q) /\ NewRefs(q)' = NewRefs(q)
    BY <1>0, <1>1, <1>2, <1>5 DEF HeldRefs, NewRefs, TypeOK, r
  <2>3. ref'[q] = ref[q]
    BY <1>0, <1>1, <1>4, <1>5 DEF Hold, TypeOK
  <2> QED
    BY <1>0, <1>2, <1>3, <2>1, <2>2, <2>3, CountKept
<1>6. CASE q = r
  <2>1. t \notin HeldRefs(q) /\ HeldRefs(q)' = HeldRefs(q) \cup {t}
    BY <1>0, <1>1, <1>2, <1>6 DEF HeldRefs, TypeOK, r
  <2>2. t \in NewRefs(q) /\ NewRefs(q)' = NewRefs(q) \ {t}
    BY <1>0, <1>1, <1>2, <1>6 DEF NewRefs, TypeOK, r
  <2>3. Cardinality(HeldRefs(q)') = Cardinality(HeldRefs(q)) + 1
    BY <2>1, OneMore, RefsSum
  <2>4. Cardinality(NewRefs(q)') = Cardinality(NewRefs(q)) - 1
    BY <2>2, OneLess, RefsSum
  <2>5. CASE map[n] = NoRing /\ map' = [map EXCEPT ![n] = r] /\ Hold(r)
    <3>1. n \notin MapRefs(q) /\ MapRefs(q)' = MapRefs(q) \cup {n}
      BY <1>0, <1>1, <1>6, <2>5 DEF MapRefs, TypeOK
    <3>2. Cardinality(MapRefs(q)') = Cardinality(MapRefs(q)) + 1
      BY <3>1, OneMore, RefsSum
    <3>3. References(q)' = References(q) + 1
      BY <1>3, <2>3, <2>4, <3>2, RefsSum, RefsSumNext
    <3> QED
      BY <1>0, <1>1, <1>2, <1>6, <2>5, <3>3, CountHold
  <2>6. CASE map' = map /\ ref' = ref
    <3>1. MapRefs(q)' = MapRefs(q)
      BY <2>6 DEF MapRefs
    <3>2. References(q)' = References(q)
      BY <1>3, <2>3, <2>4, <3>1, RefsSum, RefsSumNext
    <3> QED
      BY <1>0, <1>2, <2>6, <3>2 DEF Counted
  <2> QED
    BY <1>4, <2>5, <2>6
<1> QED
  BY <1>5, <1>6

(* add_ring after the insertion: the reference of the allocation is the    *)
(* thread's now.                                                           *)
LEMMA SetDirtyCounts ==
  ASSUME IInv, NEW t \in Threads, SetDirty(t), NEW q \in RingIds
  PROVE  Counted(q)'
<1>0. TypeOK /\ ThreadInv /\ Counted(q)
  BY DEF IInv, RefsCounted, Counted
<1>1. tring[t] = tnew[t] /\ tnew[t] \in RingIds
  BY <1>0 DEF SetDirty, ThreadInv, TypeOK
<1>2. /\ tnew' = [tnew EXCEPT ![t] = NoRing] /\ tring' = tring /\ map' = map
      /\ epc' = epc /\ ering' = ering /\ live' = live /\ ref' = ref
  BY DEF SetDirty, ringVars, engineVars
<1>3. MapRefs(q)' = MapRefs(q) /\ ReleaseRefs(q)' = ReleaseRefs(q)
  BY <1>2 DEF MapRefs, ReleaseRefs
<1>4. CASE q # tnew[t]
  <2>1. HeldRefs(q)' = HeldRefs(q) /\ NewRefs(q)' = NewRefs(q)
    BY <1>0, <1>1, <1>2, <1>4 DEF HeldRefs, NewRefs, TypeOK
  <2> QED
    BY <1>0, <1>2, <1>3, <2>1, CountKept
<1>5. CASE q = tnew[t]
  <2>1. t \notin HeldRefs(q) /\ HeldRefs(q)' = HeldRefs(q) \cup {t}
    BY <1>0, <1>1, <1>2, <1>5 DEF HeldRefs, TypeOK
  <2>2. t \in NewRefs(q) /\ NewRefs(q)' = NewRefs(q) \ {t}
    BY <1>0, <1>1, <1>2, <1>5 DEF NewRefs, TypeOK
  <2>3. Cardinality(HeldRefs(q)') = Cardinality(HeldRefs(q)) + 1
    BY <2>1, OneMore, RefsSum
  <2>4. Cardinality(NewRefs(q)') = Cardinality(NewRefs(q)) - 1
    BY <2>2, OneLess, RefsSum
  <2>5. References(q)' = References(q)
    BY <1>3, <2>3, <2>4, RefsSum, RefsSumNext
  <2> QED
    BY <1>0, <1>2, <2>5 DEF Counted
<1> QED
  BY <1>4, <1>5

(* add_ring of a name that is taken: the new ring goes.                    *)
LEMMA DropNewCounts ==
  ASSUME IInv, NEW t \in Threads, DropNew(t), NEW q \in RingIds
  PROVE  Counted(q)'
<1>0. TypeOK /\ ThreadInv /\ Counted(q)
  BY DEF IInv, RefsCounted, Counted
<1>1. /\ tnew[t] \in RingIds /\ tring[t] # tnew[t] /\ tring[t] # NoRing
      /\ tnew[t] \in live
  BY <1>0, Referred DEF DropNew, ThreadInv, TypeOK
<1>2. /\ tnew' = [tnew EXCEPT ![t] = NoRing] /\ tring' = tring /\ map' = map
      /\ epc' = epc /\ ering' = ering /\ Release(tnew[t])
  BY DEF DropNew, engineVars
<1>3. MapRefs(q)' = MapRefs(q) /\ ReleaseRefs(q)' = ReleaseRefs(q)
  BY <1>2 DEF MapRefs, ReleaseRefs
<1>4. HeldRefs(q)' = HeldRefs(q)
  BY <1>0, <1>1, <1>2 DEF HeldRefs, TypeOK
<1>5. CASE q # tnew[t]
  <2>1. NewRefs(q)' = NewRefs(q)
    BY <1>0, <1>1, <1>2, <1>5 DEF NewRefs, TypeOK
  <2>2. ref'[q] = ref[q] /\ (q \in live' <=> q \in live)
    BY <1>0, <1>1, <1>2, <1>5 DEF Release, TypeOK
  <2> QED
    BY <1>0, <1>3, <1>4, <2>1, <2>2, CountKept
<1>6. CASE q = tnew[t]
  <2>1. t \in NewRefs(q) /\ NewRefs(q)' = NewRefs(q) \ {t}
    BY <1>0, <1>1, <1>2, <1>6 DEF NewRefs, TypeOK
  <2>2. Cardinality(NewRefs(q)') = Cardinality(NewRefs(q)) - 1
    BY <2>1, OneLess, RefsSum
  <2>3. References(q)' = References(q) - 1
    BY <1>3, <1>4, <2>2, RefsSum, RefsSumNext
  <2> QED
    BY <1>0, <1>1, <1>2, <1>6, <2>3, CountRelease
<1> QED
  BY <1>5, <1>6

(* find_ring: a reference for the thread.                                  *)
LEMMA FindCounts ==
  ASSUME IInv, NEW t \in Threads, NEW n \in Names, FindRing(t, n),
         NEW q \in RingIds
  PROVE  Counted(q)'
<1>0. TypeOK /\ ThreadInv /\ Counted(q)
  BY DEF IInv, RefsCounted, Counted
<1>1. /\ map[n] \in RingIds /\ map[n] \in live
      /\ tnew[t] = NoRing /\ tring[t] = NoRing
  BY <1>0, Referred DEF FindRing, ThreadInv, TypeOK
<1>2. /\ tring' = [tring EXCEPT ![t] = map[n]] /\ tnew' = tnew /\ map' = map
      /\ epc' = epc /\ ering' = ering /\ live' = live /\ Hold(map[n])
  BY DEF FindRing, engineVars
<1>3. /\ MapRefs(q)' = MapRefs(q) /\ ReleaseRefs(q)' = ReleaseRefs(q)
      /\ NewRefs(q)' = NewRefs(q)
  BY <1>2 DEF MapRefs, ReleaseRefs, NewRefs
<1>4. CASE q # map[n]
  <2>1. HeldRefs(q)' = HeldRefs(q)
    BY <1>0, <1>1, <1>2, <1>4 DEF HeldRefs, TypeOK
  <2>2. ref'[q] = ref[q]
    BY <1>0, <1>1, <1>2, <1>4 DEF Hold, TypeOK
  <2> QED
    BY <1>0, <1>2, <1>3, <2>1, <2>2, CountKept
<1>5. CASE q = map[n]
  <2>1. t \notin HeldRefs(q) /\ HeldRefs(q)' = HeldRefs(q) \cup {t}
    BY <1>0, <1>1, <1>2, <1>5 DEF HeldRefs, TypeOK
  <2>2. Cardinality(HeldRefs(q)') = Cardinality(HeldRefs(q)) + 1
    BY <2>1, OneMore, RefsSum
  <2>3. References(q)' = References(q) + 1
    BY <1>3, <2>2, RefsSum, RefsSumNext
  <2> QED
    BY <1>0, <1>1, <1>2, <1>5, <2>3, CountHold
<1> QED
  BY <1>4, <1>5

(* release: a reference of the thread less.                                *)
LEMMA ReleaseCounts ==
  ASSUME IInv, NEW t \in Threads, ReleaseRing(t), NEW q \in RingIds
  PROVE  Counted(q)'
<1>0. TypeOK /\ ThreadInv /\ Counted(q)
  BY DEF IInv, RefsCounted, Counted
<1>1. tring[t] \in RingIds /\ tring[t] \in live /\ tnew[t] = NoRing
  BY <1>0, Referred DEF ReleaseRing, ThreadInv, TypeOK
<1>2. /\ tring' = [tring EXCEPT ![t] = NoRing] /\ tnew' = tnew /\ map' = map
      /\ epc' = epc /\ ering' = ering /\ Release(tring[t])
  BY DEF ReleaseRing, engineVars
<1>3. /\ MapRefs(q)' = MapRefs(q) /\ ReleaseRefs(q)' = ReleaseRefs(q)
      /\ NewRefs(q)' = NewRefs(q)
  BY <1>2 DEF MapRefs, ReleaseRefs, NewRefs
<1>4. CASE q # tring[t]
  <2>1. HeldRefs(q)' = HeldRefs(q)
    BY <1>0, <1>1, <1>2, <1>4 DEF HeldRefs, TypeOK
  <2>2. ref'[q] = ref[q] /\ (q \in live' <=> q \in live)
    BY <1>0, <1>1, <1>2, <1>4 DEF Release, TypeOK
  <2> QED
    BY <1>0, <1>3, <2>1, <2>2, CountKept
<1>5. CASE q = tring[t]
  <2>1. t \in HeldRefs(q) /\ HeldRefs(q)' = HeldRefs(q) \ {t}
    BY <1>0, <1>1, <1>2, <1>5 DEF HeldRefs, TypeOK
  <2>2. Cardinality(HeldRefs(q)') = Cardinality(HeldRefs(q)) - 1
    BY <2>1, OneLess, RefsSum
  <2>3. References(q)' = References(q) - 1
    BY <1>3, <2>2, RefsSum, RefsSumNext
  <2> QED
    BY <1>0, <1>1, <1>2, <1>5, <2>3, CountRelease
<1> QED
  BY <1>4, <1>5

(* kill_orphan: the reference of the registration is the engine's own...   *)
LEMMA KillCounts ==
  ASSUME IInv, KillOrphan, NEW q \in RingIds
  PROVE  Counted(q)'
<1>0. TypeOK /\ NameInv /\ Counted(q)
  BY DEF IInv, RefsCounted, Counted
<1>1. /\ ering \in RingIds /\ map[name[ering]] = ering /\ name[ering] \in Names
      /\ \A m \in Names : map[m] = ering => m = name[ering]
  BY <1>0 DEF IInv, EngineInv, NameInv, Registered, KillOrphan, TypeOK
<1>2. /\ map' = [map EXCEPT ![name[ering]] = NoRing]
      /\ epc = "kill" /\ epc' = "release" /\ ering' = ering
      /\ tring' = tring /\ tnew' = tnew /\ live' = live /\ ref' = ref
  BY DEF KillOrphan, ringVars, threadVars
<1>3. HeldRefs(q)' = HeldRefs(q) /\ NewRefs(q)' = NewRefs(q)
  BY <1>2 DEF HeldRefs, NewRefs
<1>4. CASE q # ering
  <2>1. MapRefs(q)' = MapRefs(q) /\ ReleaseRefs(q)' = ReleaseRefs(q)
    BY <1>0, <1>1, <1>2, <1>4 DEF MapRefs, ReleaseRefs, TypeOK
  <2> QED
    BY <1>0, <1>2, <1>3, <2>1, CountKept
<1>5. CASE q = ering
  <2>1. /\ name[ering] \in MapRefs(q)
        /\ MapRefs(q)' = MapRefs(q) \ {name[ering]}
    BY <1>0, <1>1, <1>2, <1>5 DEF MapRefs, TypeOK
  <2>2. Cardinality(MapRefs(q)') = Cardinality(MapRefs(q)) - 1
    BY <2>1, OneLess, RefsSum
  <2>3. ReleaseRefs(q) = 0 /\ ReleaseRefs(q)' = 1
    BY <1>2, <1>5 DEF ReleaseRefs
  <2>4. References(q)' = References(q)
    BY <1>3, <2>2, <2>3, RefsSum, RefsSumNext
  <2> QED
    BY <1>0, <1>2, <2>4 DEF Counted
<1> QED
  BY <1>4, <1>5

(* ... and is dropped.                                                     *)
LEMMA OrphanCounts ==
  ASSUME IInv, ReleaseOrphan, NEW q \in RingIds
  PROVE  Counted(q)'
<1>0. TypeOK /\ Counted(q)
  BY DEF IInv, RefsCounted, Counted
<1>1. ering \in RingIds /\ ering \in live
  BY Referred DEF IInv, EngineInv, ReleaseOrphan
<1>2. /\ epc = "release" /\ epc' = "scan" /\ map' = map /\ Release(ering)
      /\ tring' = tring /\ tnew' = tnew
  BY DEF ReleaseOrphan, threadVars
<1>3. /\ HeldRefs(q)' = HeldRefs(q) /\ NewRefs(q)' = NewRefs(q)
      /\ MapRefs(q)' = MapRefs(q)
  BY <1>2 DEF HeldRefs, NewRefs, MapRefs
<1>4. ReleaseRefs(q)' = 0 /\ ReleaseRefs(q) = IF q = ering THEN 1 ELSE 0
  BY <1>2 DEF ReleaseRefs
<1>5. CASE q # ering
  <2>1. ref'[q] = ref[q] /\ (q \in live' <=> q \in live)
    BY <1>0, <1>1, <1>2, <1>5 DEF Release, TypeOK
  <2> QED
    BY <1>0, <1>3, <1>4, <1>5, <2>1, CountKept
<1>6. CASE q = ering
  <2>1. References(q)' = References(q) - 1
    BY <1>3, <1>4, <1>6, RefsSum, RefsSumNext
  <2> QED
    BY <1>0, <1>1, <1>2, <1>6, <2>1, CountRelease
<1> QED
  BY <1>5, <1>6

(* The other steps touch no reference.                                     *)
LEMMA QuietCounts ==
  ASSUME IInv, NEW q \in RingIds,
         UNCHANGED <<live, ref, map, tring, tnew>>,
         \/ UNCHANGED <<epc, ering>>
         \/ epc # "release" /\ epc' # "release"
  PROVE  Counted(q)'
<1>1. Counted(q)
  BY DEF IInv, RefsCounted, Counted
<1>2. /\ MapRefs(q)' = MapRefs(q) /\ HeldRefs(q)' = HeldRefs(q)
      /\ NewRefs(q)' = NewRefs(q) /\ ReleaseRefs(q)' = ReleaseRefs(q)
  BY DEF MapRefs, HeldRefs, NewRefs, ReleaseRefs
<1> QED
  BY <1>1, <1>2, CountKept

(* Every step keeps the counts.                                            *)
LEMMA CountStep == IInv /\ [Next]_vars => RefsCounted'
<1> SUFFICES ASSUME IInv, [Next]_vars, NEW q \in RingIds PROVE Counted(q)'
  BY DEF RefsCounted, Counted
<1> USE DEF ringVars, engineVars, threadVars
<1>1. CASE UNCHANGED vars
  BY <1>1, QuietCounts DEF vars
<1>2. ASSUME NEW t \in Threads, ThreadNext(t) PROVE Counted(q)'
  <2>1. ASSUME NEW n \in Names, NewRing(t, n) PROVE Counted(q)'
    BY <2>1, NewRingCounts
  <2>2. ASSUME NEW n \in Names, FindRing(t, n) PROVE Counted(q)'
    BY <2>2, FindCounts
  <2>3. CASE InsertOrFind(t)
    BY <2>3, InsertCounts
  <2>4. CASE InsertExisting(t)
    BY <2>4, ExistingCounts
  <2>5. CASE SetDirty(t)
    BY <2>5, SetDirtyCounts
  <2>6. CASE DropNew(t)
    BY <2>6, DropNewCounts
  <2>7. CASE CheckReuse(t)
    BY <2>7, QuietCounts DEF CheckReuse
  <2>8. CASE Post(t)
    BY <2>8, QuietCounts DEF Post
  <2>9. CASE ReleaseRing(t)
    BY <2>9, ReleaseCounts
  <2>10. ASSUME NEW s \in TimeSources, PostChange(t, s) PROVE Counted(q)'
    BY <2>10, QuietCounts DEF PostChange
  <2> QED
    BY <1>2, <2>1, <2>2, <2>3, <2>4, <2>5, <2>6, <2>7, <2>8, <2>9, <2>10
    DEF ThreadNext, AddStep
<1>3. CASE Kill
  BY <1>3, QuietCounts DEF Kill
<1>4. CASE TryRebuild
  BY <1>4, QuietCounts DEF TryRebuild
<1>5. CASE Rebuild
  BY <1>5, QuietCounts DEF Rebuild
<1>6. CASE DrainRing
  BY <1>6, QuietCounts DEF DrainRing, Flushing
<1>7. CASE ScanRing
  BY <1>7, QuietCounts DEF ScanRing
<1>8. CASE FlushTso
  BY <1>8, QuietCounts DEF FlushTso
<1>9. CASE CommitRing
  BY <1>9, QuietCounts DEF CommitRing
<1>10. CASE SwitchTimesource
  BY <1>10, QuietCounts DEF SwitchTimesource
<1>11. CASE TestOrphan
  BY <1>11, QuietCounts DEF TestOrphan
<1>12. CASE TestEmpty
  BY <1>12, QuietCounts DEF TestEmpty
<1>13. CASE KillOrphan
  BY <1>13, KillCounts
<1>14. CASE KillFails
  BY <1>14, QuietCounts DEF KillFails
<1>15. CASE ReleaseOrphan
  BY <1>15, OrphanCounts
<1>16. CASE EndPass
  BY <1>16, QuietCounts DEF EndPass
<1> QED
  BY <1>1, <1>2, <1>3, <1>4, <1>5, <1>6, <1>7, <1>8, <1>9, <1>10, <1>11,
     <1>12, <1>13, <1>14, <1>15, <1>16 DEF Next, EngineNext

-----------------------------------------------------------------------------
(* The theorems                                                            *)

(* The invariant holds initially.                                          *)
LEMMA IInvInit == Init => IInv
<1> SUFFICES ASSUME Init PROVE IInv
  OBVIOUS
<1>1. TypeOK
  <2>1. /\ name \in [RingIds -> Names] /\ tname \in [Threads -> Names]
    BY DEF Init
  <2>2. {dirty, rebuilding, killed, draining, tso} \subseteq BOOLEAN
    BY DEF Init
  <2> QED
    BY <2>1, <2>2 DEF Init, TypeOK
<1>2. ThreadInv /\ NameInv /\ EngineInv /\ TakenInv /\ StopInv
  BY DEF Init, ThreadInv, NameInv, EngineInv, TakenInv, StopInv, Registered
<1>3. IndexedOrDirty /\ StoppedEmpty
  BY DEF Init, IndexedOrDirty, StoppedEmpty, Registered
<1>4. ASSUME NEW r \in RingIds
      PROVE  References(r) = 0
  <2>1. /\ MapRefs(r) = {} /\ HeldRefs(r) = {} /\ NewRefs(r) = {}
        /\ ReleaseRefs(r) = 0
    BY DEF Init, MapRefs, HeldRefs, NewRefs, ReleaseRefs
  <2>2. /\ Cardinality(MapRefs(r)) = 0 /\ Cardinality(HeldRefs(r)) = 0
        /\ Cardinality(NewRefs(r)) = 0
    BY <2>1, FS_EmptySet
  <2>3. References(r) = 0 + 0 + 0 + 0
    BY <2>1, <2>2, RefsSum
  <2> QED
    BY <2>3
<1>5. RefsCounted
  BY <1>4 DEF Init, RefsCounted
<1> QED
  BY <1>1, <1>2, <1>3, <1>5 DEF IInv

(* Every step keeps the invariant.                                         *)
LEMMA IInvStep == IInv /\ [Next]_vars => IInv'
  BY TypeStep, ThreadStep, IndexStep, CountStep DEF IInv, IndexInv

(* Every reachable state is well typed: in particular no reference count   *)
(* goes below zero and no commit takes more than a ring holds.             *)
THEOREM TypeCorrect == Spec => []TypeOK
<1>1. IInv => TypeOK
  BY DEF IInv
<1> QED
  BY <1>1, IInvInit, IInvStep, PTL DEF Spec

(* A ring is alive exactly as long as someone refers to it and _refcnt     *)
(* says how often, for all interleavings of add_ring, find_ring, release   *)
(* and kill_orphan.                                                        *)
THEOREM RefsCountedHolds == Spec => []RefsCounted
<1>1. IInv => RefsCounted
  BY DEF IInv
<1> QED
  BY <1>1, IInvInit, IInvStep, PTL DEF Spec

(* The engine processes registered rings only, and forgets none although   *)
(* dirty is set outside of the mutex.                                      *)
THEOREM IndexedOrDirtyHolds == Spec => []IndexedOrDirty
<1>1. IInv => IndexedOrDirty
  BY DEF IInv
<1> QED
  BY <1>1, IInvInit, IInvStep, PTL DEF Spec

(* The engine thread ends with no ring registered.                         *)
THEOREM StoppedEmptyHolds == Spec => []StoppedEmpty
<1>1. IInv => StoppedEmpty
  BY DEF IInv
<1> QED
  BY <1>1, IInvInit, IInvStep, PTL DEF Spec
=============================================================================
