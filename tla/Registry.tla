------------------------------ MODULE Registry ------------------------------
(***************************************************************************)
(* The rings of an engine: the map of registered rings under _ring_mutex,  *)
(* the index the engine thread works from, and the reference counts that   *)
(* decide when a ring is reused, unregistered and deleted.                 *)
(*                                                                         *)
(* Threads call add_ring, find_ring, post and release; the engine thread   *)
(* rebuilds its index, drains rings, kills orphans, switches the           *)
(* timesource, and drains what is left when the engine is destroyed.       *)
(* The critical sections of _ring_mutex are single steps, except the one   *)
(* of rebuild_ring_index, during which _ring_index.dirty may be set.       *)
(***************************************************************************)
EXTENDS Naturals, FiniteSets

CONSTANTS
  Threads,
  Names,        \* ring names
  RingIds,      \* ringbuf objects; a deleted one may be allocated again
  NoRing,       \* a null pointer
  SharedNames,    \* names of the rings with flag SHARED
  ReusableNames,  \* names of the rings with flag REUSABLE
  TimeSources,
  NoTs,         \* no timesource change is waiting in a ring
  MaxRecs,      \* bound: records waiting in one ring
  MaxAdds       \* bound: calls of add_ring and find_ring

ASSUME NamesAssumption == Names # {}
ASSUME FiniteAssumption == IsFiniteSet(Names) /\ IsFiniteSet(Threads)
ASSUME BoundsAssumption == MaxRecs \in Nat /\ MaxAdds \in Nat
ASSUME NoRingAssumption == NoRing \notin RingIds
ASSUME NoTsAssumption == NoTs \notin TimeSources
ASSUME FlagsAssumption == (SharedNames \cup ReusableNames) \subseteq Names

VARIABLES
  live,       \* the allocated ringbuf objects
  name, ref, recs, rts,   \* their names, _refcnt, number of unread records
                          \* and _timesource
  change,     \* of a ring: an unread change record, the timesource in it and
              \* its position among the unread records
  map,        \* _ring_map
  index,      \* the rings of the valid entries of _ring_index
  dirty,      \* _ring_index.dirty
  rebuilding, \* the engine holds _ring_mutex in rebuild_ring_index
  ts,         \* engine::_timesource
  tso,        \* features without DISABLE_TSO, chosen once
  killed,     \* _killed
  epc, todo, ering, draining,   \* the engine thread: control point, rings
                                \* left in this pass, the ring at hand, and
                                \* whether it is in drain_rings
  taken,      \* of a ring: records pushed into the TSO buffer in this pass
  tpc, tnew, tring, tname, \* a thread: control point, the ring it
                           \* allocated, the ring it holds, and its name
  adds        \* the calls of add_ring and find_ring so far

ringVars == <<live, name, ref, recs, rts>>
engineVars == <<epc, todo, ering, draining, taken>>
threadVars == <<tpc, tnew, tring, tname, adds>>
vars == <<ringVars, map, index, dirty, rebuilding, ts, change, killed,
          tso, engineVars, threadVars>>

Registered == {map[n] : n \in Names} \ {NoRing}

(* ringbuf::hold and ringbuf::release. The object goes with its last       *)
(* reference.                                                              *)
Hold(r) == ref' = [ref EXCEPT ![r] = @ + 1]

(* Variants with the suffix Bug are deliberately wrong: they show that the *)
(* properties notice the difference.                                       *)
Release_TwiceBug(r) ==
  /\ ref' = [ref EXCEPT ![r] = @ - 2]
  /\ live' = IF ref[r] <= 2 THEN live \ {r} ELSE live

Release_LeakBug(r) ==
  /\ ref' = [ref EXCEPT ![r] = @ - 1]
  /\ UNCHANGED live

Release(r) ==
  /\ ref' = [ref EXCEPT ![r] = @ - 1]
  /\ live' = IF ref[r] = 1 THEN live \ {r} ELSE live

Go(t, l) == tpc' = [tpc EXCEPT ![t] = l]

-----------------------------------------------------------------------------
(* Threads: add_ring                                                       *)

(* A new object with one reference and the timesource of the moment. The   *)
(* engine is not destroyed while threads still register rings.             *)
NewRing(t, n) ==
  /\ tpc[t] = "none" /\ adds < MaxAdds /\ ~killed
  /\ \E r \in RingIds \ live :
       /\ live' = live \cup {r}
       /\ name' = [name EXCEPT ![r] = n]
       /\ ref' = [ref EXCEPT ![r] = 1]
       /\ recs' = [recs EXCEPT ![r] = 0]
       /\ rts' = [rts EXCEPT ![r] = ts]
       /\ change' = [change EXCEPT ![r] = NoTs]
       /\ tnew' = [tnew EXCEPT ![t] = r]
  /\ tname' = [tname EXCEPT ![t] = n]
  /\ adds' = adds + 1
  /\ Go(t, "insert")
  /\ UNCHANGED <<map, index, dirty, rebuilding, ts, killed, tso, engineVars,
                 tring>>

(* add_ring(name): insert unless the name is taken, and hold the ring that *)
(* the name now stands for.                                                *)
InsertOrFind(t) ==
  LET n == tname[t]
      r == IF map[n] = NoRing THEN tnew[t] ELSE map[n]
  IN  /\ tpc[t] = "insert" /\ ~rebuilding
      /\ map' = [map EXCEPT ![n] = r]
      /\ Hold(r)
      /\ tring' = [tring EXCEPT ![t] = r]
      /\ Go(t, IF r = tnew[t] THEN "inserted" ELSE "found")
      /\ UNCHANGED <<live, name, recs, rts, index, dirty, rebuilding, ts,
                     change, killed, tso, engineVars, tnew, tname, adds>>

(* The index is invalidated after the mutex was released. The reference of *)
(* the allocation belongs to the caller now, the other one to the engine.  *)
SetDirty_ForgottenBug(t) ==
  /\ tpc[t] = "inserted"
  /\ tnew' = [tnew EXCEPT ![t] = NoRing]
  /\ Go(t, "own")
  /\ UNCHANGED <<ringVars, map, index, dirty, rebuilding, ts, change, killed,
                 tso, engineVars, tring, tname, adds>>

SetDirty(t) ==
  /\ tpc[t] = "inserted"
  /\ dirty' = TRUE
  /\ tnew' = [tnew EXCEPT ![t] = NoRing]
  /\ Go(t, "own")
  /\ UNCHANGED <<ringVars, map, index, rebuilding, ts, change, killed, tso,
                 engineVars, tring, tname, adds>>

(* The name was taken: the new ring goes...                                *)
DropNew(t) ==
  /\ tpc[t] = "found"
  /\ Release(tnew[t])
  /\ tnew' = [tnew EXCEPT ![t] = NoRing]
  /\ Go(t, "reuse")
  /\ UNCHANGED <<name, recs, rts, map, index, dirty, rebuilding, ts, change,
                 killed, tso, engineVars, tring, tname, adds>>

(* ... and the old one is reused if it is shared, or if it is reusable and *)
(* nobody but the engine and the caller has a reference.                   *)
CanReuse(r) ==
  \/ name[r] \in SharedNames
  \/ name[r] \in ReusableNames /\ ref[r] = 2

CheckReuse(t) ==
  /\ tpc[t] = "reuse"
  /\ Go(t, IF CanReuse(tring[t]) THEN "own" ELSE "look")
  /\ UNCHANGED <<ringVars, map, index, dirty, rebuilding, ts, change, killed,
                 tso, engineVars, tnew, tring, tname, adds>>

(* add_ring of an existing ringbuf, all under the mutex: the caller keeps  *)
(* its reference, or drops it if the name is taken.                        *)
InsertExisting(t) ==
  LET n == tname[t]
      r == tnew[t]
  IN  /\ tpc[t] = "insert" /\ ~rebuilding
      /\ \/ /\ map[n] = NoRing
            /\ map' = [map EXCEPT ![n] = r]
            /\ dirty' = TRUE
            /\ Hold(r)
            /\ rts' = [rts EXCEPT ![r] = ts]
            /\ Go(t, "own")
         \/ /\ map[n] # NoRing
            /\ Go(t, "look")
            /\ UNCHANGED <<map, dirty, ref, rts>>
      /\ tring' = [tring EXCEPT ![t] = r]
      /\ tnew' = [tnew EXCEPT ![t] = NoRing]
      /\ UNCHANGED <<live, name, recs, index, rebuilding, ts, change, killed,
                     tso, engineVars, tname, adds>>

-----------------------------------------------------------------------------
(* Threads: the other calls                                                *)

(* find_ring: a reference for looking at the ring.                         *)
FindRing(t, n) ==
  /\ tpc[t] = "none" /\ adds < MaxAdds /\ ~killed
  /\ ~rebuilding
  /\ map[n] # NoRing
  /\ Hold(map[n])
  /\ tring' = [tring EXCEPT ![t] = map[n]]
  /\ adds' = adds + 1
  /\ Go(t, "look")
  /\ UNCHANGED <<live, name, recs, rts, map, index, dirty, rebuilding, ts,
                 change, killed, tso, engineVars, tnew, tname>>

(* A record is posted into the ring of the thread.                         *)
Post(t) ==
  /\ tpc[t] = "own"
  /\ recs[tring[t]] < MaxRecs
  /\ recs' = [recs EXCEPT ![tring[t]] = @ + 1]
  /\ UNCHANGED <<live, name, ref, rts, map, index, dirty, rebuilding, ts,
                 change, killed, tso, engineVars, threadVars>>

(* change_timesource: a special record in the ring of the thread.          *)
PostChange(t, s) ==
  LET r == tring[t]
  IN  /\ tpc[t] = "own"
      /\ recs[r] < MaxRecs /\ change[r] = NoTs
      /\ recs' = [recs EXCEPT ![r] = @ + 1]
      /\ change' = [change EXCEPT ![r] = [to |-> s, pos |-> recs[r] + 1]]
      /\ UNCHANGED <<live, name, ref, rts, map, index, dirty, rebuilding, ts,
                     killed, tso, engineVars, threadVars>>

(* release() of the ring that a thread owns or looked at.                  *)
ReleaseRing(t) ==
  /\ tpc[t] \in {"own", "look"}
  /\ Release(tring[t])
  /\ tring' = [tring EXCEPT ![t] = NoRing]
  /\ Go(t, "none")
  /\ UNCHANGED <<name, recs, rts, map, index, dirty, rebuilding, ts, change,
                 killed, tso, engineVars, tnew, tname, adds>>

(* ~engine() asks the thread to stop.                                      *)
Kill ==
  /\ ~killed
  /\ \A t \in Threads : tpc[t] \in {"none", "own", "look"}
  /\ killed' = TRUE
  /\ UNCHANGED <<ringVars, map, index, dirty, rebuilding, ts, change,
                 engineVars, tso, threadVars>>

-----------------------------------------------------------------------------
(* The engine thread                                                       *)

(* process_rings: the mutex is only tried. A failure means that a thread   *)
(* is in one of its critical sections.                                     *)
TryRebuild ==
  /\ epc = "top"
  /\ \/ dirty /\ rebuilding' = TRUE /\ epc' = "rebuild" /\ UNCHANGED todo
     \/ rebuilding' = FALSE /\ epc' = "scan" /\ todo' = index
  /\ UNCHANGED <<ringVars, map, index, dirty, ts, change, killed, tso, ering,
                 draining, taken, threadVars>>

(* rebuild_ring_index: the new index is made from the map and replaces the *)
(* old one, dirty flag included.                                           *)
Rebuild ==
  /\ epc = "rebuild"
  /\ index' = Registered
  /\ todo' = Registered
  /\ dirty' = FALSE
  /\ rebuilding' = FALSE
  /\ epc' = "scan"
  /\ UNCHANGED <<ringVars, map, ts, change, killed, tso, ering, draining,
                 taken, threadVars>>

(* The records of a ring are flushed when it is scanned, with TSO only     *)
(* after the scan of all rings.                                            *)
Flushing(r) == r \in todo /\ epc = IF tso THEN "flush" ELSE "scan"

(* The pass at hand flushes the change record of the ring.                 *)
ChangeDue(r) == change[r] # NoTs /\ (tso => change[r].pos <= taken[r])

(* process_rings_notso: the records of one ring go to the output and are   *)
(* released before the test for orphans.                                   *)
DrainRing ==
  /\ ~tso
  /\ \E r \in todo :
       /\ Flushing(r) /\ ~ChangeDue(r)
       /\ recs' = [recs EXCEPT ![r] = 0]
       /\ ering' = r
       /\ todo' = todo \ {r}
  /\ epc' = "orphan"
  /\ UNCHANGED <<live, name, ref, rts, map, index, dirty, rebuilding, ts,
                 change, killed, tso, draining, taken, threadVars>>

(* process_rings_tso: the records of one ring are pushed into the TSO      *)
(* buffer, but they stay in the ring until the pass commits.               *)
ScanRing ==
  /\ tso /\ epc = "scan"
  /\ \E r \in todo :
       /\ taken' = [taken EXCEPT ![r] = recs[r]]
       /\ ering' = r
       /\ todo' = todo \ {r}
  /\ epc' = "orphan"
  /\ UNCHANGED <<ringVars, map, index, dirty, rebuilding, ts, change, killed,
                 tso, draining, threadVars>>

(* flush_tso and the commit of one ring, unless the ring was killed.       *)
FlushTso ==
  /\ tso /\ epc = "scan" /\ todo = {}
  /\ epc' = "flush"
  /\ todo' = index
  /\ UNCHANGED <<ringVars, map, index, dirty, rebuilding, ts, change, killed,
                 tso, ering, draining, taken, threadVars>>

CommitRing ==
  /\ tso
  /\ \E r \in todo :
       /\ Flushing(r) /\ ~ChangeDue(r)
       /\ recs' = [recs EXCEPT ![r] = @ - taken[r]]
       /\ taken' = [taken EXCEPT ![r] = 0]
       /\ change' = IF change[r] = NoTs THEN change
                    ELSE [change EXCEPT ![r].pos = @ - taken[r]]
       /\ todo' = todo \ {r}
  /\ UNCHANGED <<live, name, ref, rts, map, index, dirty, rebuilding, ts,
                 killed, tso, epc, ering, draining, threadVars>>

(* switch_timesource, called for a special record: the engine and every    *)
(* registered ring.                                                        *)
SwitchTimesource ==
  /\ \E r \in todo :
       /\ Flushing(r) /\ ChangeDue(r)
       /\ ts' = change[r].to
       /\ rts' = [q \in RingIds |-> IF q \in Registered THEN ts' ELSE rts[q]]
       /\ change' = [change EXCEPT ![r] = NoTs]
  /\ UNCHANGED <<live, name, ref, recs, map, index, dirty, rebuilding, killed,
                 tso, engineVars, threadVars>>

(* ringbuf::orphan: the engine has the only reference.                     *)
Orphan_ZeroBug(r) == ref[r] = 0

Orphan(r) == ref[r] = 1

(* orphan() && empty(), two reads without the mutex.                       *)
TestOrphan ==
  /\ epc = "orphan"
  /\ epc' = IF Orphan(ering) THEN "empty" ELSE "scan"
  /\ UNCHANGED <<ringVars, map, index, dirty, rebuilding, ts, change, killed,
                 tso, todo, ering, draining, taken, threadVars>>

TestEmpty ==
  /\ epc = "empty"
  /\ epc' = IF recs[ering] = 0 THEN "kill" ELSE "scan"
  /\ UNCHANGED <<ringVars, map, index, dirty, rebuilding, ts, change, killed,
                 tso, todo, ering, draining, taken, threadVars>>

(* kill_orphan: if the mutex can be had, the ring is unregistered...       *)
KillOrphan ==
  /\ epc = "kill"
  /\ map' = [map EXCEPT ![name[ering]] = NoRing]
  /\ index' = index \ {ering}
  /\ dirty' = TRUE
  /\ epc' = "release"
  /\ UNCHANGED <<ringVars, rebuilding, ts, change, killed, tso, todo, ering,
                 draining, taken, threadVars>>

KillFails ==
  /\ epc = "kill"
  /\ epc' = "scan"
  /\ UNCHANGED <<ringVars, map, index, dirty, rebuilding, ts, change, killed,
                 tso, todo, ering, draining, taken, threadVars>>

(* ... and the reference of the engine is dropped.                         *)
ReleaseOrphan ==
  /\ epc = "release"
  /\ Release(ering)
  /\ ering' = NoRing
  /\ epc' = "scan"
  /\ UNCHANGED <<name, recs, rts, map, index, dirty, rebuilding, ts, change,
                 killed, tso, todo, draining, taken, threadVars>>

(* loop() and drain_rings(): the latter ends when no ring is left.         *)
Drained_AnyBug == TRUE

Drained == ~dirty /\ index = {}

EndPass ==
  /\ epc = (IF tso THEN "flush" ELSE "scan") /\ todo = {}
  /\ epc' = IF draining /\ Drained THEN "stopped" ELSE "top"
  /\ draining' = killed
  /\ UNCHANGED <<ringVars, map, index, dirty, rebuilding, ts, change, killed,
                 tso, todo, ering, taken, threadVars>>

-----------------------------------------------------------------------------
Init ==
  /\ live = {}
  /\ name = [r \in RingIds |-> CHOOSE n \in Names : TRUE]
  /\ ref = [r \in RingIds |-> 0]
  /\ recs = [r \in RingIds |-> 0]
  /\ ts \in TimeSources
  /\ rts = [r \in RingIds |-> ts]
  /\ map = [n \in Names |-> NoRing]
  /\ index = {} /\ dirty = TRUE /\ rebuilding = FALSE
  /\ change = [r \in RingIds |-> NoTs] /\ killed = FALSE
  /\ epc = "top" /\ todo = {} /\ ering = NoRing /\ draining = FALSE
  /\ taken = [r \in RingIds |-> 0] /\ tso \in BOOLEAN
  /\ tpc = [t \in Threads |-> "none"]
  /\ tnew = [t \in Threads |-> NoRing]
  /\ tring = [t \in Threads |-> NoRing]
  /\ tname = [t \in Threads |-> CHOOSE n \in Names : TRUE]
  /\ adds = 0

AddStep(t) ==
  InsertOrFind(t) \/ InsertExisting(t) \/ SetDirty(t) \/ DropNew(t) \/ CheckReuse(t)

ThreadNext(t) ==
  \/ \E n \in Names : NewRing(t, n) \/ FindRing(t, n)
  \/ AddStep(t)
  \/ Post(t) \/ ReleaseRing(t)
  \/ \E s \in TimeSources : PostChange(t, s)

EngineNext ==
  \/ TryRebuild \/ Rebuild \/ DrainRing \/ SwitchTimesource
  \/ ScanRing \/ FlushTso \/ CommitRing
  \/ TestOrphan \/ TestEmpty \/ KillOrphan \/ KillFails \/ ReleaseOrphan
  \/ EndPass

Next == (\E t \in Threads : ThreadNext(t)) \/ Kill \/ EngineNext

Spec == Init /\ [][Next]_vars

(* The engine loops, threads finish the calls they began, and the mutex is *)
(* not always taken when the engine tries it: its critical sections are    *)
(* short.                                                                  *)
Fairness ==
  /\ WF_vars(EngineNext)
  /\ \A t \in Threads : WF_vars(AddStep(t))
  /\ SF_vars(TryRebuild /\ rebuilding')
  /\ SF_vars(KillOrphan)

FairSpec == Spec /\ Fairness

-----------------------------------------------------------------------------
(* What the registry promises                                              *)

(* The variables keep their types.                                         *)
TypeOK ==
  /\ live \subseteq RingIds
  /\ name \in [RingIds -> Names]
  /\ ref \in [RingIds -> Nat]
  /\ recs \in [RingIds -> 0 .. MaxRecs]
  /\ rts \in [RingIds -> TimeSources]
  /\ map \in [Names -> RingIds \cup {NoRing}]
  /\ index \subseteq RingIds /\ todo \subseteq RingIds
  /\ {dirty, rebuilding, killed, draining, tso} \subseteq BOOLEAN
  /\ ts \in TimeSources
  /\ change \in [RingIds -> [to: TimeSources, pos: 1 .. MaxRecs] \cup {NoTs}]
  /\ epc \in {"top", "rebuild", "scan", "orphan", "empty", "kill", "release",
              "flush", "stopped"}
  /\ taken \in [RingIds -> 0 .. MaxRecs]
  /\ ering \in RingIds \cup {NoRing}
  /\ tpc \in [Threads -> {"none", "insert", "inserted", "found", "reuse",
                          "own", "look"}]
  /\ tnew \in [Threads -> RingIds \cup {NoRing}]
  /\ tring \in [Threads -> RingIds \cup {NoRing}]
  /\ tname \in [Threads -> Names]
  /\ adds \in 0 .. MaxAdds

(* The references to a ring: one of the engine from registration until     *)
(* kill_orphan released it, and those of the threads. Between insertion    *)
(* and return a thread has the reference of the allocation and holds the   *)
(* one of the engine for it.                                               *)
References(r) ==
  Cardinality({n \in Names : map[n] = r})
  + (IF epc = "release" /\ ering = r THEN 1 ELSE 0)
  + Cardinality({t \in Threads : tring[t] = r /\ tnew[t] # r})
  + Cardinality({t \in Threads : tnew[t] = r})

(* A ring is alive exactly as long as someone refers to it, and its count  *)
(* says how often: no reference dangles and no ring leaks.                 *)
RefsCounted ==
  \A r \in RingIds : /\ r \in live <=> References(r) > 0
                     /\ r \in live => ref[r] = References(r)

(* The engine processes registered rings only. A registered ring is in the *)
(* index, or the index is going to be rebuilt: no ring is forgotten        *)
(* although dirty is set outside of the mutex.                             *)
IndexedOrDirty ==
  /\ (index \cup todo) \subseteq Registered
  /\ \A r \in Registered :
       \/ r \in index \/ dirty \/ epc = "rebuild"
       \/ \E t \in Threads : tpc[t] = "inserted" /\ tring[t] = r

(* The engine thread does not end before every ring was drained and        *)
(* unregistered.                                                           *)
StoppedEmpty == epc = "stopped" => Registered = {}

(* Once the engine is told to stop and the threads have released their     *)
(* rings, all the rings are drained and the engine thread ends.            *)
ShutdownCompletes ==
  <>[](killed /\ \A t \in Threads : tpc[t] = "none") => <>(epc = "stopped")

(* "Only empty rings are killed."                                          *)
OnlyEmptyKilled == [][KillOrphan => recs[ering] = 0]_vars

(* switch_timesource changes the timesource of every ring.                 *)
TimesourceAgrees == \A r \in Registered : rts[r] = ts
=============================================================================
