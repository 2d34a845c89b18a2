-------------------------------- MODULE Tls --------------------------------
(***************************************************************************)
(* Thread local state: every thread has a current ring, which tls objects  *)
(* replace and restore, and the default engine with its default ring.      *)
(* The registration of rings is abstracted to single steps; module         *)
(* Registry has the details.                                               *)
(***************************************************************************)
EXTENDS Callers, Integers, SequencesExt

CONSTANTS
  Rings,        \* names of rings, other than the default ring
  SharedRings,  \* those created with SHARED
  ReusableRings,
  MaxDepth      \* bound: tls objects and references of a thread

DefaultRing == "DEFAULT"
AllRings == Rings \cup {DefaultRing}

ASSUME RingsAssumption ==
  /\ SharedRings \cup ReusableRings \subseteq Rings
  /\ DefaultRing \notin Rings
  /\ Null \notin AllRings

VARIABLES
  active,    \* there is a default engine
  inMap,     \* _ring_map
  refs,      \* _refcnt; 0 if the ring does not exist
  unread,    \* the ring has records that the engine has not seen
  lost,      \* history: rings that were deleted with records in them
  current,   \* tls::_ring of each thread
  objs,      \* the tls objects of each thread, in the order of creation
  held,      \* the rings that each thread has a reference of otherwise; it
             \* does not ask for a second one (bound)
  dying,     \* the ring that the engine is about to kill, or Null
  reused,    \* history: rings that a thread has taken up or held while they
             \* were dying
  unordered, \* history: threads that destroyed objects in another order
  borrowed   \* history: how often a tls object was given a ring by a caller
             \* that had no reference of it

threadVars == <<current, objs, held, unordered, borrowed>>
tlsVars == <<active, inMap, refs, unread, lost, dying, reused, threadVars>>

(* What a thread does with a ring that was deleted has no meaning: only    *)
(* threads in unordered and rings in borrowed get there.                   *)
Usable(r, counts) == r = DefaultRing \/ counts[r] > 0

Exists(r) == Usable(r, refs)

(* The library posts messages of its own to the ring of the thread if the  *)
(* section of its internal area is enabled.                                *)
Logged(r, counts) ==
  unread' \in {unread}
    \cup {[unread EXCEPT ![q] = TRUE] : q \in {x \in {r} : Usable(x, counts)}}

-----------------------------------------------------------------------------
(* engine::add_ring: the references of the ring if the caller gets it, or  *)
(* Null.                                                                   *)
AddRing(r) ==
  IF r \notin inMap THEN 2
  ELSE IF r \in SharedRings \/ (r \in ReusableRings /\ refs[r] = 1)
  THEN refs[r] + 1
  ELSE Null

(* tls::update holds the ring that was current.                            *)
Update_NoHoldBug(t, r, counts) ==
  /\ refs' = counts
  /\ current' = [current EXCEPT ![t] = r]
  /\ objs' = [objs EXCEPT ![t] =
                Append(@, [ring |-> r, previous |-> current[t]])]

Update(t, r, counts) ==
  /\ refs' = [counts EXCEPT ![current[t]] = @ + 1]
  /\ current' = [current EXCEPT ![t] = r]
  /\ objs' = [objs EXCEPT ![t] =
                Append(@, [ring |-> r, previous |-> current[t]])]

(* The name of a ring that lived on when it was killed, or lost a          *)
(* reference, is not used for another ring (bound).                        *)
NameFree(r) == r \in inMap \/ (r \notin reused /\ borrowed[r] = 0)

Room(t) == Len(objs[t]) + Cardinality(held[t]) < MaxDepth

(* The constructor. If there is no ring the object is not valid and the    *)
(* thread keeps its ring.                                                  *)
NewTls(t, r) ==
  /\ active /\ Room(t) /\ Exists(current[t]) /\ NameFree(r)
  /\ IF AddRing(r) = Null
     THEN /\ objs' = [objs EXCEPT ![t] =
                        Append(@, [ring |-> Null, previous |-> Null])]
          /\ UNCHANGED <<inMap, refs, reused, current>>
     ELSE /\ Update(t, r, [refs EXCEPT ![r] = AddRing(r)])
          /\ inMap' = inMap \cup {r}
          /\ reused' = reused \cup ({r, current[t]} \cap {dying})
  /\ Logged(current[t], refs)
  /\ UNCHANGED <<active, lost, dying, held, unordered, borrowed>>

(* The program itself gets a reference: hogl::add_ring, hogl::find_ring.   *)
GetRing(t, r) ==
  /\ active /\ Room(t) /\ Exists(current[t]) /\ r \notin held[t]
  /\ \/ /\ r \in Rings /\ NameFree(r) /\ AddRing(r) # Null
        /\ refs' = [refs EXCEPT ![r] = AddRing(r)]
        /\ Logged(current[t], refs)
     \/ /\ r \in inMap
        /\ refs' = [refs EXCEPT ![r] = @ + 1]
        /\ UNCHANGED unread
  /\ inMap' = inMap \cup {r}
  /\ reused' = reused \cup ({r} \cap {dying})
  /\ held' = [held EXCEPT ![t] = @ \cup {r}]
  /\ UNCHANGED <<active, lost, dying, current, objs, unordered, borrowed>>

(* It drops that reference.                                                *)
ReleaseRing(t, r) ==
  /\ r \in held[t]
  /\ refs' = [refs EXCEPT ![r] = @ - 1]
  /\ refs'[r] >= 0
  /\ lost' = lost \cup {q \in {r} \cap Rings : refs'[q] = 0 /\ unread[q]}
  /\ held' = [held EXCEPT ![t] = @ \ {r}]
  /\ UNCHANGED <<active, inMap, unread, dying, reused, current, objs,
                 unordered, borrowed>>

(* The constructor for an existing ring takes no reference: the one of the *)
(* caller passes to the object. tls::ring() is a ring without one.         *)
NewTlsRing(t, r) ==
  /\ active /\ Len(objs[t]) < MaxDepth /\ Exists(current[t])
  /\ r \in held[t] \cup {current[t]}
  /\ Update(t, r, refs)
  /\ held' = [held EXCEPT ![t] = @ \ {r}]
  /\ borrowed' = [borrowed EXCEPT ![r] = @ + IF r \in held[t] THEN 0 ELSE 1]
  /\ reused' = reused \cup ({current[t]} \cap {dying})
  /\ Logged(current[t], refs)
  /\ UNCHANGED <<active, inMap, lost, dying, unordered>>

(* The destructor of the i-th object. It posts when the previous ring is   *)
(* current again and its reference is gone. release aborts the process if  *)
(* there is no reference left to drop.                                     *)
Restored_KeepBug(t, i) == current[t]

Restored(t, i) == objs[t][i].previous

DeleteTls(t, i) ==
  LET o == objs[t][i]
      counts == [refs EXCEPT ![o.previous] = @ - 1]
  IN  /\ active
      /\ objs' = [objs EXCEPT ![t] = RemoveAt(@, i)]
      /\ IF o.ring = Null
         THEN /\ Logged(current[t], refs)
              /\ UNCHANGED <<refs, current, lost, unordered>>
         ELSE /\ current' = [current EXCEPT ![t] = Restored(t, i)]
              /\ Logged(current'[t], counts)
              /\ refs' = [counts EXCEPT ![o.ring] = @ - 1]
              /\ refs'[o.ring] >= 0 /\ refs'[o.previous] >= 0
              /\ lost' = lost \cup {r \in {o.ring, o.previous} \cap Rings :
                                       refs'[r] = 0 /\ unread'[r]}
              /\ unordered' = IF \E j \in i + 1 .. Len(objs[t]) :
                                   objs[t][j].ring # Null
                              THEN unordered \cup {t} ELSE unordered
      /\ UNCHANGED <<active, inMap, dying, reused, held, borrowed>>

(* A post goes to the current ring, or to the one that push is given.      *)
PostToRing(t, r) ==
  /\ r \in held[t] \cup {current[t]} /\ Exists(r)
  /\ unread' = [unread EXCEPT ![r] = TRUE]
  /\ UNCHANGED <<active, inMap, refs, lost, dying, reused, threadVars>>

-----------------------------------------------------------------------------
(* The engine takes the records out of a ring.                             *)
Drain(r) ==
  /\ active /\ dying = Null /\ r \in inMap /\ unread[r]
  /\ unread' = [unread EXCEPT ![r] = FALSE]
  /\ UNCHANGED <<active, inMap, refs, lost, dying, reused, threadVars>>

(* Only the engine has a reference, and the ring is empty. This is tested  *)
(* without the mutex.                                                      *)
Orphan_NotEmptyBug(r) == refs[r] = 1

Orphan(r) == refs[r] = 1 /\ ~unread[r]

FindOrphan(r) ==
  /\ active /\ dying = Null /\ r \in inMap /\ Orphan(r)
  /\ dying' = r
  /\ UNCHANGED <<active, inMap, refs, unread, lost, reused, threadVars>>

(* engine::kill_orphan does not test again. If the trylock fails the ring  *)
(* is left alone.                                                          *)
KillOrphan ==
  /\ dying # Null
  /\ dying' = Null
  /\ \/ reused' = reused \ {dying} /\ UNCHANGED <<inMap, refs, lost>>
     \/ /\ inMap' = inMap \ {dying}
        /\ refs' = [refs EXCEPT ![dying] = @ - 1]
        /\ lost' = lost \cup {r \in {dying} \cap Rings :
                                refs'[r] = 0 /\ unread[r]}
        /\ UNCHANGED reused
  /\ UNCHANGED <<active, unread, threadVars>>

(* hogl::activate                                                          *)
Activate ==
  /\ ~active
  /\ active' = TRUE
  /\ refs' = [refs EXCEPT ![DefaultRing] = @ + 2]
  /\ inMap' = {DefaultRing}
  /\ Logged(DefaultRing, refs')
  /\ UNCHANGED <<lost, dying, reused, threadVars>>

(* hogl::deactivate: the engine's destructor drains the rings and releases *)
(* them, after it has waited for the references of others to go. tls       *)
(* objects refer to the engine and must be gone.                           *)
Deactivate ==
  /\ active /\ dying = Null
  /\ \A t \in Threads : objs[t] = <<>> /\ held[t] \cap inMap = {}
  /\ active' = FALSE
  /\ refs' = [r \in AllRings |-> refs[r] - (IF r = DefaultRing THEN 1 ELSE 0)
                                         - (IF r \in inMap THEN 1 ELSE 0)]
  /\ unread' = [r \in AllRings |-> unread[r] /\ r \notin inMap]
  /\ inMap' = {}
  /\ UNCHANGED <<lost, dying, reused, threadVars>>

TlsCall(t) ==
  \/ \E r \in Rings : NewTls(t, r)
  \/ \E i \in DOMAIN objs[t] : DeleteTls(t, i)
  \/ \E r \in AllRings :
       GetRing(t, r) \/ ReleaseRing(t, r) \/ NewTlsRing(t, r)

TlsEngineStep == KillOrphan \/ \E r \in AllRings : Drain(r) \/ FindOrphan(r)

TlsInit ==
  /\ active = FALSE
  /\ inMap = {}
  /\ refs = [r \in AllRings |-> 0]
  /\ unread = [r \in AllRings |-> FALSE]
  /\ lost = {}
  /\ dying = Null /\ reused = {}
  /\ current = [t \in Threads |-> DefaultRing]
  /\ objs = [t \in Threads |-> <<>>]
  /\ held = [t \in Threads |-> {}]
  /\ unordered = {} /\ borrowed = [r \in AllRings |-> 0]

-----------------------------------------------------------------------------
(* Properties                                                              *)

(* The ring of the innermost valid object.                                 *)
Valid(t) == {i \in DOMAIN objs[t] : objs[t][i].ring # Null}

Innermost(t) ==
  IF Valid(t) = {} THEN DefaultRing ELSE objs[t][Max(Valid(t))].ring

(* A thread that destroys its tls objects in reverse order always posts to *)
(* the ring of its innermost one, which exists and is served by the engine *)
(* as long as that runs, whatever other threads do with shared and         *)
(* reusable rings, and with their own objects. The exceptions are a ring   *)
(* that was taken up while the engine was about to kill it, and one that a *)
(* tls object was given without a reference.                               *)
RingInService ==
  \A t \in Threads \ unordered :
    /\ current[t] = Innermost(t)
    /\ borrowed[current[t]] = 0 =>
         /\ Exists(current[t])
         /\ active => current[t] \in inMap \cup reused

(* The references of a ring that tls objects own, and callers.             *)
Owners(r) ==
  UNION {{<<t, i, "ring">> : i \in {j \in DOMAIN objs[t] :
                                      objs[t][j].ring = r}}
           \cup {<<t, i, "previous">> : i \in {j \in DOMAIN objs[t] :
                                                 objs[t][j].previous = r}}
         : t \in Threads}

Holders(r) == {t \in Threads : r \in held[t]}

(* Every reference has one owner: the engine, a tls object (for its ring   *)
(* and for the one it replaced), the caller of add_ring or find_ring, or   *)
(* the default engine. So rings live on as long as somebody uses them and  *)
(* no longer, and the default ring is as before after the engine was       *)
(* deactivated. A tls object that was given a ring by a caller without a   *)
(* reference leaves it one short, for ever.                                *)
RefsOwned ==
  \A r \in AllRings :
    refs[r] = (IF r \in inMap THEN 1 ELSE 0)
              + (IF r = DefaultRing /\ active THEN 1 ELSE 0)
              + Cardinality(Owners(r)) + Cardinality(Holders(r))
              - borrowed[r]

(* No ring is deleted with records in it: a thread's last release leaves   *)
(* the ring to the engine, which drains it first. The exceptions are those *)
(* above.                                                                  *)
NoRecordLost ==
  unordered = {} => \A r \in lost : r \in reused \/ borrowed[r] > 0
=============================================================================
