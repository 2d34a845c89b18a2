------------------------------ MODULE FrontEnd ------------------------------
(***************************************************************************)
(* What the threads of a program call: areas and masks, thread local       *)
(* state, the default engine, and post, which looks at a section's bit     *)
(* without a lock and writes to the thread's current ring.                 *)
(***************************************************************************)
EXTENDS AreaMask, Tls

CONSTANT MaxCalls   \* bound: calls in a behaviour

ASSUME MaxCallsAssumption == MaxCalls \in Nat

VARIABLE calls

vars == <<areaVars, tlsVars, calls>>

(* hogl::post into the ring of the thread.                                 *)
Enabled(n, s) == s \in areas[n].on

Post(t) ==
  /\ job[t] = "idle"
  /\ \E n \in Registered : \E s \in Range(areas[n].sects) : Enabled(n, s)
  /\ \E r \in AllRings : ~unread[r] /\ PostToRing(t, r)
  /\ UNCHANGED areaVars

(* add_area posts a message when the mask is applied, or when it fails.    *)
AreaLog(t) ==
  /\ IF job[t] \in {"masking", "freed"} /\ job'[t] = "idle"
     THEN Logged(current[t], refs)
     ELSE UNCHANGED unread
  /\ UNCHANGED <<active, inMap, refs, lost, dying, reused, threadVars>>

RefuseArea(t) ==
  /\ \E n \in Registered, sects \in SectionLists :
       ExistingArea(t, n) /\ ~SameArea(n, sects)
  /\ Logged(current[t], refs)
  /\ UNCHANGED <<active, inMap, refs, lost, dying, reused, threadVars>>

(* A thread is in one call at a time, and areas need an engine.            *)
Call(t) ==
  /\ calls < MaxCalls
  /\ calls' = calls + 1
  /\ job[t] = "idle"
  /\ \/ active /\ AreaCall(t) /\ UNCHANGED tlsVars
     \/ active /\ RefuseArea(t)
     \/ TlsCall(t) /\ UNCHANGED areaVars

(* The engine is created with its mask, and takes its areas with it.       *)
Startup ==
  /\ calls < MaxCalls /\ calls' = calls + 1
  /\ Activate
  /\ UNCHANGED areaVars

Shutdown ==
  /\ calls < MaxCalls /\ calls' = calls + 1
  /\ \A t \in Threads : job[t] = "idle"
  /\ Deactivate
  /\ areas' = [n \in AreaNames |-> Null]
  /\ touched' = {} /\ raced' = FALSE
  /\ mask' \in {MaskOf(strs) : strs \in Masks}
  /\ UNCHANGED <<mutex, job, todo, word>>

Init == AreaInit /\ TlsInit /\ calls = 0

Next ==
  \/ \E t \in Threads :
       \/ Call(t)
       \/ Post(t) /\ UNCHANGED calls
       \/ AreaStep(t) /\ AreaLog(t) /\ UNCHANGED calls
  \/ TlsEngineStep /\ UNCHANGED <<areaVars, calls>>
  \/ Startup
  \/ Shutdown

Spec == Init /\ [][Next]_vars
=============================================================================
