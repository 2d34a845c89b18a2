------------------------------ MODULE AreaMask ------------------------------
(***************************************************************************)
(* Areas, their section bitmaps, and the engine's mask. Threads add areas, *)
(* apply masks and switch sections. The map of areas has a mutex; the      *)
(* bitmaps have none, and the engine's mask is replaced under the mutex    *)
(* but read by add_area without it.                                        *)
(*                                                                         *)
(* The section bits of an area share a word, so that setting one is a read *)
(* and a write of the word.                                                *)
(***************************************************************************)
EXTENDS Callers, Integers, SequencesExt

CONSTANTS
  AreaNames,
  SectionLists,   \* the lists of sections that areas are declared with
  Masks           \* masks, as the sequences of strings they are made from

Sections == UNION {Range(l) : l \in SectionLists}

(* area: all the sections that it has, and the enabled ones.               *)
Area == [sects: SectionLists, on: SUBSET Sections]

(* What a thread is doing besides: the name of the area that it has added. *)
Jobs == {"idle", "masking", "delete", "apply", "switch", "freed"}

ASSUME NullAssumption ==
  /\ Null \notin Threads \cup SectionLists
  /\ \A a \in Area \cup SUBSET Sections : a # Null
ASSUME NamesAssumption == IsFiniteSet(AreaNames) /\ AreaNames \cap Jobs = {}
ASSUME ListsAssumption ==
  /\ SectionLists \subseteq Seq(Sections)
  /\ \A strs \in Masks : /\ strs \in Seq(Range(strs))
                        /\ \A i \in DOMAIN strs : strs[i].not \in BOOLEAN

VARIABLES
  areas,     \* _area_map: Null, or the sections and the set of enabled ones
  mask,      \* _mask
  mutex,     \* _area_mutex: the thread that holds it
  job,       \* what each thread is doing
  todo,      \* the bits that it is going to write
  word,      \* the word that it has read
  touched,   \* history: sections switched by threads since the last mask
  raced      \* history: add_area was reading the mask while it was replaced,
             \* or setting a bit undid what another thread had set

areaVars == <<areas, mask, mutex, job, todo, word, touched, raced>>

(* area::area: all sections are off. The default sections are a list like  *)
(* any other.                                                              *)
NewArea(sects) == [sects |-> sects, on |-> {}]

(* mask::add: a string names areas and sections by regular expressions,    *)
(* here the sets of names that match. Those left out match everything, and *)
(* "!" disables.                                                           *)
MaskElement(str) ==
  [areas |-> IF str.area = Null THEN AreaNames ELSE str.area,
   sects |-> IF str.sect = Null THEN Sections ELSE str.sect,
   on |-> ~str.not]

MaskOf(strs) == [i \in DOMAIN strs |-> MaskElement(strs[i])]

(* mask::apply and __apply: what a mask writes in an area. The elements    *)
(* are applied in order, so that later ones override earlier ones.         *)
Bit(n, s, on) == [area |-> n, sect |-> s, on |-> on]

ElementBits(e, n, sects) ==
  FlattenSeq([j \in DOMAIN sects |->
                IF n \in e.areas /\ sects[j] \in e.sects
                THEN <<Bit(n, sects[j], e.on)>> ELSE <<>>])

MaskBits_ReverseBug(m, n, sects) ==
  FlattenSeq([i \in DOMAIN m |-> ElementBits(Reverse(m)[i], n, sects)])

MaskBits(m, n, sects) ==
  FlattenSeq([i \in DOMAIN m |-> ElementBits(m[i], n, sects)])

Registered == {n \in AreaNames : areas[n] # Null}

(* bitmap::set                                                             *)
SetBit(on, b) == IF b.on THEN on \cup {b.sect} ELSE on \ {b.sect}

-----------------------------------------------------------------------------
(* engine::add_area: the insertion.                                        *)
AddArea(t, n, sects) ==
  /\ job[t] = "idle" /\ mutex = Null /\ areas[n] = Null
  /\ areas' = [areas EXCEPT ![n] = NewArea(sects)]
  /\ job' = [job EXCEPT ![t] = n]
  /\ UNCHANGED <<mask, mutex, todo, word, touched, raced>>

(* An area that exists is reused if its sections are the same; otherwise   *)
(* the call fails.                                                         *)
SameArea(n, sects) == areas[n].sects = sects

ExistingArea(t, n) ==
  /\ job[t] = "idle" /\ mutex = Null /\ areas[n] # Null
  /\ UNCHANGED areaVars

(* Then _mask.apply, without the mutex. If the list of the mask is deleted *)
(* and not made again yet, it reads what is left of one or there of the    *)
(* other.                                                                  *)
Deleted == \E u \in Threads : job[u] = "delete"

StartMask(t) ==
  LET n == job[t]
  IN  /\ n \in AreaNames
      /\ \E m \in IF Deleted THEN {MaskOf(strs) : strs \in Masks} ELSE {mask} :
           todo' = [todo EXCEPT ![t] = MaskBits(m, n, areas[n].sects)]
      /\ job' = [job EXCEPT ![t] = IF Deleted THEN "freed" ELSE "masking"]
      /\ raced' = (raced \/ Deleted)
      /\ UNCHANGED <<areas, mask, mutex, word, touched>>

(* engine::apply_mask replaces the mask: mask::operator= deletes the list, *)
(* which add_area may be reading,                                          *)
DeleteMask(t) ==
  LET reading == {u \in Threads : job[u] = "masking" /\ todo[u] # <<>>}
  IN  /\ job[t] = "idle" /\ mutex = Null
      /\ mutex' = t
      /\ job' = [u \in Threads |-> IF u = t THEN "delete"
                                   ELSE IF u \in reading THEN "freed"
                                   ELSE job[u]]
      /\ raced' = (raced \/ reading # {})
      /\ UNCHANGED <<areas, mask, todo, word, touched>>

(* and makes a new one, which is then applied to all the areas.            *)
ApplyMask(t, m) ==
  LET names == SetToSeq(Registered)
  IN  /\ job[t] = "delete"
      /\ mask' = m
      /\ todo' = [todo EXCEPT ![t] = FlattenSeq(
                    [i \in DOMAIN names |->
                       MaskBits(m, names[i], areas[names[i]].sects)])]
      /\ job' = [job EXCEPT ![t] = "apply"]
      /\ touched' = IF \E u \in Threads : job[u] = "switch" THEN touched
                    ELSE {}
      /\ UNCHANGED <<areas, mutex, word, raced>>

(* area::set and reset of a section.                                       *)
SwitchSection(t, n, s, on) ==
  /\ job[t] = "idle" /\ areas[n] # Null
  /\ s \in Range(areas[n].sects)
  /\ job' = [job EXCEPT ![t] = "switch"]
  /\ todo' = [todo EXCEPT ![t] = <<Bit(n, s, on)>>]
  /\ touched' = touched \cup {<<n, s>>}
  /\ UNCHANGED <<areas, mask, mutex, word, raced>>

(* area::set and reset of all sections write whole words.                  *)
SwitchAll(t, n, on) ==
  /\ job[t] = "idle" /\ areas[n] # Null
  /\ areas' = [areas EXCEPT ![n].on = IF on THEN Range(areas[n].sects) ELSE {}]
  /\ touched' = touched \cup {<<n, s>> : s \in Range(areas[n].sects)}
  /\ UNCHANGED <<mask, mutex, job, todo, word, raced>>

-----------------------------------------------------------------------------
ReadWord(t) ==
  /\ todo[t] # <<>> /\ word[t] = Null
  /\ word' = [word EXCEPT ![t] = areas[Head(todo[t]).area].on]
  /\ UNCHANGED <<areas, mask, mutex, job, todo, touched, raced>>

(* The sections that a write changes back, because another thread has      *)
(* changed them since the word was read, and for which the thread has no   *)
(* further bits to write.                                                  *)
Undone(t, n) ==
  {s \in Range(areas[n].sects) :
     /\ (s \in areas[n].on) # (s \in word[t])
     /\ \A i \in DOMAIN todo[t] : todo[t][i].area = n => todo[t][i].sect # s}

WriteWord(t) ==
  LET b == Head(todo[t])
  IN  /\ todo[t] # <<>> /\ word[t] # Null
      /\ areas' = [areas EXCEPT ![b.area].on = SetBit(word[t], b)]
      /\ raced' = (raced \/ Undone(t, b.area) # {})
      /\ todo' = [todo EXCEPT ![t] = Tail(@)]
      /\ word' = [word EXCEPT ![t] = Null]
      /\ UNCHANGED <<mask, mutex, job, touched>>

Finish(t) ==
  /\ job[t] \notin AreaNames \cup {"idle", "delete"} /\ todo[t] = <<>>
  /\ job' = [job EXCEPT ![t] = "idle"]
  /\ mutex' = IF mutex = t THEN Null ELSE mutex
  /\ UNCHANGED <<areas, mask, todo, word, touched, raced>>

(* Reading a deleted list finds the old elements, or ends early.           *)
ReadFreed(t) ==
  /\ job[t] = "freed" /\ word[t] = Null
  /\ todo[t] # <<>>
  /\ todo' = [todo EXCEPT ![t] = <<>>]
  /\ UNCHANGED <<areas, mask, mutex, job, word, touched, raced>>

AreaStep(t) ==
  \/ StartMask(t)
  \/ \E strs \in Masks : ApplyMask(t, MaskOf(strs))
  \/ ReadWord(t)
  \/ WriteWord(t)
  \/ Finish(t)
  \/ ReadFreed(t)

(* The calls of the interface that change something.                       *)
AreaCall(t) ==
  \/ \E n \in AreaNames, sects \in SectionLists : AddArea(t, n, sects)
  \/ DeleteMask(t)
  \/ \E n \in Registered :
       \/ \E s \in Range(areas[n].sects), on \in BOOLEAN :
            SwitchSection(t, n, s, on)
       \/ \E on \in BOOLEAN : SwitchAll(t, n, on)

(* options::default_mask is the first mask.                                *)
AreaInit ==
  /\ areas = [n \in AreaNames |-> Null]
  /\ mask \in {MaskOf(strs) : strs \in Masks}
  /\ mutex = Null
  /\ job = [t \in Threads |-> "idle"]
  /\ todo = [t \in Threads |-> <<>>]
  /\ word = [t \in Threads |-> Null]
  /\ touched = {}
  /\ raced = FALSE

-----------------------------------------------------------------------------
(* Properties                                                              *)

(* The elements of a mask that match a section.                            *)
Matching(m, n, s) == {i \in DOMAIN m : n \in m[i].areas /\ s \in m[i].sects}

(* When nobody is changing areas, every section that the mask in force     *)
(* says something about, and that was not switched since, is as the last   *)
(* matching element says: no area is missed, although areas are added      *)
(* while masks are applied, two threads apply masks to the same area, and  *)
(* section bits share words. The races that break this are marked.         *)
MaskInForce ==
  (\A t \in Threads : job[t] = "idle") /\ ~raced =>
    \A n \in Registered : \A s \in Range(areas[n].sects) :
      LET is == Matching(mask, n, s)
      IN  <<n, s>> \in touched \/ is = {}
            \/ (s \in areas[n].on) = mask[Max(is)].on
=============================================================================
