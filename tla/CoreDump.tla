------------------------------ MODULE CoreDump ------------------------------
(***************************************************************************)
(* hogl::coredump: the memory of a process, put together from the sections *)
(* of a core dump and of the executable, and what the recovery engine      *)
(* finds there of the objects that it needs.                               *)
(*                                                                         *)
(* A layout has the sections of both files as [vma, size], and the vmas of *)
(* the sections of the core that cannot be read. Bytes of the core are the *)
(* memory at the time of the crash; those of the executable are right only *)
(* for constants.                                                          *)
(***************************************************************************)
EXTENDS Integers, SequencesExt

CONSTANTS
  Layouts,
  MaxVma,      \* bound: of addresses
  Addresses,   \* where objects may be
  ObjectSize   \* of an area and of a string

End(s) == s.vma + s.size

(* add_section leaves out sections without data.                           *)
Memory(sections) == {s \in sections : s.vma # 0 /\ s.size # 0}

(* The sections of a file that are in memory do not overlap, and no empty  *)
(* section is at the address of another: load_section would find it there  *)
(* and never come to an end.                                               *)
Proper(sections) ==
  \A s \in Memory(sections) :
    /\ \A t \in sections : t.vma = s.vma => t = s
    /\ \A t \in Memory(sections) :
         s = t \/ End(s) <= t.vma \/ End(t) <= s.vma

ASSUME LayoutAssumption ==
  \A l \in Layouts :
    /\ l.core \cup l.exec \subseteq [vma: 0 .. MaxVma, size: Nat]
    /\ Proper(l.core) /\ Proper(l.exec)
ASSUME ObjectAssumption ==
  ObjectSize \in Nat \ {0} /\ MaxVma \in Nat /\ Addresses \subseteq Nat

(* load: the sections of the core and then those of the executable, unless *)
(* the core has one at the address.                                        *)
AddSections(l) ==
  LET of(file, sections) ==
        {[file |-> file, vma |-> s.vma, size |-> s.size] :
           s \in Memory(sections)}
      core == of("core", l.core)
  IN  core \cup {s \in of("exec", l.exec) : \A t \in core : t.vma # s.vma}

(* coalesce_and_load_sections: section t continues s, which is the one     *)
(* before it in the order of addresses.                                    *)
Continues_NeverBug(sections, s, t) == FALSE

Continues(sections, s, t) ==
  /\ s.file = t.file /\ End(s) = t.vma
  /\ \A u \in sections : u.vma <= s.vma \/ t.vma <= u.vma

(* From a section that does not continue another up to one that is not     *)
(* continued.                                                              *)
IsChunk(sections, s, t) ==
  /\ s.vma <= t.vma
  /\ ~\E r \in sections : Continues(sections, r, s)
  /\ ~\E r \in sections : Continues(sections, t, r)
  /\ \A u \in sections :
       s.vma < u.vma /\ u.vma <= t.vma =>
         \E r \in sections : Continues(sections, r, u)

Coalesce(l) ==
  LET sections == AddSections(l)
      chunk(st) == [file |-> st[1].file, vma |-> st[1].vma,
                    size |-> End(st[2]) - st[1].vma]
  IN  {chunk(st) : st \in {u \in sections \X sections :
                             IsChunk(sections, u[1], u[2])}}

(* load_section: where loading a chunk stops. It goes from the end of one  *)
(* section to the next, up to an address where no section of the chunk is  *)
(* that can be read.                                                       *)
LoadSection(l, c) ==
  LET readable == IF c.file = "core" THEN {s \in l.core : s.vma \notin l.bad}
                  ELSE l.exec
      inside == {s \in Memory(readable) : c.vma <= s.vma /\ End(s) <= End(c)}
      ends == {c.vma} \cup {End(s) : s \in inside}
      starts == {s.vma : s \in inside}
  IN  CHOOSE a \in ends \ starts : \A b \in ends \ starts : a <= b

(* Every chunk overwrites `failed'.                                        *)
Failed(l, chunks) ==
  \E c \in chunks : /\ \A d \in chunks : d.vma <= c.vma
                    /\ LoadSection(l, c) # End(c)

(* remap finds the first chunk, if any. Pointers to strings are looked up  *)
(* with n = 0.                                                             *)
Remap(chunks, p, n) ==
  LET found == {c \in chunks : c.vma <= p /\ p + n <= End(c)}
  IN  {c \in found : \A d \in found : c.vma <= d.vma}

(* What is there when an object is read through a pointer that was looked  *)
(* up with n: nothing ("null"), bytes of one of the files, or what happens *)
(* to be in the memory of the tool.                                        *)
Fetch(l, chunks, p, n) ==
  LET found == Remap(chunks, p, n)
      c == CHOOSE c \in found : TRUE
  IN  IF found = {} THEN "null"
      ELSE IF p + ObjectSize <= LoadSection(l, c) THEN c.file
      ELSE "wild"

-----------------------------------------------------------------------------
(* What the process had in memory, and what recovery gets                  *)

(* An object at p has bytes of a section, or begins where it ends.         *)
Touches(s, p) == s.vma < p + ObjectSize /\ p <= End(s)

Holds(sections, p) ==
  \A b \in p .. p + ObjectSize - 1 :
    \E s \in Memory(sections) : b \in s.vma .. End(s) - 1

(* A file has an object, and the other file has nothing at the object nor  *)
(* up to it, and no section in place of one that the object is in. If the  *)
(* object begins with a section, or continues in the next, the other file  *)
(* has nothing that starts in these.                                       *)
Clear(mine, other, p) ==
  LET near == {s \in Memory(mine) : Touches(s, p)}
  IN  \A e \in Memory(other) :
        /\ ~Touches(e, p)
        /\ \A s \in near : e.vma # s.vma
        /\ \A s, t \in near : s # t => e.vma \notin s.vma .. End(s)

(* Recovery should not depend on luck if all the sections can be read and  *)
(* the object is clear of the other file, or in neither of them.           *)
Sure(l, p) ==
  /\ l.bad = {}
  /\ IF Holds(l.core, p) THEN Clear(l.core, l.exec, p)
     ELSE IF Holds(l.exec, p) THEN Clear(l.exec, l.core, p)
     ELSE \A s \in Memory(l.core) \cup Memory(l.exec) : ~Touches(s, p)

(* The recovery engine needs the ring with its records, the area, and the  *)
(* constant strings, each an object of its own. Rings and areas are in     *)
(* memory that is dumped.                                                  *)
Dynamic(l, chunks, p) ==
  [ok |-> Fetch(l, chunks, p, ObjectSize) = "core", sure |-> Sure(l, p)]

(* A ring is found by its magic number in whatever chunk it is, but its    *)
(* records are looked up.                                                  *)
Ring(l, chunks, p) == Dynamic(l, chunks, p)

(* An area without its magic number, which the executable does not have,   *)
(* is not valid.                                                           *)
Area(l, chunks, p) == Dynamic(l, chunks, p)

Constant(l, chunks, p) ==
  LET f == Fetch(l, chunks, p, 0)
  IN  [got |-> IF f \in {"core", "exec"} THEN "text" ELSE f,
       had |-> Holds(l.core, p) \/ Holds(l.exec, p),
       sure |-> Sure(l, p)]

(* What may come out: the tool refuses the dump or does not find the ring, *)
(* or it gets to the record with an area and a string.                     *)
Recovery(o) ==
  IF o.failed \/ ~o.ring.ok THEN [printed |-> FALSE, sure |-> o.ring.sure]
  ELSE [printed |-> TRUE, area |-> o.area, str |-> o.str]

Recoveries ==
  {Recovery(o) : o \in UNION {
     LET chunks == Coalesce(l)
         dynamic == {p \in Addresses : Holds(l.core, p)}
     IN  [failed : {Failed(l, chunks)},
          ring : {Ring(l, chunks, p) : p \in dynamic},
          area : {Area(l, chunks, p) : p \in dynamic},
          str : {Constant(l, chunks, p) : p \in Addresses}] :
       l \in Layouts}}
=============================================================================
