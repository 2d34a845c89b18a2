------------------------- MODULE RecordFormatProofs -------------------------
(***************************************************************************)
(* Proofs about RecordFormat, for any arguments, slots of any size and any *)
(* sequence of records.                                                    *)
(***************************************************************************)
EXTENDS RecordFormat, SequenceTheorems, WellFoundedInduction, TLAPS

-----------------------------------------------------------------------------
(* The size of a slot                                                      *)

(* A set of naturals has a least element.                                  *)
LEMMA LeastNatural ==
  ASSUME NEW T \in SUBSET Nat, T # {}
  PROVE  \E x \in T : \A y \in T : x <= y
<1> DEFINE R == {ss \in Nat \X Nat : ss[1] < ss[2]}
<1>1. IsWellFoundedOn(R, Nat)
  BY NatLessThanWellFounded DEF OpToRel
<1>2. PICK x \in T : \A y \in T : ~(<<y, x>> \in R)
  <2> HIDE DEF R
  <2> QED
    BY <1>1, WFMin
<1>3. ASSUME NEW y \in T PROVE x <= y
  <2>1. x \in Nat /\ y \in Nat
    OBVIOUS
  <2>2. ~(<<y, x>> \in R)
    BY <1>2
  <2>3. <<y, x>> \in Nat \X Nat /\ <<y, x>>[1] = y /\ <<y, x>>[2] = x
    BY <2>1
  <2>4. ~(y < x)
    BY <2>2, <2>3
  <2> QED
    BY <2>1, <2>4
<1> QED
  BY <1>3

(* A set of numbers up to a bound has a greatest one.                      *)
LEMMA GreatestNatural ==
  ASSUME NEW n \in Nat, NEW T \in SUBSET (0 .. n), T # {}
  PROVE  \E x \in T : \A y \in T : y <= x
<1> DEFINE U == {u \in Nat : n - u \in T}
<1>1. PICK y \in T : TRUE
  OBVIOUS
<1>2. n - y \in U
  BY <1>1
<1>3. PICK u \in U : \A v \in U : u <= v
  BY <1>2, LeastNatural
<1>4. n - u \in T
  BY <1>3
<1>5. ASSUME NEW z \in T PROVE z <= n - u
  <2>1. z \in 0 .. n /\ n - z \in Nat /\ n - (n - z) = z
    OBVIOUS
  <2>2. n - z \in U
    BY <2>1
  <2>3. u <= n - z /\ u \in Nat
    BY <2>2, <1>3
  <2> QED
    BY <2>1, <2>3
<1> QED
  BY <1>4, <1>5

(* Induction over the naturals, for a set.                                 *)
LEMMA SetInduction ==
  ASSUME NEW T, 0 \in T, \A n \in Nat : n \in T => n + 1 \in T
  PROVE  Nat \subseteq T
<1> SUFFICES ASSUME Nat \ T # {} PROVE FALSE
  OBVIOUS
<1>1. PICK x \in Nat \ T : \A y \in Nat \ T : x <= y
  BY LeastNatural
<1>2. x - 1 \in Nat /\ (x - 1) + 1 = x
  BY <1>1
<1>3. x - 1 \in T
  BY <1>1, <1>2
<1> QED
  BY <1>1, <1>2, <1>3

(* The powers of two that are the size of a slot.                          *)
LEMMA Powers == \A i \in 0 .. MaxShift : 2 ^ i \in Nat
<1>1. \A i \in {0, 1, 2, 3, 4, 5, 6, 7, 8, 9, 10, 11, 12, 13, 14, 15, 16, 17,
                18, 19, 20, 21, 22, 23, 24, 25, 26, 27, 28, 29, 30} :
        2 ^ i \in Nat
  BY 2 ^ 0 \in Nat, 2 ^ 1 \in Nat, 2 ^ 2 \in Nat, 2 ^ 3 \in Nat,
     2 ^ 4 \in Nat, 2 ^ 5 \in Nat, 2 ^ 6 \in Nat, 2 ^ 7 \in Nat,
     2 ^ 8 \in Nat, 2 ^ 9 \in Nat, 2 ^ 10 \in Nat, 2 ^ 11 \in Nat,
     2 ^ 12 \in Nat, 2 ^ 13 \in Nat, 2 ^ 14 \in Nat, 2 ^ 15 \in Nat,
     2 ^ 16 \in Nat, 2 ^ 17 \in Nat, 2 ^ 18 \in Nat, 2 ^ 19 \in Nat,
     2 ^ 20 \in Nat, 2 ^ 21 \in Nat, 2 ^ 22 \in Nat, 2 ^ 23 \in Nat,
     2 ^ 24 \in Nat, 2 ^ 25 \in Nat, 2 ^ 26 \in Nat, 2 ^ 27 \in Nat,
     2 ^ 28 \in Nat, 2 ^ 29 \in Nat, 2 ^ 30 \in Nat, Zenon
<1>2. \A i \in 0 .. 30 : i \in {0, 1, 2, 3, 4, 5, 6, 7, 8, 9, 10, 11, 12, 13,
        14, 15, 16, 17, 18, 19, 20, 21, 22, 23, 24, 25, 26, 27, 28, 29, 30}
  OBVIOUS
<1> QED
  BY <1>1, <1>2, ZenonT(30) DEF MaxShift

(* __roundup_log2 finds an exponent.                                       *)
LEMMA RoundupFacts ==
  ASSUME NEW v \in Nat, v <= 2 ^ MaxShift
  PROVE  2 ^ RoundupLog2(v) \in Nat /\ 2 ^ RoundupLog2(v) >= v
<1> DEFINE T == {i \in 0 .. MaxShift : 2 ^ i >= v}
<1>1. MaxShift \in 0 .. MaxShift
  BY DEF MaxShift
<1>2. T \in SUBSET Nat /\ T # {}
  BY <1>1, Powers
<1>3. PICK x \in T : \A y \in T : x <= y
  <2> HIDE DEF T
  <2> QED
    BY <1>2, LeastNatural
<1>4. x = 0 \/ 2 ^ (x - 1) < v
  <2>1. CASE x # 0
    <3>1. x \in 0 .. MaxShift
      BY <1>3
    <3>2. x - 1 \in 0 .. MaxShift /\ ~(x <= x - 1)
      BY <2>1, <3>1 DEF MaxShift
    <3>3. x - 1 \notin T
      BY <1>3, <3>2
    <3>4. ~(2 ^ (x - 1) >= v)
      BY <3>2, <3>3
    <3> QED
      BY <3>2, <3>4, Powers
  <2> QED
    BY <2>1
<1>5. \E i \in 0 .. MaxShift : 2 ^ i >= v /\ (i = 0 \/ 2 ^ (i - 1) < v)
  BY <1>3, <1>4
<1>6. RoundupLog2(v) \in 0 .. MaxShift /\ 2 ^ RoundupLog2(v) >= v
  BY <1>5 DEF RoundupLog2
<1> QED
  BY <1>6, Powers

(* A slot has room for a header and sixteen values.                        *)
LEMMA SlotSize ==
  ASSUME NEW tail \in Tailrooms
  PROVE  RecordSize(tail) \in Nat /\ RecordSize(tail) >= HeaderSize + ArgvalSize
<1> DEFINE v == HeaderSize + IF tail > ArgvalSize THEN tail ELSE ArgvalSize
<1>1. HeaderSize + ArgvalSize = 160 /\ HeaderSize = 32 /\ ArgvalSize = 128
  BY DEF HeaderSize, ArgvalSize, NARGS, WordSize
<1>2. 2 ^ MaxShift = 1073741824
  BY DEF MaxShift
<1>3. tail \in Nat /\ HeaderSize + tail <= 2 ^ MaxShift
  BY TailroomAssumption
<1>4. v \in Nat /\ v <= 2 ^ MaxShift /\ v >= 160
  BY <1>1, <1>2, <1>3
<1>5. RecordSize(tail) = 2 ^ RoundupLog2(v)
  BY DEF RecordSize
<1> HIDE DEF v
<1>6. 2 ^ RoundupLog2(v) \in Nat /\ 2 ^ RoundupLog2(v) >= v
  BY <1>4, RoundupFacts
<1> QED
  BY <1>1, <1>4, <1>5, <1>6

-----------------------------------------------------------------------------
(* The inductive invariant                                                 *)

(* What the words of argval and the data in the tail are.                  *)
Arg == [type: Types, len: Nat]
ValueWord == [src: Nat, full: BOOLEAN]
ReferenceWord == [at: Nat, len: Nat]
Bytes == [src: Nat, n: Nat, mark: BOOLEAN]
Piece == [at: Nat, used: Nat \ {0}, content: Bytes]

TypeInv ==
  /\ wanted \in Tailrooms
  /\ pc \in {"idle", "pack", "live", "raw", "parse", "cook", "done",
             "rejected", "recovered"}
  /\ args \in Seq(Arg) /\ Len(args) <= NARGS
  /\ time \in Nat /\ name \in Nat
  /\ offset \in Nat
  /\ rec.type \in Seq(Types)
  /\ rec.argval \in Seq(ValueWord \cup ReferenceWord)
  /\ rec.mem \subseteq Piece
  /\ DOMAIN rec = {"type", "argval", "mem"}

(* The arguments go into the record one after another.                     *)
ShapeInv ==
  /\ Len(rec.argval) = Len(rec.type) /\ Len(rec.type) <= Len(args)
  /\ pc = "idle" => args = <<>>
  /\ pc = "pack" => Len(rec.type) < Len(args)
  /\ pc \notin {"idle", "pack"} => Len(rec.type) = Len(args)
  /\ \A i \in 1 .. Len(rec.type) : rec.type[i] = args[i].type

(* The data is in the order of the arguments, and `offset' is behind it.   *)
SpaceInv ==
  /\ Len(args) * WordSize <= offset
  /\ HeaderSize + offset <= RecordSize(wanted)
  /\ \A m \in rec.mem :
       Len(args) * WordSize <= m.at /\ m.at + m.used <= offset
  /\ \A m, k \in rec.mem :
       m = k \/ m.at + m.used <= k.at \/ k.at + k.used <= m.at

(* There is one piece at an address, and this is its content.              *)
HasPiece(r, at, content) ==
  \E m \in r.mem : /\ m.at = at /\ m.content = content
                   /\ \A k \in r.mem : k.at = at => k = m

(* What is left of the string of argument i: so many bytes, and the mark.  *)
StringOf(c, i, len, size) ==
  /\ c \in Bytes /\ c.src = i
  /\ c.n + (IF c.mark THEN 3 ELSE 0) = size
  /\ c.n < len => c.mark \/ c.n <= 3

DumpOf(i, size) == Content(i, size - FmtSize, FALSE)

(* The arguments that are in the record.                                   *)
PackedInv ==
  \A i \in 1 .. Len(rec.type) :
    /\ IsSimple(args[i].type) =>
         /\ rec.argval[i] \in ValueWord /\ rec.argval[i].src = i
         /\ Is32bit(args[i].type) \/ rec.argval[i].full
    /\ ~IsSimple(args[i].type) => rec.argval[i] \in ReferenceWord
    /\ args[i].type = "CSTR" /\ rec.argval[i].len > 0 =>
         \E c \in {m.content : m \in rec.mem} :
           /\ StringOf(c, i, args[i].len, rec.argval[i].len)
           /\ HasPiece(rec, rec.argval[i].at, c)
    /\ args[i].type = "XDUMP" /\ rec.argval[i].len >= FmtSize =>
         HasPiece(rec, rec.argval[i].at, DumpOf(i, rec.argval[i].len))

-----------------------------------------------------------------------------
(* The form of a line depends on the types only.                           *)
Form(types) ==
  IF Len(types) >= 1 /\ types[1] = "RAW" THEN "raw"
  ELSE IF /\ Len(types) >= 2
          /\ types[1] \in {"CSTR", "GSTR"}
          /\ types[2] \notin {"XDUMP", "RAW"}
       THEN "fmt" ELSE "plain"

(* The arguments that a line shows.                                        *)
Shown(types) == IF Form(types) = "raw" THEN {1} ELSE 1 .. Len(types)

(* What format_basic has printed.                                          *)
LineInv ==
  pc \in {"raw", "parse", "cook"} =>
    /\ live.line.how = Form(rec.type)
    /\ DOMAIN live.line.what = Shown(rec.type)
    /\ \A i \in Shown(rec.type) :
         /\ args[i].type = "CSTR" =>
              IF rec.argval[i].len = 0 THEN live.line.what[i] = Null
              ELSE HasPiece(rec, rec.argval[i].at, live.line.what[i])
         /\ args[i].type = "GSTR" =>
              live.line.what[i] = Text(i, args[i].len, FALSE)
         /\ args[i].type \in {"XDUMP", "RAW"} =>
              live.line.what[i] =
                IF live.line.how = "fmt" THEN Unsupported
                ELSE IF args[i].type = "RAW"
                THEN Text(i, rec.argval[i].len, FALSE)
                ELSE IF rec.argval[i].len < FmtSize THEN Garbage
                ELSE DumpOf(i, rec.argval[i].len)
         /\ args[i].type \notin {"CSTR", "GSTR", "XDUMP", "RAW"} =>
              live.line.what[i] = Text(i, WordSize, FALSE)

(* What format_raw has written, before it is read again.                   *)
StreamInv ==
  /\ pc \in {"parse", "cook"} =>
       /\ stream.time.v = time /\ stream.seqnum.v = seqnum
       /\ stream.name.len = Smaller(name, U8Max)
  /\ pc = "cook" => ValidName(stream.name.len)
  /\ pc = "parse" =>
       /\ stream.type.v = rec.type
       /\ DOMAIN stream.arg = 1 .. Len(rec.type)
       /\ \A i \in 1 .. Len(rec.type) :
            /\ args[i].type = "CSTR" =>
                 /\ stream.arg[i].bits = 16
                 /\ stream.arg[i].len = Smaller(rec.argval[i].len, U16Max)
                 /\ rec.argval[i].len > 0 =>
                      HasPiece(rec, rec.argval[i].at, stream.arg[i].v)
            /\ args[i].type = "GSTR" =>
                 /\ stream.arg[i].bits = 16
                 /\ stream.arg[i].len = Smaller(args[i].len, U16Max)
                 /\ stream.arg[i].v = Text(i, args[i].len, FALSE)
            /\ args[i].type \in {"XDUMP", "RAW"} =>
                 /\ stream.arg[i].bits = 32
                 /\ stream.arg[i].len = rec.argval[i].len
            /\ args[i].type = "XDUMP" /\ rec.argval[i].len >= FmtSize =>
                 stream.arg[i].v = DumpOf(i, rec.argval[i].len)
            /\ args[i].type \notin {"CSTR", "GSTR", "XDUMP", "RAW"} =>
                 /\ stream.arg[i].bits = ReadBits(args[i].type)
                 /\ stream.arg[i].v = Text(i, WordSize, FALSE)

(* What raw_parser has made of it.                                         *)
ParsedInv ==
  pc = "cook" =>
    /\ parsed.type \in Seq(Types) /\ Len(parsed.type) = Len(rec.type)
    /\ \A i \in 1 .. Len(rec.type) :
         /\ parsed.type[i] = ParsedType(args[i].type)
         /\ args[i].type = "CSTR" =>
              /\ parsed.argval[i].len = Smaller(rec.argval[i].len, U16Max)
              /\ rec.argval[i].len > 0 =>
                   \E c \in {m.content : m \in rec.mem} :
                     /\ HasPiece(rec, rec.argval[i].at, c)
                     /\ HasPiece(parsed, parsed.argval[i].at, Kept(c, U16Max))
         /\ args[i].type = "GSTR" =>
              /\ parsed.argval[i].len = Smaller(args[i].len, U16Max)
              /\ args[i].len > 0 =>
                   HasPiece(parsed, parsed.argval[i].at,
                            Kept(Text(i, args[i].len, FALSE), U16Max))
         /\ args[i].type \in {"XDUMP", "RAW"} =>
              parsed.argval[i].len = rec.argval[i].len
         /\ args[i].type = "XDUMP" /\ rec.argval[i].len >= FmtSize =>
              HasPiece(parsed, parsed.argval[i].at,
                       DumpOf(i, rec.argval[i].len))
         /\ args[i].type \notin {"CSTR", "GSTR", "XDUMP", "RAW"} =>
              parsed.argval[i] = [src |-> i, full |-> TRUE]

-----------------------------------------------------------------------------
(* The parts of a cached time are those of the last one.                   *)
CacheInv ==
  \A f \in {liveFmt, cookedFmt} :
    /\ f = [last |-> f.last, cache |-> f.cache]
    /\ f.cache.str.sec = f.cache.sec /\ f.cache.str.hi = f.cache.hi

(* The headers, field by field.                                            *)
HeaderIs(header, fs, f, t, n, seq) ==
  /\ header = [field \in fs |-> header[field]]
  /\ "timespec" \in fs => header["timespec"] = Timespec(t)
  /\ "timestamp" \in fs => header["timestamp"] = Timespec(t)
  /\ "timedelta" \in fs =>
       header["timedelta"] = IF f.last = 0 THEN 0 ELSE t - f.last
  /\ "seqnum" \in fs => header["seqnum"] = seq
  /\ \A field \in fs \ {"timespec", "timestamp", "timedelta", "seqnum"} :
       header[field] = Names(n)[field]

(* The handler of the tools goes through the states of the live one.       *)
HandlerInv ==
  /\ pc \in {"idle", "pack", "live", "done"} => liveFmt = cookedFmt
  /\ pc \in {"raw", "parse", "cook"} =>
       /\ HeaderIs(live.header, fields, cookedFmt, time, name, seqnum)
       /\ liveFmt.last = IF "timedelta" \in fields THEN time
                         ELSE cookedFmt.last
       /\ liveFmt.cache = IF "timespec" \in fields
                          THEN TscacheUpdate(cookedFmt.cache, time)
                          ELSE cookedFmt.cache

-----------------------------------------------------------------------------
(* Packing                                                                 *)

PackInv == TypeInv /\ ShapeInv /\ SpaceInv /\ PackedInv

(* What copy_cstr, copy_data and copy_xdump do.                            *)
LEMMA CopyFacts ==
  ASSUME TypeInv, SpaceInv, NEW i \in Nat, NEW a \in Arg, ~IsSimple(a.type)
  PROVE  /\ Copy(i, a).ref \in ReferenceWord
         /\ Copy(i, a).used \in Nat
         /\ HeaderSize + offset + Copy(i, a).used <= RecordSize(wanted)
         /\ Copy(i, a).used > 0 =>
              /\ Copy(i, a).mem \in Piece
              /\ Copy(i, a).mem.at = offset
              /\ Copy(i, a).mem.used = Copy(i, a).used
              /\ Copy(i, a).ref.at = offset
         /\ a.type = "CSTR" /\ Copy(i, a).ref.len > 0 =>
              /\ Copy(i, a).used > 0
              /\ StringOf(Copy(i, a).mem.content, i, a.len, Copy(i, a).ref.len)
         /\ a.type = "XDUMP" /\ Copy(i, a).ref.len >= FmtSize =>
              /\ Copy(i, a).used > 0
              /\ Copy(i, a).mem.content = DumpOf(i, Copy(i, a).ref.len)
<1>1. PICK room \in Nat : room = RecTailroom(wanted) - offset
  <2>1. RecordSize(wanted) \in Nat /\ HeaderSize + offset <= RecordSize(wanted)
    BY SlotSize DEF TypeInv, SpaceInv
  <2> QED
    BY <2>1 DEF RecTailroom, TypeInv, HeaderSize
<1>2. HeaderSize + offset + room = RecordSize(wanted)
  BY <1>1, SlotSize DEF RecTailroom, TypeInv, HeaderSize
<1>3. offset \in Nat /\ RecordSize(wanted) \in Nat /\ HeaderSize = 32
      /\ FmtSize = 4
  BY SlotSize DEF TypeInv, HeaderSize, FmtSize
<1>4. PICK len \in Nat : len = a.len
  BY DEF Arg
<1> DEFINE Fine(c) ==
      /\ c.ref \in ReferenceWord /\ c.used \in Nat /\ c.used <= room
      /\ c.used > 0 => /\ c.mem \in Piece /\ c.mem.at = offset
                       /\ c.mem.used = c.used /\ c.ref.at = offset
<1>5. ASSUME NEW n \in Nat, NEW used \in Nat, used <= room,
             NEW k \in Nat, NEW mark \in BOOLEAN
      PROVE  Fine(Copied(offset, n, used, Content(i, k, mark)))
  BY <1>3, <1>5 DEF Copied, Reference, Content, ReferenceWord, Piece, Bytes
<1>6. Fine(NotCopied)
  BY DEF NotCopied, Copied, Reference, ReferenceWord
<1> HIDE DEF Fine
<1>no. PICK no \in BOOLEAN : no = FALSE
  OBVIOUS
<1>yes. PICK yes \in BOOLEAN : yes = TRUE
  OBVIOUS
<1>7. CASE a.type = "CSTR"
  <2>1. Copy(i, a) = CopyCstr(i, len, room)
    BY <1>1, <1>4, <1>7 DEF Copy
  <2>2. CASE len = 0 \/ room = 0
    <3>1. Copy(i, a) = NotCopied
      BY <2>1, <2>2 DEF CopyCstr
    <3>2. Copy(i, a).ref.len = 0
      BY <3>1 DEF NotCopied, Copied, Reference
    <3> QED
      BY <1>2, <1>3, <1>6, <1>7, <3>1, <3>2 DEF Fine
  <2>3. CASE ~(len = 0 \/ room = 0)
    <3>1. PICK n \in Nat : n = Smaller(len, room - 1)
      BY <2>3 DEF Smaller
    <3>2. n + 1 <= room /\ n + 1 \in Nat /\ n <= len
      BY <2>3, <3>1 DEF Smaller
    <3>3. ASSUME NEW k \in Nat, NEW mark \in BOOLEAN,
                 Copy(i, a) = Copied(offset, n, n + 1, Content(i, k, mark)),
                 StringOf(Content(i, k, mark), i, len, n)
          PROVE  /\ Fine(Copy(i, a)) /\ Copy(i, a).used > 0
                 /\ StringOf(Copy(i, a).mem.content, i, len,
                             Copy(i, a).ref.len)
      <4>1. Fine(Copy(i, a))
        BY <1>5, <3>2, <3>3
      <4>2. /\ Copy(i, a).used = n + 1 /\ Copy(i, a).ref.len = n
            /\ Copy(i, a).mem.content = Content(i, k, mark)
        BY <3>3 DEF Copied, Reference
      <4> QED
        BY <3>2, <3>3, <4>1, <4>2 DEF Fine
    <3>4. CASE len > n /\ n > 3
      <4>1. PICK k \in Nat : k = n - 3
        BY <3>4
      <4>2. Copy(i, a) = Copied(offset, n, n + 1, Content(i, k, yes))
        BY <1>yes, <2>1, <2>3, <3>1, <3>4, <4>1 DEF CopyCstr
      <4>3. StringOf(Content(i, k, yes), i, len, n)
        BY <1>yes, <4>1 DEF StringOf, Content, Bytes
      <4> QED
        BY <1>2, <1>3, <1>4, <1>7, <3>3, <4>2, <4>3 DEF Fine
    <3>5. CASE ~(len > n /\ n > 3)
      <4>1. Copy(i, a) = Copied(offset, n, n + 1, Content(i, n, no))
        BY <1>no, <2>1, <2>3, <3>1, <3>5 DEF CopyCstr
      <4>2. StringOf(Content(i, n, no), i, len, n)
        BY <1>no, <3>5 DEF StringOf, Content, Bytes
      <4> QED
        BY <1>2, <1>3, <1>4, <1>7, <3>3, <4>1, <4>2 DEF Fine
    <3> QED
      BY <3>4, <3>5
  <2> QED
    BY <2>2, <2>3
<1>8. CASE a.type = "RAW"
  <2>1. PICK n \in Nat : n = Smaller(len, room)
    BY DEF Smaller
  <2>2. n <= room
    BY <2>1 DEF Smaller
  <2>3. Copy(i, a) = Copied(offset, n, n, Content(i, n, no))
    BY <1>1, <1>4, <1>8, <1>no, <2>1 DEF Copy, CopyData
  <2>4. Fine(Copy(i, a))
    BY <1>5, <2>2, <2>3
  <2> QED
    BY <1>2, <1>3, <1>8, <2>4 DEF Fine
<1>9. CASE a.type = "XDUMP"
  <2>1. PICK n \in Nat : n = Smaller(FmtSize + len, room)
    BY <1>3 DEF Smaller
  <2>2. n <= room
    BY <1>3, <2>1 DEF Smaller
  <2>3. CASE n < FmtSize
    <3>1. Copy(i, a) = NotCopied
      BY <1>1, <1>4, <1>9, <2>1, <2>3 DEF Copy, CopyXdump
    <3>2. Copy(i, a).ref.len = 0
      BY <3>1 DEF NotCopied, Copied, Reference
    <3> QED
      BY <1>2, <1>3, <1>6, <1>9, <3>1, <3>2 DEF Fine
  <2>4. CASE ~(n < FmtSize)
    <3>1. PICK k \in Nat : k = n - FmtSize
      BY <1>3, <2>4
    <3>2. Copy(i, a) = Copied(offset, n, n, Content(i, k, no))
      BY <1>1, <1>4, <1>9, <2>1, <1>no, <2>4, <3>1 DEF Copy, CopyXdump
    <3>3. Fine(Copy(i, a))
      BY <1>5, <2>2, <3>2
    <3>4. /\ Copy(i, a).used = n /\ Copy(i, a).ref.len = n
          /\ Copy(i, a).mem.content = Content(i, k, no)
      BY <3>2 DEF Copied, Reference
    <3> QED
      <4>1. Content(i, k, no) = DumpOf(i, n)
        BY <1>no, <3>1 DEF DumpOf
      <4>2. Copy(i, a).used > 0
        BY <1>3, <2>4, <3>4
      <4> QED
        BY <1>2, <1>3, <1>9, <3>3, <3>4, <4>1, <4>2 DEF Fine
  <2> QED
    BY <2>3, <2>4
<1> QED
  BY <1>7, <1>8, <1>9 DEF IsSimple, Data

(* A piece at an address of its own does not disturb the others.           *)
LEMMA PieceAdded ==
  ASSUME NEW r, NEW s, NEW m, s.mem = r.mem \cup {m},
         \A k \in r.mem : k.at # m.at
  PROVE  /\ \A at, c : HasPiece(r, at, c) => HasPiece(s, at, c)
         /\ HasPiece(s, m.at, m.content)
  BY DEF HasPiece

(* What is known of the argument that is packed next.                      *)
LEMMA NextArg ==
  ASSUME PackInv, SetArg, NEW i, i = Len(rec.type) + 1
  PROVE  /\ i \in 1 .. Len(args) /\ i \in Nat /\ args[i] \in Arg
         /\ args[i].type \in Types
         /\ i - 1 = Len(rec.type) /\ pc = "pack"
<1>1. /\ pc = "pack" /\ args \in Seq(Arg) /\ Len(rec.type) \in Nat
      /\ Len(rec.type) < Len(args)
  BY DEF PackInv, TypeInv, ShapeInv, SetArg
<1>2. i \in 1 .. Len(args) /\ i \in Nat /\ i - 1 = Len(rec.type)
  BY <1>1
<1>3. args[i] \in Arg
  BY <1>1, <1>2
<1> QED
  BY <1>1, <1>2, <1>3 DEF Arg

(* A value is put into the record.                                         *)
LEMMA SetValueStep ==
  ASSUME PackInv, SetArg, IsSimple(args[Len(rec.type) + 1].type)
  PROVE  PackInv'
<1>0. TypeInv /\ ShapeInv /\ SpaceInv /\ PackedInv
  BY DEF PackInv
<1>1. PICK i \in Nat : i = Len(rec.type) + 1
  BY <1>0 DEF TypeInv
<1>2. /\ i \in 1 .. Len(args) /\ args[i] \in Arg
      /\ args[i].type \in Types /\ IsSimple(args[i].type)
      /\ i - 1 = Len(rec.type) /\ pc = "pack"
  BY <1>1, NextArg
<1>3. PICK v \in ValueWord : v = Value(i, args[i].type)
  <2>1. PICK full \in BOOLEAN : full = ~Is32bit(args[i].type)
    OBVIOUS
  <2>2. Value(i, args[i].type) = [src |-> i, full |-> full]
    BY <2>1 DEF Value
  <2> QED
    BY <2>2 DEF ValueWord
<1>4. v.src = i /\ (Is32bit(args[i].type) \/ v.full)
  BY <1>3 DEF Value
<1>5. /\ rec' = [rec EXCEPT !.type = Append(@, args[i].type),
                            !.argval = Append(@, v)]
      /\ pc' = IF i = Len(args) THEN "live" ELSE "pack"
      /\ UNCHANGED <<wanted, args, time, name, offset>>
  BY <1>1, <1>2, <1>3 DEF SetArg, config, given
<1>6. /\ rec'.type = Append(rec.type, args[i].type)
      /\ rec'.argval = Append(rec.argval, v)
      /\ rec'.mem = rec.mem /\ DOMAIN rec' = {"type", "argval", "mem"}
  BY <1>0, <1>5 DEF TypeInv
<1>7. /\ rec.type \in Seq(Types)
      /\ rec.argval \in Seq(ValueWord \cup ReferenceWord)
      /\ Len(rec.argval) = Len(rec.type)
  BY <1>0 DEF TypeInv, ShapeInv
<1>8. /\ rec'.type \in Seq(Types) /\ Len(rec'.type) = i
      /\ rec'.argval \in Seq(ValueWord \cup ReferenceWord)
      /\ Len(rec'.argval) = i
  BY <1>1, <1>2, <1>6, <1>7
<1>9. /\ rec'.type[i] = args[i].type /\ rec'.argval[i] = v
      /\ \A k \in 1 .. i - 1 : rec'.type[k] = rec.type[k]
      /\ \A k \in 1 .. i - 1 : rec'.argval[k] = rec.argval[k]
  BY <1>1, <1>6, <1>7
<1>10. TypeInv'
  BY <1>0, <1>5, <1>6, <1>8 DEF TypeInv
<1>11. ShapeInv'
  BY <1>0, <1>1, <1>2, <1>5, <1>8, <1>9 DEF ShapeInv, TypeInv
<1>12. SpaceInv'
  BY <1>0, <1>5, <1>6 DEF SpaceInv
<1>13. PackedInv'
  <2>1. \A at, c : HasPiece(rec, at, c) <=> HasPiece(rec', at, c)
    BY <1>6 DEF HasPiece
  <2> SUFFICES ASSUME NEW k \in 1 .. i
               PROVE  /\ IsSimple(args[k].type) =>
                           /\ rec'.argval[k] \in ValueWord
                           /\ rec'.argval[k].src = k
                           /\ Is32bit(args[k].type) \/ rec'.argval[k].full
                      /\ ~IsSimple(args[k].type) =>
                           rec'.argval[k] \in ReferenceWord
                      /\ args[k].type = "CSTR" /\ rec'.argval[k].len > 0 =>
                           \E c \in {m.content : m \in rec'.mem} :
                             /\ StringOf(c, k, args[k].len, rec'.argval[k].len)
                             /\ HasPiece(rec', rec'.argval[k].at, c)
                      /\ args[k].type = "XDUMP"
                           /\ rec'.argval[k].len >= FmtSize =>
                           HasPiece(rec', rec'.argval[k].at,
                                    DumpOf(k, rec'.argval[k].len))
    BY <1>5, <1>8 DEF PackedInv
  <2>2. CASE k = i
    BY <1>2, <1>4, <1>9, <2>2 DEF IsSimple, Data
  <2>3. CASE k # i
    <3>1. k \in 1 .. Len(rec.type) /\ rec'.argval[k] = rec.argval[k]
      BY <1>1, <1>2, <1>9, <2>3
    <3> QED
      BY <1>0, <1>6, <2>1, <3>1 DEF PackedInv
  <2> QED
    BY <2>2, <2>3
<1> QED
  BY <1>10, <1>11, <1>12, <1>13 DEF PackInv

(* Data is copied into the record.                                         *)
LEMMA SetDataStep ==
  ASSUME PackInv, SetArg, ~IsSimple(args[Len(rec.type) + 1].type)
  PROVE  PackInv'
<1>0. TypeInv /\ ShapeInv /\ SpaceInv /\ PackedInv
  BY DEF PackInv
<1>1. PICK i \in Nat : i = Len(rec.type) + 1
  BY <1>0 DEF TypeInv
<1>2. /\ i \in 1 .. Len(args) /\ args[i] \in Arg
      /\ args[i].type \in Types /\ ~IsSimple(args[i].type)
      /\ i - 1 = Len(rec.type) /\ pc = "pack"
  BY <1>1, NextArg
<1>3. PICK copy : copy = Copy(i, args[i])
  OBVIOUS
<1>4. /\ copy.ref \in ReferenceWord
      /\ copy.used \in Nat
      /\ HeaderSize + offset + copy.used <= RecordSize(wanted)
      /\ copy.used > 0 =>
           /\ copy.mem \in Piece /\ copy.mem.at = offset
           /\ copy.mem.used = copy.used /\ copy.ref.at = offset
      /\ args[i].type = "CSTR" /\ copy.ref.len > 0 =>
           /\ copy.used > 0
           /\ StringOf(copy.mem.content, i, args[i].len, copy.ref.len)
      /\ args[i].type = "XDUMP" /\ copy.ref.len >= FmtSize =>
           /\ copy.used > 0
           /\ copy.mem.content = DumpOf(i, copy.ref.len)
  BY <1>0, <1>2, <1>3, CopyFacts
<1>5. PICK v \in ReferenceWord : v = copy.ref
  BY <1>4
<1>6. /\ rec' = [rec EXCEPT !.type = Append(@, args[i].type),
                            !.argval = Append(@, v),
                            !.mem = IF copy.used = 0 THEN @
                                    ELSE @ \cup {copy.mem}]
      /\ offset' = offset + copy.used
      /\ pc' = IF i = Len(args) THEN "live" ELSE "pack"
      /\ UNCHANGED <<wanted, args, time, name>>
  BY <1>1, <1>2, <1>3, <1>5 DEF SetArg, config, given
<1>7. /\ rec'.type = Append(rec.type, args[i].type)
      /\ rec'.argval = Append(rec.argval, v)
      /\ rec'.mem = IF copy.used = 0 THEN rec.mem ELSE rec.mem \cup {copy.mem}
      /\ DOMAIN rec' = {"type", "argval", "mem"}
  BY <1>0, <1>6 DEF TypeInv
<1>8. /\ rec.type \in Seq(Types)
      /\ rec.argval \in Seq(ValueWord \cup ReferenceWord)
      /\ Len(rec.argval) = Len(rec.type) /\ offset \in Nat
  BY <1>0 DEF TypeInv, ShapeInv
<1>9. /\ rec'.type \in Seq(Types) /\ Len(rec'.type) = i
      /\ rec'.argval \in Seq(ValueWord \cup ReferenceWord)
      /\ Len(rec'.argval) = i
  BY <1>1, <1>2, <1>7, <1>8
<1>10. /\ rec'.type[i] = args[i].type /\ rec'.argval[i] = v
       /\ \A k \in 1 .. i - 1 : rec'.type[k] = rec.type[k]
       /\ \A k \in 1 .. i - 1 : rec'.argval[k] = rec.argval[k]
  BY <1>1, <1>7, <1>8
<1>11. TypeInv'
  <2>1. rec'.mem \subseteq Piece
    <3>1. rec.mem \subseteq Piece
      BY <1>0 DEF TypeInv
    <3> QED
      BY <1>4, <1>7, <3>1
  <2>2. offset' \in Nat
    BY <1>4, <1>6, <1>8
  <2> QED
    BY <1>0, <1>6, <1>7, <1>9, <2>1, <2>2 DEF TypeInv
<1>12. ShapeInv'
  BY <1>0, <1>1, <1>2, <1>6, <1>9, <1>10 DEF ShapeInv, TypeInv
<1>13. \A k \in rec.mem :
         /\ k.at \in Nat /\ k.used \in Nat /\ k.used > 0
         /\ Len(args) * WordSize <= k.at /\ k.at + k.used <= offset
  BY <1>0 DEF TypeInv, SpaceInv, Piece
<1>14. Len(args) * WordSize \in Nat /\ Len(args) * WordSize <= offset
  BY <1>0 DEF TypeInv, SpaceInv, WordSize
<1>15. SpaceInv'
  <2>1. Len(args) * WordSize <= offset + copy.used
    BY <1>4, <1>8, <1>14
  <2>2. HeaderSize + (offset + copy.used) <= RecordSize(wanted)
    BY <1>0, <1>4, <1>8, SlotSize DEF HeaderSize, TypeInv
  <2>3. ASSUME NEW m \in rec'.mem
        PROVE  /\ Len(args) * WordSize <= m.at
               /\ m.at + m.used <= offset + copy.used
    <3>1. CASE m \in rec.mem
      BY <1>4, <1>8, <1>13, <3>1
    <3>2. CASE m \notin rec.mem
      <4>1. m = copy.mem /\ copy.used > 0
        BY <1>4, <1>7, <2>3, <3>2
      <4> QED
        BY <1>4, <1>8, <1>14, <4>1
    <3> QED
      BY <3>1, <3>2
  <2>4. ASSUME NEW m \in rec'.mem, NEW k \in rec'.mem
        PROVE  m = k \/ m.at + m.used <= k.at \/ k.at + k.used <= m.at
    <3>1. CASE m \in rec.mem /\ k \in rec.mem
      BY <1>0, <3>1 DEF SpaceInv
    <3>2. CASE copy.used = 0
      BY <1>7, <2>4, <3>1, <3>2
    <3>3. CASE copy.used # 0
      <4>1. /\ m \in rec.mem \/ m = copy.mem
            /\ k \in rec.mem \/ k = copy.mem
        BY <1>7, <2>4, <3>3
      <4>2. copy.mem.at = offset
        BY <1>4, <3>3
      <4> QED
        BY <1>13, <3>1, <4>1, <4>2
    <3> QED
      BY <3>2, <3>3
  <2> QED
    BY <1>6, <2>1, <2>2, <2>3, <2>4 DEF SpaceInv
<1>16. /\ \A at, c : HasPiece(rec, at, c) => HasPiece(rec', at, c)
       /\ copy.used > 0 => /\ HasPiece(rec', v.at, copy.mem.content)
                           /\ copy.mem \in rec'.mem
       /\ rec.mem \subseteq rec'.mem
  <2>1. CASE copy.used = 0
    BY <1>7, <2>1 DEF HasPiece
  <2>2. CASE copy.used > 0
    <3>1. rec'.mem = rec.mem \cup {copy.mem} /\ copy.mem.at = offset
          /\ v.at = offset
      BY <1>4, <1>5, <1>7, <2>2
    <3>2. \A k \in rec.mem : k.at # copy.mem.at
      BY <1>8, <1>13, <3>1
    <3> QED
      BY <3>1, <3>2, PieceAdded
  <2> QED
    BY <1>4, <2>1, <2>2
<1>17. PackedInv'
  <2> SUFFICES ASSUME NEW k \in 1 .. i
               PROVE  /\ IsSimple(args[k].type) =>
                           /\ rec'.argval[k] \in ValueWord
                           /\ rec'.argval[k].src = k
                           /\ Is32bit(args[k].type) \/ rec'.argval[k].full
                      /\ ~IsSimple(args[k].type) =>
                           rec'.argval[k] \in ReferenceWord
                      /\ args[k].type = "CSTR" /\ rec'.argval[k].len > 0 =>
                           \E c \in {m.content : m \in rec'.mem} :
                             /\ StringOf(c, k, args[k].len, rec'.argval[k].len)
                             /\ HasPiece(rec', rec'.argval[k].at, c)
                      /\ args[k].type = "XDUMP"
                           /\ rec'.argval[k].len >= FmtSize =>
                           HasPiece(rec', rec'.argval[k].at,
                                    DumpOf(k, rec'.argval[k].len))
    BY <1>6, <1>9 DEF PackedInv
  <2>1. CASE k = i
    <3>1. ASSUME args[i].type = "CSTR", v.len > 0
          PROVE  \E c \in {m.content : m \in rec'.mem} :
                   /\ StringOf(c, i, args[i].len, v.len)
                   /\ HasPiece(rec', v.at, c)
      BY <1>4, <1>5, <1>16, <3>1
    <3>2. ASSUME args[i].type = "XDUMP", v.len >= FmtSize
          PROVE  HasPiece(rec', v.at, DumpOf(i, v.len))
      BY <1>4, <1>5, <1>16, <3>2
    <3> QED
      BY <1>2, <1>10, <2>1, <3>1, <3>2
  <2>2. CASE k # i
    <3>1. k \in 1 .. Len(rec.type) /\ rec'.argval[k] = rec.argval[k]
      BY <1>1, <1>2, <1>10, <2>2
    <3>2. ASSUME args[k].type = "CSTR", rec.argval[k].len > 0
          PROVE  \E c \in {m.content : m \in rec'.mem} :
                   /\ StringOf(c, k, args[k].len, rec.argval[k].len)
                   /\ HasPiece(rec', rec.argval[k].at, c)
      <4>1. PICK c \in {m.content : m \in rec.mem} :
                   /\ StringOf(c, k, args[k].len, rec.argval[k].len)
                   /\ HasPiece(rec, rec.argval[k].at, c)
        BY <1>0, <3>1, <3>2 DEF PackedInv
      <4> QED
        BY <1>16, <4>1
    <3>3. ASSUME args[k].type = "XDUMP", rec.argval[k].len >= FmtSize
          PROVE  HasPiece(rec', rec.argval[k].at,
                          DumpOf(k, rec.argval[k].len))
      BY <1>0, <1>16, <3>1, <3>3 DEF PackedInv
    <3>4. /\ IsSimple(args[k].type) =>
               /\ rec.argval[k] \in ValueWord
               /\ rec.argval[k].src = k
               /\ Is32bit(args[k].type) \/ rec.argval[k].full
          /\ ~IsSimple(args[k].type) => rec.argval[k] \in ReferenceWord
      BY <1>0, <3>1 DEF PackedInv
    <3> QED
      BY <3>1, <3>2, <3>3, <3>4
  <2> QED
    BY <2>1, <2>2
<1> QED
  BY <1>11, <1>12, <1>15, <1>17 DEF PackInv

(* A record without arguments.                                             *)
LEMMA EmptyRecord ==
  /\ EmptyRec.type = <<>> /\ EmptyRec.argval = <<>> /\ EmptyRec.mem = {}
  /\ DOMAIN EmptyRec = {"type", "argval", "mem"}
  /\ <<>> \in Seq(Types) /\ <<>> \in Seq(ValueWord \cup ReferenceWord)
  /\ <<>> \in Seq(Arg) /\ Len(<<>>) = 0 /\ 1 .. 0 = {}
  BY DEF EmptyRec

(* Between two records.                                                    *)
LEMMA IdlePack ==
  ASSUME wanted \in Tailrooms, pc = "idle", args = <<>>, rec = EmptyRec,
         time = 0, name = 0, offset = 0
  PROVE  PackInv
<1>1. /\ RecordSize(wanted) \in Nat
      /\ RecordSize(wanted) >= HeaderSize + ArgvalSize
  BY SlotSize
<1>2. TypeInv
  BY EmptyRecord DEF TypeInv, NARGS
<1>3. ShapeInv
  BY EmptyRecord DEF ShapeInv
<1>4. SpaceInv
  BY <1>1, EmptyRecord DEF SpaceInv, WordSize, HeaderSize, ArgvalSize, NARGS
<1>5. PackedInv
  BY EmptyRecord DEF PackedInv
<1> QED
  BY <1>2, <1>3, <1>4, <1>5 DEF PackInv

(* set_args starts with a record that has room for the values.             *)
LEMMA PostStep ==
  ASSUME PackInv, Post
  PROVE  PackInv'
<1>0. wanted \in Tailrooms
  BY DEF PackInv, TypeInv
<1>1. /\ args' \in ArgLists /\ time' \in Timestamps /\ name' \in NameLens
      /\ rec' = EmptyRec /\ offset' = Len(args') * WordSize
      /\ pc' = IF args' = <<>> THEN "live" ELSE "pack"
      /\ wanted' = wanted
  BY DEF Post, FirstOffset, config
<1>2. args' \in Seq(Arg) /\ Len(args') <= NARGS /\ Len(args') \in Nat
  <2>1. args' \in Seq([type: Types, len: Nat]) /\ Len(args') <= NARGS
    BY <1>1, ArgAssumption
  <2>2. args' \in Seq(Arg)
    BY <2>1 DEF Arg
  <2> QED
    BY <2>1, <2>2
<1>3. /\ RecordSize(wanted) \in Nat
      /\ RecordSize(wanted) >= HeaderSize + ArgvalSize
  BY <1>0, SlotSize
<1>4. TypeInv'
  <2>1. offset' \in Nat
    BY <1>1, <1>2 DEF WordSize
  <2>2. time' \in Nat /\ name' \in Nat
    BY <1>1, NumberAssumption
  <2>3. pc' \in {"pack", "live"}
    BY <1>1
  <2> QED
    BY <1>0, <1>1, <1>2, <2>1, <2>2, <2>3, EmptyRecord DEF TypeInv
<1>5. ShapeInv'
  <2>1. args' # <<>> => Len(args') > 0
    BY <1>2
  <2>2. args' = <<>> => Len(args') = 0
    BY EmptyRecord
  <2> QED
    BY <1>1, <1>2, <2>1, <2>2, EmptyRecord DEF ShapeInv
<1>6. SpaceInv'
  <2>1. /\ Len(args') * WordSize <= ArgvalSize /\ Len(args') * WordSize \in Nat
    BY <1>2 DEF WordSize, ArgvalSize, NARGS
  <2>2. HeaderSize + Len(args') * WordSize <= RecordSize(wanted)
    BY <1>3, <2>1 DEF HeaderSize, ArgvalSize, NARGS, WordSize
  <2> QED
    BY <1>1, <2>1, <2>2, EmptyRecord DEF SpaceInv
<1>7. PackedInv'
  BY <1>1, EmptyRecord DEF PackedInv
<1> QED
  BY <1>4, <1>5, <1>6, <1>7 DEF PackInv

(* The record stays as it is until the next one.                           *)
LEMMA ReadStep ==
  ASSUME PackInv, pc \notin {"idle", "pack"},
         pc' \in {"raw", "parse", "cook", "done", "rejected", "recovered"},
         UNCHANGED <<wanted, args, time, name, offset, rec>>
  PROVE  PackInv'
<1>1. TypeInv' /\ ShapeInv'
  BY DEF PackInv, TypeInv, ShapeInv
<1>2. SpaceInv' /\ PackedInv'
  BY DEF PackInv, SpaceInv, PackedInv
<1> QED
  BY <1>1, <1>2 DEF PackInv

(* The part of the invariant that is about the record.                     *)
LEMMA PackInvariant ==
  /\ Init => PackInv
  /\ PackInv /\ [Next]_vars => PackInv'
<1>1. ASSUME Init PROVE PackInv
  BY <1>1, IdlePack DEF Init
<1>2. ASSUME PackInv, [Next]_vars PROVE PackInv'
  <2> USE DEF config, given
  <2>1. CASE Post
    BY <1>2, <2>1, PostStep
  <2>2. CASE SetArg
    BY <1>2, <2>2, SetValueStep, SetDataStep
  <2>3. CASE ProcessLive
    BY <1>2, <2>3, ReadStep DEF ProcessLive
  <2>4. CASE Pack
    BY <1>2, <2>4, ReadStep DEF Pack
  <2>5. CASE Parse
    <3>1. /\ pc = "parse" /\ pc' \in {"cook", "rejected"}
          /\ UNCHANGED <<wanted, args, time, name, offset, rec>>
      BY <2>5 DEF Parse
    <3> QED
      BY <1>2, <3>1, ReadStep
  <2>6. CASE ProcessCooked
    BY <1>2, <2>6, ReadStep DEF ProcessCooked
  <2>7. ASSUME NEW o \in Recoveries, ProcessRecovered(o) PROVE PackInv'
    BY <1>2, <2>7, ReadStep DEF ProcessRecovered
  <2>8. CASE NextRecord
    <3>1. /\ wanted' \in Tailrooms /\ pc' = "idle" /\ args' = <<>>
          /\ rec' = EmptyRec /\ time' = 0 /\ name' = 0 /\ offset' = 0
      BY <1>2, <2>8 DEF NextRecord, PackInv, TypeInv
    <3>2. RecordSize(wanted') \in Nat
          /\ RecordSize(wanted') >= HeaderSize + ArgvalSize
      BY <3>1, SlotSize
    <3>3. TypeInv'
      BY <3>1, EmptyRecord DEF TypeInv, NARGS
    <3>4. ShapeInv' /\ PackedInv'
      BY <3>1, EmptyRecord DEF ShapeInv, PackedInv
    <3>5. SpaceInv'
      BY <3>1, <3>2, EmptyRecord
      DEF SpaceInv, WordSize, HeaderSize, ArgvalSize, NARGS
    <3> QED
      BY <3>3, <3>4, <3>5 DEF PackInv
  <2>9. CASE UNCHANGED vars
    <3>1. TypeInv' /\ ShapeInv' /\ SpaceInv' /\ PackedInv'
      BY <1>2, <2>9
      DEF vars, PackInv, TypeInv, ShapeInv, SpaceInv, PackedInv
    <3> QED
      BY <3>1 DEF PackInv
  <2> QED
    BY <1>2, <2>1, <2>2, <2>3, <2>4, <2>5, <2>6, <2>7, <2>8, <2>9 DEF Next
<1> QED
  BY <1>1, <1>2

(* The data of a record is inside of its slot, behind the values, and no   *)
(* two pieces overlap, whatever the arguments of the post and the size of  *)
(* the slot are.                                                           *)
THEOREM ArgsInsideHolds == Spec => []ArgsInside
<1>1. ASSUME PackInv PROVE ArgsInside
  <2>1. TypeInv /\ SpaceInv
    BY <1>1 DEF PackInv
  <2>2. RecordSize(wanted) \in Nat
    BY <2>1, SlotSize DEF TypeInv
  <2>3. ASSUME NEW m \in rec.mem
        PROVE  HeaderSize + m.at + m.used <= RecordSize(wanted)
    <3>1. m.at \in Nat /\ m.used \in Nat /\ offset \in Nat
      BY <2>1 DEF TypeInv, Piece
    <3>2. m.at + m.used <= offset /\ HeaderSize + offset <= RecordSize(wanted)
      BY <2>1 DEF SpaceInv
    <3> QED
      BY <2>2, <3>1, <3>2 DEF HeaderSize
  <2> QED
    BY <2>1, <2>3 DEF ArgsInside, SpaceInv
<1> QED
  BY <1>1, PackInvariant, PTL DEF Spec

(* The one piece at an address is what a reference leads to.               *)
LEMMA PieceRead ==
  ASSUME NEW r, NEW i, NEW c, HasPiece(r, r.argval[i].at, c)
  PROVE  At(r, i) = c
<1>1. PICK m \in r.mem : /\ m.at = r.argval[i].at /\ m.content = c
                         /\ \A k \in r.mem : k.at = r.argval[i].at => k = m
  BY DEF HasPiece
<1>2. {k \in r.mem : k.at = r.argval[i].at} = {m}
  BY <1>1
<1>3. (CHOOSE k \in {m} : TRUE) = m
  OBVIOUS
<1> QED
  BY <1>1, <1>2, <1>3 DEF At

(* Every argument is printed from its own bytes, and a string that had to  *)
(* be cut says so, whatever else is in the record.                         *)
THEOREM OwnBytesHolds == Spec => []OwnBytes
<1>1. ASSUME PackInv PROVE OwnBytes
  <2>0. TypeInv /\ ShapeInv /\ PackedInv
    BY <1>1 DEF PackInv
  <2> SUFFICES ASSUME pc = "raw", NEW i \in DOMAIN args
               PROVE  \/ PlainArg(rec, i) = Null
                      \/ args[i].type = "XDUMP" /\ rec.argval[i].len < FmtSize
                      \/ /\ PlainArg(rec, i).src = i
                         /\ args[i].type = "CSTR"
                              /\ PlainArg(rec, i).n < args[i].len =>
                              PlainArg(rec, i).mark \/ PlainArg(rec, i).n <= 3
    BY DEF OwnBytes
  <2>1. /\ i \in 1 .. Len(rec.type) /\ rec.type[i] = args[i].type /\ i \in Nat
        /\ i # 0 /\ args[i] \in Arg
    BY <2>0 DEF TypeInv, ShapeInv
  <2>2. args[i].type \in Types /\ args[i].len \in Nat
    BY <2>1 DEF Arg
  <2>3. CASE args[i].type = "CSTR"
    <3>1. PlainArg(rec, i) = IF rec.argval[i].len = 0 THEN Null ELSE At(rec, i)
      BY <2>1, <2>3 DEF PlainArg, ArgStr
    <3>2. rec.argval[i].len \in Nat
      BY <2>0, <2>1, <2>3 DEF PackedInv, IsSimple, Data, ReferenceWord
    <3>3. CASE rec.argval[i].len > 0
      <4>1. PICK c : /\ StringOf(c, i, args[i].len, rec.argval[i].len)
                     /\ HasPiece(rec, rec.argval[i].at, c)
        BY <2>0, <2>1, <2>3, <3>3 DEF PackedInv
      <4>2. PlainArg(rec, i) = c
        BY <3>1, <3>3, <4>1, PieceRead
      <4> QED
        BY <4>1, <4>2 DEF StringOf
    <3> QED
      BY <3>1, <3>2, <3>3
  <2>4. CASE args[i].type = "GSTR"
    <3>1. rec.argval[i] \in ValueWord /\ rec.argval[i].src = i
      BY <2>0, <2>1, <2>4 DEF PackedInv, IsSimple, Data
    <3>2. "full" \in DOMAIN rec.argval[i]
      BY <3>1 DEF ValueWord
    <3>3. PlainArg(rec, i) = Text(i, args[i].len, FALSE)
      BY <2>1, <2>4, <3>1, <3>2 DEF PlainArg, ArgStr
    <3> QED
      BY <2>4, <3>3 DEF Text
  <2>5. CASE args[i].type = "XDUMP"
    <3>1. PlainArg(rec, i) = Xdump(rec, i)
      BY <2>1, <2>5 DEF PlainArg
    <3>2. rec.argval[i].len \in Nat
      BY <2>0, <2>1, <2>5 DEF PackedInv, IsSimple, Data, ReferenceWord
    <3>3. CASE rec.argval[i].len >= FmtSize
      <4>1. HasPiece(rec, rec.argval[i].at, DumpOf(i, rec.argval[i].len))
        BY <2>0, <2>1, <2>5, <3>3 DEF PackedInv
      <4>2. PlainArg(rec, i) = DumpOf(i, rec.argval[i].len)
        <5>1. ~(rec.argval[i].len < FmtSize)
          BY <3>2, <3>3 DEF FmtSize
        <5> QED
          BY <3>1, <4>1, <5>1, PieceRead DEF Xdump
      <4> QED
        BY <2>5, <4>2 DEF DumpOf, Content
    <3> QED
      BY <2>5, <3>2, <3>3 DEF FmtSize
  <2>6. CASE args[i].type = "RAW"
    BY <2>1, <2>6 DEF PlainArg, RawData, Text
  <2>7. CASE args[i].type \notin {"CSTR", "GSTR", "XDUMP", "RAW"}
    <3>1. /\ rec.argval[i].src = i
          /\ Is32bit(args[i].type) \/ rec.argval[i].full
      BY <2>0, <2>1, <2>7 DEF PackedInv, IsSimple, Data
    <3>2. PlainArg(rec, i) = Text(i, WordSize, FALSE)
      BY <2>1, <2>7, <3>1 DEF PlainArg, ArgVal
    <3> QED
      BY <2>7, <3>2 DEF Text
  <2> QED
    BY <2>3, <2>4, <2>5, <2>6, <2>7
<1> QED
  BY <1>1, PackInvariant, PTL DEF Spec

-----------------------------------------------------------------------------
(* Headers                                                                 *)

HeadInv == CacheInv /\ HandlerInv

(* tscache::update leaves the time of the record, whatever was there.      *)
LEMMA CacheUpdated ==
  ASSUME NEW c, NEW t, c.str.sec = c.sec, c.str.hi = c.hi
  PROVE  /\ TscacheUpdate(c, t).str = Timespec(t)
         /\ TscacheUpdate(c, t).str.sec = TscacheUpdate(c, t).sec
         /\ TscacheUpdate(c, t).str.hi = TscacheUpdate(c, t).hi
<1>1. PICK ts : ts = Timespec(t)
  OBVIOUS
<1>2. ts = [sec |-> ts.sec, hi |-> ts.hi, lo |-> ts.lo]
  BY <1>1 DEF Timespec
<1>3. TscacheUpdate(c, t) =
        [sec |-> ts.sec, hi |-> ts.hi,
         str |-> [sec |-> ts.sec, hi |-> ts.hi, lo |-> ts.lo]]
  BY <1>1 DEF TscacheUpdate
<1> QED
  BY <1>1, <1>2, <1>3

(* A handler after a record.                                               *)
LEMMA HandlerAfter ==
  ASSUME NEW f, NEW t, f.cache.str.sec = f.cache.sec,
         f.cache.str.hi = f.cache.hi
  PROVE  LET g == AfterHeader(f, t)
         IN  /\ g = [last |-> g.last, cache |-> g.cache]
             /\ g.cache.str.sec = g.cache.sec /\ g.cache.str.hi = g.cache.hi
             /\ g.last = IF "timedelta" \in fields THEN t ELSE f.last
             /\ g.cache = IF "timespec" \in fields
                          THEN TscacheUpdate(f.cache, t) ELSE f.cache
             /\ "timespec" \in fields => g.cache.str = Timespec(t)
<1>1. PICK last : last = IF "timedelta" \in fields THEN t ELSE f.last
  OBVIOUS
<1>2. PICK cache : cache = IF "timespec" \in fields
                           THEN TscacheUpdate(f.cache, t) ELSE f.cache
  OBVIOUS
<1>3. AfterHeader(f, t) = [last |-> last, cache |-> cache]
  BY <1>1, <1>2 DEF AfterHeader
<1>4. cache.str.sec = cache.sec /\ cache.str.hi = cache.hi
  BY <1>2, CacheUpdated
<1>5. "timespec" \in fields => cache.str = Timespec(t)
  BY <1>2, CacheUpdated
<1> QED
  BY <1>1, <1>2, <1>3, <1>4, <1>5

(* What a header consists of.                                              *)
LEMMA HeaderMeaning ==
  ASSUME NEW f, NEW t, NEW n, NEW seq, f.cache.str.sec = f.cache.sec,
         f.cache.str.hi = f.cache.hi
  PROVE  HeaderIs(Header(f, t, Names(n), seq), fields, f, t, n, seq)
<1>1. PICK h : h = Header(f, t, Names(n), seq)
  OBVIOUS
<1>2. h = [field \in fields |->
             CASE field = "timespec" -> AfterHeader(f, t).cache.str
               [] field = "timestamp" -> Timespec(t)
               [] field = "timedelta" -> Delta(f, t)
               [] field = "seqnum" -> seq
               [] OTHER -> Names(n)[field]]
  BY <1>1 DEF Header
<1>3. h = [field \in fields |-> h[field]]
  BY <1>2
<1>4. /\ "timespec" \in fields => h["timespec"] = AfterHeader(f, t).cache.str
      /\ "timestamp" \in fields => h["timestamp"] = Timespec(t)
      /\ "timedelta" \in fields => h["timedelta"] = Delta(f, t)
      /\ "seqnum" \in fields => h["seqnum"] = seq
      /\ \A field \in fields \ {"timespec", "timestamp", "timedelta",
                                 "seqnum"} :
           h[field] = Names(n)[field]
  BY <1>2
<1>5. "timespec" \in fields => AfterHeader(f, t).cache.str = Timespec(t)
  BY HandlerAfter
<1> QED
  BY <1>1, <1>3, <1>4, <1>5 DEF HeaderIs, Delta

(* Headers that consist of the same are the same.                          *)
LEMMA HeaderSame ==
  ASSUME NEW h, NEW k, NEW fs, NEW f, NEW t, NEW n, NEW seq,
         HeaderIs(h, fs, f, t, n, seq), HeaderIs(k, fs, f, t, n, seq)
  PROVE  h = k
<1>1. /\ h = [field \in fs |-> h[field]]
      /\ k = [field \in fs |-> k[field]]
  BY DEF HeaderIs
<1>2. ASSUME NEW field \in fs PROVE h[field] = k[field]
  BY <1>2 DEF HeaderIs
<1> QED
  BY <1>1, <1>2

(* New handlers.                                                           *)
LEMMA NewHandlers ==
  ASSUME liveFmt = NewFmt, cookedFmt = NewFmt, pc = "idle"
  PROVE  HeadInv
<1>1. /\ NewFmt = [last |-> NewFmt.last, cache |-> NewFmt.cache]
      /\ NewFmt.cache.str.sec = NewFmt.cache.sec
      /\ NewFmt.cache.str.hi = NewFmt.cache.hi
  BY DEF NewFmt, Timespec, NsecPerSec, NsecSplit
<1> QED
  BY <1>1 DEF HeadInv, CacheInv, HandlerInv

(* Both handlers print the same header and get into the same state.        *)
LEMMA HeadStep ==
  ASSUME PackInv, HeadInv, pc = "cook" => stream.time.v = time,
         [Next]_vars
  PROVE  HeadInv'
<1> USE DEF config, given, fmtVars, texts
<1>0. CacheInv /\ HandlerInv
  BY DEF HeadInv
<1>1. CASE Post \/ SetArg \/ Pack \/ Parse \/ UNCHANGED vars
  <2>1. /\ UNCHANGED <<fields, seqnum, live, liveFmt, cookedFmt>>
        /\ \/ /\ pc \in {"idle", "pack"} /\ pc' \in {"pack", "live"}
           \/ /\ pc \in {"raw", "parse"}
              /\ pc' \in {"parse", "cook", "rejected"}
              /\ UNCHANGED <<time, name>>
           \/ UNCHANGED <<pc, time, name>>
    BY <1>1 DEF Post, SetArg, Pack, Parse, vars
  <2>2. CacheInv'
    BY <1>0, <2>1 DEF CacheInv
  <2>3. CASE pc \in {"idle", "pack"} /\ pc' \in {"pack", "live"}
    BY <1>0, <2>1, <2>2, <2>3 DEF HandlerInv, HeadInv
  <2>4. CASE /\ pc \in {"raw", "parse"} /\ pc' \in {"parse", "cook", "rejected"}
             /\ UNCHANGED <<time, name>>
    BY <1>0, <2>1, <2>2, <2>4 DEF HandlerInv, HeadInv
  <2>5. CASE UNCHANGED <<pc, time, name>>
    BY <1>0, <2>1, <2>2, <2>5 DEF HandlerInv, HeadInv
  <2> QED
    BY <2>1, <2>3, <2>4, <2>5
<1>2. CASE ProcessLive
  <2>1. /\ pc = "live" /\ pc' = "raw"
        /\ live'.header = Header(liveFmt, time, Names(name), seqnum)
        /\ liveFmt' = AfterHeader(liveFmt, time)
        /\ UNCHANGED <<fields, time, name, seqnum, cookedFmt>>
    BY <1>2 DEF ProcessLive
  <2>2. liveFmt = cookedFmt
    BY <1>0, <2>1 DEF HandlerInv
  <2>3. /\ liveFmt.cache.str.sec = liveFmt.cache.sec
        /\ liveFmt.cache.str.hi = liveFmt.cache.hi
    BY <1>0 DEF CacheInv
  <2>4. HeaderIs(live'.header, fields, cookedFmt, time, name, seqnum)
    BY <2>1, <2>2, <2>3, HeaderMeaning
  <2>5. /\ liveFmt' = [last |-> liveFmt'.last, cache |-> liveFmt'.cache]
        /\ liveFmt'.cache.str.sec = liveFmt'.cache.sec
        /\ liveFmt'.cache.str.hi = liveFmt'.cache.hi
        /\ liveFmt'.last = IF "timedelta" \in fields THEN time
                           ELSE cookedFmt.last
        /\ liveFmt'.cache = IF "timespec" \in fields
                            THEN TscacheUpdate(cookedFmt.cache, time)
                            ELSE cookedFmt.cache
    BY <2>1, <2>2, <2>3, HandlerAfter
  <2>6. CacheInv'
    BY <1>0, <2>1, <2>5 DEF CacheInv
  <2>7. HandlerInv'
    BY <2>1, <2>4, <2>5 DEF HandlerInv
  <2> QED
    BY <2>6, <2>7 DEF HeadInv
<1>3. CASE ProcessCooked
  <2>1. /\ pc = "cook" /\ pc' = "done" /\ stream.time.v = time
        /\ cookedFmt' = AfterHeader(cookedFmt, time)
        /\ UNCHANGED <<fields, liveFmt>>
    BY <1>3 DEF ProcessCooked
  <2>2. /\ cookedFmt.cache.str.sec = cookedFmt.cache.sec
        /\ cookedFmt.cache.str.hi = cookedFmt.cache.hi
    BY <1>0 DEF CacheInv
  <2>3. /\ cookedFmt' = [last |-> cookedFmt'.last, cache |-> cookedFmt'.cache]
        /\ cookedFmt'.cache.str.sec = cookedFmt'.cache.sec
        /\ cookedFmt'.cache.str.hi = cookedFmt'.cache.hi
        /\ cookedFmt'.last = IF "timedelta" \in fields THEN time
                             ELSE cookedFmt.last
        /\ cookedFmt'.cache = IF "timespec" \in fields
                              THEN TscacheUpdate(cookedFmt.cache, time)
                              ELSE cookedFmt.cache
    BY <2>1, <2>2, HandlerAfter
  <2>4. CacheInv'
    BY <1>0, <2>1, <2>3 DEF CacheInv
  <2>5. /\ liveFmt.last = cookedFmt'.last /\ liveFmt.cache = cookedFmt'.cache
    BY <1>0, <2>1, <2>3 DEF HandlerInv
  <2>6. liveFmt = [last |-> liveFmt.last, cache |-> liveFmt.cache]
    BY <1>0 DEF CacheInv
  <2>7. liveFmt' = cookedFmt'
    BY <2>1, <2>3, <2>5, <2>6
  <2> QED
    BY <2>1, <2>4, <2>7 DEF HeadInv, HandlerInv
<1>4. ASSUME NEW o \in Recoveries, ProcessRecovered(o) PROVE HeadInv'
  BY <1>0, <1>4 DEF ProcessRecovered, HeadInv, CacheInv, HandlerInv
<1>5. CASE NextRecord
  <2>1. CASE pc = "done"
    BY <1>0, <1>5, <2>1 DEF NextRecord, HeadInv, CacheInv, HandlerInv
  <2>2. CASE pc # "done"
    <3>1. liveFmt' = NewFmt /\ cookedFmt' = NewFmt /\ pc' = "idle"
      BY <1>5, <2>2 DEF NextRecord
    <3>2. /\ NewFmt = [last |-> NewFmt.last, cache |-> NewFmt.cache]
          /\ NewFmt.cache.str.sec = NewFmt.cache.sec
          /\ NewFmt.cache.str.hi = NewFmt.cache.hi
      BY DEF NewFmt, Timespec, NsecPerSec, NsecSplit
    <3> QED
      BY <3>1, <3>2 DEF HeadInv, CacheInv, HandlerInv
  <2> QED
    BY <2>1, <2>2
<1> QED
  BY <1>1, <1>2, <1>3, <1>4, <1>5 DEF Next

-----------------------------------------------------------------------------
(* Lines                                                                   *)

(* The form of a line that is printed, and the arguments in it.            *)
LEMMA LineFormed ==
  ASSUME NEW r, r.type \in Seq(Types), Line(r).how # "crash"
  PROVE  /\ Line(r).how = Form(r.type)
         /\ DOMAIN Line(r).what = Shown(r.type)
         /\ \A i \in Shown(r.type) :
              Line(r).what[i] = IF Form(r.type) = "raw" THEN RawData(r, i)
                                ELSE IF Form(r.type) = "fmt" THEN FmtArg(r, i)
                                ELSE PlainArg(r, i)
<1>1. DOMAIN r.type = 1 .. Len(r.type)
  OBVIOUS
<1>2. CASE Form(r.type) = "raw"
  <2>1. Line(r) = [how |-> "raw", what |-> <<RawData(r, 1)>>]
    BY <1>2 DEF Form, Line, OutputRaw
  <2>2. DOMAIN <<RawData(r, 1)>> = {1} /\ <<RawData(r, 1)>>[1] = RawData(r, 1)
    OBVIOUS
  <2> QED
    BY <1>2, <2>1, <2>2 DEF Shown
<1>3. CASE Form(r.type) = "fmt"
  <2>1. PICK what : what = [i \in DOMAIN r.type |-> FmtArg(r, i)]
    OBVIOUS
  <2>2. Line(r) = OutputFmt(r)
    BY <1>3 DEF Form, Line
  <2>3. OutputFmt(r) = [how |-> IF \E i \in DOMAIN what : what[i] = NullPointer
                                THEN "crash" ELSE "fmt",
                        what |-> what]
    BY <2>1 DEF OutputFmt
  <2>4. OutputFmt(r) = [how |-> "fmt", what |-> what]
    BY <2>2, <2>3
  <2> QED
    BY <1>1, <1>3, <2>1, <2>2, <2>4 DEF Shown
<1>4. CASE Form(r.type) = "plain"
  <2>1. Line(r) = OutputPlain(r)
    BY <1>4 DEF Form, Line
  <2> QED
    BY <1>1, <1>4, <2>1 DEF Shown, OutputPlain
<1> QED
  BY <1>2, <1>3, <1>4 DEF Form

(* Lines without a null pointer are printed.                               *)
LEMMA LineMeaning ==
  ASSUME NEW r, r.type \in Seq(Types),
         \A i \in 1 .. Len(r.type) : FmtArg(r, i) # NullPointer
  PROVE  /\ Line(r).how = Form(r.type)
         /\ DOMAIN Line(r).what = Shown(r.type)
         /\ \A i \in Shown(r.type) :
              Line(r).what[i] = IF Form(r.type) = "raw" THEN RawData(r, i)
                                ELSE IF Form(r.type) = "fmt" THEN FmtArg(r, i)
                                ELSE PlainArg(r, i)
<1>1. OutputFmt(r).how = "fmt"
  <2>1. PICK what : what = [i \in DOMAIN r.type |-> FmtArg(r, i)]
    OBVIOUS
  <2>2. ~(\E i \in DOMAIN what : what[i] = NullPointer)
    BY <2>1
  <2> QED
    BY <2>1, <2>2 DEF OutputFmt
<1>2. Line(r).how # "crash"
  BY <1>1 DEF Line, OutputRaw, OutputPlain
<1> QED
  BY <1>2, LineFormed

(* The arguments of a record as format_basic prints them.                  *)
LEMMA LiveArg ==
  ASSUME PackInv, NEW i \in 1 .. Len(rec.type)
  PROVE  /\ args[i].type = "CSTR" =>
              /\ FmtArg(rec, i) = PlainArg(rec, i)
              /\ IF rec.argval[i].len = 0 THEN PlainArg(rec, i) = Null
                 ELSE /\ HasPiece(rec, rec.argval[i].at, PlainArg(rec, i))
                      /\ PlainArg(rec, i) = At(rec, i)
         /\ args[i].type = "GSTR" =>
              /\ FmtArg(rec, i) = ArgStr(rec, i)
              /\ PlainArg(rec, i) = ArgStr(rec, i)
              /\ ArgStr(rec, i) = Text(i, args[i].len, FALSE)
         /\ args[i].type = "XDUMP" =>
              /\ FmtArg(rec, i) = Unsupported
              /\ PlainArg(rec, i) = IF rec.argval[i].len < FmtSize THEN Garbage
                                    ELSE DumpOf(i, rec.argval[i].len)
              /\ ~(rec.argval[i].len < FmtSize) =>
                   At(rec, i) = DumpOf(i, rec.argval[i].len)
         /\ args[i].type = "RAW" =>
              /\ FmtArg(rec, i) = Unsupported
              /\ PlainArg(rec, i) = RawData(rec, i)
         /\ args[i].type \notin {"CSTR", "GSTR", "XDUMP", "RAW"} =>
              /\ FmtArg(rec, i) = ArgVal(rec, i)
              /\ PlainArg(rec, i) = ArgVal(rec, i)
              /\ ArgVal(rec, i) = Text(i, WordSize, FALSE)
         /\ FmtArg(rec, i) # NullPointer
<1>0. TypeInv /\ ShapeInv /\ PackedInv
  BY DEF PackInv
<1>1. rec.type[i] = args[i].type /\ i \in Nat /\ i # 0
  BY <1>0 DEF TypeInv, ShapeInv
<1>2. CASE args[i].type = "CSTR"
  <2>1. /\ FmtArg(rec, i) = PlainArg(rec, i)
        /\ PlainArg(rec, i) = IF rec.argval[i].len = 0 THEN Null ELSE At(rec, i)
    BY <1>1, <1>2 DEF PlainArg, FmtArg, ArgStr
  <2>2. rec.argval[i].len \in Nat
    BY <1>0, <1>2 DEF PackedInv, IsSimple, Data, ReferenceWord
  <2>3. CASE rec.argval[i].len = 0
    BY <1>2, <2>1, <2>3 DEF Null, NullPointer, Text
  <2>4. CASE rec.argval[i].len # 0
    <3>1. PICK c : /\ StringOf(c, i, args[i].len, rec.argval[i].len)
                   /\ HasPiece(rec, rec.argval[i].at, c)
      BY <1>0, <1>2, <2>2, <2>4 DEF PackedInv
    <3>2. At(rec, i) = c
      BY <3>1, PieceRead
    <3>3. c # NullPointer
      BY <1>1, <3>1 DEF StringOf, NullPointer, Text
    <3> QED
      BY <1>2, <2>1, <2>4, <3>1, <3>2, <3>3
  <2> QED
    BY <2>3, <2>4
<1>3. CASE args[i].type = "GSTR"
  <2>1. rec.argval[i] \in ValueWord /\ rec.argval[i].src = i
    BY <1>0, <1>3 DEF PackedInv, IsSimple, Data
  <2>2. "full" \in DOMAIN rec.argval[i]
    BY <2>1 DEF ValueWord
  <2>3. ArgStr(rec, i) = Text(i, args[i].len, FALSE)
    BY <1>1, <1>3, <2>1, <2>2 DEF ArgStr
  <2>4. FmtArg(rec, i) = ArgStr(rec, i) /\ PlainArg(rec, i) = ArgStr(rec, i)
    BY <1>1, <1>3 DEF PlainArg, FmtArg
  <2>5. ArgStr(rec, i) # NullPointer
    BY <1>1, <2>3 DEF NullPointer, Text
  <2> QED
    BY <1>3, <2>3, <2>4, <2>5
<1>4. CASE args[i].type = "XDUMP"
  <2>1. FmtArg(rec, i) = Unsupported /\ PlainArg(rec, i) = Xdump(rec, i)
    BY <1>1, <1>4 DEF PlainArg, FmtArg
  <2>2. rec.argval[i].len \in Nat
    BY <1>0, <1>4 DEF PackedInv, IsSimple, Data, ReferenceWord
  <2>3. Unsupported # NullPointer
    BY DEF Unsupported, NullPointer, Text
  <2>4. CASE rec.argval[i].len < FmtSize
    BY <1>4, <2>1, <2>3, <2>4 DEF Xdump
  <2>5. CASE ~(rec.argval[i].len < FmtSize)
    <3>1. rec.argval[i].len >= FmtSize
      BY <2>2, <2>5 DEF FmtSize
    <3>2. At(rec, i) = DumpOf(i, rec.argval[i].len)
      BY <1>0, <1>4, <3>1, PieceRead DEF PackedInv
    <3> QED
      BY <1>4, <2>1, <2>3, <2>5, <3>2 DEF Xdump
  <2> QED
    BY <2>4, <2>5
<1>5. CASE args[i].type = "RAW"
  BY <1>1, <1>5 DEF PlainArg, FmtArg, Unsupported, NullPointer, Text
<1>6. CASE args[i].type \notin {"CSTR", "GSTR", "XDUMP", "RAW"}
  <2>1. /\ rec.argval[i].src = i
        /\ Is32bit(args[i].type) \/ rec.argval[i].full
    BY <1>0, <1>6 DEF PackedInv, IsSimple, Data
  <2>2. ArgVal(rec, i) = Text(i, WordSize, FALSE)
    BY <1>1, <2>1 DEF ArgVal
  <2>3. FmtArg(rec, i) = ArgVal(rec, i) /\ PlainArg(rec, i) = ArgVal(rec, i)
    BY <1>1, <1>6 DEF PlainArg, FmtArg
  <2>4. ArgVal(rec, i) # NullPointer
    BY <1>1, <2>2 DEF NullPointer, Text
  <2> QED
    BY <1>6, <2>2, <2>3, <2>4
<1> QED
  BY <1>2, <1>3, <1>4, <1>5, <1>6

(* A line shows arguments that there are.                                  *)
LEMMA ShownArgs ==
  ASSUME NEW q \in Seq(Types)
  PROVE  /\ Shown(q) \subseteq 1 .. Len(q)
         /\ Form(q) \in {"raw", "fmt", "plain"}
         /\ Form(q) = "raw" => \A i \in Shown(q) : q[i] = "RAW"
<1>1. CASE Form(q) = "raw"
  BY <1>1 DEF Form, Shown
<1>2. CASE Form(q) # "raw"
  BY <1>2 DEF Form, Shown
<1> QED
  BY <1>1, <1>2

(* What format_basic prints stays until the record is done.                *)
LEMMA LineStep ==
  ASSUME PackInv, LineInv, [Next]_vars
  PROVE  LineInv'
<1> USE DEF config, given, fmtVars, texts
<1>1. CASE ProcessLive
  <2>0. TypeInv /\ ShapeInv
    BY DEF PackInv
  <2>1. pc = "live" /\ live'.line = Line(rec) /\ UNCHANGED <<args, rec>>
    BY <1>1 DEF ProcessLive
  <2>2. rec.type \in Seq(Types)
        /\ \A i \in 1 .. Len(rec.type) : rec.type[i] = args[i].type
    BY <2>0 DEF TypeInv, ShapeInv
  <2>3. \A i \in 1 .. Len(rec.type) : FmtArg(rec, i) # NullPointer
    BY LiveArg
  <2>4. /\ live'.line.how = Form(rec.type)
        /\ DOMAIN live'.line.what = Shown(rec.type)
        /\ \A i \in Shown(rec.type) :
             live'.line.what[i] =
               IF Form(rec.type) = "raw" THEN RawData(rec, i)
               ELSE IF Form(rec.type) = "fmt" THEN FmtArg(rec, i)
               ELSE PlainArg(rec, i)
    BY <2>1, <2>2, <2>3, LineMeaning
  <2>5. ASSUME NEW i \in Shown(rec.type)
        PROVE  /\ args[i].type = "CSTR" =>
                    IF rec.argval[i].len = 0 THEN live'.line.what[i] = Null
                    ELSE HasPiece(rec, rec.argval[i].at, live'.line.what[i])
               /\ args[i].type = "GSTR" =>
                    live'.line.what[i] = Text(i, args[i].len, FALSE)
               /\ args[i].type \in {"XDUMP", "RAW"} =>
                    live'.line.what[i] =
                      IF live'.line.how = "fmt" THEN Unsupported
                      ELSE IF args[i].type = "RAW"
                      THEN Text(i, rec.argval[i].len, FALSE)
                      ELSE IF rec.argval[i].len < FmtSize THEN Garbage
                      ELSE DumpOf(i, rec.argval[i].len)
               /\ args[i].type \notin {"CSTR", "GSTR", "XDUMP", "RAW"} =>
                    live'.line.what[i] = Text(i, WordSize, FALSE)
    <3>1. /\ i \in 1 .. Len(rec.type)
          /\ Form(rec.type) = "raw" => args[i].type = "RAW"
      BY <2>2, ShownArgs
    <3>2. RawData(rec, i) = Text(i, rec.argval[i].len, FALSE)
      BY DEF RawData
    <3>3. CASE args[i].type = "CSTR"
      BY <2>4, <3>1, <3>3, LiveArg
    <3>4. CASE args[i].type = "GSTR"
      BY <2>4, <3>1, <3>4, LiveArg
    <3>5. CASE args[i].type = "XDUMP"
      BY <2>4, <3>1, <3>5, LiveArg
    <3>6. CASE args[i].type = "RAW"
      BY <2>4, <3>1, <3>2, <3>6, LiveArg
    <3>7. CASE args[i].type \notin {"CSTR", "GSTR", "XDUMP", "RAW"}
      BY <2>4, <3>1, <3>7, LiveArg
    <3> QED
      BY <3>3, <3>4, <3>5, <3>6, <3>7
  <2> QED
    BY <2>1, <2>4, <2>5 DEF LineInv
<1>2. CASE \/ pc' \notin {"raw", "parse", "cook"}
           \/ pc \in {"raw", "parse", "cook"} /\ UNCHANGED <<args, rec, live>>
  BY <1>2 DEF LineInv
<1>3. CASE Post \/ SetArg \/ NextRecord
  BY <1>2, <1>3 DEF Post, SetArg, NextRecord
<1>4. CASE Pack \/ Parse \/ ProcessCooked \/ UNCHANGED vars
  BY <1>2, <1>4 DEF Pack, Parse, ProcessCooked, vars
<1>5. ASSUME NEW o \in Recoveries, ProcessRecovered(o) PROVE LineInv'
  BY <1>2, <1>5 DEF ProcessRecovered
<1> QED
  BY <1>1, <1>3, <1>4, <1>5 DEF Next

-----------------------------------------------------------------------------
(* Raw records                                                             *)

(* The addresses of pieces of given sizes that follow one another.         *)
IsLayout(g, size, a, m) ==
  g = [i \in 1 .. m |-> IF i = 1 THEN a ELSE g[i - 1] + size[i - 1]]

(* Pieces of given sizes can be put one after another.                     *)
LEMMA LayoutExists ==
  ASSUME NEW size, NEW a, NEW m \in Nat
  PROVE  \E g : IsLayout(g, size, a, m)
<1> DEFINE T == {n \in Nat : \E g : g = [i \in 1 .. n |->
                   IF i = 1 THEN a ELSE g[i - 1] + size[i - 1]]}
<1>1. 0 \in T
  <2>1. PICK g : g = [i \in 1 .. 0 |-> a]
    OBVIOUS
  <2>2. g = [i \in 1 .. 0 |-> IF i = 1 THEN a ELSE g[i - 1] + size[i - 1]]
    BY <2>1
  <2> QED
    BY <2>2
<1>2. ASSUME NEW n \in Nat, n \in T PROVE n + 1 \in T
  <2>1. PICK g : g = [i \in 1 .. n |-> IF i = 1 THEN a
                                       ELSE g[i - 1] + size[i - 1]]
    BY <1>2
  <2>2. PICK h : h = [i \in 1 .. n + 1 |-> IF i = 1 THEN a
                                           ELSE g[i - 1] + size[i - 1]]
    OBVIOUS
  <2>3. \A i \in 1 .. n : h[i] = g[i]
    <3>1. \A i \in 1 .. n : i \in 1 .. n + 1
      OBVIOUS
    <3>2. \A i \in 1 .. n + 1 : h[i] = IF i = 1 THEN a
                                       ELSE g[i - 1] + size[i - 1]
      BY <2>2
    <3>3. \A i \in 1 .. n : g[i] = IF i = 1 THEN a
                                   ELSE g[i - 1] + size[i - 1]
      BY <2>1
    <3> QED
      BY <3>1, <3>2, <3>3
  <2>4. \A i \in 1 .. n + 1 : i # 1 => i - 1 \in 1 .. n
    OBVIOUS
  <2>5. h = [i \in 1 .. n + 1 |-> IF i = 1 THEN a
                                  ELSE h[i - 1] + size[i - 1]]
    BY <2>2, <2>3, <2>4
  <2>6. n + 1 \in Nat
    OBVIOUS
  <2> QED
    BY <2>5, <2>6
<1> HIDE DEF T
<1>3. m \in T
  BY <1>1, <1>2, SetInduction
<1> QED
  BY <1>3 DEF T, IsLayout

(* Then each of them is behind the one before.                             *)
LEMMA LayoutOrdered ==
  ASSUME NEW size, NEW a \in Nat, NEW m \in Nat, NEW n \in Nat, n < m,
         \A i \in 1 .. n : size[i] \in Nat,
         NEW g, IsLayout(g, size, a, m)
  PROVE  \A i \in 1 .. n + 1 :
           g[i] \in Nat /\ \A j \in 1 .. i - 1 : g[j] + size[j] <= g[i]
<1>0. \A i \in 1 .. m : g[i] = IF i = 1 THEN a ELSE g[i - 1] + size[i - 1]
  BY DEF IsLayout
<1>1. g[1] = a
  BY <1>0
<1>2. ASSUME NEW k \in 1 .. n PROVE g[k + 1] = g[k] + size[k]
  <2>1. k + 1 \in 1 .. m /\ k + 1 # 1 /\ (k + 1) - 1 = k
    OBVIOUS
  <2> QED
    BY <1>0, <2>1
<1> DEFINE T == {k \in Nat : k <= n => g[k + 1] \in Nat}
<1>3. 0 \in T
  BY <1>1
<1>4. ASSUME NEW k \in Nat, k \in T PROVE k + 1 \in T
  <2>1. PICK l \in Nat : l = k + 1
    OBVIOUS
  <2>2. ASSUME l <= n PROVE g[l + 1] \in Nat
    <3>1. l \in 1 .. n /\ k <= n
      BY <2>1, <2>2
    <3>2. g[l] \in Nat /\ size[l] \in Nat
      BY <1>4, <2>1, <3>1
    <3> QED
      BY <1>2, <3>1, <3>2
  <2> QED
    BY <2>1, <2>2
<1>5. Nat \subseteq T
  <2> HIDE DEF T
  <2> QED
    BY <1>3, <1>4, SetInduction
<1>6. ASSUME NEW i \in 1 .. n + 1 PROVE g[i] \in Nat
  <2>1. i - 1 \in Nat /\ i - 1 <= n /\ (i - 1) + 1 = i
    OBVIOUS
  <2> QED
    BY <1>5, <2>1
<1> DEFINE U == {k \in Nat : k <= n =>
                   \A j \in 1 .. k : g[j] + size[j] <= g[k + 1]}
<1>7. 0 \in U
  OBVIOUS
<1>8. ASSUME NEW k \in Nat, k \in U PROVE k + 1 \in U
  <2>1. PICK l \in Nat : l = k + 1
    OBVIOUS
  <2>2. ASSUME l <= n, NEW j \in 1 .. l PROVE g[j] + size[j] <= g[l + 1]
    <3>1. l \in 1 .. n /\ k <= n /\ l + 1 \in 1 .. n + 1 /\ l \in 1 .. n + 1
      BY <2>1, <2>2
    <3>2. g[l + 1] = g[l] + size[l]
      BY <1>2, <3>1
    <3>3. g[l] \in Nat /\ size[l] \in Nat
      BY <1>6, <3>1
    <3>4. CASE j = l
      BY <3>2, <3>3, <3>4
    <3>5. CASE j # l
      <4>1. j \in 1 .. k /\ j \in 1 .. n /\ j \in 1 .. n + 1
        BY <2>1, <2>2, <3>5
      <4>2. g[j] + size[j] <= g[l]
        BY <1>8, <2>1, <3>1, <4>1
      <4>3. g[j] \in Nat /\ size[j] \in Nat
        BY <1>6, <4>1
      <4> QED
        BY <3>2, <3>3, <4>2, <4>3
    <3> QED
      BY <3>4, <3>5
  <2> QED
    BY <2>1, <2>2
<1>9. Nat \subseteq U
  <2> HIDE DEF U
  <2> QED
    BY <1>7, <1>8, SetInduction
<1>10. ASSUME NEW i \in 1 .. n + 1, NEW j \in 1 .. i - 1
       PROVE  g[j] + size[j] <= g[i]
  <2>1. PICK k \in Nat : k = i - 1
    OBVIOUS
  <2>2. k <= n /\ i = k + 1 /\ j \in 1 .. k
    BY <2>1
  <2>3. \A l \in 1 .. k : g[l] + size[l] <= g[k + 1]
    BY <1>9, <2>2
  <2> QED
    BY <2>2, <2>3
<1> QED
  BY <1>6, <1>10

(* raw_parser puts the data of the arguments one after another.            *)
LEMMA ReadAtOrder ==
  ASSUME NEW n \in Nat, n <= NARGS, \A i \in 1 .. n : ReadSize(i) \in Nat
  PROVE  \A i \in 1 .. n :
           /\ ReadAt[i] \in Nat
           /\ \A j \in 1 .. i - 1 : ReadAt[j] + ReadSize(j) <= ReadAt[i]
<1>0. NARGS + 1 = 17 /\ NARGS = 16 /\ ArgvalSize \in Nat
  BY DEF NARGS, ArgvalSize, WordSize
<1>1. PICK size : size = [i \in 1 .. NARGS |-> ReadSize(i)]
  OBVIOUS
<1>2. PICK g : g = [i \in 1 .. NARGS + 1 |-> IF i = 1 THEN ArgvalSize
                                             ELSE g[i - 1] + size[i - 1]]
  <2>1. PICK m \in Nat, a \in Nat : m = NARGS + 1 /\ a = ArgvalSize
    BY <1>0
  <2>2. PICK g : IsLayout(g, size, a, m)
    BY LayoutExists
  <2>3. g = [i \in 1 .. NARGS + 1 |-> IF i = 1 THEN ArgvalSize
                                     ELSE g[i - 1] + size[i - 1]]
    BY <2>1, <2>2 DEF IsLayout
  <2> QED
    BY <2>3, Zenon
<1>3. \A i \in 1 .. NARGS + 1 : i # 1 => size[i - 1] = ReadSize(i - 1)
  BY <1>0, <1>1
<1>4. g = [i \in 1 .. NARGS + 1 |-> IF i = 1 THEN ArgvalSize
                                    ELSE g[i - 1] + ReadSize(i - 1)]
  BY <1>2, <1>3
<1>5. ReadAt = [i \in 1 .. NARGS + 1 |-> IF i = 1 THEN ArgvalSize
                                         ELSE ReadAt[i - 1] + ReadSize(i - 1)]
  BY <1>4 DEF ReadAt
<1>6. ReadAt = [i \in 1 .. NARGS + 1 |-> IF i = 1 THEN ArgvalSize
                                         ELSE ReadAt[i - 1] + size[i - 1]]
  BY <1>3, <1>5
<1>7. PICK at : at = ReadAt
  OBVIOUS
<1>8. at = [i \in 1 .. NARGS + 1 |-> IF i = 1 THEN ArgvalSize
                                     ELSE at[i - 1] + size[i - 1]]
  BY <1>6, <1>7
<1>9. \A i \in 1 .. n : size[i] = ReadSize(i) /\ size[i] \in Nat
  BY <1>0, <1>1
<1>10. n < NARGS + 1 /\ NARGS + 1 \in Nat
  BY <1>0
<1>11. \A i \in 1 .. n + 1 :
         at[i] \in Nat /\ \A j \in 1 .. i - 1 : at[j] + size[j] <= at[i]
  <2>1. PICK m \in Nat, a \in Nat : m = NARGS + 1 /\ a = ArgvalSize
    BY <1>0
  <2>2. IsLayout(at, size, a, m)
    BY <1>8, <2>1 DEF IsLayout
  <2>3. n < m /\ \A i \in 1 .. n : size[i] \in Nat
    BY <1>9, <1>10, <2>1
  <2> QED
    BY <2>2, <2>3, LayoutOrdered
<1>12. ASSUME NEW i \in 1 .. n, NEW j \in 1 .. i - 1
       PROVE  ReadAt[j] + ReadSize(j) <= ReadAt[i]
  <2>1. i \in 1 .. n + 1 /\ j \in 1 .. n
    OBVIOUS
  <2> QED
    BY <1>7, <1>9, <1>11, <2>1
<1>13. \A i \in 1 .. n : i \in 1 .. n + 1
  OBVIOUS
<1> QED
  BY <1>7, <1>11, <1>12, <1>13

(* format_raw writes what there is in the record.                          *)
LEMMA PackStep ==
  ASSUME PackInv, Pack
  PROVE  StreamInv'
<1>0. TypeInv /\ ShapeInv /\ PackedInv
  BY DEF PackInv
<1>1. /\ pc = "raw" /\ pc' = "parse"
      /\ stream' = [time |-> Uint(64, time), seqnum |-> Uint(64, seqnum),
                    name |-> Blob(8, U8Max, name, name),
                    type |-> Uint(64, rec.type),
                    arg |-> [i \in DOMAIN rec.type |-> AddArg(i)]]
      /\ UNCHANGED <<args, time, name, seqnum, rec>>
  BY DEF Pack, given
<1>2. /\ stream'.time.v = time /\ stream'.seqnum.v = seqnum
      /\ stream'.name.len = Smaller(name, U8Max) /\ stream'.type.v = rec.type
      /\ stream'.arg = [i \in DOMAIN rec.type |-> AddArg(i)]
  BY <1>1 DEF Uint, Blob
<1>3. /\ DOMAIN rec.type = 1 .. Len(rec.type)
      /\ \A i \in 1 .. Len(rec.type) : rec.type[i] = args[i].type
  BY <1>0 DEF TypeInv, ShapeInv
<1>4. DOMAIN stream'.arg = 1 .. Len(rec.type)
  BY <1>2, <1>3
<1>5. ASSUME NEW i \in 1 .. Len(rec.type)
      PROVE  /\ args[i].type = "CSTR" =>
                  /\ stream'.arg[i].bits = 16
                  /\ stream'.arg[i].len = Smaller(rec.argval[i].len, U16Max)
                  /\ rec.argval[i].len > 0 =>
                       HasPiece(rec, rec.argval[i].at, stream'.arg[i].v)
             /\ args[i].type = "GSTR" =>
                  /\ stream'.arg[i].bits = 16
                  /\ stream'.arg[i].len = Smaller(args[i].len, U16Max)
                  /\ stream'.arg[i].v = Text(i, args[i].len, FALSE)
             /\ args[i].type \in {"XDUMP", "RAW"} =>
                  /\ stream'.arg[i].bits = 32
                  /\ stream'.arg[i].len = rec.argval[i].len
             /\ args[i].type = "XDUMP" /\ rec.argval[i].len >= FmtSize =>
                  stream'.arg[i].v = DumpOf(i, rec.argval[i].len)
             /\ args[i].type \notin {"CSTR", "GSTR", "XDUMP", "RAW"} =>
                  /\ stream'.arg[i].bits = ReadBits(args[i].type)
                  /\ stream'.arg[i].v = Text(i, WordSize, FALSE)
  <2>1. stream'.arg[i] = AddArg(i) /\ rec.type[i] = args[i].type
    BY <1>2, <1>3
  <2>2. CASE args[i].type = "CSTR"
    <3>1. AddArg(i) = Blob(16, U16Max, rec.argval[i].len, At(rec, i))
      BY <2>1, <2>2 DEF AddArg, Is32bit
    <3>2. rec.argval[i].len > 0 => HasPiece(rec, rec.argval[i].at, At(rec, i))
      <4>1. rec.argval[i].len > 0 => rec.argval[i].len # 0
        BY <1>0, <2>2 DEF PackedInv, IsSimple, Data, ReferenceWord
      <4> QED
        BY <2>2, <4>1, LiveArg
    <3> QED
      BY <2>1, <2>2, <3>1, <3>2 DEF Blob
  <2>3. CASE args[i].type = "GSTR"
    <3>1. PICK s : s = ArgStr(rec, i)
      OBVIOUS
    <3>2. AddArg(i) = Blob(16, U16Max, s.n, s)
      BY <2>1, <2>3, <3>1 DEF AddArg, Is32bit
    <3>3. s = Text(i, args[i].len, FALSE)
      BY <2>3, <3>1, LiveArg
    <3>4. s.n = args[i].len
      BY <3>3 DEF Text
    <3> QED
      <4>1. /\ stream'.arg[i].bits = 16
            /\ stream'.arg[i].len = Smaller(args[i].len, U16Max)
            /\ stream'.arg[i].v = s
        BY <2>1, <3>2, <3>4 DEF Blob
      <4> QED
        BY <2>3, <3>3, <4>1
  <2>4. CASE args[i].type \in {"XDUMP", "RAW"}
    <3>1. AddArg(i) = Blob(32, rec.argval[i].len, rec.argval[i].len, At(rec, i))
      BY <2>1, <2>4 DEF AddArg, Is32bit
    <3>2. stream'.arg[i].bits = 32 /\ stream'.arg[i].len = rec.argval[i].len
          /\ stream'.arg[i].v = At(rec, i)
      BY <2>1, <3>1 DEF Blob, Smaller
    <3>3. args[i].type = "XDUMP" /\ rec.argval[i].len >= FmtSize =>
            At(rec, i) = DumpOf(i, rec.argval[i].len)
      <4>1. args[i].type = "XDUMP" /\ rec.argval[i].len >= FmtSize =>
              ~(rec.argval[i].len < FmtSize)
        BY <1>0 DEF PackedInv, IsSimple, Data, ReferenceWord, FmtSize
      <4> QED
        BY <4>1, LiveArg
    <3> QED
      BY <2>4, <3>2, <3>3
  <2>5. CASE args[i].type \notin {"CSTR", "GSTR", "XDUMP", "RAW"}
    <3>1. ArgVal(rec, i) = Text(i, WordSize, FALSE)
      BY <2>5, LiveArg
    <3>2. AddArg(i) = Uint(IF Is32bit(args[i].type) THEN 32 ELSE 64,
                           ArgVal(rec, i))
      BY <2>1, <2>5 DEF AddArg, Is32bit
    <3>3. ReadBits(args[i].type) = IF Is32bit(args[i].type) THEN 32 ELSE 64
      BY <2>5 DEF ReadBits
    <3> QED
      <4>1. /\ stream'.arg[i].bits = ReadBits(args[i].type)
            /\ stream'.arg[i].v = ArgVal(rec, i)
        BY <2>1, <3>2, <3>3 DEF Uint
      <4> QED
        BY <2>5, <3>1, <4>1
  <2> QED
    BY <2>2, <2>3, <2>4, <2>5
<1> QED
  BY <1>1, <1>2, <1>4, <1>5 DEF StreamInv

(* A text of which at least all its bytes were kept.                       *)
LEMMA KeptSame ==
  ASSUME NEW c \in Bytes, NEW size \in Nat,
         c.n + (IF c.mark THEN 3 ELSE 0) = size
  PROVE  Kept(c, Smaller(size, U16Max)) = Kept(c, U16Max)
<1>1. U16Max \in Nat
  BY DEF U16Max
<1>2. CASE size < U16Max
  <2>1. Smaller(size, U16Max) = size
    BY <1>2 DEF Smaller
  <2>2. c.n + (IF c.mark THEN 3 ELSE 0) <= size
        /\ c.n + (IF c.mark THEN 3 ELSE 0) <= U16Max
    BY <1>1, <1>2
  <2> QED
    BY <2>1, <2>2 DEF Kept
<1>3. CASE ~(size < U16Max)
  BY <1>3 DEF Smaller
<1> QED
  BY <1>2, <1>3

(* The space that raw_parser gives to an argument.                         *)
LEMMA ReadSizes ==
  ASSUME PackInv, StreamInv, pc = "parse", NEW i \in 1 .. Len(rec.type)
  PROVE  /\ ReadSize(i) \in Nat
         /\ args[i].type \in {"CSTR", "GSTR"} =>
              /\ ReadSize(i) = stream.arg[i].len + 1
              /\ stream.arg[i].len \in Nat
         /\ args[i].type \in {"XDUMP", "RAW"} =>
              /\ ReadSize(i) = stream.arg[i].len
              /\ stream.arg[i].len = rec.argval[i].len
              /\ rec.argval[i].len \in Nat
         /\ args[i].type \notin {"CSTR", "GSTR", "XDUMP", "RAW"} =>
              ReadSize(i) = 0
<1>0. TypeInv /\ ShapeInv /\ PackedInv
  BY DEF PackInv
<1>1. /\ stream.type.v[i] = args[i].type
      /\ args[i].len \in Nat /\ U16Max \in Nat
  <2>1. stream.type.v = rec.type /\ rec.type[i] = args[i].type
    BY <1>0 DEF StreamInv, ShapeInv
  <2>2. i \in DOMAIN args /\ args \in Seq(Arg)
    BY <1>0 DEF TypeInv, ShapeInv
  <2>3. args[i] \in Arg
    BY <2>2
  <2> QED
    BY <2>1, <2>3 DEF Arg, U16Max
<1>2. CASE args[i].type = "CSTR"
  <2>1. rec.argval[i].len \in Nat
    BY <1>0, <1>2 DEF PackedInv, IsSimple, Data, ReferenceWord
  <2>2. stream.arg[i].len = Smaller(rec.argval[i].len, U16Max)
    BY <1>2 DEF StreamInv
  <2>3. stream.arg[i].len \in Nat
    BY <1>1, <2>1, <2>2 DEF Smaller
  <2>4. ReadSize(i) = stream.arg[i].len + 1
    BY <1>1, <1>2 DEF ReadSize
  <2> QED
    BY <1>2, <2>3, <2>4
<1>3. CASE args[i].type = "GSTR"
  <2>2. stream.arg[i].len = Smaller(args[i].len, U16Max)
    BY <1>3 DEF StreamInv
  <2>3. stream.arg[i].len \in Nat
    BY <1>1, <2>2 DEF Smaller
  <2>4. ReadSize(i) = stream.arg[i].len + 1
    BY <1>1, <1>3 DEF ReadSize
  <2> QED
    BY <1>3, <2>3, <2>4
<1>4. CASE args[i].type \in {"XDUMP", "RAW"}
  <2>1. rec.argval[i].len \in Nat
    BY <1>0, <1>4 DEF PackedInv, IsSimple, Data, ReferenceWord
  <2>2. stream.arg[i].len = rec.argval[i].len
    BY <1>4 DEF StreamInv
  <2>3. ReadSize(i) = stream.arg[i].len
    BY <1>1, <1>4 DEF ReadSize
  <2> QED
    BY <1>4, <2>1, <2>2, <2>3
<1>5. CASE args[i].type \notin {"CSTR", "GSTR", "XDUMP", "RAW"}
  <2>1. ReadSize(i) = 0
    BY <1>1, <1>5 DEF ReadSize
  <2> QED
    BY <1>5, <2>1
<1> QED
  BY <1>2, <1>3, <1>4, <1>5

(* The content of the piece of an argument.                                *)
ReadContent(i) ==
  IF stream.type.v[i] = "XDUMP" THEN stream.arg[i].v
  ELSE Kept(stream.arg[i].v, stream.arg[i].len)

(* raw_parser puts the arguments that take up space at addresses of their  *)
(* own.                                                                    *)
LEMMA ReadPiece ==
  ASSUME PackInv, StreamInv, pc = "parse", NEW i \in 1 .. Len(rec.type),
         ReadSize(i) > 0
  PROVE  HasPiece(ReadArgs, ReadAt[i], ReadContent(i))
<1>0. TypeInv /\ ShapeInv
  BY DEF PackInv
<1>1. PICK n \in Nat : n = Len(rec.type)
  BY <1>0 DEF TypeInv
<1>2. n <= NARGS
  BY <1>0, <1>1 DEF TypeInv, ShapeInv, NARGS
<1>3. DOMAIN stream.type.v = 1 .. n
  BY <1>0, <1>1 DEF StreamInv, TypeInv
<1>4. \A k \in 1 .. n : ReadSize(k) \in Nat
  BY <1>1, ReadSizes
<1>5. \A k \in 1 .. n :
        /\ ReadAt[k] \in Nat
        /\ \A j \in 1 .. k - 1 : ReadAt[j] + ReadSize(j) <= ReadAt[k]
  BY <1>2, <1>4, ReadAtOrder
<1>6. PICK mem : mem = {[at |-> ReadAt[k], used |-> ReadSize(k),
                         content |-> ReadContent(k)] :
                          k \in {j \in 1 .. n : ReadSize(j) > 0}}
  OBVIOUS
<1>7. ReadArgs.mem = mem
  BY <1>3, <1>6 DEF ReadArgs, ReadContent
<1>8. PICK m : m = [at |-> ReadAt[i], used |-> ReadSize(i),
                    content |-> ReadContent(i)]
  OBVIOUS
<1>9. m \in mem /\ m.at = ReadAt[i] /\ m.content = ReadContent(i)
  BY <1>1, <1>6, <1>8
<1>10. ASSUME NEW k \in mem, k.at = ReadAt[i] PROVE k = m
  <2>1. PICK j \in 1 .. n : /\ ReadSize(j) > 0
                            /\ k = [at |-> ReadAt[j], used |-> ReadSize(j),
                                    content |-> ReadContent(j)]
    BY <1>6
  <2>2. ReadAt[j] = ReadAt[i]
    BY <1>10, <2>1
  <2>3. i \in 1 .. n /\ ReadSize(i) \in Nat /\ ReadSize(j) \in Nat
        /\ ReadAt[i] \in Nat
    BY <1>1, <1>4, <1>5
  <2>4. CASE j < i
    <3>1. j \in 1 .. i - 1
      BY <2>3, <2>4
    <3>2. ReadAt[j] + ReadSize(j) <= ReadAt[i]
      BY <1>5, <2>3, <3>1
    <3> QED
      BY <2>1, <2>2, <2>3, <3>2
  <2>5. CASE i < j
    <3>1. i \in 1 .. j - 1
      BY <2>3, <2>5
    <3>2. ReadAt[i] + ReadSize(i) <= ReadAt[j]
      BY <1>5, <3>1
    <3> QED
      BY <2>2, <2>3, <3>2
  <2>6. CASE i = j
    BY <1>8, <2>1, <2>6
  <2> QED
    BY <2>3, <2>4, <2>5, <2>6
<1> QED
  BY <1>7, <1>9, <1>10 DEF HasPiece

(* What raw_parser makes of an argument.                                   *)
LEMMA ReadArg ==
  ASSUME PackInv, StreamInv, pc = "parse", NEW i \in 1 .. Len(rec.type)
  PROVE  /\ ReadArgs.type[i] = ParsedType(args[i].type)
         /\ args[i].type \in {"CSTR", "GSTR", "XDUMP", "RAW"} =>
              ReadArgs.argval[i] = Reference(ReadAt[i], stream.arg[i].len)
         /\ args[i].type \notin {"CSTR", "GSTR", "XDUMP", "RAW"} =>
              ReadArgs.argval[i] = [src |-> i, full |-> TRUE]
<1>0. TypeInv /\ ShapeInv
  BY DEF PackInv
<1>1. /\ stream.type.v[i] = args[i].type
      /\ DOMAIN stream.type.v = 1 .. Len(rec.type)
      /\ i \in Nat /\ i # 0
  BY <1>0 DEF StreamInv, TypeInv, ShapeInv
<1>2. /\ ReadArgs.type[i] = ParsedType(args[i].type)
      /\ ReadArgs.argval[i] = ReadArgval(i)
  BY <1>1 DEF ReadArgs
<1>3. CASE args[i].type \in {"CSTR", "GSTR"}
  <2>1. stream.arg[i].bits = 16 /\ ReadBits(args[i].type) = 16
    BY <1>3 DEF StreamInv, ReadBits, Is32bit
  <2>2. ReadSize(i) # 0
    BY <1>3, ReadSizes
  <2>3. ReadArgval(i) = Reference(ReadAt[i], stream.arg[i].len)
    BY <1>1, <2>1, <2>2 DEF ReadArgval
  <2> QED
    BY <1>2, <1>3, <2>3
<1>4. CASE args[i].type \in {"XDUMP", "RAW"}
  <2>1. stream.arg[i].bits = 32 /\ ReadBits(args[i].type) = 32
    BY <1>4 DEF StreamInv, ReadBits, Is32bit
  <2>2. ~IsSimple(args[i].type)
    BY <1>4 DEF IsSimple, Data
  <2>3. ReadArgval(i) = Reference(ReadAt[i], stream.arg[i].len)
    BY <1>1, <2>1, <2>2 DEF ReadArgval
  <2> QED
    BY <1>2, <1>4, <2>3
<1>5. CASE args[i].type \notin {"CSTR", "GSTR", "XDUMP", "RAW"}
  <2>1. /\ stream.arg[i].bits = ReadBits(args[i].type)
        /\ stream.arg[i].v = Text(i, WordSize, FALSE)
    BY <1>5 DEF StreamInv
  <2>2. ReadSize(i) = 0 /\ IsSimple(args[i].type)
    BY <1>5, ReadSizes DEF IsSimple, Data
  <2>3. ReadArgval(i) = [src |-> stream.arg[i].v.src,
                         full |-> stream.arg[i].v # Garbage]
    BY <1>1, <2>1, <2>2 DEF ReadArgval
  <2>4. stream.arg[i].v.src = i /\ stream.arg[i].v # Garbage
    BY <1>1, <2>1 DEF Garbage, Text
  <2>5. ReadArgval(i) = [src |-> i, full |-> TRUE]
    BY <2>3, <2>4
  <2> QED
    BY <1>2, <1>5, <2>5
<1> QED
  BY <1>3, <1>4, <1>5

(* raw_parser gets back what format_raw has written.                       *)
LEMMA ParseStep ==
  ASSUME PackInv, StreamInv, Parse
  PROVE  ParsedInv'
<1>0. TypeInv /\ ShapeInv /\ PackedInv
  BY DEF PackInv
<1>1. pc = "parse" /\ UNCHANGED <<args, rec>>
  BY DEF Parse, given
<1> SUFFICES ASSUME pc' = "cook" PROVE ParsedInv'
  BY DEF ParsedInv
<1>2. parsed' = ReadArgs
  BY DEF Parse
<1>3. PICK n \in Nat : n = Len(rec.type)
  BY <1>0 DEF TypeInv
<1>4. parsed'.type \in Seq(Types) /\ Len(parsed'.type) = n
  <2>1. PICK q : q = [i \in 1 .. n |-> ParsedType(rec.type[i])]
    OBVIOUS
  <2>2. parsed'.type = q
    <3>1. stream.type.v = rec.type /\ DOMAIN rec.type = 1 .. n
      BY <1>0, <1>1, <1>3 DEF StreamInv, TypeInv
    <3> QED
      BY <1>2, <2>1, <3>1 DEF ReadArgs
  <2>3. \A i \in 1 .. n : ParsedType(rec.type[i]) \in Types
    <3>1. \A i \in 1 .. n : rec.type[i] \in Types
      BY <1>0, <1>3 DEF TypeInv
    <3>2. "CSTR" \in Types
      BY DEF Types, Data
    <3> QED
      BY <3>1, <3>2 DEF ParsedType
  <2>4. q \in Seq(Types) /\ Len(q) = n
    BY <2>1, <2>3
  <2> QED
    BY <2>2, <2>4
<1>5. ASSUME NEW i \in 1 .. Len(rec.type)
      PROVE  /\ parsed'.type[i] = ParsedType(args[i].type)
             /\ args[i].type = "CSTR" =>
                  /\ parsed'.argval[i].len = Smaller(rec.argval[i].len, U16Max)
                  /\ rec.argval[i].len > 0 =>
                       \E c \in {m.content : m \in rec.mem} :
                         /\ HasPiece(rec, rec.argval[i].at, c)
                         /\ HasPiece(parsed', parsed'.argval[i].at,
                                     Kept(c, U16Max))
             /\ args[i].type = "GSTR" =>
                  /\ parsed'.argval[i].len = Smaller(args[i].len, U16Max)
                  /\ args[i].len > 0 =>
                       HasPiece(parsed', parsed'.argval[i].at,
                                Kept(Text(i, args[i].len, FALSE), U16Max))
             /\ args[i].type \in {"XDUMP", "RAW"} =>
                  parsed'.argval[i].len = rec.argval[i].len
             /\ args[i].type = "XDUMP" /\ rec.argval[i].len >= FmtSize =>
                  HasPiece(parsed', parsed'.argval[i].at,
                           DumpOf(i, rec.argval[i].len))
             /\ args[i].type \notin {"CSTR", "GSTR", "XDUMP", "RAW"} =>
                  parsed'.argval[i] = [src |-> i, full |-> TRUE]
  <2>1. parsed'.type[i] = ParsedType(args[i].type)
    BY <1>1, <1>2, ReadArg
  <2>2. args[i].type \in {"CSTR", "GSTR", "XDUMP", "RAW"} =>
          /\ parsed'.argval[i].at = ReadAt[i]
          /\ parsed'.argval[i].len = stream.arg[i].len
    <3>1. args[i].type \in {"CSTR", "GSTR", "XDUMP", "RAW"} =>
            ReadArgs.argval[i] = Reference(ReadAt[i], stream.arg[i].len)
      BY <1>1, ReadArg
    <3>2. PICK at, len : at = ReadAt[i] /\ len = stream.arg[i].len
      OBVIOUS
    <3>3. Reference(at, len).at = at /\ Reference(at, len).len = len
      BY DEF Reference
    <3> QED
      BY <1>2, <3>1, <3>2, <3>3
  <2>3. stream.type.v[i] = args[i].type
    BY <1>0, <1>1 DEF StreamInv, ShapeInv
  <2>4. CASE args[i].type = "CSTR"
    <3>1. /\ stream.arg[i].len = Smaller(rec.argval[i].len, U16Max)
          /\ rec.argval[i].len > 0 =>
               HasPiece(rec, rec.argval[i].at, stream.arg[i].v)
      BY <1>1, <2>4 DEF StreamInv
    <3>2. HasPiece(parsed', ReadAt[i], Kept(stream.arg[i].v, stream.arg[i].len))
      <4>1. ReadSize(i) > 0
        BY <1>1, <2>4, ReadSizes
      <4>2. ReadContent(i) = Kept(stream.arg[i].v, stream.arg[i].len)
        BY <2>3, <2>4 DEF ReadContent
      <4> QED
        BY <1>1, <1>2, <4>1, <4>2, ReadPiece
    <3>3. ASSUME rec.argval[i].len > 0
          PROVE  \E c \in {m.content : m \in rec.mem} :
                   /\ HasPiece(rec, rec.argval[i].at, c)
                   /\ HasPiece(parsed', parsed'.argval[i].at, Kept(c, U16Max))
      <4>1. PICK c \in {m.content : m \in rec.mem} :
              /\ StringOf(c, i, args[i].len, rec.argval[i].len)
              /\ HasPiece(rec, rec.argval[i].at, c)
        BY <1>0, <2>4, <3>3 DEF PackedInv
      <4>2. c = stream.arg[i].v
        BY <3>1, <3>3, <4>1, PieceRead
      <4>3. /\ rec.argval[i].len \in Nat
            /\ c \in Bytes
            /\ c.n + (IF c.mark THEN 3 ELSE 0) = rec.argval[i].len
        BY <1>0, <2>4, <4>1 DEF PackedInv, IsSimple, Data, ReferenceWord,
                                StringOf
      <4>4. Kept(c, stream.arg[i].len) = Kept(c, U16Max)
        BY <3>1, <4>3, KeptSame
      <4> QED
        BY <2>2, <2>4, <3>2, <4>1, <4>2, <4>4
    <3> QED
      BY <2>1, <2>2, <2>4, <3>1, <3>3
  <2>5. CASE args[i].type = "GSTR"
    <3>1. PICK t : t = Text(i, args[i].len, FALSE)
      OBVIOUS
    <3>2. /\ stream.arg[i].len = Smaller(args[i].len, U16Max)
          /\ stream.arg[i].v = t
      BY <1>1, <2>5, <3>1 DEF StreamInv
    <3>3. HasPiece(parsed', ReadAt[i], Kept(t, stream.arg[i].len))
      <4>1. ReadSize(i) > 0
        BY <1>1, <2>5, ReadSizes
      <4>2. ReadContent(i) = Kept(t, stream.arg[i].len)
        BY <2>3, <2>5, <3>2 DEF ReadContent
      <4> QED
        BY <1>1, <1>2, <4>1, <4>2, ReadPiece
    <3>4. Kept(t, stream.arg[i].len) = Kept(t, U16Max)
      <4>1. args[i].len \in Nat /\ i \in Nat
        <5>1. i \in DOMAIN args /\ args \in Seq(Arg)
          BY <1>0 DEF TypeInv, ShapeInv
        <5>2. args[i] \in Arg
          BY <5>1
        <5> QED
          BY <5>2 DEF Arg
      <4>2. t \in Bytes /\ t.n = args[i].len /\ ~t.mark
        BY <3>1, <4>1 DEF Text, Bytes
      <4>3. t.n + (IF t.mark THEN 3 ELSE 0) = args[i].len
        BY <4>1, <4>2
      <4> QED
        BY <3>2, <4>1, <4>2, <4>3, KeptSame
    <3>5. HasPiece(parsed', parsed'.argval[i].at, Kept(t, U16Max))
      BY <2>2, <2>5, <3>3, <3>4
    <3> QED
      BY <2>1, <2>2, <2>5, <3>1, <3>2, <3>5
  <2>6. CASE args[i].type \in {"XDUMP", "RAW"}
    <3>1. parsed'.argval[i].len = rec.argval[i].len
      BY <1>1, <2>2, <2>6, ReadSizes
    <3>2. ASSUME args[i].type = "XDUMP", rec.argval[i].len >= FmtSize
          PROVE  HasPiece(parsed', parsed'.argval[i].at,
                          DumpOf(i, rec.argval[i].len))
      <4>1. ReadSize(i) > 0
        BY <1>1, <2>6, <3>2, ReadSizes DEF FmtSize
      <4>2. ReadContent(i) = DumpOf(i, rec.argval[i].len)
        BY <1>1, <2>3, <3>2 DEF ReadContent, StreamInv
      <4> QED
        BY <1>1, <1>2, <2>2, <2>6, <4>1, <4>2, ReadPiece
    <3> QED
      BY <2>1, <2>6, <3>1, <3>2
  <2>7. CASE args[i].type \notin {"CSTR", "GSTR", "XDUMP", "RAW"}
    <3>1. parsed'.argval[i] = [src |-> i, full |-> TRUE]
      BY <1>1, <1>2, <2>7, ReadArg
    <3> QED
      BY <2>1, <2>7, <3>1
  <2> QED
    BY <2>4, <2>5, <2>6, <2>7
<1> QED
  BY <1>1, <1>3, <1>4, <1>5 DEF ParsedInv

(* A raw record stays until it is read.                                    *)
LEMMA StreamStep ==
  ASSUME PackInv, StreamInv, [Next]_vars
  PROVE  StreamInv'
<1> USE DEF config, given, fmtVars, texts
<1>1. CASE Pack
  BY <1>1, PackStep
<1>2. CASE Parse
  <2>1. /\ pc = "parse" /\ pc' \in {"cook", "rejected"}
        /\ pc' = "cook" => ValidName(stream.name.len)
        /\ UNCHANGED <<args, time, name, seqnum, rec, stream>>
    BY <1>2 DEF Parse
  <2> QED
    BY <2>1 DEF StreamInv
<1>3. CASE Post \/ SetArg \/ ProcessLive
  BY <1>3 DEF Post, SetArg, ProcessLive, StreamInv
<1>4. CASE ProcessCooked \/ NextRecord
  BY <1>4 DEF ProcessCooked, NextRecord, StreamInv
<1>5. ASSUME NEW o \in Recoveries, ProcessRecovered(o) PROVE StreamInv'
  BY <1>5 DEF ProcessRecovered, StreamInv
<1>6. CASE UNCHANGED vars
  BY <1>6 DEF vars, StreamInv
<1> QED
  BY <1>1, <1>2, <1>3, <1>4, <1>5, <1>6 DEF Next

(* And so does a record that was read.                                     *)
LEMMA ParsedStep ==
  ASSUME PackInv, StreamInv, ParsedInv, [Next]_vars
  PROVE  ParsedInv'
<1> USE DEF config, given, fmtVars, texts
<1>1. CASE Parse
  BY <1>1, ParseStep
<1>2. CASE Post \/ SetArg \/ ProcessLive \/ Pack
  BY <1>2 DEF Post, SetArg, ProcessLive, Pack, ParsedInv
<1>3. CASE ProcessCooked \/ NextRecord
  BY <1>3 DEF ProcessCooked, NextRecord, ParsedInv
<1>4. ASSUME NEW o \in Recoveries, ProcessRecovered(o) PROVE ParsedInv'
  BY <1>4 DEF ProcessRecovered, ParsedInv
<1>5. CASE UNCHANGED vars
  BY <1>5 DEF vars, ParsedInv
<1> QED
  BY <1>1, <1>2, <1>3, <1>4, <1>5 DEF Next

-----------------------------------------------------------------------------
(* The tools print what format_basic would have printed                    *)

(* A string that is kept as far as 16 bits can say is of its argument.     *)
LEMMA KeptOwn ==
  ASSUME NEW c, c.src # 0
  PROVE  Kept(c, U16Max).src # 0
<1>1. CASE c.n + (IF c.mark THEN 3 ELSE 0) <= U16Max
  BY <1>1 DEF Kept
<1>2. CASE ~(c.n + (IF c.mark THEN 3 ELSE 0) <= U16Max)
  BY <1>2 DEF Kept, Text
<1> QED
  BY <1>1, <1>2

(* A string that raw_parser has read, as format_basic prints it.           *)
LEMMA CookedString ==
  ASSUME NEW r, NEW i, r.type[i] = "CSTR"
  PROVE  /\ FmtArg(r, i) = PlainArg(r, i)
         /\ r.argval[i].len = 0 => PlainArg(r, i) = Null
         /\ r.argval[i].len # 0 => PlainArg(r, i) = At(r, i)
  BY DEF FmtArg, PlainArg, ArgStr

(* A fixed text is short.                                                  *)
LEMMA NullKept == Kept(Null, U16Max) = Null /\ Null # NullPointer
<1>1. /\ Null.n = 4 /\ ~Null.mark
      /\ Null.n + (IF Null.mark THEN 3 ELSE 0) <= U16Max
  BY DEF Null, Text, U16Max
<1> QED
  BY <1>1 DEF Kept, Null, NullPointer, Text

(* The arguments of a record that was read, as format_basic prints them.   *)
LEMMA CookedArg ==
  ASSUME PackInv, ParsedInv, pc = "cook", NEW i \in 1 .. Len(rec.type)
  PROVE  /\ args[i].type = "CSTR" =>
              /\ FmtArg(parsed, i) = PlainArg(parsed, i)
              /\ rec.argval[i].len = 0 => PlainArg(parsed, i) = Null
              /\ rec.argval[i].len # 0 => \A c :
                   HasPiece(rec, rec.argval[i].at, c) =>
                     PlainArg(parsed, i) = Kept(c, U16Max)
         /\ args[i].type = "GSTR" =>
              /\ FmtArg(parsed, i) = PlainArg(parsed, i)
              /\ args[i].len = 0 => PlainArg(parsed, i) = Null
              /\ args[i].len # 0 =>
                   PlainArg(parsed, i) =
                     Kept(Text(i, args[i].len, FALSE), U16Max)
         /\ args[i].type = "XDUMP" =>
              /\ FmtArg(parsed, i) = Unsupported
              /\ PlainArg(parsed, i) =
                   IF rec.argval[i].len < FmtSize THEN Garbage
                   ELSE DumpOf(i, rec.argval[i].len)
         /\ args[i].type = "RAW" =>
              /\ FmtArg(parsed, i) = Unsupported
              /\ PlainArg(parsed, i) = RawData(parsed, i)
              /\ RawData(parsed, i) = Text(i, rec.argval[i].len, FALSE)
         /\ args[i].type \notin {"CSTR", "GSTR", "XDUMP", "RAW"} =>
              /\ FmtArg(parsed, i) = Text(i, WordSize, FALSE)
              /\ PlainArg(parsed, i) = Text(i, WordSize, FALSE)
         /\ FmtArg(parsed, i) # NullPointer
<1>0. TypeInv /\ ShapeInv /\ PackedInv
  BY DEF PackInv
<1>1. /\ parsed.type[i] = ParsedType(args[i].type)
      /\ i \in Nat /\ i # 0 /\ U16Max \in Nat /\ U16Max # 0
  <2>1. parsed.type[i] = ParsedType(args[i].type)
    BY DEF ParsedInv
  <2>2. i \in Nat /\ i # 0
    OBVIOUS
  <2> QED
    BY <2>1, <2>2 DEF U16Max
<1>2. CASE args[i].type = "CSTR"
  <2>1. parsed.type[i] = "CSTR"
    BY <1>1, <1>2 DEF ParsedType
  <2>2. /\ rec.argval[i].len \in Nat
        /\ parsed.argval[i].len = Smaller(rec.argval[i].len, U16Max)
    BY <1>0, <1>2 DEF PackedInv, IsSimple, Data, ReferenceWord, ParsedInv
  <2>3. CASE rec.argval[i].len = 0
    <3>1. parsed.argval[i].len = 0
      BY <1>1, <2>2, <2>3 DEF Smaller
    <3>2. FmtArg(parsed, i) = Null /\ PlainArg(parsed, i) = Null
      BY <2>1, <3>1, CookedString
    <3> QED
      BY <1>2, <2>3, <3>2, NullKept
  <2>4. CASE rec.argval[i].len # 0
    <3>1. parsed.argval[i].len # 0
      BY <1>1, <2>2, <2>4 DEF Smaller
    <3>2. PICK c : /\ HasPiece(rec, rec.argval[i].at, c)
                   /\ HasPiece(parsed, parsed.argval[i].at, Kept(c, U16Max))
      <4>1. rec.argval[i].len > 0
        BY <2>2, <2>4
      <4> QED
        BY <1>2, <4>1 DEF ParsedInv
    <3>3. PlainArg(parsed, i) = Kept(c, U16Max)
      BY <2>1, <3>1, <3>2, PieceRead, CookedString
    <3>4. \A d : HasPiece(rec, rec.argval[i].at, d) => d = c
      BY <3>2, PieceRead
    <3>5. c.src # 0
      <4>1. PICK d : /\ StringOf(d, i, args[i].len, rec.argval[i].len)
                     /\ HasPiece(rec, rec.argval[i].at, d)
        BY <1>0, <1>2, <2>2, <2>4 DEF PackedInv
      <4> QED
        BY <1>1, <3>4, <4>1 DEF StringOf
    <3>6. Kept(c, U16Max) # NullPointer
      BY <3>5, KeptOwn DEF NullPointer, Text
    <3> QED
      BY <1>2, <2>1, <2>4, <3>3, <3>4, <3>6, CookedString
  <2> QED
    BY <2>3, <2>4
<1>3. CASE args[i].type = "GSTR"
  <2>1. parsed.type[i] = "CSTR"
    BY <1>1, <1>3 DEF ParsedType
  <2>2. /\ args[i].len \in Nat
        /\ parsed.argval[i].len = Smaller(args[i].len, U16Max)
    <3>1. i \in DOMAIN args /\ args \in Seq(Arg)
      BY <1>0 DEF TypeInv, ShapeInv
    <3>2. args[i] \in Arg
      BY <3>1
    <3> QED
      BY <1>3, <3>2 DEF Arg, ParsedInv
  <2>3. CASE args[i].len = 0
    <3>1. parsed.argval[i].len = 0
      BY <1>1, <2>2, <2>3 DEF Smaller
    <3>2. FmtArg(parsed, i) = Null /\ PlainArg(parsed, i) = Null
      BY <2>1, <3>1, CookedString
    <3> QED
      BY <1>3, <2>3, <3>2, NullKept
  <2>4. CASE args[i].len # 0
    <3>1. parsed.argval[i].len # 0
      BY <1>1, <2>2, <2>4 DEF Smaller
    <3>2. PICK t : t = Text(i, args[i].len, FALSE)
      OBVIOUS
    <3>3. HasPiece(parsed, parsed.argval[i].at, Kept(t, U16Max))
      <4>1. args[i].len > 0
        BY <2>2, <2>4
      <4> QED
        BY <1>3, <3>2, <4>1 DEF ParsedInv
    <3>4. PlainArg(parsed, i) = Kept(t, U16Max)
      BY <2>1, <3>1, <3>3, PieceRead, CookedString
    <3>5. t.src # 0
      BY <1>1, <3>2 DEF Text
    <3>6. Kept(t, U16Max) # NullPointer
      BY <3>5, KeptOwn DEF NullPointer, Text
    <3>7. FmtArg(parsed, i) = PlainArg(parsed, i)
      BY <2>1, CookedString
    <3> QED
      BY <1>3, <2>4, <3>2, <3>4, <3>6, <3>7
  <2> QED
    BY <2>3, <2>4
<1>4. CASE args[i].type = "XDUMP"
  <2>1. /\ parsed.type[i] = "XDUMP"
        /\ parsed.argval[i].len = rec.argval[i].len
        /\ rec.argval[i].len \in Nat
    BY <1>0, <1>1, <1>4 DEF ParsedType, ParsedInv, PackedInv, IsSimple, Data,
                            ReferenceWord
  <2>2. /\ FmtArg(parsed, i) = Unsupported
        /\ PlainArg(parsed, i) = Xdump(parsed, i)
    BY <2>1 DEF FmtArg, PlainArg
  <2>3. Unsupported # NullPointer
    BY DEF Unsupported, NullPointer, Text
  <2>4. CASE rec.argval[i].len < FmtSize
    <3>1. Xdump(parsed, i) = Garbage
      BY <2>1, <2>4 DEF Xdump
    <3> QED
      BY <1>4, <2>2, <2>3, <2>4, <3>1
  <2>5. CASE ~(rec.argval[i].len < FmtSize)
    <3>1. rec.argval[i].len >= FmtSize
      BY <2>1, <2>5 DEF FmtSize
    <3>2. At(parsed, i) = DumpOf(i, rec.argval[i].len)
      BY <1>4, <3>1, PieceRead DEF ParsedInv
    <3>3. Xdump(parsed, i) = At(parsed, i)
      BY <2>1, <2>5 DEF Xdump
    <3> QED
      BY <1>4, <2>2, <2>3, <2>5, <3>2, <3>3
  <2> QED
    BY <2>4, <2>5
<1>5. CASE args[i].type = "RAW"
  <2>1. /\ parsed.type[i] = "RAW"
        /\ parsed.argval[i].len = rec.argval[i].len
    BY <1>1, <1>5 DEF ParsedType, ParsedInv
  <2>2. /\ FmtArg(parsed, i) = Unsupported
        /\ PlainArg(parsed, i) = RawData(parsed, i)
    BY <2>1 DEF FmtArg, PlainArg
  <2>3. Unsupported # NullPointer
    BY DEF Unsupported, NullPointer, Text
  <2>4. RawData(parsed, i) = Text(i, rec.argval[i].len, FALSE)
    BY <2>1 DEF RawData
  <2> QED
    BY <1>5, <2>2, <2>3, <2>4
<1>6. CASE args[i].type \notin {"CSTR", "GSTR", "XDUMP", "RAW"}
  <2>1. /\ parsed.type[i] = args[i].type
        /\ parsed.argval[i] = [src |-> i, full |-> TRUE]
    BY <1>1, <1>6 DEF ParsedType, ParsedInv
  <2>2. parsed.argval[i].src = i /\ parsed.argval[i].full
    BY <2>1
  <2>3. ArgVal(parsed, i) = Text(i, WordSize, FALSE)
    BY <2>2 DEF ArgVal
  <2>4. FmtArg(parsed, i) = ArgVal(parsed, i)
        /\ PlainArg(parsed, i) = ArgVal(parsed, i)
    BY <1>6, <2>1 DEF FmtArg, PlainArg
  <2>5. ArgVal(parsed, i) # NullPointer
    BY <1>1, <2>3 DEF NullPointer, Text
  <2> QED
    BY <1>6, <2>3, <2>4, <2>5
<1> QED
  BY <1>2, <1>3, <1>4, <1>5, <1>6

(* Reading a record turns global strings into strings, and no more, which  *)
(* leaves the form of its line.                                            *)
LEMMA SameForm ==
  ASSUME PackInv, ParsedInv, pc = "cook"
  PROVE  /\ Form(parsed.type) = Form(rec.type)
         /\ Shown(parsed.type) = Shown(rec.type)
<1>0. TypeInv /\ ShapeInv
  BY DEF PackInv
<1>1. PICK p, q : p = parsed.type /\ q = rec.type
  OBVIOUS
<1>2. PICK n \in Nat : n = Len(q)
  BY <1>0, <1>1 DEF TypeInv
<1>3. Len(p) = n
  BY <1>1, <1>2 DEF ParsedInv
<1>4. \A i \in 1 .. n : p[i] = IF q[i] = "GSTR" THEN "CSTR" ELSE q[i]
  BY <1>0, <1>1, <1>2 DEF ParsedInv, ShapeInv, ParsedType
<1>5. n >= 1 => p[1] = IF q[1] = "GSTR" THEN "CSTR" ELSE q[1]
  BY <1>4
<1>6. n >= 2 => p[2] = IF q[2] = "GSTR" THEN "CSTR" ELSE q[2]
  BY <1>4
<1>7. n >= 2 => n >= 1
  OBVIOUS
<1>8. Form(p) = Form(q)
  BY <1>2, <1>3, <1>5, <1>6, <1>7 DEF Form
<1> QED
  BY <1>1, <1>2, <1>3, <1>8 DEF Shown

(* The invariant for the tools.                                            *)
CookInv == HeadInv /\ LineInv /\ StreamInv /\ ParsedInv /\ CookedSame

(* The header that the tools print.                                        *)
LEMMA CookedHeader ==
  ASSUME PackInv, HeadInv, StreamInv, ProcessCooked
  PROVE  cooked'.header = live.header
<1>1. /\ pc = "cook"
      /\ cooked'.header = Header(cookedFmt, stream.time.v,
                                 Names(stream.name.len), stream.seqnum.v)
  BY DEF ProcessCooked
<1>2. stream.time.v = time /\ stream.seqnum.v = seqnum
  BY <1>1 DEF StreamInv
<1>3. stream.name.len = name
  <2>1. /\ stream.name.len = Smaller(name, U8Max)
        /\ stream.name.len \in 2 .. 128
    BY <1>1 DEF StreamInv, ValidName
  <2>2. name \in Nat
    BY DEF PackInv, TypeInv
  <2> QED
    BY <2>1, <2>2 DEF Smaller, U8Max
<1>4. PICK h : h = Header(cookedFmt, time, Names(name), seqnum)
  OBVIOUS
<1>5. HeaderIs(h, fields, cookedFmt, time, name, seqnum)
  BY <1>4, HeaderMeaning DEF HeadInv, CacheInv
<1>6. HeaderIs(live.header, fields, cookedFmt, time, name, seqnum)
  BY <1>1 DEF HeadInv, HandlerInv
<1>7. h = live.header
  BY <1>5, <1>6, HeaderSame
<1> QED
  BY <1>1, <1>2, <1>3, <1>4, <1>7

(* The line that the tools print.                                          *)
LEMMA CookedLine ==
  ASSUME PackInv, LineInv, ParsedInv, ProcessCooked
  PROVE  /\ cooked'.line.how = live.line.how
         /\ \A i \in DOMAIN live.line.what :
              cooked'.line.what[i] = AsCooked(i, live.line.what[i])
<1>0. TypeInv /\ ShapeInv
  BY DEF PackInv
<1>1. pc = "cook" /\ cooked'.line = Line(parsed)
  BY DEF ProcessCooked
<1>2. parsed.type \in Seq(Types) /\ Len(parsed.type) = Len(rec.type)
  BY <1>1 DEF ParsedInv
<1>3. \A i \in 1 .. Len(parsed.type) : FmtArg(parsed, i) # NullPointer
  BY <1>1, <1>2, CookedArg
<1>4. PICK form, shown : form = Form(rec.type) /\ shown = Shown(rec.type)
  OBVIOUS
<1>5. /\ cooked'.line.how = form
      /\ \A i \in shown :
           cooked'.line.what[i] =
             IF form = "raw" THEN RawData(parsed, i)
             ELSE IF form = "fmt" THEN FmtArg(parsed, i)
             ELSE PlainArg(parsed, i)
  BY <1>1, <1>2, <1>3, <1>4, LineMeaning, SameForm
<1>6. live.line.how = form /\ DOMAIN live.line.what = shown
  BY <1>1, <1>4 DEF LineInv
<1>7. ASSUME NEW i \in shown
      PROVE  cooked'.line.what[i] = AsCooked(i, live.line.what[i])
  <2>1. /\ i \in 1 .. Len(rec.type) /\ form \in {"raw", "fmt", "plain"}
        /\ form = "raw" => args[i].type = "RAW"
    <3>1. rec.type \in Seq(Types)
      BY <1>0 DEF TypeInv
    <3>2. /\ i \in 1 .. Len(rec.type) /\ form \in {"raw", "fmt", "plain"}
          /\ form = "raw" => rec.type[i] = "RAW"
      BY <1>4, <3>1, ShownArgs
    <3> QED
      BY <1>0, <3>2 DEF ShapeInv
  <2>2. PICK t, w : t = live.line.what[i] /\ w = cooked'.line.what[i]
    OBVIOUS
  <2>3. w = IF form = "raw" THEN RawData(parsed, i)
            ELSE IF form = "fmt" THEN FmtArg(parsed, i)
            ELSE PlainArg(parsed, i)
    BY <1>5, <2>2
  <2>4. CASE args[i].type = "CSTR"
    <3>1. w = PlainArg(parsed, i)
      BY <1>1, <2>1, <2>3, <2>4, CookedArg
    <3>2. IF rec.argval[i].len = 0 THEN t = Null
          ELSE HasPiece(rec, rec.argval[i].at, t)
      BY <1>1, <1>4, <2>2, <2>4 DEF LineInv
    <3>3. w = Kept(t, U16Max)
      BY <1>1, <2>1, <2>4, <3>1, <3>2, CookedArg, NullKept
    <3>4. AsCooked(i, t) = Kept(t, U16Max)
      BY <2>4 DEF AsCooked
    <3> QED
      BY <2>2, <3>3, <3>4
  <2>5. CASE args[i].type = "GSTR"
    <3>1. w = PlainArg(parsed, i)
      BY <1>1, <2>1, <2>3, <2>5, CookedArg
    <3>2. t = Text(i, args[i].len, FALSE)
      BY <1>1, <1>4, <2>2, <2>5 DEF LineInv
    <3>3. w = IF args[i].len = 0 THEN Null ELSE Kept(t, U16Max)
      BY <1>1, <2>1, <2>5, <3>1, <3>2, CookedArg
    <3>4. AsCooked(i, t) = IF args[i].len = 0 THEN Null ELSE Kept(t, U16Max)
      BY <2>5 DEF AsCooked
    <3> QED
      BY <2>2, <3>3, <3>4
  <2>6. CASE args[i].type \in {"XDUMP", "RAW"}
    <3>1. AsCooked(i, t) = t
      BY <2>6 DEF AsCooked
    <3>2. t = IF form = "fmt" THEN Unsupported
              ELSE IF args[i].type = "RAW"
              THEN Text(i, rec.argval[i].len, FALSE)
              ELSE IF rec.argval[i].len < FmtSize THEN Garbage
              ELSE DumpOf(i, rec.argval[i].len)
      BY <1>1, <1>4, <1>6, <2>2, <2>6 DEF LineInv
    <3>3. CASE args[i].type = "RAW"
      BY <1>1, <2>1, <2>2, <2>3, <3>1, <3>2, <3>3, CookedArg
    <3>4. CASE args[i].type = "XDUMP"
      BY <1>1, <2>1, <2>2, <2>3, <3>1, <3>2, <3>4, CookedArg
    <3> QED
      BY <2>6, <3>3, <3>4
  <2>7. CASE args[i].type \notin {"CSTR", "GSTR", "XDUMP", "RAW"}
    <3>1. AsCooked(i, t) = t
      BY <2>7 DEF AsCooked
    <3>2. t = Text(i, WordSize, FALSE)
      BY <1>1, <1>4, <2>2, <2>7 DEF LineInv
    <3> QED
      BY <1>1, <2>1, <2>2, <2>3, <2>7, <3>1, <3>2, CookedArg
  <2> QED
    BY <2>4, <2>5, <2>6, <2>7
<1> QED
  BY <1>5, <1>6, <1>7

(* Nothing changes what was printed.                                       *)
LEMMA CookedStep ==
  ASSUME PackInv, CookInv, [Next]_vars
  PROVE  CookedSame'
<1> USE DEF config, given, fmtVars, texts
<1>1. CASE ProcessCooked
  <2>1. UNCHANGED <<args, live>>
    BY <1>1 DEF ProcessCooked
  <2>2. cooked'.header = live.header
    BY <1>1, CookedHeader DEF CookInv
  <2>3. /\ cooked'.line.how = live.line.how
        /\ \A i \in DOMAIN live.line.what :
             cooked'.line.what[i] = AsCooked(i, live.line.what[i])
    BY <1>1, CookedLine DEF CookInv
  <2> QED
    BY <2>1, <2>2, <2>3 DEF CookedSame, AsCooked
<1>2. CASE Post \/ SetArg \/ ProcessLive \/ Pack
  BY <1>2 DEF Post, SetArg, ProcessLive, Pack, CookedSame
<1>3. CASE Parse \/ NextRecord
  BY <1>3 DEF Parse, NextRecord, CookedSame
<1>4. ASSUME NEW o \in Recoveries, ProcessRecovered(o) PROVE CookedSame'
  BY <1>4 DEF ProcessRecovered, CookedSame
<1>5. CASE UNCHANGED vars
  BY <1>5 DEF vars, CookedSame, CookInv, AsCooked
<1> QED
  BY <1>1, <1>2, <1>3, <1>4, <1>5 DEF Next

(* The invariant of the way through a raw file.                            *)
LEMMA CookInvariant ==
  /\ Init => CookInv
  /\ PackInv /\ CookInv /\ [Next]_vars => CookInv'
<1>1. ASSUME Init PROVE CookInv
  <2>1. HeadInv
    BY <1>1, NewHandlers DEF Init
  <2>2. LineInv /\ StreamInv /\ ParsedInv /\ CookedSame
    BY <1>1 DEF Init, LineInv, StreamInv, ParsedInv, CookedSame
  <2> QED
    BY <2>1, <2>2 DEF CookInv
<1>2. ASSUME PackInv, CookInv, [Next]_vars PROVE CookInv'
  <2>0. HeadInv /\ LineInv /\ StreamInv /\ ParsedInv
    BY <1>2 DEF CookInv
  <2>1. pc = "cook" => stream.time.v = time
    BY <2>0 DEF StreamInv
  <2>2. HeadInv'
    BY <1>2, <2>0, <2>1, HeadStep
  <2>3. LineInv'
    BY <1>2, <2>0, LineStep
  <2>4. StreamInv' /\ ParsedInv'
    BY <1>2, <2>0, StreamStep, ParsedStep
  <2>5. CookedSame'
    BY <1>2, CookedStep
  <2> QED
    BY <2>2, <2>3, <2>4, <2>5 DEF CookInv
<1> QED
  BY <1>1, <1>2

(* Headers show the time of their record: the cache of format_basic        *)
(* converts only the parts that have changed since the record before, and  *)
(* what it keeps of the others is right.                                   *)
THEOREM TscacheFreshHolds == Spec => []TscacheFresh
<1>1. ASSUME CookInv PROVE TscacheFresh
  BY <1>1 DEF CookInv, HeadInv, HandlerInv, HeaderIs, TscacheFresh
<1> QED
  BY <1>1, PackInvariant, CookInvariant, PTL DEF Spec

(* The text that the tools make of a raw log is the text that format_basic *)
(* would have written, for records of any arguments, truncated or not, and *)
(* whatever was printed before: format_raw and raw_parser lose no more     *)
(* than what 16 bits cannot say about a string.                            *)
THEOREM CookedSameHolds == Spec => []CookedSame
<1>1. ASSUME CookInv PROVE CookedSame
  BY <1>1 DEF CookInv
<1> QED
  BY <1>1, PackInvariant, CookInvariant, PTL DEF Spec

-----------------------------------------------------------------------------
(* Chunks of sections                                                      *)

(* Sections as coredump keeps them: none is empty, no two are at the same  *)
(* address, and those of one file do not overlap.                          *)
Shelf(A) ==
  /\ \A s \in A : /\ s.vma \in Nat /\ End(s) \in Nat
                  /\ s.vma < End(s) /\ s.vma <= MaxVma
  /\ \A s, t \in A : s.vma = t.vma => s = t
  /\ \A s, t \in A : s.file = t.file =>
       s = t \/ End(s) <= t.vma \/ End(t) <= s.vma

(* Of sections that have something in common one is the first.             *)
LEMMA FirstSection ==
  ASSUME NEW A, Shelf(A), NEW B \in SUBSET A, B # {}
  PROVE  \E s \in B : \A u \in B : s.vma <= u.vma
<1> DEFINE V == {u.vma : u \in B}
<1>1. V \in SUBSET Nat /\ V # {}
  BY DEF Shelf
<1>2. PICK x \in V : \A y \in V : x <= y
  <2> HIDE DEF V
  <2> QED BY <1>1, LeastNatural
<1>3. PICK s \in B : x = s.vma
  BY <1>2
<1> QED
  BY <1>2, <1>3

(* One of them is the last.                                                *)
LEMMA LastSection ==
  ASSUME NEW A, Shelf(A), NEW B \in SUBSET A, B # {}
  PROVE  \E s \in B : \A u \in B : u.vma <= s.vma
<1> DEFINE V == {u.vma : u \in B}
<1>0. MaxVma \in Nat
  BY ObjectAssumption
<1>1. V \in SUBSET (0 .. MaxVma) /\ V # {}
  BY <1>0 DEF Shelf
<1>2. PICK x \in V : \A y \in V : y <= x
  <2> HIDE DEF V
  <2> QED BY <1>0, <1>1, GreatestNatural
<1>3. PICK s \in B : x = s.vma
  BY <1>2
<1> QED
  BY <1>2, <1>3

(* Every section becomes a part of a chunk.                                *)
LEMMA ChunkOf ==
  ASSUME NEW A, Shelf(A), NEW x \in A
  PROVE  \E s, t \in A : IsChunk(A, s, t) /\ s.vma <= x.vma /\ x.vma <= t.vma
<1> DEFINE Heads == {r \in A : r.vma <= x.vma
                               /\ ~\E q \in A : Continues(A, q, r)}
           Tails == {r \in A : x.vma <= r.vma
                               /\ ~\E q \in A : Continues(A, r, q)}
<1>0. \A q, r \in A : Continues(A, q, r) => q.vma < r.vma
  BY DEF Shelf, Continues
<1>1. Heads # {}
  <2>1. PICK s \in A : \A u \in A : s.vma <= u.vma
    BY FirstSection
  <2>2. s \in Heads
    BY <1>0, <2>1 DEF Shelf
  <2> QED BY <2>2
<1>2. Tails # {}
  <2>1. PICK s \in A : \A u \in A : u.vma <= s.vma
    BY LastSection
  <2>2. s \in Tails
    BY <1>0, <2>1 DEF Shelf
  <2> QED BY <2>2
<1>3. PICK s \in Heads : \A u \in Heads : u.vma <= s.vma
  BY <1>1, LastSection
<1>4. PICK t \in Tails : \A u \in Tails : t.vma <= u.vma
  BY <1>2, FirstSection
<1>5. s.vma <= t.vma
  BY <1>3, <1>4 DEF Shelf
<1>6. ASSUME NEW u \in A, s.vma < u.vma, u.vma <= t.vma
      PROVE  \E r \in A : Continues(A, r, u)
  <2>1. CASE u.vma <= x.vma
    BY <2>1, <1>3, <1>6 DEF Shelf
  <2>2. CASE x.vma < u.vma
    <3> DEFINE Before == {r \in A : r.vma < u.vma}
    <3>1. x \in Before
      BY <2>2
    <3>2. PICK r \in Before : \A q \in Before : q.vma <= r.vma
      BY <3>1, LastSection
    <3>3. x.vma <= r.vma /\ r.vma < u.vma
      BY <3>1, <3>2
    <3>4. r \notin Tails
      BY <3>3, <1>4, <1>6 DEF Shelf
    <3>5. PICK q \in A : Continues(A, r, q)
      BY <3>3, <3>4
    <3>6. q.vma <= u.vma
      BY <3>3, <3>5 DEF Shelf, Continues
    <3>7. q \notin Before
      BY <1>0, <3>2, <3>5 DEF Shelf
    <3>8. q.vma = u.vma
      BY <3>6, <3>7 DEF Shelf
    <3> QED
      BY <3>5, <3>8 DEF Shelf
  <2> QED
    BY <2>1, <2>2 DEF Shelf
<1> QED
  BY <1>3, <1>4, <1>5, <1>6 DEF IsChunk

(* The sections of a chunk are all of one file.                            *)
LEMMA ChunkFile ==
  ASSUME NEW A, Shelf(A), NEW s \in A, NEW t \in A, IsChunk(A, s, t),
         NEW u \in A, s.vma <= u.vma, u.vma <= t.vma
  PROVE  u.file = s.file
<1> DEFINE B == {q \in A : /\ s.vma <= q.vma /\ q.vma <= t.vma
                           /\ q.file # s.file}
<1> SUFFICES ASSUME B # {} PROVE FALSE
  OBVIOUS
<1>1. PICK q \in B : \A r \in B : q.vma <= r.vma
  BY FirstSection
<1>2. s.vma < q.vma
  BY <1>1 DEF Shelf
<1>3. PICK r \in A : Continues(A, r, q)
  BY <1>1, <1>2 DEF IsChunk
<1>4. r.vma < q.vma /\ s.vma <= r.vma /\ r.file = q.file
  BY <1>2, <1>3 DEF Continues, Shelf
<1>5. r \in B
  BY <1>1, <1>4 DEF Shelf
<1> QED
  BY <1>1, <1>4, <1>5 DEF Shelf

(* Each section of a chunk but the last is followed by the next at once.   *)
LEMMA ChunkNext ==
  ASSUME NEW A, Shelf(A), NEW s \in A, NEW t \in A, IsChunk(A, s, t),
         NEW u \in A, s.vma <= u.vma, u.vma < t.vma
  PROVE  \E v \in A : v.vma = End(u) /\ v.vma <= t.vma
<1> DEFINE B == {q \in A : u.vma < q.vma /\ q.vma <= t.vma}
<1>1. t \in B
  BY DEF Shelf
<1>2. PICK v \in B : \A r \in B : v.vma <= r.vma
  BY <1>1, FirstSection
<1>3. PICK r \in A : Continues(A, r, v)
  BY <1>2 DEF IsChunk, Shelf
<1>4. r.vma < v.vma /\ u.vma <= r.vma /\ End(r) = v.vma
  BY <1>2, <1>3 DEF Continues, Shelf
<1>5. r \notin B
  BY <1>2, <1>4 DEF Shelf
<1>6. r.vma = u.vma
  BY <1>2, <1>4, <1>5 DEF Shelf
<1>7. r = u
  BY <1>6 DEF Shelf
<1> QED
  BY <1>2, <1>4, <1>7

(* Every address of a chunk is in one of its sections.                     *)
LEMMA ChunkCovers ==
  ASSUME NEW A, Shelf(A), NEW s \in A, NEW t \in A, IsChunk(A, s, t),
         NEW b \in Nat, s.vma <= b, b < End(t)
  PROVE  \E u \in A : /\ s.vma <= u.vma /\ u.vma <= t.vma
                      /\ u.vma <= b /\ b < End(u)
<1> DEFINE B == {q \in A : s.vma <= q.vma /\ q.vma <= t.vma /\ q.vma <= b}
<1>1. s \in B
  BY DEF Shelf, IsChunk
<1>2. PICK u \in B : \A r \in B : r.vma <= u.vma
  BY <1>1, LastSection
<1>3. SUFFICES ASSUME End(u) <= b PROVE FALSE
  BY <1>2 DEF Shelf
<1>4. u.vma < t.vma
  <2>1. u # t
    BY <1>3 DEF Shelf
  <2> QED BY <2>1, <1>2 DEF Shelf
<1>5. PICK v \in A : v.vma = End(u) /\ v.vma <= t.vma
  BY <1>2, <1>4, ChunkNext
<1>6. v \in B /\ u.vma < v.vma
  BY <1>2, <1>3, <1>5 DEF Shelf
<1> QED
  BY <1>2, <1>6 DEF Shelf

(* No section of a chunk goes beyond its end.                              *)
LEMMA ChunkEnd ==
  ASSUME NEW A, Shelf(A), NEW s \in A, NEW t \in A, IsChunk(A, s, t),
         NEW u \in A, s.vma <= u.vma, u.vma <= t.vma
  PROVE  End(u) <= End(t)
<1>1. u.file = s.file /\ t.file = s.file
  <2>1. s.vma <= t.vma /\ t.vma <= t.vma
    BY DEF IsChunk, Shelf
  <2> QED BY <2>1, ChunkFile
<1> QED
  BY <1>1 DEF Shelf
(* The sections of one of the two files that are in memory.                *)
InFile(l, file) == Memory(IF file = "core" THEN l.core ELSE l.exec)

(* Sections that are in memory have bytes, and do not overlap.             *)
LEMMA FileSections ==
  ASSUME NEW l \in Layouts, NEW file
  PROVE  /\ \A r \in InFile(l, file) :
              /\ r.vma \in Nat /\ r.size \in Nat /\ End(r) \in Nat
              /\ r.vma < End(r) /\ r.vma <= MaxVma
         /\ \A r, q \in InFile(l, file) :
              r = q \/ End(r) <= q.vma \/ End(q) <= r.vma
<1>1. PICK F \in {l.core, l.exec} : InFile(l, file) = Memory(F)
  BY DEF InFile
<1>2. F \subseteq [vma: 0 .. MaxVma, size: Nat] /\ Proper(F) /\ MaxVma \in Nat
  BY LayoutAssumption, ObjectAssumption
<1>3. \A r \in Memory(F) :
        r.vma \in 0 .. MaxVma /\ r.size \in Nat /\ r.size # 0
  BY <1>2 DEF Memory
<1> QED
  BY <1>1, <1>2, <1>3 DEF Proper, End

(* What coredump keeps are sections of the files.                          *)
LEMMA KeptSections ==
  ASSUME NEW l \in Layouts, NEW u \in AddSections(l)
  PROVE  /\ u.file \in {"core", "exec"}
         /\ \E r \in InFile(l, u.file) :
              r.vma = u.vma /\ r.size = u.size /\ End(r) = End(u)
         /\ u = [file |-> u.file, vma |-> u.vma, size |-> u.size]
         /\ u.file = "exec" => \A e \in InFile(l, "core") : e.vma # u.vma
<1> DEFINE R(file, r) == [file |-> file, vma |-> r.vma, size |-> r.size]
<1>1. PICK file \in {"core", "exec"} :
        /\ \E r \in InFile(l, file) : u = R(file, r)
        /\ file = "exec" => \A e \in InFile(l, "core") : e.vma # u.vma
  <2>1. CASE \E r \in Memory(l.core) : u = R("core", r)
    BY <2>1 DEF InFile
  <2>2. CASE /\ \E r \in Memory(l.exec) : u = R("exec", r)
             /\ \A e \in Memory(l.core) : R("core", e).vma # u.vma
    BY <2>2 DEF InFile
  <2> QED
    BY <2>1, <2>2 DEF AddSections
<1>2. PICK r \in InFile(l, file) : u = R(file, r)
  BY <1>1
<1>3. u.file = file /\ u.vma = r.vma /\ u.size = r.size
  BY <1>2
<1> QED
  BY <1>1, <1>2, <1>3 DEF End

(* What is left out are the sections of the executable at the address of a *)
(* section of the core.                                                    *)
LEMMA SectionKept ==
  ASSUME NEW l \in Layouts, NEW file \in {"core", "exec"},
         NEW r \in InFile(l, file),
         file = "exec" => \A e \in InFile(l, "core") : e.vma # r.vma
  PROVE  \E u \in AddSections(l) :
           u.file = file /\ u.vma = r.vma /\ u.size = r.size /\ End(u) = End(r)
<1> DEFINE R(f, q) == [file |-> f, vma |-> q.vma, size |-> q.size]
<1>1. R(file, r) \in AddSections(l)
  <2>1. CASE file = "core"
    BY <2>1 DEF AddSections, InFile
  <2>2. CASE file = "exec"
    BY <2>2 DEF AddSections, InFile
  <2> QED
    BY <2>1, <2>2
<1> QED
  BY <1>1 DEF End

(* What coredump keeps has the order that coalescing needs.                *)
LEMMA SectionsShelf ==
  ASSUME NEW l \in Layouts
  PROVE  Shelf(AddSections(l))
<1> DEFINE A == AddSections(l)
<1>1. ASSUME NEW s \in A, NEW t \in A, s.file = t.file
      PROVE  s = t \/ End(s) <= t.vma \/ End(t) <= s.vma
  <2>1. PICK r \in InFile(l, s.file) :
          r.vma = s.vma /\ r.size = s.size /\ End(r) = End(s)
    BY KeptSections
  <2>2. PICK q \in InFile(l, s.file) :
          q.vma = t.vma /\ q.size = t.size /\ End(q) = End(t)
    BY <1>1, KeptSections
  <2>3. r = q \/ End(r) <= q.vma \/ End(q) <= r.vma
    BY <2>1, <2>2, FileSections
  <2>4. r = q => s = t
    <3>1. /\ s = [file |-> s.file, vma |-> s.vma, size |-> s.size]
          /\ t = [file |-> t.file, vma |-> t.vma, size |-> t.size]
      BY KeptSections
    <3> HIDE DEF A
    <3> QED BY <3>1, <2>1, <2>2, <1>1
  <2> QED BY <2>1, <2>2, <2>3, <2>4
<1>2. ASSUME NEW s \in A
      PROVE  /\ s.vma \in Nat /\ End(s) \in Nat
             /\ s.vma < End(s) /\ s.vma <= MaxVma
  BY FileSections, KeptSections
<1>3. ASSUME NEW s \in A, NEW t \in A, s.vma = t.vma
      PROVE  s = t
  <2>1. CASE s.file = t.file
    <3> HIDE DEF A
    <3> QED BY <2>1, <1>1, <1>2, <1>3
  <2>2. CASE s.file = "exec" /\ t.file = "core"
    BY <1>3, <2>2, KeptSections
  <2>3. CASE s.file = "core" /\ t.file = "exec"
    BY <1>3, <2>3, KeptSections
  <2> QED
    BY <2>1, <2>2, <2>3, KeptSections
<1> QED
  BY <1>1, <1>2, <1>3 DEF Shelf

(* The chunks as coalesce_and_load_sections makes them.                    *)
LEMMA ChunkMade ==
  ASSUME NEW l \in Layouts, NEW c \in Coalesce(l)
  PROVE  \E s, t \in AddSections(l) :
           /\ IsChunk(AddSections(l), s, t)
           /\ c.file = s.file /\ c.file = t.file /\ c.vma = s.vma
           /\ End(c) = End(t) /\ c.vma \in Nat
<1> DEFINE A == AddSections(l)
<1>1. PICK s \in A, t \in A :
        /\ IsChunk(A, s, t)
        /\ c = [file |-> s.file, vma |-> s.vma, size |-> End(t) - s.vma]
  BY DEF Coalesce
<1>2. c.file = s.file /\ c.vma = s.vma /\ c.size = End(t) - s.vma
  BY <1>1
<1>3. Shelf(A)
  BY SectionsShelf
<1>4. t.file = s.file
  <2> HIDE DEF A
  <2>1. s.vma <= t.vma /\ t.vma <= t.vma
    BY <1>1, <1>3 DEF IsChunk, Shelf
  <2> QED BY <1>1, <1>3, <2>1, ChunkFile
<1>5. End(c) = End(t)
  <2>1. s.vma \in Nat /\ End(t) \in Nat
    BY <1>3 DEF Shelf
  <2> QED BY <2>1, <1>2 DEF End
<1> QED
  BY <1>1, <1>2, <1>3, <1>4, <1>5 DEF Shelf

(* Every run of sections that continue one another becomes a chunk.        *)
LEMMA ChunkIsMade ==
  ASSUME NEW l \in Layouts,
         NEW s \in AddSections(l), NEW t \in AddSections(l),
         IsChunk(AddSections(l), s, t)
  PROVE  \E c \in Coalesce(l) :
           c.file = s.file /\ c.vma = s.vma /\ End(c) = End(t)
<1> DEFINE c == [file |-> s.file, vma |-> s.vma, size |-> End(t) - s.vma]
<1>1. c \in Coalesce(l)
  <2>1. <<s, t>> \in AddSections(l) \X AddSections(l)
    OBVIOUS
  <2> QED BY <2>1 DEF Coalesce
<1>2. c.file = s.file /\ c.vma = s.vma /\ c.size = End(t) - s.vma
  OBVIOUS
<1>3. s.vma \in Nat /\ End(t) \in Nat
  BY SectionsShelf DEF Shelf
<1>4. End(c) = End(t)
  <2> HIDE DEF c
  <2> QED BY <1>2, <1>3 DEF End
<1> QED
  BY <1>1, <1>2, <1>4

(* If every section can be read, all the chunks are loaded to their end.   *)
LEMMA ChunkLoaded ==
  ASSUME NEW l \in Layouts, l.bad = {}, NEW c \in Coalesce(l)
  PROVE  LoadSection(l, c) = End(c) /\ End(c) \in Nat
<1> DEFINE A == AddSections(l)
           inside == {q \in InFile(l, c.file) :
                        c.vma <= q.vma /\ End(q) <= End(c)}
           ends == {c.vma} \cup {End(q) : q \in inside}
           starts == {q.vma : q \in inside}
<1>1. Shelf(A)
  BY SectionsShelf
<1>2. PICK s \in A, t \in A :
        /\ IsChunk(A, s, t)
        /\ c.file = s.file /\ c.file = t.file /\ c.vma = s.vma
        /\ End(c) = End(t) /\ c.vma \in Nat
  BY ChunkMade
<1>3. s.vma <= t.vma
  BY <1>2 DEF IsChunk
<1>4. ASSUME NEW u \in A, s.vma <= u.vma, u.vma <= t.vma
      PROVE  \E q \in inside : q.vma = u.vma /\ End(q) = End(u)
  <2>1. u.file = c.file
    <3>1. u.file = s.file
      <4>1. Shelf(A) /\ IsChunk(A, s, t)
        BY <1>1, <1>2
      <4> HIDE DEF A
      <4> QED BY <4>1, <1>4, ChunkFile
    <3> QED BY <3>1, <1>2
  <2>2. End(u) <= End(c)
    BY <1>1, <1>2, <1>4, ChunkEnd
  <2>3. PICK q \in InFile(l, c.file) : q.vma = u.vma /\ End(q) = End(u)
    BY <2>1, KeptSections
  <2>4. q \in inside
    BY <2>2, <2>3, <1>2, <1>4
  <2> QED BY <2>3, <2>4
<1>5. c.vma \in starts /\ End(c) \in ends
  <2>1. s.vma <= s.vma /\ t.vma <= t.vma
    BY <1>1 DEF Shelf
  <2>2. PICK q \in inside : q.vma = s.vma
    BY <1>3, <1>4, <2>1
  <2>3. PICK r \in inside : End(r) = End(t)
    BY <1>3, <1>4, <2>1
  <2> QED BY <1>2, <2>2, <2>3
<1>6. \A q \in inside :
        /\ q.vma \in Nat /\ End(q) \in Nat /\ q.vma < End(q)
        /\ q \in InFile(l, c.file) /\ c.vma <= q.vma /\ End(q) <= End(c)
  BY FileSections
<1>7. End(c) \in Nat
  BY <1>1, <1>2 DEF Shelf
<1>8. End(c) \notin starts
  BY <1>6, <1>7
<1>9. ASSUME NEW a \in ends \ starts
      PROVE  a = End(c)
  <2>1. PICK q \in inside : a = End(q)
    BY <1>5
  <2>2. PICK u \in A : /\ s.vma <= u.vma /\ u.vma <= t.vma
                       /\ u.vma <= q.vma /\ q.vma < End(u)
    <3>1. s.vma <= q.vma /\ q.vma < End(t) /\ q.vma \in Nat
      BY <1>2, <1>6, <1>7
    <3> QED BY <3>1, <1>1, <1>2, ChunkCovers
  <2>3. PICK r \in inside : r.vma = u.vma /\ End(r) = End(u)
    BY <1>4, <2>2
  <2>4. q = r
    BY <1>6, <2>2, <2>3, FileSections
  <2>5. CASE u.vma < t.vma
    <3>1. PICK v \in A : v.vma = End(u) /\ v.vma <= t.vma
      BY <1>1, <1>2, <2>2, <2>5, ChunkNext
    <3>2. s.vma <= v.vma
      BY <3>1, <2>2, <1>1 DEF Shelf
    <3>3. PICK k \in inside : k.vma = v.vma
      BY <3>1, <3>2, <1>4
    <3>4. a \in starts
      BY <3>3, <3>1, <2>1, <2>3, <2>4
    <3> QED BY <3>4
  <2>6. CASE u.vma = t.vma
    BY <2>6, <2>1, <2>3, <2>4, <1>1, <1>2 DEF Shelf
  <2> QED
    BY <2>2, <2>5, <2>6, <1>1 DEF Shelf
<1>10. LoadSection(l, c) = CHOOSE a \in ends \ starts :
                             \A b \in ends \ starts : a <= b
  <2>1. {q \in l.core : q.vma \notin l.bad} = l.core
    OBVIOUS
  <2> QED BY <2>1 DEF LoadSection, InFile
<1>11. ends \ starts = {End(c)}
  <2> HIDE DEF ends, starts
  <2> QED BY <1>5, <1>8, <1>9
<1>12. (CHOOSE a \in {End(c)} : \A b \in {End(c)} : a <= b) = End(c)
  BY <1>7
<1> QED
  <2> HIDE DEF ends, starts, inside
  <2> QED BY <1>7, <1>10, <1>11, <1>12

(* If every section can be read, the dump is not refused.                  *)
LEMMA AllLoaded ==
  ASSUME NEW l \in Layouts, l.bad = {}
  PROVE  ~Failed(l, Coalesce(l))
BY ChunkLoaded DEF Failed

(* The file that an object is not in.                                      *)
OtherFile(file) == IF file = "core" THEN "exec" ELSE "core"

(* A chunk at an address, or that ends there, has a section there.         *)
LEMMA ChunkTouches ==
  ASSUME NEW l \in Layouts, NEW c \in Coalesce(l), NEW p \in Nat,
         c.vma <= p, p <= End(c)
  PROVE  \E r \in InFile(l, c.file) : Touches(r, p)
<1> DEFINE A == AddSections(l)
<1>1. Shelf(A)
  BY SectionsShelf
<1>2. PICK s \in A, t \in A :
        /\ IsChunk(A, s, t)
        /\ c.file = s.file /\ c.file = t.file /\ c.vma = s.vma
        /\ End(c) = End(t) /\ c.vma \in Nat
  BY ChunkMade
<1>3. PICK u \in A : /\ u.file = c.file
                     /\ u.vma <= p /\ p <= End(u)
  <2>1. CASE p < End(c)
    <3>1. PICK u \in A : /\ s.vma <= u.vma /\ u.vma <= t.vma
                         /\ u.vma <= p /\ p < End(u)
      BY <1>1, <1>2, <2>1, ChunkCovers
    <3>2. u.file = s.file
      <4>1. Shelf(A) /\ IsChunk(A, s, t)
        BY <1>1, <1>2
      <4> HIDE DEF A
      <4> QED BY <4>1, <3>1, ChunkFile
    <3> QED BY <1>1, <1>2, <3>1, <3>2 DEF Shelf
  <2>2. CASE p = End(c)
    BY <1>1, <1>2, <2>2 DEF Shelf
  <2> QED
    BY <2>1, <2>2, <1>1, <1>2 DEF Shelf
<1>4. PICK r \in InFile(l, c.file) : r.vma = u.vma /\ End(r) = End(u)
  BY <1>3, KeptSections
<1>5. r.vma < p + ObjectSize /\ p <= End(r)
  <2>1. r.vma \in Nat /\ ObjectSize \in Nat \ {0}
    BY FileSections, ObjectAssumption
  <2> QED BY <1>3, <1>4, <2>1
<1> QED
  BY <1>5 DEF Touches

(* An object that is clear of the other file: the chunks at its address    *)
(* are of its file and have all of it, and there is one.                   *)
LEMMA ObjectChunk ==
  ASSUME NEW l \in Layouts, NEW p \in Nat, NEW file \in {"core", "exec"},
         NEW mine, NEW other,
         mine = IF file = "core" THEN l.core ELSE l.exec,
         other = IF file = "core" THEN l.exec ELSE l.core,
         Holds(mine, p), Clear(mine, other, p)
  PROVE  /\ \A c \in Coalesce(l) : c.vma <= p /\ p <= End(c) =>
              c.file = file /\ p + ObjectSize <= End(c)
         /\ \E c \in Coalesce(l) : c.vma <= p /\ p <= End(c)
<1> DEFINE A == AddSections(l)
           M == InFile(l, file)
           O == InFile(l, OtherFile(file))
<1>1. Shelf(A)
  BY SectionsShelf
<1>2. Memory(mine) = M /\ Memory(other) = O
  BY DEF InFile, OtherFile
<1>3. /\ \A e \in O : ~Touches(e, p)
      /\ \A e \in O, r \in M : Touches(r, p) => e.vma # r.vma
      /\ \A e \in O, r, q \in M :
           Touches(r, p) /\ Touches(q, p) /\ r # q =>
             e.vma \notin r.vma .. End(r)
  <2> HIDE DEF M, O
  <2> QED BY <1>2 DEF Clear
<1>4. \A b \in p .. p + ObjectSize - 1 :
        \E r \in M : b \in r.vma .. End(r) - 1
  <2> HIDE DEF M
  <2> QED BY <1>2 DEF Holds
<1>5. ObjectSize \in Nat /\ ObjectSize > 0
  BY ObjectAssumption
<1>6. /\ \A r \in M : /\ r.vma \in Nat /\ r.size \in Nat /\ End(r) \in Nat
                      /\ r.vma < End(r)
      /\ \A r, q \in M : r = q \/ End(r) <= q.vma \/ End(q) <= r.vma
      /\ \A e \in O : e.vma \in Nat /\ End(e) \in Nat /\ e.vma < End(e)
  BY FileSections
<1>7. ASSUME NEW r \in M, Touches(r, p)
      PROVE  \E u \in A : u.file = file /\ u.vma = r.vma /\ End(u) = End(r)
  <2>1. file = "exec" => \A e \in InFile(l, "core") : e.vma # r.vma
    BY <1>3, <1>7 DEF OtherFile
  <2> QED BY <2>1, SectionKept
<1>8. ASSUME NEW c \in Coalesce(l), c.vma <= p, p <= End(c)
      PROVE  c.file = file
  <2>1. PICK r \in InFile(l, c.file) : Touches(r, p)
    BY <1>8, ChunkTouches
  <2>2. c.file # OtherFile(file)
    BY <2>1, <1>3
  <2>3. c.file \in {"core", "exec"}
    BY ChunkMade, KeptSections
  <2> QED BY <2>2, <2>3 DEF OtherFile
<1>9. ASSUME NEW c \in Coalesce(l), c.vma <= p, p <= End(c)
      PROVE  p + ObjectSize <= End(c)
  <2>1. PICK s \in A, t \in A :
          /\ IsChunk(A, s, t)
          /\ c.file = s.file /\ c.file = t.file /\ c.vma = s.vma
          /\ End(c) = End(t) /\ c.vma \in Nat
    BY ChunkMade
  <2>2. t.file = file /\ t.vma \in Nat /\ End(t) \in Nat /\ t.vma < End(t)
    BY <1>1, <1>8, <1>9, <2>1 DEF Shelf
  <2>3. SUFFICES ASSUME End(t) < p + ObjectSize PROVE FALSE
    BY <2>1, <2>2, <1>5
  <2>4. PICK q \in M : q.vma = t.vma /\ End(q) = End(t)
    BY <2>2, KeptSections
  <2>5. Touches(q, p)
    BY <1>5, <1>9, <2>1, <2>2, <2>3, <2>4 DEF Touches
  <2>6. PICK r \in M : End(t) \in r.vma .. End(r) - 1
    <3>1. End(t) \in p .. p + ObjectSize - 1
      BY <1>5, <1>9, <2>1, <2>2, <2>3
    <3> QED BY <3>1, <1>4
  <2>7. r # q /\ r.vma = End(t)
    BY <1>6, <2>2, <2>4, <2>6
  <2>8. Touches(r, p)
    BY <1>5, <1>6, <1>9, <2>1, <2>2, <2>3, <2>7 DEF Touches
  <2>9. PICK u \in A : u.file = file /\ u.vma = r.vma /\ End(u) = End(r)
    BY <1>7, <2>8
  <2>10. ASSUME NEW v \in A PROVE v.vma <= t.vma \/ u.vma <= v.vma
    <3>1. v.vma \in Nat /\ End(v) \in Nat /\ v.vma < End(v)
      BY <1>1 DEF Shelf
    <3>2. CASE v.file = file
      <4>1. v = t \/ End(v) <= t.vma \/ End(t) <= v.vma
        BY <3>2, <2>2, <1>1 DEF Shelf
      <4> QED BY <4>1, <3>1, <2>2, <2>7, <2>9
    <3>3. CASE v.file = OtherFile(file)
      <4>1. PICK e \in O : e.vma = v.vma
        BY <3>3, KeptSections
      <4>2. e.vma \notin q.vma .. End(q)
        BY <1>3, <2>5, <2>7, <2>8
      <4> QED BY <4>1, <4>2, <3>1, <2>2, <2>4, <2>7, <2>9
    <3> QED
      BY <3>2, <3>3, KeptSections DEF OtherFile
  <2>11. Continues(A, t, u)
    BY <2>2, <2>7, <2>9, <2>10 DEF Continues
  <2> QED
    BY <2>1, <2>9, <2>11 DEF IsChunk
<1>10. \E c \in Coalesce(l) : c.vma <= p /\ p <= End(c)
  <2>1. PICK r \in M : p \in r.vma .. End(r) - 1
    <3>1. p \in p .. p + ObjectSize - 1
      BY <1>5
    <3> QED BY <3>1, <1>4
  <2>2. r.vma <= p /\ p < End(r)
    BY <1>6, <2>1
  <2>3. Touches(r, p)
    BY <1>5, <1>6, <2>2 DEF Touches
  <2>4. PICK u \in A : u.file = file /\ u.vma = r.vma /\ End(u) = End(r)
    BY <1>7, <2>3
  <2>5. PICK s \in A, t \in A :
          IsChunk(A, s, t) /\ s.vma <= u.vma /\ u.vma <= t.vma
    <3> HIDE DEF A
    <3> QED BY <1>1, ChunkOf
  <2>6. End(u) <= End(t)
    BY <1>1, <2>5, ChunkEnd
  <2>7. PICK c \in Coalesce(l) : c.vma = s.vma /\ End(c) = End(t)
    BY <2>5, ChunkIsMade
  <2>8. c.vma <= p /\ p <= End(c)
    BY <1>1, <1>6, <2>2, <2>4, <2>5, <2>6, <2>7 DEF Shelf
  <2> QED BY <2>8
<1> QED
  BY <1>8, <1>9, <1>10

(* Where no section is, there is no chunk.                                 *)
LEMMA NoChunk ==
  ASSUME NEW l \in Layouts, NEW p \in Nat,
         \A r \in Memory(l.core) \cup Memory(l.exec) : ~Touches(r, p)
  PROVE  ~\E c \in Coalesce(l) : c.vma <= p /\ p <= End(c)
<1>1. \A file : \A r \in InFile(l, file) : ~Touches(r, p)
  BY DEF InFile
<1> QED
  BY <1>1, ChunkTouches

(* What remap returns for an object that is clear of the other file.       *)
LEMMA ObjectFetched ==
  ASSUME NEW l \in Layouts, NEW p \in Nat, NEW file \in {"core", "exec"},
         NEW mine, NEW other,
         mine = IF file = "core" THEN l.core ELSE l.exec,
         other = IF file = "core" THEN l.exec ELSE l.core,
         Holds(mine, p), Clear(mine, other, p), l.bad = {},
         NEW n \in {0, ObjectSize}
  PROVE  Fetch(l, Coalesce(l), p, n) = file
<1> DEFINE C == Coalesce(l)
           found == {c \in C : c.vma <= p /\ p + n <= End(c)}
           first == {c \in found : \A d \in found : c.vma <= d.vma}
<1>0. ObjectSize \in Nat /\ n \in Nat /\ n <= ObjectSize
  BY ObjectAssumption
<1>1. /\ \A c \in C : c.vma <= p /\ p <= End(c) =>
              c.file = file /\ p + ObjectSize <= End(c)
      /\ \E c \in C : c.vma <= p /\ p <= End(c)
  BY ObjectChunk
<1>2. \A c \in C : c.vma \in Nat /\ End(c) \in Nat /\ LoadSection(l, c) = End(c)
  BY ChunkMade, ChunkLoaded
<1>3. found # {}
  <2> HIDE DEF C
  <2> QED BY <1>0, <1>1, <1>2
<1>4. first # {}
  <2> DEFINE V == {c.vma : c \in found}
  <2>1. V \in SUBSET Nat /\ V # {}
    <3> HIDE DEF C
    <3> QED BY <1>2, <1>3
  <2>2. PICK x \in V : \A y \in V : x <= y
    <3> HIDE DEF V
    <3> QED BY <2>1, LeastNatural
  <2> QED BY <2>2
<1>5. \A c \in first : /\ c.file = file
                       /\ p + ObjectSize <= LoadSection(l, c)
  <2> HIDE DEF C
  <2> QED BY <1>0, <1>1, <1>2
<1>6. Remap(C, p, n) = first
  BY DEF Remap
<1> QED
  <2> DEFINE c == CHOOSE c \in first : TRUE
  <2>1. c \in first
    <3> HIDE DEF first
    <3> QED BY <1>4
  <2>2. Fetch(l, C, p, n) = c.file
    <3> HIDE DEF first, C
    <3> QED BY <1>4, <1>5, <1>6, <2>1 DEF Fetch
  <2> QED BY <1>5, <2>1, <2>2

(* remap finds nothing at an address where no section is.                  *)
LEMMA NothingFetched ==
  ASSUME NEW l \in Layouts, NEW p \in Nat,
         \A r \in Memory(l.core) \cup Memory(l.exec) : ~Touches(r, p)
  PROVE  Fetch(l, Coalesce(l), p, 0) = "null"
<1>1. \A c \in Coalesce(l) : ~(c.vma <= p /\ p + 0 <= End(c))
  BY NoChunk
<1> QED
  BY <1>1 DEF Fetch, Remap

(* What comes out of a recovery that does not depend on luck: the ring and *)
(* the area, and the string if one of the files has it.                    *)
Sound(o) ==
  IF ~o.printed THEN ~o.sure
  ELSE /\ o.area.sure => o.area.ok
       /\ o.str.sure => o.str.got = IF o.str.had THEN "text" ELSE "null"

(* A ring or an area that is clear of the executable is found.             *)
LEMMA DynamicSound ==
  ASSUME NEW l \in Layouts, NEW p \in Nat, Holds(l.core, p)
  PROVE  LET d == Dynamic(l, Coalesce(l), p)
         IN  d.sure => d.ok /\ ~Failed(l, Coalesce(l))
<1> DEFINE C == Coalesce(l)
<1>1. SUFFICES ASSUME Sure(l, p)
               PROVE  Fetch(l, C, p, ObjectSize) = "core" /\ ~Failed(l, C)
  BY DEF Dynamic
<1>2. l.bad = {} /\ Clear(l.core, l.exec, p)
  BY <1>1 DEF Sure
<1>3. ~Failed(l, C)
  BY <1>2, AllLoaded
<1>4. Fetch(l, C, p, ObjectSize) = "core"
  BY <1>2, ObjectFetched
<1> QED BY <1>3, <1>4

(* A string is found if one file has it and it is clear of the other.      *)
LEMMA ConstantSound ==
  ASSUME NEW l \in Layouts, NEW p \in Nat
  PROVE  LET c == Constant(l, Coalesce(l), p)
         IN  c.sure => c.got = IF c.had THEN "text" ELSE "null"
<1> DEFINE f == Fetch(l, Coalesce(l), p, 0)
<1>1. SUFFICES ASSUME Sure(l, p)
               PROVE  (IF f \in {"core", "exec"} THEN "text" ELSE f)
                        = IF Holds(l.core, p) \/ Holds(l.exec, p) THEN "text"
                          ELSE "null"
  BY DEF Constant
<1>2. CASE Holds(l.core, p)
  <2>1. l.bad = {} /\ Clear(l.core, l.exec, p)
    BY <1>1, <1>2 DEF Sure
  <2>2. f = "core"
    BY <1>2, <2>1, ObjectFetched
  <2> QED BY <1>2, <2>2
<1>3. CASE ~Holds(l.core, p) /\ Holds(l.exec, p)
  <2>1. l.bad = {} /\ Clear(l.exec, l.core, p)
    BY <1>1, <1>3 DEF Sure
  <2>2. f = "exec"
    BY <1>3, <2>1, ObjectFetched
  <2> QED BY <1>3, <2>2
<1>4. CASE ~Holds(l.core, p) /\ ~Holds(l.exec, p)
  <2>1. f = "null"
    BY <1>1, <1>4, NothingFetched DEF Sure
  <2> QED BY <1>4, <2>1
<1> QED
  BY <1>2, <1>3, <1>4

(* This holds of every layout, wherever the objects are.                   *)
LEMMA RecoveriesSound ==
  ASSUME NEW o \in Recoveries
  PROVE  Sound(o)
<1>1. PICK l \in Layouts, p \in Addresses, q \in Addresses, x \in Addresses :
        /\ Holds(l.core, p) /\ Holds(l.core, q)
        /\ o = Recovery([failed |-> Failed(l, Coalesce(l)),
                         ring |-> Ring(l, Coalesce(l), p),
                         area |-> Area(l, Coalesce(l), q),
                         str |-> Constant(l, Coalesce(l), x)])
  BY DEF Recoveries
<1>2. p \in Nat /\ q \in Nat /\ x \in Nat
  BY ObjectAssumption
<1> DEFINE C == Coalesce(l)
           r == Ring(l, C, p)
           a == Area(l, C, q)
           s == Constant(l, C, x)
           w == [failed |-> Failed(l, C), ring |-> r, area |-> a, str |-> s]
<1>3. r.sure => r.ok /\ ~Failed(l, C)
  BY <1>1, <1>2, DynamicSound DEF Ring
<1>4. a.sure => a.ok
  BY <1>1, <1>2, DynamicSound DEF Area
<1>5. s.sure => s.got = IF s.had THEN "text" ELSE "null"
  BY <1>2, ConstantSound
<1>6. /\ w.failed = Failed(l, C) /\ w.ring = r /\ w.area = a /\ w.str = s
      /\ o = Recovery(w)
  BY <1>1
<1>7. CASE w.failed \/ ~w.ring.ok
  <2>1. o.printed = FALSE /\ o.sure = w.ring.sure
    <3> HIDE DEF w
    <3> QED BY <1>6, <1>7 DEF Recovery
  <2> QED
    <3> HIDE DEF w, r, a, s, C
    <3> QED BY <1>3, <1>6, <1>7, <2>1 DEF Sound
<1>8. CASE ~(w.failed \/ ~w.ring.ok)
  <2>1. o.printed = TRUE /\ o.area = w.area /\ o.str = w.str
    <3> HIDE DEF w
    <3> QED BY <1>6, <1>8 DEF Recovery
  <2> QED
    <3> HIDE DEF w, r, a, s, C
    <3> QED BY <1>4, <1>5, <1>6, <2>1 DEF Sound
<1> QED
  BY <1>7, <1>8

-----------------------------------------------------------------------------
(* Recovered records                                                       *)

(* The recovery engine prints the header that was printed live, except for *)
(* the time since the record before.                                       *)
LEMMA RecoveredHeader ==
  ASSUME HeadInv, pc = "raw", NEW area, area.ok
  PROVE  \A f \in fields \ {"timedelta"} :
           Header(NewFmt, time, FixupArea(area), seqnum)[f] = live.header[f]
<1>1. FixupArea(area) = Names(name)
  BY DEF FixupArea, Names
<1>2. PICK h : h = Header(NewFmt, time, Names(name), seqnum)
  OBVIOUS
<1>3. /\ NewFmt.cache.str.sec = NewFmt.cache.sec
      /\ NewFmt.cache.str.hi = NewFmt.cache.hi
  BY DEF NewFmt, Timespec, NsecPerSec, NsecSplit
<1>4. HeaderIs(h, fields, NewFmt, time, name, seqnum)
  BY <1>2, <1>3, HeaderMeaning
<1>5. HeaderIs(live.header, fields, cookedFmt, time, name, seqnum)
  BY DEF HeadInv, HandlerInv
<1>6. \A f \in fields \ {"timedelta"} : h[f] = live.header[f]
  BY <1>4, <1>5 DEF HeaderIs
<1> QED
  BY <1>1, <1>2, <1>6

(* fixup_records changes the pointers to global strings only.              *)
LEMMA FixedRecord ==
  ASSUME PackInv, NEW str
  PROVE  LET r == FixupRecord(rec, str)
         IN  /\ r.type = rec.type /\ r.mem = rec.mem
             /\ \A i \in 1 .. Len(rec.type) :
                  r.argval[i] = FixupArg(rec, i, str)
<1>1. /\ DOMAIN rec.argval = 1 .. Len(rec.type)
      /\ DOMAIN rec = {"type", "argval", "mem"}
  BY DEF PackInv, TypeInv, ShapeInv
<1> QED
  BY <1>1 DEF FixupRecord

(* The other arguments are printed as before.                              *)
LEMMA FixedArg ==
  ASSUME PackInv, NEW str, NEW i \in 1 .. Len(rec.type),
         args[i].type # "GSTR"
  PROVE  LET r == FixupRecord(rec, str)
         IN  /\ FmtArg(r, i) = FmtArg(rec, i)
             /\ PlainArg(r, i) = PlainArg(rec, i)
             /\ RawData(r, i) = RawData(rec, i)
<1>1. PICK r : r = FixupRecord(rec, str)
  OBVIOUS
<1>2. rec.type[i] = args[i].type
  BY DEF PackInv, ShapeInv
<1>3. r.type = rec.type /\ r.mem = rec.mem /\ r.argval[i] = rec.argval[i]
  BY <1>1, <1>2, FixedRecord DEF FixupArg
<1>4. At(r, i) = At(rec, i)
  BY <1>3 DEF At
<1>5. RawData(r, i) = RawData(rec, i) /\ ArgVal(r, i) = ArgVal(rec, i)
  BY <1>3 DEF RawData, ArgVal
<1>6. Xdump(r, i) = Xdump(rec, i)
  BY <1>3, <1>4 DEF Xdump
<1>7. rec.type[i] = "CSTR" => ArgStr(r, i) = ArgStr(rec, i)
  BY <1>3, <1>4 DEF ArgStr
<1> QED
  BY <1>1, <1>2, <1>3, <1>5, <1>6, <1>7 DEF FmtArg, PlainArg

(* A global string is printed if it is found, and as a null pointer if it  *)
(* is in neither file.                                                     *)
LEMMA FixedString ==
  ASSUME PackInv, NEW str, NEW i \in 1 .. Len(rec.type),
         args[i].type = "GSTR", i <= FixedArgs,
         str.got = IF str.had THEN "text" ELSE "null"
  PROVE  LET r == FixupRecord(rec, str)
             s == IF str.had THEN Text(i, args[i].len, FALSE) ELSE NullPointer
         IN  FmtArg(r, i) = s /\ PlainArg(r, i) = s
<1>1. PICK r : r = FixupRecord(rec, str)
  OBVIOUS
<1>2. rec.type[i] = "GSTR" /\ i # 0 /\ ~(i > FixedArgs)
  BY DEF PackInv, ShapeInv, TypeInv, FixedArgs
<1>3. /\ r.type = rec.type
      /\ r.argval[i] = [src |-> IF str.had THEN i ELSE 0, full |-> TRUE]
  BY <1>1, <1>2, FixedRecord DEF FixupArg
<1>4. /\ "full" \in DOMAIN r.argval[i]
      /\ r.argval[i].src = IF str.had THEN i ELSE 0
  BY <1>3
<1>5. ArgStr(r, i) = IF str.had THEN Text(i, args[i].len, FALSE)
                     ELSE NullPointer
  BY <1>2, <1>3, <1>4 DEF ArgStr
<1> QED
  BY <1>1, <1>2, <1>3, <1>5 DEF FmtArg, PlainArg

(* What format_basic has printed of an argument.                           *)
LEMMA LiveLine ==
  ASSUME PackInv, LineInv, pc = "raw", NEW i \in Shown(rec.type)
  PROVE  /\ i \in 1 .. Len(rec.type)
         /\ live.line.what[i] =
              IF Form(rec.type) = "raw" THEN RawData(rec, i)
              ELSE IF Form(rec.type) = "fmt" THEN FmtArg(rec, i)
              ELSE PlainArg(rec, i)
<1>1. rec.type \in Seq(Types)
  BY DEF PackInv, TypeInv
<1>2. i \in 1 .. Len(rec.type)
  BY <1>1, ShownArgs
<1>3. Form(rec.type) = "raw" => args[i].type = "RAW"
  BY <1>1, <1>2, ShownArgs DEF PackInv, ShapeInv
<1>4. PICK t : t = live.line.what[i]
  OBVIOUS
<1>5. live.line.how = Form(rec.type)
  BY DEF LineInv
<1>6. CASE args[i].type = "CSTR"
  <2>1. IF rec.argval[i].len = 0 THEN t = Null
        ELSE HasPiece(rec, rec.argval[i].at, t)
    BY <1>4, <1>6 DEF LineInv
  <2>2. t = PlainArg(rec, i)
    BY <1>2, <1>6, <2>1, LiveArg, PieceRead
  <2> QED
    BY <1>2, <1>3, <1>4, <1>6, <2>2, LiveArg
<1>7. CASE args[i].type = "GSTR"
  <2>1. t = Text(i, args[i].len, FALSE)
    BY <1>4, <1>7 DEF LineInv
  <2> QED
    BY <1>2, <1>3, <1>4, <1>7, <2>1, LiveArg
<1>8. CASE args[i].type \in {"XDUMP", "RAW"}
  <2>1. t = IF live.line.how = "fmt" THEN Unsupported
            ELSE IF args[i].type = "RAW"
            THEN Text(i, rec.argval[i].len, FALSE)
            ELSE IF rec.argval[i].len < FmtSize THEN Garbage
            ELSE DumpOf(i, rec.argval[i].len)
    BY <1>4, <1>8 DEF LineInv
  <2>2. RawData(rec, i) = Text(i, rec.argval[i].len, FALSE)
    BY DEF RawData
  <2>3. CASE args[i].type = "XDUMP"
    BY <1>2, <1>3, <1>4, <1>5, <2>1, <2>3, LiveArg
  <2>4. CASE args[i].type = "RAW"
    BY <1>2, <1>4, <1>5, <2>1, <2>2, <2>4, LiveArg
  <2> QED
    BY <1>8, <2>3, <2>4
<1>9. CASE args[i].type \notin {"CSTR", "GSTR", "XDUMP", "RAW"}
  <2>1. t = Text(i, WordSize, FALSE)
    BY <1>4, <1>9 DEF LineInv
  <2> QED
    BY <1>2, <1>3, <1>4, <1>9, <2>1, LiveArg
<1> QED
  BY <1>2, <1>6, <1>7, <1>8, <1>9

(* The recovery engine prints the line that was printed live.              *)
LEMMA RecoveredLine ==
  ASSUME PackInv, LineInv, pc = "raw", NEW str,
         str.sure => str.got = IF str.had THEN "text" ELSE "null",
         Line(FixupRecord(rec, str)).how # "crash"
  PROVE  LET line == Line(FixupRecord(rec, str))
         IN  /\ line.how = live.line.how
             /\ \A i \in DOMAIN live.line.what :
                  \/ args[i].type = "GSTR" /\ (~str.sure \/ i > FixedArgs)
                  \/ line.what[i] =
                       IF args[i].type = "GSTR" /\ ~str.had THEN NullPointer
                       ELSE live.line.what[i]
<1>1. PICK r : r = FixupRecord(rec, str)
  OBVIOUS
<1>2. r.type = rec.type /\ rec.type \in Seq(Types)
  BY <1>1, FixedRecord DEF PackInv, TypeInv
<1>3. PICK form : form = Form(rec.type)
  OBVIOUS
<1>4. PICK line : line = Line(r)
  OBVIOUS
<1>5. /\ line.how = form
      /\ \A i \in Shown(rec.type) :
           line.what[i] = IF form = "raw" THEN RawData(r, i)
                          ELSE IF form = "fmt" THEN FmtArg(r, i)
                          ELSE PlainArg(r, i)
  BY <1>1, <1>2, <1>3, <1>4, LineFormed
<1>6. live.line.how = form /\ DOMAIN live.line.what = Shown(rec.type)
  BY <1>3 DEF LineInv
<1>7. ASSUME NEW i \in Shown(rec.type),
             ~(args[i].type = "GSTR" /\ (~str.sure \/ i > FixedArgs))
      PROVE  line.what[i] = IF args[i].type = "GSTR" /\ ~str.had
                            THEN NullPointer ELSE live.line.what[i]
  <2>1. /\ i \in 1 .. Len(rec.type)
        /\ live.line.what[i] = IF form = "raw" THEN RawData(rec, i)
                               ELSE IF form = "fmt" THEN FmtArg(rec, i)
                               ELSE PlainArg(rec, i)
    BY <1>3, LiveLine
  <2>2. CASE args[i].type # "GSTR"
    <3>1. /\ FmtArg(r, i) = FmtArg(rec, i)
          /\ PlainArg(r, i) = PlainArg(rec, i)
          /\ RawData(r, i) = RawData(rec, i)
      BY <1>1, <2>1, <2>2, FixedArg
    <3> QED
      BY <1>5, <2>1, <2>2, <3>1
  <2>3. CASE args[i].type = "GSTR"
    <3>1. str.sure /\ i <= FixedArgs
      BY <1>7, <2>1, <2>3 DEF FixedArgs
    <3>2. form # "raw"
      BY <1>2, <1>3, <2>1, <2>3, ShownArgs DEF PackInv, ShapeInv
    <3>3. PICK s : s = IF str.had THEN Text(i, args[i].len, FALSE)
                       ELSE NullPointer
      OBVIOUS
    <3>4. FmtArg(r, i) = s /\ PlainArg(r, i) = s
      BY <1>1, <2>1, <2>3, <3>1, <3>3, FixedString
    <3>5. live.line.what[i] = Text(i, args[i].len, FALSE)
      BY <2>3 DEF LineInv
    <3> QED
      BY <1>5, <2>3, <3>2, <3>3, <3>4, <3>5
  <2> QED
    BY <2>2, <2>3
<1> QED
  BY <1>1, <1>4, <1>5, <1>6, <1>7

(* What was recovered is not changed any more.                             *)
LEMMA RecoveredStep ==
  ASSUME PackInv, CookInv, RecoveredSame, [Next]_vars
  PROVE  RecoveredSame'
<1> USE DEF config, given, fmtVars, texts
<1>1. ASSUME NEW o \in Recoveries, ProcessRecovered(o) PROVE RecoveredSame'
  <2>0. ValidRing' = ValidRing
    BY <1>1 DEF ProcessRecovered, ValidRing
  <2>1. /\ pc = "raw" /\ UNCHANGED <<fields, args, live>>
        /\ recovered' =
             IF ~(o.printed /\ ValidRing) THEN [by |-> o]
             ELSE [by |-> o,
                   header |-> Header(NewFmt, time, FixupArea(o.area), seqnum),
                   line |-> Line(FixupRecord(rec, o.str))]
    BY <1>1 DEF ProcessRecovered
  <2>2. Sound(o)
    BY RecoveriesSound
  <2>3. CASE ~ValidRing
    BY <2>0, <2>3 DEF RecoveredSame
  <2>4. CASE ~o.printed
    BY <2>1, <2>2, <2>4 DEF Sound, RecoveredSame
  <2>5. CASE o.printed /\ ValidRing
    <3>1. /\ recovered'.by = o
          /\ recovered'.header =
               Header(NewFmt, time, FixupArea(o.area), seqnum)
          /\ recovered'.line = Line(FixupRecord(rec, o.str))
      BY <2>1, <2>5
    <3>2. ASSUME o.area.sure
          PROVE  \A f \in fields \ {"timedelta"} :
                   recovered'.header[f] = live.header[f]
      BY <2>1, <2>2, <2>5, <3>1, <3>2, RecoveredHeader DEF Sound, CookInv
    <3>3. ASSUME recovered'.line.how # "crash"
          PROVE  /\ recovered'.line.how = live.line.how
                 /\ \A i \in DOMAIN live.line.what :
                      \/ /\ args[i].type = "GSTR"
                         /\ ~o.str.sure \/ i > FixedArgs
                      \/ recovered'.line.what[i] =
                           IF args[i].type = "GSTR" /\ ~o.str.had
                           THEN NullPointer ELSE live.line.what[i]
      <4>1. o.str.sure => o.str.got = IF o.str.had THEN "text" ELSE "null"
        BY <2>2, <2>5 DEF Sound
      <4>2. PackInv /\ LineInv /\ pc = "raw"
        BY <2>1 DEF CookInv
      <4>3. Line(FixupRecord(rec, o.str)).how # "crash"
        BY <3>1, <3>3
      <4> QED
        BY <3>1, <4>1, <4>2, <4>3, RecoveredLine
    <3> QED
      BY <2>1, <2>5, <3>1, <3>2, <3>3 DEF RecoveredSame
  <2> QED
    BY <2>3, <2>5, <2>4
<1>2. CASE Post \/ SetArg \/ ProcessLive \/ Pack
  BY <1>2 DEF Post, SetArg, ProcessLive, Pack, RecoveredSame
<1>3. CASE Parse \/ ProcessCooked \/ NextRecord
  BY <1>3 DEF Parse, ProcessCooked, NextRecord, RecoveredSame
<1>4. CASE UNCHANGED vars
  BY <1>4 DEF vars, RecoveredSame, ValidRing
<1> QED
  BY <1>1, <1>2, <1>3, <1>4 DEF Next

(* hogl-recover prints records as format_basic would have printed them:    *)
(* wherever ring, area and string are, and however the sections of the two *)
(* files lie, if the objects are clear of the other file. coredump then    *)
(* finds all of each object in one chunk, of the file that has it, and     *)
(* fixup_records and fixup_area leave the rest of the record alone.        *)
THEOREM RecoveredSameHolds == Spec => []RecoveredSame
<1>1. Init => RecoveredSame
  BY DEF Init, RecoveredSame
<1>2. PackInv /\ CookInv /\ RecoveredSame /\ [Next]_vars => RecoveredSame'
  BY RecoveredStep
<1> QED
  BY <1>1, <1>2, PackInvariant, CookInvariant, PTL DEF Spec
=============================================================================
