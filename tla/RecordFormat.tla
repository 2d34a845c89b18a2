---------------------------- MODULE RecordFormat ----------------------------
(***************************************************************************)
(* A record from the arguments of a post to the text of a log line, along  *)
(* the three ways there are:                                               *)
(*   - live: format_basic works on the record in the ring;                 *)
(*   - cooked: format_raw writes the record to a file, and the tools read  *)
(*     it back with raw_parser and give it to format_basic;                *)
(*   - recovered: the recovery engine finds the record in a core dump,     *)
(*     adapts its pointers and gives it to format_basic.                   *)
(*                                                                         *)
(* Characters are not modelled. A text is known by the argument it comes   *)
(* from, by how many of its bytes are left, and by the truncation mark.    *)
(***************************************************************************)
EXTENDS CoreDump

CONSTANTS
  ArgLists,   \* the arguments of posts: sequences of [type, len]
  Timestamps, \* timestamps of records, in nanoseconds
  NameLens,   \* lengths of the names of rings, areas and sections
  Tailrooms,  \* options::record_tailroom of the rings
  FieldLists  \* the names of fields that format handlers are made from

NARGS == 16
WordSize == 8             \* sizeof(argval[0])
ArgvalSize == NARGS * WordSize
HeaderSize == 32          \* record::header_size()
MaxShift == 30            \* bound: of _rec_shift
FmtSize == 4              \* sizeof(arg_xdump::format)
U8Max == 255
U16Max == 65535
NsecPerSec == 1000000000
NsecSplit == 10000
InvalidLen == 7           \* of "INVALID"
RecordBuf == 10485760     \* max_record_size of raw_parser
MaxRecordSize == 1048576  \* of a ring that ring_validator accepts

Data == {"CSTR", "XDUMP", "RAW"}
Types == Data \cup {"GSTR", "UINT32", "INT32", "UINT64", "INT64", "POINTER",
                    "DOUBLE"}
Fields == {"timespec", "timestamp", "timedelta", "ring", "seqnum", "area",
           "section"}

(* Names that stand for all the fields of a header; those fields replace   *)
(* what was named before.                                                  *)
Default == Fields \ {"timespec", "timedelta"}
Presets == [default |-> Default,
            fast0 |-> (Default \ {"timestamp"}) \cup {"timespec"},
            fast1 |-> Fields \ {"timestamp"}]

(* format_basic::format_basic: a name that is not known is ignored, no     *)
(* list at all means the default.                                          *)
FieldsOf(list) ==
  IF list = <<>> THEN Default
  ELSE FoldLeft(LAMBDA fs, s : IF s \in DOMAIN Presets THEN Presets[s]
                               ELSE fs \cup ({s} \cap Fields), {}, list)

ASSUME ArgAssumption ==
  \A list \in ArgLists :
    list \in Seq([type: Types, len: Nat]) /\ Len(list) <= NARGS
ASSUME NumberAssumption == Timestamps \cup NameLens \subseteq Nat
ASSUME TailroomAssumption ==
  \A tail \in Tailrooms : tail \in Nat /\ HeaderSize + tail <= 2 ^ MaxShift
ASSUME FieldsAssumption == FieldLists \subseteq Seq(STRING)

VARIABLES
  wanted,     \* options::record_tailroom of the ring
  fields,     \* _fields of both format handlers
  pc,         \* the next step
  args,       \* the arguments of the record being posted
  time, name, \* its timestamp and the length of its names
  seqnum,     \* its sequence number, modulo 2
  rec,        \* the record: argval, and the data in its tail
  offset,     \* `offset' of set_args
  stream,     \* what format_raw has written
  parsed,     \* the record that raw_parser has read
  live, cooked, recovered,  \* the three texts
  liveFmt, cookedFmt    \* the state of the two format handlers

config == <<wanted, fields>>
given == <<args, time, name, seqnum>>
fmtVars == <<liveFmt, cookedFmt>>
texts == <<live, cooked, recovered>>
vars == <<config, pc, given, rec, offset, stream, parsed, texts, fmtVars>>

Smaller(a, b) == IF a < b THEN a ELSE b

-----------------------------------------------------------------------------
(* The size of a slot: ringbuf::ringbuf rounds up to a power of two.       *)

RoundupLog2(v) == CHOOSE i \in 0 .. MaxShift :
                    2 ^ i >= v /\ (i = 0 \/ 2 ^ (i - 1) < v)

RecordSize(tail) ==
  2 ^ RoundupLog2(HeaderSize + IF tail > ArgvalSize THEN tail ELSE ArgvalSize)

RecTailroom(tail) == RecordSize(tail) - HeaderSize

-----------------------------------------------------------------------------
(* Records. argval holds values and references to data in the tail; mem is *)
(* that data: where a piece is, the bytes it takes up, and its content.    *)

Is32bit(type) == type \in {"UINT32", "INT32"}

IsSimple(type) == type \notin Data

(* Content of a piece of memory: n bytes of argument src, then perhaps the *)
(* mark ">>>".                                                             *)
Content(src, n, mark) == [src |-> src, n |-> n, mark |-> mark]

EmptyRec == [type |-> <<>>, argval |-> <<>>, mem |-> {}]

Reference(at, len) == [at |-> at, len |-> len]

(* What copy_cstr, copy_data and copy_xdump return: a reference, the bytes *)
(* used, and what they leave in memory.                                    *)
Copied(at, len, used, content) ==
  [ref |-> Reference(at, len), used |-> used,
   mem |-> [at |-> at, used |-> used, content |-> content]]

NotCopied == Copied(0, 0, 0, Content(0, 0, FALSE))

CopyCstr(i, len, room) ==
  IF len = 0 \/ room = 0 THEN NotCopied
  ELSE LET n == Smaller(len, room - 1)    \* room for the terminator
           mark == len > n /\ n > 3
       IN  Copied(offset, n, n + 1,
                  Content(i, IF mark THEN n - 3 ELSE n, mark))

CopyData(i, len, room) ==
  LET n == Smaller(len, room)
  IN  Copied(offset, n, n, Content(i, n, FALSE))

(* The format of the dump comes before the data. len is that of the data.  *)
CopyXdump(i, len, room) ==
  LET n == Smaller(FmtSize + len, room)
  IN  IF n < FmtSize THEN NotCopied
      ELSE Copied(offset, n, n, Content(i, n - FmtSize, FALSE))

Copy(i, a) ==
  LET room == RecTailroom(wanted) - offset
  IN  CASE a.type = "CSTR"  -> CopyCstr(i, a.len, room)
        [] a.type = "RAW"   -> CopyData(i, a.len, room)
        [] a.type = "XDUMP" -> CopyXdump(i, a.len, room)

(* A value. set_arg_val32 leaves the upper half of the word as it was.     *)
Value(i, type) == [src |-> i, full |-> ~Is32bit(type)]

-----------------------------------------------------------------------------
(* Posting: push, set_args and set_arg                                     *)

(* set_args: data goes behind the values.                                  *)
FirstOffset_SimpleOnlyBug(list) ==
  Cardinality({i \in DOMAIN list : IsSimple(list[i].type)}) * WordSize

FirstOffset(list) == Len(list) * WordSize

Post ==
  /\ pc = "idle"
  /\ args' \in ArgLists /\ time' \in Timestamps /\ name' \in NameLens
  /\ rec' = EmptyRec
  /\ offset' = FirstOffset(args')
  /\ pc' = IF args' = <<>> THEN "live" ELSE "pack"
  /\ UNCHANGED <<config, seqnum, stream, parsed, texts, fmtVars>>

SetArg ==
  LET i == Len(rec.type) + 1
      a == args[i]
      copy == Copy(i, a)
  IN  /\ pc = "pack"
      /\ IF IsSimple(a.type)
         THEN /\ rec' = [rec EXCEPT !.type = Append(@, a.type),
                                    !.argval = Append(@, Value(i, a.type))]
              /\ UNCHANGED offset
         ELSE /\ rec' = [rec EXCEPT !.type = Append(@, a.type),
                                    !.argval = Append(@, copy.ref),
                                    !.mem = IF copy.used = 0 THEN @
                                            ELSE @ \cup {copy.mem}]
              /\ offset' = offset + copy.used
      /\ pc' = IF i = Len(args) THEN "live" ELSE "pack"
      /\ UNCHANGED <<config, given, stream, parsed, texts, fmtVars>>

-----------------------------------------------------------------------------
(* format_basic                                                            *)

(* A piece of text: n bytes of argument src, or a value, or a fixed text.  *)
Text(src, n, mark) == [src |-> src, n |-> n, mark |-> mark]
Null == Text(0, 4, FALSE)          \* "null"
NullPointer == Text(0, 6, FALSE)   \* "(null)"
Unsupported == Text(0, 1, FALSE)   \* "... not supported with format strings"
Garbage == Text(0, 0, TRUE)        \* bytes that nobody has put there

(* get_arg_data: the content that a reference leads to.                    *)
At(r, i) ==
  LET found == {m \in r.mem : m.at = r.argval[i].at}
  IN  IF found = {} THEN Garbage
      ELSE (CHOOSE m \in found : TRUE).content

(* get_arg_str: a string that takes no room in the record is "null"; the   *)
(* value of a global string is its address.                                *)
ArgStr(r, i) ==
  CASE r.type[i] = "CSTR" -> IF r.argval[i].len = 0 THEN Null ELSE At(r, i)
    [] r.type[i] = "GSTR" ->
         IF "full" \notin DOMAIN r.argval[i] THEN Garbage
         ELSE IF r.argval[i].src = 0 THEN NullPointer
         ELSE Text(r.argval[i].src, args[r.argval[i].src].len, FALSE)

(* Values are read with the width of their type.                           *)
ArgVal_WideBug(r, i) ==
  IF r.argval[i].full THEN Text(r.argval[i].src, WordSize, FALSE) ELSE Garbage

ArgVal(r, i) ==
  IF Is32bit(r.type[i]) \/ r.argval[i].full
  THEN Text(r.argval[i].src, WordSize, FALSE) ELSE Garbage

(* do_xdump. A dump of which not even the format is in the record makes it *)
(* read whatever is there, and as many bytes as an unsigned underflow has. *)
Xdump(r, i) == IF r.argval[i].len < FmtSize THEN Garbage ELSE At(r, i)

(* do_raw prints the size, and the address of the data. That is one of the *)
(* ring, of the parser or of the recovery engine, never the same, and left *)
(* out.                                                                    *)
RawData(r, i) == Text(i, r.argval[i].len, FALSE)

PlainArg(r, i) ==
  CASE r.type[i] \in {"CSTR", "GSTR"} -> ArgStr(r, i)
    [] r.type[i] = "XDUMP" -> Xdump(r, i)
    [] r.type[i] = "RAW" -> RawData(r, i)
    [] OTHER -> ArgVal(r, i)

FmtArg(r, i) ==
  CASE r.type[i] \in {"CSTR", "GSTR"} -> ArgStr(r, i)
    [] r.type[i] \in {"XDUMP", "RAW"} -> Unsupported
    [] OTHER -> ArgVal(r, i)

OutputPlain(r) ==
  [how |-> "plain", what |-> [i \in DOMAIN r.type |-> PlainArg(r, i)]]

(* The library makes strings of the arguments that are strings, which must *)
(* not be null.                                                            *)
OutputFmt(r) ==
  LET what == [i \in DOMAIN r.type |-> FmtArg(r, i)]
  IN  [how |-> IF \E i \in DOMAIN what : what[i] = NullPointer THEN "crash"
               ELSE "fmt",
       what |-> what]

OutputRaw(r) == [how |-> "raw", what |-> <<RawData(r, 1)>>]

(* A string followed by something that can be formatted is a format.       *)
Line(r) ==
  IF Len(r.type) >= 1 /\ r.type[1] = "RAW" THEN OutputRaw(r)
  ELSE IF /\ Len(r.type) >= 2
          /\ r.type[1] \in {"CSTR", "GSTR"}
          /\ r.type[2] \notin {"XDUMP", "RAW"}
       THEN OutputFmt(r)
       ELSE OutputPlain(r)

(* timestamp::to_timespec and the three parts that tscache prints.         *)
Timespec(t) ==
  [sec |-> t \div NsecPerSec,
   hi |-> (t % NsecPerSec) \div NsecSplit,
   lo |-> (t % NsecPerSec) % NsecSplit]

(* tscache::update: parts are converted only when they have changed.       *)
TscacheUpdate_StaleBug(c, t) ==
  LET ts == Timespec(t)
  IN  IF c.sec = ts.sec THEN [c EXCEPT !.str.lo = ts.lo]
      ELSE [sec |-> ts.sec, hi |-> ts.hi, str |-> ts]

TscacheUpdate(c, t) ==
  LET ts == Timespec(t)
  IN  [sec |-> ts.sec,
       hi |-> ts.hi,
       str |-> [sec |-> IF c.sec = ts.sec THEN c.str.sec ELSE ts.sec,
                hi |-> IF c.hi = ts.hi THEN c.str.hi ELSE ts.hi,
                lo |-> ts.lo]]

NewFmt == [last |-> 0,
           cache |-> [sec |-> 0, hi |-> 0, str |-> Timespec(0)]]

(* What the headers do to the handler: default_header leaves it alone, the *)
(* others work on the cache and the last timestamp as far as their fields  *)
(* ask for it.                                                             *)
AfterHeader(f, t) ==
  [last |-> IF "timedelta" \in fields THEN t ELSE f.last,
   cache |-> IF "timespec" \in fields THEN TscacheUpdate(f.cache, t)
             ELSE f.cache]

(* The difference wraps around at 2^64, which keeps it apart from all the  *)
(* others: the signed difference stands for it.                            *)
Delta(f, t) == IF f.last = 0 THEN 0 ELSE t - f.last

(* default_header, fast0_header, fast1_header, flexi_header: the fields    *)
(* that were asked for.                                                    *)
Header(f, t, names, seq) ==
  [field \in fields |->
     CASE field = "timespec" -> AfterHeader(f, t).cache.str
       [] field = "timestamp" -> Timespec(t)
       [] field = "timedelta" -> Delta(f, t)
       [] field = "seqnum" -> seq
       [] OTHER -> names[field]]

Names(n) == [field \in {"ring", "area", "section"} |-> n]

ProcessLive ==
  /\ pc = "live"
  /\ live' = [header |-> Header(liveFmt, time, Names(name), seqnum),
              line |-> Line(rec)]
  /\ liveFmt' = AfterHeader(liveFmt, time)
  /\ pc' = "raw"
  /\ UNCHANGED <<config, given, rec, offset, stream, parsed, cooked,
                 recovered, cookedFmt>>

-----------------------------------------------------------------------------
(* format_raw. The stream is the sequence of the fields as they are        *)
(* written: a number, or a length of so many bits and a blob.              *)

Uint(bits, v) == [bits |-> bits, v |-> v, len |-> 0]

Blob(bits, max, len, v) == [bits |-> bits, v |-> v, len |-> Smaller(len, max)]

(* add_args: one argument.                                                 *)
AddArg(i) ==
  CASE rec.type[i] \in {"XDUMP", "RAW"} ->
         Blob(32, rec.argval[i].len, rec.argval[i].len, At(rec, i))
    [] rec.type[i] = "CSTR" ->
         Blob(16, U16Max, rec.argval[i].len, At(rec, i))
    [] rec.type[i] = "GSTR" ->
         LET s == ArgStr(rec, i) IN Blob(16, U16Max, s.n, s)
    [] Is32bit(rec.type[i]) -> Uint(32, ArgVal(rec, i))
    [] OTHER -> Uint(64, ArgVal(rec, i))

Pack ==
  /\ pc = "raw"
  /\ stream' = [time |-> Uint(64, time), seqnum |-> Uint(64, seqnum),
                name |-> Blob(8, U8Max, name, name),
                type |-> Uint(64, rec.type),
                arg |-> [i \in DOMAIN rec.type |-> AddArg(i)]]
  /\ pc' = "parse"
  /\ UNCHANGED <<config, given, rec, offset, parsed, texts, fmtVars>>

-----------------------------------------------------------------------------
(* raw_parser                                                              *)

(* valid_name; names are printable.                                        *)
ValidName(n) == n \in 2 .. 128

(* read_args: global strings become strings of the record.                 *)
ParsedType_AsIsBug(type) == type

ParsedType(type) == IF type = "GSTR" THEN "CSTR" ELSE type

(* read_uint, read_blob and read_str read with the width that was written. *)
ReadBits(type) ==
  CASE type \in {"CSTR", "GSTR"} -> 16
    [] type \in {"XDUMP", "RAW"} -> 32
    [] Is32bit(type) -> 32
    [] OTHER -> 64

(* A blob takes up its length, a string one byte more.                     *)
ReadSize(i) ==
  LET f == stream.arg[i]
  IN  CASE stream.type.v[i] \in {"CSTR", "GSTR"} -> f.len + 1
        [] stream.type.v[i] \in {"XDUMP", "RAW"} -> f.len
        [] OTHER -> 0

(* The data goes behind the 16 argument values, one piece after another.   *)
ReadAt[i \in 1 .. NARGS + 1] ==
  IF i = 1 THEN ArgvalSize ELSE ReadAt[i - 1] + ReadSize(i - 1)

(* Reading a text of which the writer has kept the first len bytes.        *)
Kept(v, len) ==
  IF v.n + (IF v.mark THEN 3 ELSE 0) <= len THEN v
  ELSE Text(v.src, Smaller(v.n, len), FALSE)

ReadArgval(i) ==
  LET f == stream.arg[i]
  IN  IF f.bits # ReadBits(stream.type.v[i]) THEN [src |-> 0, full |-> FALSE]
      ELSE IF ReadSize(i) = 0 /\ IsSimple(stream.type.v[i])
           THEN [src |-> f.v.src, full |-> f.v # Garbage]
           ELSE Reference(ReadAt[i], f.len)

ReadArgs ==
  [type |-> [i \in DOMAIN stream.type.v |-> ParsedType(stream.type.v[i])],
   argval |-> [i \in DOMAIN stream.type.v |-> ReadArgval(i)],
   mem |-> {[at |-> ReadAt[i], used |-> ReadSize(i),
             content |-> IF stream.type.v[i] = "XDUMP" THEN stream.arg[i].v
                         ELSE Kept(stream.arg[i].v, stream.arg[i].len)] :
              i \in {k \in DOMAIN stream.type.v : ReadSize(k) > 0}}]

(* read_args does not look at the size of its buffer.                      *)
Fits == HeaderSize + ReadAt[Len(stream.arg) + 1] <= RecordBuf

(* raw_parser::next: a record, or a failed validation. What happens after  *)
(* the buffer was overrun is not known, and not followed either.           *)
Parse ==
  /\ pc = "parse"
  /\ IF ValidName(stream.name.len) /\ Fits
     THEN parsed' = ReadArgs /\ pc' = "cook"
     ELSE parsed' = EmptyRec /\ pc' = "rejected"
  /\ UNCHANGED <<config, given, rec, offset, stream, texts, fmtVars>>

ProcessCooked ==
  /\ pc = "cook"
  /\ cooked' = [header |-> Header(cookedFmt, stream.time.v,
                                 Names(stream.name.len), stream.seqnum.v),
                line |-> Line(parsed)]
  /\ cookedFmt' = AfterHeader(cookedFmt, stream.time.v)
  /\ pc' = "done"
  /\ UNCHANGED <<config, given, rec, offset, stream, parsed, live, recovered,
                 liveFmt>>

-----------------------------------------------------------------------------
(* The recovery engine                                                     *)

(* ring_validator takes a ring with larger slots for something else.       *)
ValidRing == RecordSize(wanted) <= MaxRecordSize

(* fixup_records stops after so many arguments.                            *)
FixedArgs == 8

DeadAddress == Reference(0, 0)

FixupArg(r, i, str) ==
  IF r.type[i] # "GSTR" THEN r.argval[i]
  ELSE IF i > FixedArgs \/ str.got = "wild" THEN DeadAddress
  ELSE [src |-> IF str.got = "text" THEN i ELSE 0, full |-> TRUE]

FixupRecord(r, str) ==
  [r EXCEPT !.argval = [i \in DOMAIN r.argval |-> FixupArg(r, i, str)]]

(* fixup_area: the format handler prints INVALID for a busted area.        *)
FixupArea(area) ==
  [Names(name) EXCEPT !["area"] = IF area.ok THEN @ ELSE InvalidLen,
                      !["section"] = IF area.ok THEN @ ELSE InvalidLen]

(* hogl-recover prints the record. Its format handler is a new one; to     *)
(* bound the model the record is the first of its log.                     *)
FirstOfLog == liveFmt = AfterHeader(NewFmt, time) /\ seqnum = 0

ProcessRecovered(o) ==
  /\ pc = "raw" /\ FirstOfLog
  /\ recovered' =
       IF ~(o.printed /\ ValidRing) THEN [by |-> o]
       ELSE [by |-> o,
             header |-> Header(NewFmt, time, FixupArea(o.area), seqnum),
             line |-> Line(FixupRecord(rec, o.str))]
  /\ pc' = "recovered"
  /\ UNCHANGED <<config, given, rec, offset, stream, parsed, live, cooked,
                 fmtVars>>

(* The next record; after one that was rejected or recovered, another log. *)
NextRecord ==
  /\ pc \in {"done", "rejected", "recovered"}
  /\ pc' = "idle"
  /\ args' = <<>> /\ rec' = EmptyRec /\ parsed' = EmptyRec
  /\ stream' = <<>> /\ live' = <<>> /\ cooked' = <<>> /\ recovered' = <<>>
  /\ time' = 0 /\ name' = 0 /\ offset' = 0
  /\ seqnum' = 1 - seqnum
  /\ liveFmt' = IF pc # "done" THEN NewFmt ELSE liveFmt
  /\ cookedFmt' = IF pc # "done" THEN NewFmt ELSE cookedFmt
  /\ UNCHANGED config

-----------------------------------------------------------------------------
Init ==
  /\ wanted \in Tailrooms
  /\ fields \in {FieldsOf(l) : l \in FieldLists}
  /\ pc = "idle"
  /\ args = <<>> /\ rec = EmptyRec /\ parsed = EmptyRec
  /\ stream = <<>> /\ live = <<>> /\ cooked = <<>> /\ recovered = <<>>
  /\ time = 0 /\ name = 0 /\ seqnum = 0 /\ offset = 0
  /\ liveFmt = NewFmt /\ cookedFmt = NewFmt

Next ==
  \/ Post
  \/ SetArg
  \/ ProcessLive
  \/ Pack
  \/ Parse
  \/ ProcessCooked
  \/ \E o \in Recoveries : ProcessRecovered(o)
  \/ NextRecord

Spec == Init /\ [][Next]_vars

-----------------------------------------------------------------------------
(* Properties                                                              *)

(* The pieces that copy_cstr, copy_data and copy_xdump leave in a record   *)
(* are inside of its slot, behind the argument values, and no two of them  *)
(* overlap, terminators included; nor does the next free offset move past  *)
(* the end.                                                                *)
ArgsInside ==
  /\ HeaderSize + offset <= RecordSize(wanted)
  /\ \A m \in rec.mem :
       /\ Len(args) * WordSize <= m.at
       /\ HeaderSize + m.at + m.used <= RecordSize(wanted)
  /\ \A m, k \in rec.mem :
       m = k \/ m.at + m.used <= k.at \/ k.at + k.used <= m.at

(* Every argument is printed from its own bytes, whatever else is in the   *)
(* record, and a string that had to be cut says so, if four bytes of it    *)
(* are left. The exception is a dump whose format found no room.           *)
OwnBytes ==
  pc = "raw" => \A i \in DOMAIN args :
    LET t == PlainArg(rec, i)
    IN  \/ t = Null
        \/ args[i].type = "XDUMP" /\ rec.argval[i].len < FmtSize
        \/ /\ t.src = i
           /\ args[i].type = "CSTR" /\ t.n < args[i].len => t.mark \/ t.n <= 3

(* tscache prints the time of the record although it converts only what    *)
(* has changed since the record before.                                    *)
TscacheFresh ==
  pc = "raw" /\ "timespec" \in fields
    => live.header["timespec"] = Timespec(time)

(* What the tools make of a raw log is what format_basic would have        *)
(* written: the same header and the same arguments in the same form, with  *)
(* strings limited to what a 16 bit length can say, and empty global       *)
(* strings printed as null. Of raw data the sizes are compared. The        *)
(* exception is a record that overruns the buffer of the parser.           *)
AsCooked(i, t) ==
  IF args[i].type = "GSTR" /\ args[i].len = 0 THEN Null
  ELSE IF args[i].type \in {"CSTR", "GSTR"} THEN Kept(t, U16Max)
  ELSE t

CookedSame ==
  pc = "done" =>
    /\ cooked.header = live.header
    /\ cooked.line.how = live.line.how
    /\ \A i \in DOMAIN live.line.what :
         cooked.line.what[i] = AsCooked(i, live.line.what[i])

(* A record is found in a core dump and is printed as it would have been   *)
(* live, with "(null)" in place of global strings that are in neither file *)
(* and the time since the record before left out, if that does not depend  *)
(* on how sections of the core and of the executable happen to lie (Sure). *)
(* The exceptions are a string that is not there in a line with a format,  *)
(* which stops the tool, global strings from the ninth argument on, which  *)
(* are not adapted, and rings with slots of more than a megabyte.          *)
RecoveredSame ==
  pc = "recovered" /\ ValidRing =>
    IF ~recovered.by.printed THEN ~recovered.by.sure
    ELSE recovered.line.how # "crash" =>
      /\ \A f \in fields \ {"timedelta"} :
           recovered.by.area.sure => recovered.header[f] = live.header[f]
      /\ recovered.line.how = live.line.how
      /\ \A i \in DOMAIN live.line.what :
           LET str == recovered.by.str
               gstr == args[i].type = "GSTR"
           IN  \/ gstr /\ (~str.sure \/ i > FixedArgs)
               \/ recovered.line.what[i] = IF gstr /\ ~str.had THEN NullPointer
                                           ELSE live.line.what[i]
=============================================================================
