# Verification of hogl

hogl is a logging library: threads post records into ring buffers, one engine
thread per engine drains the rings, orders the records by timestamp, formats
them and hands them to an output; offline tools cook raw logs and recover records
from core dumps. This directory holds TLA+ models of the library and its tools,
the TLC configurations that check them and proofs that TLAPS checks. Paths below
are relative to the repository.

## 1. Inventory

| Component | State | Operations | Interaction | What makes it correct |
|---|---|---|---|---|
| Ring buffer `include/hogl/detail/ringbuf.hpp`, `src/ringbuf.cc` | slots, `_head`, `_tail`, `_seqnum`, `_dropcnt`, `_mutex`, `_block_active`, `_refcnt` | push_begin/commit, block/unblock, lock/unlock, pop_iterator, hold/release, reset | writers and the engine share it without a lock; only writers of a shared ring exclude each other | the reader sees complete records, in order, once; every record is delivered or counted; a blocked writer is woken up |
| Posting `src/post.cc`, `src/flush.cc`, `src/timesource.cc` | none of its own | post, flush, change_timesource | special records, acknowledged by the engine in the slot itself | an acknowledgement belongs to the record one waits for |
| Records and arguments `detail/record.hpp`, `args.hpp`, `argpack.hpp` | argument types and values, data behind them | set_args, copy_cstr, copy_data, copy_xdump, get_arg_* | written by the poster, read by the format handler, the raw parser and the recovery engine | data stays inside of the slot, every argument is read back as what it was |
| Engine passes `src/engine.cc`, `detail/tsobuf.hpp` | TSO buffer, leftover count, per ring last record and expected number | scan, emergency flush, flush, commit | reads all rings, feeds the output | no overrun, no reordering within a ring, gaps reported once, nothing kept back for ever |
| Ring registry `src/engine.cc` | `_ring_map`, `_ring_index` with its dirty flag, reference counts, `_timesource`, `_killed` | add_ring, find_ring, release, rebuild_ring_index, kill_orphan, switch_timesource, drain_rings | threads under `_ring_mutex`, the engine with trylock only | rings live exactly as long as they are referred to; none is forgotten; shutdown ends |
| Areas and masks `src/area.cc`, `src/mask.cc`, `detail/bitmap.hpp` | `_area_map`, section bitmaps, `_mask` | add_area, apply_mask, enable, disable | words of bitmaps are read, changed and written back without a lock | every area ends up with the last mask |
| Thread local state, default engine `src/tls.cc`, `src/default-engine.cc` | current ring of each thread, tls objects, the default engine | construct, destruct, activate, deactivate | every thread; references to rings | the previous ring is restored, and is still there |
| Output buffer, streams `detail/ostrbuf.hpp`, `src/ostrbuf-*.cc` | `_data`, `_size`, `_failed` | push_back, flush | engine thread; the kernel writes short or fails | a log is cut at its end only |
| File output `src/output-file.cc` | descriptor, size, file index, symlink, rotation flags | writev, rotation helper, switch_name, destructor | engine thread, helper thread, application; the next process through the symlink | no write to a finished file, no file truncated while in use, helper serves and ends |
| Formats `src/format-basic.cc`, `src/format-raw.cc` | fields, last timestamp, timestamp cache | process | engine thread; the raw format is the tools' input | cooked text = live text |
| Cook tool `tools/cook.cc`, `raw-parser.*`, `rdbuf.*` | position, records of this attempt | parse, skip, follow a growing file | reads a file that the engine may be writing | prints the records of a log that is cut, damaged or growing |
| Recovery tool `tools/recover*.cc`, `coredump.*` | sections, recovered rings, areas, records, buffers | load, remap, fixup, dump | reads the memory of a crashed process | what is not in the log is recovered, and printed as it would have been |
| C API `src/c-api.cc` | none of its own | wrappers | | |
| Scheduling parameters, barriers, timestamps | | system calls, instructions | | |
| fmt `include/hogl/fmt/` | third-party | | | |

What is hard here: the ring is shared without locks, so every order of the
accesses of writer and engine counts; a TSO pass reads more records than it
releases; special records are acknowledged in slots that are reused after a
timeout; the registry mixes a mutex, a trylock, a flag set outside of it and
reference counts tested without it; masks and areas are applied after the mutex
was released; the rotation helper shares the descriptor, the index and two
condition variables with the writer, and a failed open, a switch of names or a
crash may come between any two of its steps; writes come short or fail; a tool
reads what was cut off anywhere. PROJECT.json lists these hazards line by line
with the properties that would catch them.

## 2. Modules

* **RingBuf** - one ring, its writers and the engine's iterator. A step is one
  access to state that another thread sees. A writer runs `Lock`, then for an
  ordinary record `Begin` (push_begin and header), `SetArgs`, `CommitCheck`
  (one test of push_commit's loop), `CommitTail`, `Unlock`; for a flush or a
  timesource change `TakeSeq`, `RoomFound` or `RoomTimeout`, `BeginSpecial`,
  `SetArgs`, `CommitCheck`, `CommitTail`, `Acked` or `AckTimeout`, `Unlock`. A
  blocking ring adds `Block`, the engine's `Signal` and `SpuriousWakeup`. The
  engine runs `ItReset`, `FlushRecord` any number of times, then `Commit` and
  `Unblock`, or with TSO `SkipCommit` when it flushed nothing of the ring.
  A record is its sequence number, the number its arguments belong to (different
  while it is half written), its kind and its acknowledgement. Memory is
  sequentially consistent.
* **RingFifo** - the abstract specification of a ring: a bounded queue of
  numbered records, `Put`, `Drop` (only when full), `Take`, `Release`.
* **TsoEngine** - `process_rings_tso` over several rings. A ring is a queue as
  RingFifo has it. The TSO buffer is a set of entries; sort and pop take one with
  the smallest timestamp, equal ones in any order, since std::sort is not stable.
  Timestamps are arbitrary: timesources may stand still or go backwards.
  `tso_buffer_capacity` is chosen at the start. The model takes the drop and the
  overflow marks as enabled.
* **Registry** - threads in add_ring (both forms), find_ring, post,
  change_timesource and release; the engine in process_rings, both with TSO
  (rings are emptied by the commit at the end of the pass, after the test for
  orphans) and without (before the test), kill_orphan, switch_timesource and
  drain_rings. Critical sections of `_ring_mutex` are steps, except
  rebuild_ring_index, while which the dirty flag may be set. A trylock may fail
  at any time. A record is a unit in a count: delivery is RingBuf's and
  TsoEngine's matter. What add_ring reads through its map iterator after the
  mutex was released (`src/engine.cc:675`) is the value it found before.
* **OutputFile** - the application thread (`Create`, `CtorOpen`, `CtorThrow`,
  `CtorHeader`, `CtorLink`, `SwitchLock`, `SwitchName`, `Dtor...`), the engine
  thread in writev (`WriteLock`, `Written`, `WriteFailed`, `RequestRotate`,
  `WriteUnlock`), the helper (`HelperWait`, `HelperWake`, `Rotate...`), and
  `Crash`, after which a new process starts from the files and symlinks that are
  there. A file is how far it has got in the sequence header, data, footer.
  `CtorHeader` puts the header into the output buffer (`buffered`), as
  output::header does, and the first write takes it along; it is taken to fit
  there. `stray` collects the files for which that goes wrong: the header is
  still in the buffer when the file is rotated away, and reaches the next file
  as a second one, or is lost with a first write that fails; and the files whose
  header came short, which neither writev nor do_rotate notices.
* **LogPath** - one ring, the engine without TSO, the output buffer and one or
  two streams (descriptor, stdio, file output; two are a tee). A record is
  pushed in three pieces, so that a buffer may be flushed, and a write may come
  short, inside of a record. `Crash` stops the process anywhere, `Recover` is
  hogl-recover on its core dump. How a stream treats a failure follows the code:
  ostrbuf_fd and stdio stop, ostrbuf_file goes on. ostrbuf_stdio makes two
  fwrites, one for the buffer and one for the new data, and looks for an error
  after both; what fwrite has taken may stay in libc's buffer, since nobody calls
  fflush, so a stream has both what was written (`out`) and how much of that
  has left the process (`filed`). The dump of the output buffer leaves out the
  zero bytes at its end, as ostrbuf_dump::write does: a timestamp and sequence
  number, or arguments, may be cut or gone then.
* **CookLog** - extends LogPath by hogl-cook: it reads the first stream while it
  is written or after a crash, skips a piece when what it finds is no record, gives up
  after `MaxSkip`, and follows a growing file with --tailf. At the start of a
  record it finds the record. Anywhere else anything may happen, since valid_name
  takes any 2 to 128 printable bytes for a name: it prints something that never was a
  record and moves on by any distance (`CookGuess`), sees that the names are none
  (`CookFormatError`), or fails at the end of the file (`CookInputEnd`). The names
  in a log are taken to pass valid_name themselves; RecordFormat has those that
  do not.
* **CoreDump** - operators: sections of a core dump and of the executable,
  their order, merging, loading and lookup, and what comes of looking up a
  ring, an area and a constant string at an address. A chunk is a longest run of
  sections that continue one another, which is what the loop over the sorted
  sections makes. Layouts have no empty section at the address of another one
  (`Proper`): load_section does not get past it.
* **RecordFormat** - one record after another, posted with any list of arguments
  (`Post`, `SetArg`), printed by format_basic (`ProcessLive`), written by
  format_raw (`Pack`), read back (`Parse`) and printed again (`ProcessCooked`),
  or printed from a core dump (`ProcessRecovered`). The slot is sized as the
  constructor of ringbuf does it. A text is known by the argument it shows, the
  number of its bytes and the mark of a cut, so the three paths can be compared
  without characters. Raw data is known by its size: the address that do_raw prints
  with it is that of the copy being printed and never the same on two paths. The
  upper half of a 32 bit value is undefined on every path. A record
  that does not fit the parser's buffer of 10 MB, which has no check, is not
  followed any further, and the recovery engine takes no ring with slots of more
  than 1 MB for one (`ValidRing`).
* **AreaMask**, **Tls** (over **Callers**, the threads) - areas and masks with
  every read and write of a bitmap word a step of its own; apply_mask deletes the
  list of the mask (`DeleteMask`) and makes the new one (`ApplyMask`), and whoever
  reads it in between or is reading it reads freed memory; tls objects, the rings they
  hold, activation and deactivation, with the registration of rings in single
  steps. The engine's test for orphans and the kill are two steps; `reused`
  collects the rings that a thread takes up, for an object or as the ring to
  restore, in between. A program may also hold references itself (`GetRing`,
  `ReleaseRing`: add_ring, find_ring, release). The constructor of tls for an
  existing ring (`NewTlsRing`, `src/tls.cc:78`) takes no reference although the
  destructor drops one: it takes over that of its caller, and `borrowed` counts
  how often the caller had none, as with tls::ring(). Nothing in the repository
  calls this constructor, and its comment does not say which of the two is meant.
* **FrontEnd** - composes AreaMask and Tls: a post tests the section's bit and
  goes to the current ring, and calls of the one part post messages through the
  other.
* **MC...** - the modules that TLC runs.
* **RingBufProofs**, **TsoEngineProofs**, **RegistryProofs**,
  **OutputFileProofs**, **CookLogProofs** (LogPath and CookLog),
  **FrontEndProofs** (Tls and FrontEnd), **AreaMaskProofs** (AreaMask and
  FrontEnd), **RecordFormatProofs** - the proofs.

RingFifo joins RingBuf and TsoEngine: RingBuf implements it, and TsoEngine is
built on it and shows that it uses each ring as RingFifo allows (`RefinesFifo`
in both).

Definitions whose name ends in `Bug` are wrong on purpose. Each property of a
passing run is paired in PROJECT.json with one of them that TLC refutes.

## 3. Runs

| Run | Instance | Shows |
|---|---|---|
| ring_shared | 4 slots, 2 writers, 5 numbers, shared, non-blocking, TSO | all the safety properties of the ring, and that it implements RingFifo |
| ring_live | 2 slots, 2 writers, 4 numbers, shared, blocking, no TSO | blocked writers are woken, flushes return |
| ring_block_tso | 2 slots, 1 writer, 3 numbers, blocking, TSO | *violation*: a lost wakeup |
| tso_order | 2 rings of 2 records, buffers of 3 and of 8, 2 timestamps, 4 numbers | safety of the passes, each ring used as a queue, what is kept back is flushed later |
| registry | 2 threads, 2 names (one shared, one reusable), 2 ring objects, 3 calls, 1 record | references, index, shutdown, with and without TSO |
| registry_kill | 2 threads, 1 reusable name, 3 calls | *violation*: a ring with records is killed |
| registry_ts | 2 threads, 2 timesources, 2 calls | *violation*: a new ring keeps the old timesource |
| output_file | 2 names with 2 files each, 2 units of size | no write to a finished file, files have one header at their start unless it was buffered too long or cut, the file in use is kept by rotation and by a restart, requests to rotate are served, the destructor returns |
| output_dtor | 1 name with 2 files | *violation*: the destructor may wait for ever |
| record_format | lists of up to 16 arguments, slots of 256 bytes, 128K and 16M, 3 timestamps, default and fast1 fields, layouts of up to 2 core sections and 1 executable section of up to 5 units, objects at 7 addresses | no overrun of a slot, arguments keep their bytes, live = cooked = recovered |
| log_path | 4 slots, 3 records, a buffer of 4 pieces, 1 fault; outputs: descriptor, stdio, file, tee of descriptor and file | what a log holds after faults and crashes, what recovery and cooking make of it, flushed records get written |
| front_end | 2 threads, 1 area, 2 lists of sections, 2 masks, a shared and a reusable ring, 2 nested objects or references per thread, 5 calls | masks in force, rings in service, references owned, no record lost |

Bounds. `MaxSeq` bounds the sequence numbers, `MaxAdds` the calls of add_ring
and find_ring, `MaxRecs` the records that wait in a ring, `MaxRec` the records of
LogPath, `MaxFaults` its bad writes, `MaxDepth` and `MaxCalls` the nesting and
the calls of FrontEnd, `MaxShift` the size of a slot. Five numbers on four slots fill the ring (three
records fit), drop, wrap and go on after a partial commit. A buffer of three runs
full and is halved with rounding; one of eight keeps one entry back (capacity /
8). Two ring objects let one be deleted and allocated again while the other is
registered. Two files let the index wrap round to the file in use. Three records
of three pieces overflow a buffer of four inside of a record; `Start` puts the
unread records across the end of the slots. Strings of 197 and 70000 bytes fill a
slot up to its last bytes and exceed a 16 bit length; raw data of 11,000,000 bytes
in a slot of 16M overruns the parser's buffer, and the slot what recovery accepts; names of 128 and 129 bytes
are on both sides of what the parser accepts; the timestamps differ in the
seconds only, in the cached part, or in neither. Three calls create an
engine, a ring and an area, two more race on them; a borrowed ring takes three (the
engine, an object, a second one for tls::ring()). With six calls the run
has ten million states and passes as well. A tee with a stdio stream is covered by the
proofs only. The two threads of front_end
are symmetric, its properties are invariants.

Fairness. A thread inside the library goes on (WF on its non-waiting steps) and
the engine loops (WF). Nothing makes a thread post; timeouts and spurious
wakeups never have to happen. `SF_vars(FlushRecord)` in RingBuf stands for the
leftover rule of flush_tso, which tso_order checks in the detailed model
(AllFlushed). In Registry the engine's trylocks succeed eventually when tried
again and again (SF): the critical sections of the threads are short. In
OutputFile the threads that can run do run (WF), and whoever waits for a mutex
that is free again and again obtains it (SF): the engine sleeps between its
passes and the application does not spend its life in switch_name. In CookLog
the engine and the tool run on (WF), crashes need not happen.

Deadlock is checked except in Registry, where the engine really stops, in
log_path, where the process crashes and the tools end, and in front_end, where
the bound on calls ends a behaviour.

Exceptions that properties make, each for something the code does:

* MaskInForce: `raced` - add_area reads, without the mutex, a mask whose list
  apply_mask deletes or has deleted and not made again, or the write of a bit undoes a change to another bit of the
  same word that the thread is not going to write again (`Undone`). The latter
  happens not only to switches: add_area and apply_mask may write the same mask to
  an area at once, and a word read while the mask had turned a section off brings
  this back after the other thread has turned it on. It takes a mask with three
  elements; the attempt to prove MaskInForce led to it, and the second mask of
  front_end has three since.
* RingInService, NoRecordLost: `unordered` - tls objects destroyed in another
  order than the reverse; `reused` - a ring taken up while the engine is about to
  kill it, which registry_kill shows in detail.
* RingInService, NoRecordLost, RefsOwned: `borrowed` - a tls object was given a ring by a
  caller without a reference. Such a ring has one reference too few for ever, and
  may be deleted, or its release abort, while it is in use.
* FilesReadable: `stray` - a header that was buffered when its file was rotated
  away, or came short, see OutputFile above; and a file that was
  truncated while in use, which is InUseKept's matter.
* InUseKept: the index has been all the way round, or the symlink does not name
  the file (its update failed, or the process crashed before it).
* RotateServed, DtorReturnsOnceStarted: `early` - signals before the helper's
  first wait, see output_dtor.
* NoHole: ostrbuf_fd once writev has come short, and ostrbuf_file after any
  fault; ostrbuf_stdio when the first of its two fwrites fails and the second
  does not, after which it stops: all but its last piece is a prefix even then.
* CookedLog: after faults only the records before the first gap are promised.
  With --tailf, before it has printed a true record, it may print things that are none:
  it starts inside of a record, and valid_name takes any 2 to 128 printable bytes for
  a name. TailfFollows begins with the first true record too.
* RecoveryComplete: faults; what libc has in its buffer; a record that is the last in
  the output buffer and ends in zero bytes; records with the same timestamp, of
  which the recovery engine keeps one; with --all it leaves out the first and the
  last slot.
* CookedSame, RecoveredSame: records that do not fit the parser's buffer; slots of
  more than 1 MB in recovery.
* OwnBytes, CookedSame, RecoveredSame: a dump whose format found no room; strings
  beyond 64K and empty global strings in a raw log; global strings from the ninth
  argument on, and null strings in a line with a format, in a recovered record;
  sections of the other file that overlap or touch what is looked up, take the
  place of a section that it is in, or keep two such sections apart (`Sure`).

### What the violations show

* `ring_block_tso`: push_commit sees a full ring; before it calls block(), the
  engine commits and finds `_block_active` false. The writer then waits. Without
  TSO the next pass calls unblock() in any case. With TSO a ring of which nothing
  was flushed is skipped (`src/engine.cc:476`), and nothing more will be flushed
  because its writer waits.
* `registry_kill`: "Only empty rings are killed." (`src/engine.cc:464`) is tested
  before the mutex is taken. A thread that reuses the ring in between goes on
  logging into a ring that no engine knows. It also means that a count of two
  need not include the engine any more (`src/engine.cc:683`).
* `registry_ts`: add_ring reads `_timesource` before it takes the mutex.
* `output_dtor`: the helper looks at `_killed` only after its first
  pthread_cond_wait has returned (`src/output-file.cc:424`). A destructor that
  runs before that signals nobody, and its pthread_join does not return.

TsoRoom is claimed for buffers of two entries or more. With
`tso_buffer_capacity` 1 half of the buffer is nothing, and the push after an
emergency flush goes past the end.

## 4. Proofs

The theorems hold for every value of the constants: any number of threads, rings,
names, files, streams and arguments, any capacity, and any bound that keeps TLC's
instances finite. They rest on the ASSUMEs of the modules (kinds of numbers,
null values that are no proper values, finite sets of threads and names, a slot of
at most 2^30 bytes, at most 16 arguments, layouts whose sections of a file do not
overlap), which every run evaluates, and two of
them on a hypothesis of their own, named below. Every invariant of the runs is
a theorem, and so are the action properties and both
refinements. Every inductive invariant was checked with TLC on
the instance of its run before it was proved.

### RingBuf (RingBufProofs)

`TypeCorrect`, `Invariance` (`Spec => []IInv`), from which follow
`WindowCompleteHolds`, `DeliveredInOrderHolds`, `AccountingHolds`,
`AckMeansFlushedHolds`, `SpecialHasRoomHolds`, the action property
`WindowStableHolds`, and `RefinesFifoHolds`. None of these properties is
inductive. IInv adds to them

* MutexInv: a writer inside the library of a shared ring holds the mutex, so at
  most one writer is active (lemma `OneWriter`);
* ReaderInv: the iterator is between `_head` and its snapshot of `_tail`, which
  is not beyond `_tail`;
* TailInv: the record being pushed is in the tail slot, with the number of its
  writer and, if it is special, without an acknowledgement, so that filling it
  in touches no published record;
* RoomInv: room that was found does not go away, since only the writer that
  found it moves the tail;
* AckInv: the special record a writer waits for is the last published one, and
  it is acknowledged only when nothing is unread;
* OrderInv: numbers increase from the output over the unread slots to the
  writer's record, all below `_seqnum`.

Indices are compared modulo the capacity. The lemmas `IncValue`, `FwdValue` and
`BetweenValue` replace remainders by case distinctions once, and `Counts`,
`Regions`, `PublishRegions`, `EngineRegions` and `FlushRegions` say how the
published and the unread slots change with a step. The steps fall into five
classes with a lemma each: steps that touch neither slots nor indices
(`QuietWriterStep`), filling the tail slot (`FillStep`), publishing
(`PublishStep`), the engine's index moves (`EngineStep`), flushing (`FlushStep`).

The refinement maps the unread slots to the queue and the flushed but unreleased
ones to `held`. CommitTail is a Put (`CommitPuts`), a failed CommitCheck a Drop of
a full queue (`CheckDrops`), FlushRecord a Take (`FlushTakes`), Commit a Release
(`EngineReleases`); filling the tail slot is invisible (`FillHidden`).

### TsoEngine (TsoEngineProofs)

`TypeCorrect`, `GapsReportedHolds`, `SortedUnlessMarkedHolds`, `TsoRoomHolds` and
`RefinesFifoHolds`. The entries of a ring in the TSO buffer are the records that
follow its last flushed one, without a gap, with strictly increasing timestamps
(EntryInv), so the smallest entry of all is always the next record of its ring:
sorting by timestamp never reorders a ring. ScanInv says how far the scan of the
rings has got, SeqInv that numbers increase and that those not flushed are not
below the expected one, OrderInv that without a mark nothing leaves the buffer
before flush_tso. TsoRoom needs the hypothesis `1 \notin TsoCaps`: with a
capacity of one it is false, since flush_full_tso makes room for one half. Its
invariant RoomInv counts the entries, and with a capacity of two or more half
of the buffer is at least one. The refinement is proved for each ring by itself.

### Registry (RegistryProofs)

`TypeCorrect`, `RefsCountedHolds`, `IndexedOrDirtyHolds`, `StoppedEmptyHolds`.
IInv says what a thread refers to at each point of add_ring, that a ring not yet
inserted is known to nobody else (ThreadInv), that rings are registered under
their own name (NameInv), that the engine works on registered rings
(EngineInv, TakenInv) and that nobody registers a ring once the engine is told to
stop (StopInv). The references of a ring are counted as the cardinalities of
three finite sets; a lemma per kind of step says which of them gains or loses
an element.

### OutputFile (OutputFileProofs)

`TypeCorrect`, `FilesReadableHolds`, and the action property `InUseKeptHolds`.
The first two need to know who holds which mutex (WriterInv, MutexInv), that the
helper is idle in the constructor and gone in the destructor (PhaseInv), and the
states of the file in use, the one being opened and the old one, each as it must
be or in `stray`, and that a file is without a header only while that is in the
output buffer (InServiceInv, NextFileInv, OldFileInv). InUseKept needs a second layer: the index is at most as
many steps ahead of the file in use as it was advanced since that file was
opened, and at least one when a file is about to be opened (AheadInv), and what a
crashed process left behind (KeptInv). Its hypothesis is `MaxCount > 1`: with one
file rotation has nothing else to open.

### LogPath and CookLog (CookLogProofs)

`NoHoleHolds`: for a stream that is still clean, what it has and what is pending
for it (the buffer, and during a flush the data, unless do_flush has served the
stream already) are exactly what was pushed (ExactInv); when do_flush gives up the
stream keeps a prefix (PrefixInv), and a stdio stream at least a prefix but for its
last piece, also when only the second fwrite succeeds (AlmostInv). `FwriteFacts`,
`WritevFacts`, `WrittenFacts` and `FlushedFacts` say what one write, do_flush
and a tee make of a stream.

`RecoveryCompleteHolds`: a record that was posted and neither dropped nor
acknowledged is in an unread slot or complete in what was pushed (HeldInv); what
the iterator has passed is complete, but for the record it is at (PassInv), whose
pieces are the last ones pushed (PieceInv). What has left the process is a prefix
of what was written, and all of it but for stdio (FiledInv). A crash then leaves
every record in the log, across its end and the recovered buffer (`StreamAndBuffer`,
and `CutRecord` for the one that ends in zeros), or in a slot that the recovery
engine visits.

`CookedLogHolds`: what was pushed is one record of three pieces after another with
growing numbers (SentInv), because the records ahead of the iterator have larger
numbers than all that was pushed (OrderInv), and no stream gets more than was
pushed, whatever fails (LengthInv). As long as the log agrees with what was pushed
the parser is at the next record and neither stops nor starts again (PlainInv).
PrintedInv is about --tailf without faults: once a true record was printed the parser is
at the start of a record, so there is no more to guess, and what it has printed
lies before its position, to which it never returns. Before that it may be
anywhere, and whatever it prints is not counted; after a format error it starts
again at the end of the file, further on.

### Tls and FrontEnd (FrontEndProofs)

`RefsOwnedHolds`: the counts are the cardinalities of the set of owners (thread,
object, field) and of the set of threads that hold a reference themselves, less
`borrowed`; the second constructor moves an element from the latter to the former,
or adds one to the former and to `borrowed`. MapInv says which rings the engine knows and that a ring it is
about to kill has no owner unless it is in `reused`. `NoRecordLostHolds` and
`RingInServiceHolds` need a second layer: for a thread that destroys its objects
in reverse order each valid object holds what was current before it, the ring of
the last valid object in front of it or the default ring (ChainInv), and a ring that
is about to be killed is empty (LostInv).

The attempt to prove RefsOwned found that the model had not put a ring into
`reused` when a thread that had destroyed its objects out of order took it up as
the ring to restore; TLC finds this with seven calls. Tls now does.

### RecordFormat (RecordFormatProofs)

* `ArgsInsideHolds`, `OwnBytesHolds`: the pieces lie in the order of the
  arguments and `offset` is behind the last (SpaceInv); every reference leads to
  one piece, which has the bytes of its argument and the mark if it was cut
  (PackedInv).
* `TscacheFreshHolds`: the parts that the cache has as text are those of the last
  time it saw (CacheInv), and the handler of the tools goes through the states of
  the live one (HandlerInv).
* `CookedSameHolds`: what format_basic has printed (LineInv), what format_raw has
  written (StreamInv) and what raw_parser has read (ParsedInv), each argument by
  its type. Pieces that raw_parser lays out one after another have addresses of
  their own (`ReadAtOrder`, `ReadPiece`), a string cut to what 16 bits can
  say is cut the same way on both paths (`KeptSame`), and turning global strings into
  strings leaves the form of the line (`SameForm`).
* `RecoveredSameHolds`, for any number of sections of any size. A section is in some
  chunk (`ChunkOf`), a chunk is of one file and without holes (`ChunkFile`,
  `ChunkCovers`), and if its sections can be read it is loaded to its end
  (`ChunkLoaded`). An object that is clear of the other file is in a chunk of its
  own file, and a chunk that it begins in goes on to its end, because nothing
  keeps the sections apart that it is in (`ObjectChunk`); hence remap finds it even with
  length 0 (`ObjectFetched`), and what the recovery engine gets is what there was
  (`RecoveriesSound`). The rest is that fixup_records and fixup_area leave alone
  what they do not adapt (`FixedArg`, `RecoveredHeader`). The attempt to prove it
  showed that an earlier `Sure` asked too little: an object in a section of the
  executable is not found if a shorter section of the core is at the same address, or
  if the section is at address 0, although nothing overlaps the object.

### Areas and masks (AreaMaskProofs)

`MaskInForceHolds`, for any number of threads and areas, any lists of sections and
masks of any length. MaskInv adds to the types that

* the bits that a thread is going to write are of sections that there are, and
  those of a switch are marked as switched; only the owner of the mutex applies a
  mask to all areas; a thread whose list was deleted is a marked race (JobInv);
* between the deletion and the new list nobody but a marked race has bits of the
  old one left to write (DeleteInv);
* a thread that applies a mask ends with what the mask in force says of a section,
  if it has bits for it at all (BitsInv);
* a section is as the mask says, or some thread is going to see to it: one that
  has added the area and not started with the mask, or one that has bits for the
  section (SetInv).

SetInv is why no area is missed although add_area reads the mask outside of the
mutex: either apply_mask finds the area in the map, or the area is inserted after
the mask was replaced and gets the new one. Its lemmas are about lists of bits:
the last list that has a bit for a section counts when lists are joined
(`FlattenedLists`), hence a mask ends with its last matching element
(`MaskBitsFacts`), and apply_mask with that in every area (`AllBitsFacts`, where
the areas come in any order).

### Induction

The library's induction theorems take an operator as parameter and cannot be used.
Where a proof needs induction (the layout of pieces, the innermost valid object,
prefixes, joined lists) it uses a lemma over sets: a set of naturals that is not empty has a
least element (`LeastNatural`, from the theorems on well-founded relations), hence a set
that holds 0 and the successor of each element holds all (`SetInduction`).

### Only model-checked

* Liveness and whatever depends on fairness, which the prover does not reach:
  PushCompletes, FlushReturns, AllFlushed, ShutdownCompletes, RotateServed,
  DtorReturnsOnceStarted, AckedWritten, TailfFollows.

## 5. Not modelled

* Weak memory: the models take the barriers of `barrier-x86.hpp` at their word.
* `ringbuf::reset`, which needs a ring without reader; pop_begin and pop_commit,
  which the engine does not use; priorities of rings, which only order a pass.
* Opening and closing outputs other than file outputs; the process of a pipe.
* Scheduling parameters and platform code: system calls. The mask of processors
  is shifted as an int (`src/schedparam.cc:189`), which is listed as a hazard.
* Wrappers of the C API that only allocate; stream operators, help texts.
* The search for magic numbers in a core dump, and the plausibility checks of
  rings and areas, which real objects pass but for the limit of 1 MB on the size of
  slots, which is modelled.
* What becomes of a process after it has written to freed memory or behind the end of a
  buffer: a use of a deleted list reads old or new elements or ends, a record that
  does not fit the parser's buffer ends the behaviour of the parser.
* Layout of text, and what a format string selects from the arguments: that is
  the vendored fmt library.

The mapped lines are about 18 % of what counts as implementation. The rest is
mainly the vendored fmt library (10.8 of 24.5 thousand lines), licence headers, documentation
comments, declarations, constructors that only allocate, and the code listed
above. Of the code of hogl itself that changes state, the map leaves out what this section
names.

## 6. Plan

Every safety property of the passing runs is proved. What is left to extend:

1. The search for rings and areas in a dump, with the plausibility checks that
   a false match of a magic number has to pass.
2. Pipes and sockets: opening, the death of the process behind a pipe, closing.
3. Safety halves of the liveness properties, which the prover can reach: a writer
   that waits is one that the next commit of the engine wakes.
