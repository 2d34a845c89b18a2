----------------------------- MODULE OutputFile -----------------------------
(***************************************************************************)
(* output_file: a log that is split into numbered files. The engine thread *)
(* writes, a helper thread opens the next file when the current one is too *)
(* large, and the application creates the output, switches its name and    *)
(* destroys it. The process may crash; files and symlinks survive, and the *)
(* next process takes up the numbering from the symlink.                   *)
(*                                                                         *)
(* A step is one access to state that another thread or a crash can see.   *)
(* What a file holds is reduced to how far it has got in the only sequence *)
(* that a reader can make sense of: header, data, footer. The header that  *)
(* the constructor makes stays in the output buffer until the first write; *)
(* it fits in there, as it does with any capacity but a tiny one.          *)
(***************************************************************************)
EXTENDS Integers

CONSTANTS
  Names,     \* file name patterns given to the constructor and switch_name
  MaxCount,  \* _max_count
  MaxSize,   \* _max_size, in units of the smallest write
  NoFile     \* a descriptor that is not open

ASSUME NamesAssumption == Names # {}
ASSUME CountAssumption == MaxCount \in Nat \ {0}
ASSUME SizeAssumption == MaxSize \in Nat \ {0}

(* `prefix.#.suffix' with the index in place of #.                         *)
File == [name: Names, index: 0 .. MaxCount - 1]
ASSUME NoFileAssumption == NoFile \notin File

VARIABLES
  disk,      \* the files: see FileState
  link,      \* the index that the symlink of a pattern points to; MaxCount
             \* for no link, another target and an index out of range
  app,       \* the thread that owns the output
  name, index,               \* _name_pref and the like, _name_index
  fd, size,                  \* _fd, _size
  buffered,                  \* the constructor's header is in the ostrbuf
  writer, wfd, writeMutex,   \* the writer, the descriptor in its writev
  helper, ofd,               \* the helper, the old descriptor in do_rotate
  rotateMutex, pending, killed,
  stray,     \* history: files that a header missed, or reached too late
  early,     \* history: a signal came before the helper's first wait
  moved,     \* history: index steps since the file in fd was opened
  kept       \* history: the file in use, and named by its link, when the
             \* last process ended

files == <<disk, link>>
current == <<name, index, fd, size>>
headerVars == <<buffered, stray>>
writerVars == <<writer, wfd, writeMutex>>
helperVars == <<helper, ofd>>
rotateVars == <<rotateMutex, pending, killed>>
history == <<early, moved, kept>>
vars == <<files, app, current, headerVars, writerVars, helperVars, rotateVars,
          history>>

-----------------------------------------------------------------------------
(* Files. A file is not in use (absent, complete, or left behind by a      *)
(* crash or a failed header; whoever opens it truncates it), is truncated, *)
(* has its header (and data), or was truncated while it was being written. *)
(* It is odd if its header is missing, torn or repeated. What is written   *)
(* to a file that is not in use makes it bad: it comes after a footer.     *)
FileState == {"unused", "empty", "open", "lost", "odd", "bad"}

InUse == {"empty", "open", "odd"}

Truncated(f) == [disk EXCEPT ![f] = IF f = fd THEN "lost" ELSE "empty"]

(* What becomes of a file in state s.                                      *)
Appended(s, to) ==
  IF s = "lost" THEN "lost" ELSE IF s \in InUse THEN to ELSE "bad"

WithHeader(s) == Appended(s, IF s = "empty" THEN "open" ELSE "odd")
WithTorn(s) == Appended(s, "odd")
WithData(s) == Appended(s, IF s = "open" THEN "open" ELSE "odd")

(* The footer is written, or could not be, and the file is closed.         *)
Finished(s) == IF s \in InUse \cup {"lost"} THEN "unused" ELSE "bad"

(* The output buffer goes out before whatever is new.                      *)
WithBuffer(s) == IF buffered THEN WithHeader(s) ELSE s

(* The buffered header does not go to file f after all, which lacks it or  *)
(* has one of its own.                                                     *)
Missed(f) ==
  CASE buffered /\ disk[f] = "empty" -> stray \cup {f}
    [] buffered /\ disk[f] = "open" -> stray \ {f}
    [] OTHER -> stray

(* Sizes beyond MaxSize are all alike.                                     *)
Capped(n) == IF n > MaxSize THEN MaxSize ELSE n

-----------------------------------------------------------------------------
(* Names                                                                   *)

(* read_link: the index after the one the symlink points to; 0 when there  *)
(* is no symlink or it cannot be understood.                               *)
ReadLink_SameBug(n) == IF link[n] = MaxCount THEN 0 ELSE link[n]

ReadLink(n) == IF link[n] = MaxCount THEN 0 ELSE (link[n] + 1) % MaxCount

(* do_rotate: the next index.                                              *)
NextIndex_NoWrapBug == index + 1

NextIndex == IF index + 1 >= MaxCount THEN 0 ELSE index + 1

(* update_name                                                             *)
Current == [name |-> name, index |-> index]

(* update_link: a new symlink is renamed on top of the old one; when it    *)
(* cannot be created the old one stays.                                    *)
UpdateLink ==
  \/ link' = [link EXCEPT ![name] = index]
  \/ UNCHANGED link

IndexMoved == moved' = IF moved < MaxCount THEN moved + 1 ELSE moved

-----------------------------------------------------------------------------
(* pthread_cond_signal reaches the helper only while it waits.             *)
Signal ==
  /\ helper' = IF helper = "waiting" THEN "woken" ELSE helper
  /\ early' = (early \/ helper = "entry")

-----------------------------------------------------------------------------
(* The application                                                         *)

(* Constructor: the helper is started first, then init_name ...            *)
Create(n) ==
  /\ app = "none"
  /\ app' = "named"
  /\ helper' = "entry"
  /\ name' = n
  /\ index' = ReadLink(n)
  /\ UNCHANGED <<files, fd, size, headerVars, writerVars, ofd, rotateVars,
                 history>>

(* ... open ...                                                            *)
CtorOpen ==
  /\ app = "named"
  /\ app' = "opened"
  /\ fd' = Current
  /\ disk' = Truncated(Current)
  /\ stray' = stray \ {Current}
  /\ kept' = NoFile
  /\ UNCHANGED <<link, name, index, size, buffered, writerVars, helperVars,
                 rotateVars, early, moved>>

(* ... which may fail; the constructor throws with the helper running ...  *)
CtorThrow ==
  /\ app = "named"
  /\ app' = "thrown"
  /\ UNCHANGED <<files, current, headerVars, writerVars, helperVars,
                 rotateVars, history>>

(* ... output::header, which does not flush the output buffer ...          *)
CtorHeader ==
  /\ app = "opened"
  /\ app' = "headed"
  /\ buffered' = TRUE
  /\ UNCHANGED <<files, current, stray, writerVars, helperVars, rotateVars,
                 history>>

(* ... and the symlink.                                                    *)
CtorLink ==
  /\ app = "headed"
  /\ app' = "running"
  /\ UpdateLink
  /\ UNCHANGED <<disk, current, headerVars, writerVars, helperVars, rotateVars,
                 history>>

SwitchLock ==
  /\ app = "running"
  /\ app' = "switch"
  /\ rotateMutex = "free"
  /\ rotateMutex' = "app"
  /\ UNCHANGED <<files, current, headerVars, writerVars, helperVars, pending,
                 killed, history>>

(* switch_name with the mutex held. The index is the one after the symlink *)
(* of the new name; do_rotate advances it once more.                       *)
SwitchName(n) ==
  /\ app = "switch"
  /\ app' = "running"
  /\ name' = n
  /\ index' = ReadLink(n)
  /\ IndexMoved
  /\ pending' = TRUE
  /\ Signal
  /\ rotateMutex' = "free"
  /\ UNCHANGED <<files, fd, size, headerVars, writerVars, ofd, killed, kept>>

(* Destructor. The engine is gone by now, nobody writes.                   *)
DtorKill ==
  /\ app = "running" /\ writer = "idle"
  /\ app' = "kill"
  /\ killed' = TRUE
  /\ UNCHANGED <<files, current, headerVars, writerVars, helperVars,
                 rotateMutex, pending, history>>

DtorSignal ==
  /\ app = "kill"
  /\ app' = "join"
  /\ rotateMutex = "free"
  /\ Signal
  /\ UNCHANGED <<files, current, headerVars, writerVars, ofd, rotateVars,
                 moved, kept>>

DtorJoin ==
  /\ app = "join"
  /\ app' = "joined"
  /\ helper = "done"
  /\ UNCHANGED <<files, current, headerVars, writerVars, helperVars,
                 rotateVars, history>>

(* What is left of a process when it is over.                              *)
LinkNamesFd == fd # NoFile /\ link[fd.name] = fd.index

Gone ==
  /\ app' = "none"
  /\ index' = 0 /\ size' = 0
  /\ fd' = NoFile /\ wfd' = NoFile /\ ofd' = NoFile
  /\ writer' = "idle" /\ helper' = "none"
  /\ writeMutex' = "free" /\ rotateMutex' = "free"
  /\ pending' = FALSE /\ killed' = FALSE
  /\ buffered' = FALSE
  /\ early' = FALSE
  /\ moved' = 0
  /\ UNCHANGED <<name, link>>

(* output::footer, which flushes the output buffer or fails to, and close. *)
DtorClose ==
  /\ app = "joined"
  /\ disk' = [disk EXCEPT ![fd] = Finished(WithBuffer(@))]
  /\ stray' = stray \ {fd}
  /\ kept' = IF LinkNamesFd THEN fd ELSE NoFile
  /\ Gone

-----------------------------------------------------------------------------
(* The writer: ostrbuf_file::do_flush and output_file::writev              *)

WriteLock ==
  /\ app \in {"running", "switch"}
  /\ writer = "idle"
  /\ writer' = "write"
  /\ writeMutex = "free"
  /\ writeMutex' = "writer"
  /\ wfd' = fd
  /\ UNCHANGED <<files, app, current, headerVars, helperVars, rotateVars,
                 history>>

(* ::writev returns how much it has written, 1 or 2 units. That may be     *)
(* less than it was given, and less than the header; the output buffer is  *)
(* reset in any case ...                                                   *)
Written(n) ==
  /\ writer = "write"
  /\ writer' = "written"
  /\ \/ /\ disk' = [disk EXCEPT ![wfd] = WithData(WithBuffer(@))]
        /\ UNCHANGED stray
     \/ /\ buffered
        /\ disk' = [disk EXCEPT ![wfd] = WithTorn(@)]
        /\ stray' = stray \cup {wfd}
  /\ buffered' = FALSE
  /\ size' = Capped(size + n)
  /\ UNCHANGED <<link, app, name, index, fd, wfd, writeMutex, helperVars,
                 rotateVars, history>>

(* ... or an error.                                                        *)
WriteFailed ==
  /\ writer = "write"
  /\ writer' = "unlock"
  /\ buffered' = FALSE
  /\ stray' = Missed(wfd)
  /\ UNCHANGED <<files, app, current, wfd, writeMutex, helperVars, rotateVars,
                 history>>

(* Ask for rotation when the file is too large, unless that is under way   *)
(* or the mutex is taken: then the next write asks.                        *)
TooLarge == size >= MaxSize /\ ~pending

RequestRotate ==
  /\ writer = "written"
  /\ writer' = "unlock"
  /\ IF TooLarge /\ rotateMutex = "free"
     THEN pending' = TRUE /\ Signal
     ELSE UNCHANGED <<pending, helper, early>>
  /\ UNCHANGED <<files, app, current, headerVars, wfd, writeMutex, ofd,
                 rotateMutex, killed, moved, kept>>

WriteUnlock ==
  /\ writer = "unlock"
  /\ writer' = "idle"
  /\ writeMutex' = "free"
  /\ wfd' = NoFile
  /\ UNCHANGED <<files, app, current, headerVars, helperVars, rotateVars,
                 history>>

-----------------------------------------------------------------------------
(* The helper thread: thread_entry, thread_loop, do_rotate                 *)

(* The mutex is taken, and given up again by pthread_cond_wait.            *)
HelperWait ==
  /\ helper = "entry"
  /\ helper' = "waiting"
  /\ rotateMutex = "free"
  /\ UNCHANGED <<files, app, current, headerVars, writerVars, ofd, rotateVars,
                 history>>

SpuriousWakeup ==
  /\ helper = "waiting"
  /\ helper' = "woken"
  /\ UNCHANGED <<files, app, current, headerVars, writerVars, ofd, rotateVars,
                 history>>

(* pthread_cond_wait returns with the mutex; _killed and _rotate_pending   *)
(* are tested.                                                             *)
WakeTo_PendingFirstBug ==
  IF pending THEN "name" ELSE IF killed THEN "done" ELSE "waiting"

WakeTo == IF killed THEN "done" ELSE IF pending THEN "name" ELSE "waiting"

HelperWake ==
  /\ helper = "woken"
  /\ rotateMutex = "free"
  /\ helper' = WakeTo
  /\ rotateMutex' = IF helper' = "name" THEN "helper" ELSE "free"
  /\ UNCHANGED <<files, app, current, headerVars, writerVars, ofd, pending,
                 killed, history>>

(* do_rotate: remember the old descriptor, choose the next name ...        *)
RotateName ==
  /\ helper = "name"
  /\ helper' = "open"
  /\ ofd' = fd
  /\ index' = NextIndex
  /\ IndexMoved
  /\ UNCHANGED <<files, app, name, fd, size, headerVars, writerVars,
                 rotateVars, early, kept>>

(* ... open it ...                                                         *)
RotateOpen ==
  /\ helper = "open"
  /\ helper' = "header"
  /\ disk' = Truncated(Current)
  /\ stray' = stray \ {Current}
  /\ UNCHANGED <<link, app, current, buffered, writerVars, ofd, rotateVars,
                 early, moved, kept>>

(* (The end of do_rotate: the request is over and the helper waits again.) *)
RotateEnd_PendingBug ==
  /\ helper' = "waiting"
  /\ ofd' = NoFile
  /\ rotateMutex' = "free"
  /\ pending' = (ofd = fd)
  /\ UNCHANGED <<app, current, writerVars, killed, history>>

RotateEnd ==
  /\ helper' = "waiting"
  /\ ofd' = NoFile
  /\ rotateMutex' = "free"
  /\ pending' = FALSE
  /\ UNCHANGED <<app, current, writerVars, killed, history>>

(* ... or fail to, and leave it to the writer to ask again ...             *)
RotateOpenFailed ==
  /\ helper = "open"
  /\ RotateEnd
  /\ UNCHANGED <<files, headerVars>>

(* ... write the header straight to the new file, where nobody notices     *)
(* when it comes short, or fail to ...                                     *)
RotateHeader ==
  /\ helper = "header"
  /\ helper' = "swap"
  /\ \/ /\ disk' = [disk EXCEPT ![Current] = WithHeader(@)]
        /\ UNCHANGED stray
     \/ /\ disk' = [disk EXCEPT ![Current] = WithTorn(@)]
        /\ stray' = stray \cup {Current}
  /\ UNCHANGED <<link, app, current, buffered, writerVars, ofd, rotateVars,
                 history>>

RotateHeaderFailed ==
  /\ helper = "header"
  /\ disk' = [disk EXCEPT ![Current] = IF Current = fd THEN @ ELSE Finished(@)]
  /\ RotateEnd
  /\ UNCHANGED <<link, headerVars>>

(* ... swap the descriptors when no write is under way. A header that is   *)
(* still in the output buffer is too late for the old file, and one too    *)
(* many for the new one ...                                                *)
CanSwap_NoMutexBug == TRUE

CanSwap == writeMutex = "free"

RotateSwap ==
  /\ helper = "swap"
  /\ helper' = "link"
  /\ CanSwap
  /\ fd' = Current
  /\ size' = 0
  /\ stray' = IF buffered THEN Missed(ofd) \cup {Current} ELSE stray
  /\ moved' = 0
  /\ UNCHANGED <<files, app, name, index, buffered, writerVars, ofd,
                 rotateVars, early, kept>>

RotateLink ==
  /\ helper = "link"
  /\ helper' = "footer"
  /\ UpdateLink
  /\ UNCHANGED <<disk, app, current, headerVars, writerVars, ofd, rotateVars,
                 history>>

(* ... and finish the old file: footer, also if that fails, fsync, close.  *)
RotateFooter ==
  /\ helper = "footer"
  /\ disk' = [disk EXCEPT ![ofd] = IF ofd = fd THEN @ ELSE Finished(@)]
  /\ stray' = stray \ {ofd}
  /\ RotateEnd
  /\ UNCHANGED <<link, buffered>>

-----------------------------------------------------------------------------
(* The process dies, at any point.                                         *)
Crash ==
  /\ app # "none"
  /\ kept' = IF app \in {"running", "switch"} /\ LinkNamesFd THEN fd
             ELSE NoFile
  /\ disk' = [f \in File |-> IF disk[f] = "bad" THEN "bad" ELSE "unused"]
  /\ stray' = {}
  /\ Gone

-----------------------------------------------------------------------------
Init ==
  /\ disk = [f \in File |-> "unused"]
  /\ link = [n \in Names |-> MaxCount]
  /\ app = "none"
  /\ name = CHOOSE n \in Names : TRUE
  /\ index = 0 /\ size = 0
  /\ fd = NoFile /\ wfd = NoFile /\ ofd = NoFile
  /\ writer = "idle" /\ helper = "none"
  /\ writeMutex = "free" /\ rotateMutex = "free"
  /\ buffered = FALSE /\ stray = {}
  /\ pending = FALSE /\ killed = FALSE /\ early = FALSE
  /\ moved = 0
  /\ kept = NoFile

Construct == CtorOpen \/ CtorHeader \/ CtorLink

Destruct == DtorSignal \/ DtorJoin \/ DtorClose

Write ==
  \/ \E n \in 1 .. 2 : Written(n)
  \/ WriteFailed
  \/ RequestRotate
  \/ WriteUnlock

Rotate ==
  \/ RotateName
  \/ RotateOpen
  \/ RotateOpenFailed
  \/ RotateHeader
  \/ RotateHeaderFailed
  \/ RotateSwap
  \/ RotateLink
  \/ RotateFooter

HelperStep == HelperWait \/ HelperWake \/ Rotate

Next ==
  \/ \E n \in Names : Create(n) \/ SwitchName(n)
  \/ Construct
  \/ CtorThrow
  \/ SwitchLock
  \/ DtorKill
  \/ Destruct
  \/ WriteLock
  \/ Write
  \/ HelperStep
  \/ SpuriousWakeup
  \/ Crash

Spec == Init /\ [][Next]_vars

(* Threads that can run do run. A mutex that is free again and again is    *)
(* obtained: the engine writes once per pass and sleeps in between, and    *)
(* the application does not spend its life in switch_name.                 *)
Fairness ==
  /\ WF_vars(HelperStep)
  /\ SF_vars(HelperWait \/ HelperWake)
  /\ SF_vars(RotateSwap)
  /\ WF_vars(Write)
  /\ WF_vars(Destruct)
  /\ WF_vars(\E n \in Names : SwitchName(n))

FairSpec == Spec /\ Fairness

-----------------------------------------------------------------------------
(* Properties                                                              *)

(* The variables keep their types; size stops at MaxSize.                  *)
TypeOK ==
  /\ disk \in [File -> FileState]
  /\ link \in [Names -> 0 .. MaxCount]
  /\ app \in {"none", "named", "opened", "headed", "running", "switch",
              "thrown", "kill", "join", "joined"}
  /\ Current \in File
  /\ {fd, wfd, ofd} \cup stray \subseteq File \cup {NoFile}
  /\ size \in 0 .. MaxSize
  /\ writer \in {"idle", "write", "written", "unlock"}
  /\ helper \in {"none", "entry", "waiting", "woken", "name", "open",
                 "header", "swap", "link", "footer", "done"}
  /\ writeMutex \in {"free", "writer"}
  /\ rotateMutex \in {"free", "app", "helper"}
  /\ {buffered, pending, killed, early} \subseteq BOOLEAN
  /\ moved \in 0 .. MaxCount
  /\ kept \in File \cup {NoFile}

(* The next thing that a file gets is its footer.                          *)
Closing(f) ==
  \/ f = ofd /\ helper \in {"link", "footer"}
  \/ f = fd /\ app = "joined" /\ ~buffered

(* The writer never writes to a file that the helper has finished, nor the *)
(* helper to one twice, whatever order writev, do_rotate, switch_name,     *)
(* failed opens and crashes come in. And every file reads header, data,    *)
(* footer, but for those where the header itself was cut short, and those  *)
(* that the constructor's header misses because it is only buffered: the   *)
(* file that is rotated away before the first write and the one after it,  *)
(* or the one whose first write fails. (The other exception is a file that *)
(* was truncated while it was in use, see InUseKept.)                      *)
FilesReadable ==
  \A f \in File :
    /\ disk[f] # "bad"
    /\ disk[f] = "odd" \/ (disk[f] = "empty" /\ Closing(f)) => f \in stray

(* Opening truncates. do_rotate advances _name_index before it opens the   *)
(* file, leaves it advanced when that fails, and switch_name recomputes it *)
(* from the symlink: as long as the symlink is right, rotation opens the   *)
(* file that is being written only after the index has been all the way    *)
(* round since that file was opened. A new process does not open the file  *)
(* that the last one was writing, if the symlink named it when the last    *)
(* process ended or crashed.                                               *)
InUseKept ==
  [][/\ helper = "open" /\ helper' = "header" /\ Current = fd /\ LinkNamesFd
          => moved = MaxCount
     /\ app = "named" /\ app' = "opened" => fd' # kept]_vars

(* A request to rotate that the helper could hear is served, and the       *)
(* writer may ask again; a failed rotation does not block later ones.      *)
RotateServed == (pending /\ ~early) ~> ~pending

(* The destructor wakes the helper up and returns.                         *)
DtorReturns == (app = "join") ~> (app # "join")

(* The same, if the helper was waiting when it was first signalled.        *)
DtorReturnsOnceStarted == (app = "join" /\ ~early) ~> (app # "join")
=============================================================================
