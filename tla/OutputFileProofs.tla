-------------------------- MODULE OutputFileProofs --------------------------
(***************************************************************************)
(* Proofs about OutputFile, for every set of names, every number of files, *)
(* every size limit.                                                       *)
(***************************************************************************)
EXTENDS OutputFile, TLAPS

USE NamesAssumption, CountAssumption, SizeAssumption, NoFileAssumption

-----------------------------------------------------------------------------
(* Types                                                                   *)

(* read_link and do_rotate stay within the numbers of the files.           *)
LEMMA IndexRange ==
  ASSUME TypeOK
  PROVE  /\ NextIndex \in 0 .. MaxCount - 1
         /\ \A n \in Names : ReadLink(n) \in 0 .. MaxCount - 1
<1>1. index \in 0 .. MaxCount - 1
  BY DEF TypeOK, Current, File
<1>2. NextIndex \in 0 .. MaxCount - 1
  BY <1>1 DEF NextIndex
<1>3. ASSUME NEW n \in Names
      PROVE  ReadLink(n) \in 0 .. MaxCount - 1
  BY <1>3 DEF TypeOK, ReadLink
<1>4. QED
  BY <1>2, <1>3

(* What is done to a file leaves it in one of the states of a file.        *)
LEMMA DiskType ==
  ASSUME disk \in [File -> FileState], NEW f
  PROVE  /\ Truncated(f) \in [File -> FileState]
         /\ [disk EXCEPT ![f] = WithHeader(@)] \in [File -> FileState]
         /\ [disk EXCEPT ![f] = WithTorn(@)] \in [File -> FileState]
         /\ [disk EXCEPT ![f] = WithData(WithBuffer(@))]
              \in [File -> FileState]
         /\ [disk EXCEPT ![f] = Finished(WithBuffer(@))]
              \in [File -> FileState]
         /\ [disk EXCEPT ![f] = IF f = fd THEN @ ELSE Finished(@)]
              \in [File -> FileState]
  BY DEF Truncated, WithHeader, WithTorn, WithData, WithBuffer, Finished,
         Appended, FileState

(* The files that a header missed are among the descriptors in use.        *)
LEMMA StrayType ==
  ASSUME NEW f
  PROVE  Missed(f) \subseteq stray \cup {f}
  BY DEF Missed

(* The types hold initially.                                               *)
LEMMA TypeInit == Init => TypeOK
<1> SUFFICES ASSUME Init PROVE TypeOK
  OBVIOUS
<1>1. disk \in [File -> FileState]
  BY DEF Init, FileState
<1>2. Current \in File
  BY DEF Init, Current, File
<1>3. {fd, wfd, ofd} \cup stray \subseteq File \cup {NoFile}
  BY DEF Init
<1>4. /\ link \in [Names -> 0 .. MaxCount]
      /\ size \in 0 .. MaxSize /\ moved \in 0 .. MaxCount
  BY DEF Init
<1>5. {buffered, pending, killed, early} \subseteq BOOLEAN
  BY DEF Init
<1> QED
  BY <1>1, <1>2, <1>3, <1>4, <1>5 DEF Init, TypeOK

(* Every step keeps the types.                                             *)
LEMMA TypeStep == TypeOK /\ [Next]_vars => TypeOK'
<1> SUFFICES ASSUME TypeOK, [Next]_vars PROVE TypeOK'
  OBVIOUS
<1> USE DEF TypeOK, Current, File, files, current, headerVars, writerVars,
            helperVars, rotateVars, history
<1>1. CASE UNCHANGED vars
  BY <1>1 DEF vars
<1>2. ASSUME NEW n \in Names, Create(n) PROVE TypeOK'
  BY <1>2, IndexRange DEF Create
<1>3. CASE CtorOpen
  <2>1. disk' \in [File -> FileState]
    BY <1>3, DiskType DEF CtorOpen
  <2> QED
    BY <1>3, <2>1 DEF CtorOpen
<1>4. CASE CtorThrow
  BY <1>4 DEF CtorThrow
<1>5. CASE CtorHeader
  BY <1>5 DEF CtorHeader
<1>6. CASE CtorLink
  BY <1>6 DEF CtorLink, UpdateLink
<1>7. CASE SwitchLock
  BY <1>7 DEF SwitchLock
<1>8. ASSUME NEW n \in Names, SwitchName(n) PROVE TypeOK'
  <2>1. {buffered, pending, killed, early}' \subseteq BOOLEAN
    BY <1>8 DEF SwitchName, Signal
  <2> QED
    BY <1>8, <2>1, IndexRange DEF SwitchName, Signal, IndexMoved
<1>9. CASE DtorKill
  BY <1>9 DEF DtorKill
<1>10. CASE DtorSignal
  BY <1>10 DEF DtorSignal, Signal
<1>11. CASE DtorJoin
  BY <1>11 DEF DtorJoin
<1>12. CASE DtorClose
  <2>1. disk' \in [File -> FileState]
    BY <1>12, DiskType DEF DtorClose
  <2>2. kept' \in File \cup {NoFile}
    BY <1>12 DEF DtorClose
  <2>3. {buffered, pending, killed, early}' \subseteq BOOLEAN
    BY <1>12 DEF DtorClose, Gone
  <2>4. size' \in 0 .. MaxSize /\ moved' \in 0 .. MaxCount /\ Current' \in File
    BY <1>12 DEF DtorClose, Gone
  <2> QED
    BY <1>12, <2>1, <2>2, <2>3, <2>4 DEF DtorClose, Gone
<1>13. CASE WriteLock
  BY <1>13 DEF WriteLock
<1>14. ASSUME NEW n \in 1 .. 2, Written(n) PROVE TypeOK'
  <2>1. disk' \in [File -> FileState]
    BY <1>14, DiskType DEF Written
  <2>2. size' \in 0 .. MaxSize
    BY <1>14 DEF Written, Capped
  <2>3. stray' \subseteq File \cup {NoFile} /\ buffered' \in BOOLEAN
    BY <1>14 DEF Written
  <2> QED
    BY <1>14, <2>1, <2>2, <2>3 DEF Written
<1>15. CASE WriteFailed
  <2>1. stray' \subseteq stray \cup {wfd} /\ buffered' \in BOOLEAN
    BY <1>15, StrayType DEF WriteFailed
  <2>2. stray' \subseteq File \cup {NoFile}
    BY <2>1
  <2> QED
    BY <1>15, <2>1, <2>2 DEF WriteFailed
<1>16. CASE RequestRotate
  BY <1>16, ZenonT(30) DEF RequestRotate, Signal
<1>17. CASE WriteUnlock
  BY <1>17 DEF WriteUnlock
<1>18. CASE HelperWait
  BY <1>18 DEF HelperWait
<1>19. CASE SpuriousWakeup
  BY <1>19 DEF SpuriousWakeup
<1>20. CASE HelperWake
  BY <1>20 DEF HelperWake, WakeTo
<1>21. CASE RotateName
  BY <1>21, IndexRange DEF RotateName, IndexMoved
<1>22. CASE RotateOpen
  <2>1. disk' \in [File -> FileState]
    BY <1>22, DiskType DEF RotateOpen
  <2> QED
    BY <1>22, <2>1 DEF RotateOpen
<1>23. CASE RotateOpenFailed
  BY <1>23 DEF RotateOpenFailed, RotateEnd
<1>24. CASE RotateHeader
  <2>1. disk' \in [File -> FileState]
    BY <1>24, DiskType DEF RotateHeader
  <2> QED
    BY <1>24, <2>1 DEF RotateHeader
<1>25. CASE RotateHeaderFailed
  <2>1. disk' \in [File -> FileState]
    BY <1>25, DiskType DEF RotateHeaderFailed
  <2> QED
    BY <1>25, <2>1 DEF RotateHeaderFailed, RotateEnd
<1>26. CASE RotateSwap
  <2>1. stray' \subseteq File \cup {NoFile}
    BY <1>26, StrayType DEF RotateSwap
  <2> QED
    BY <1>26, <2>1 DEF RotateSwap
<1>27. CASE RotateLink
  BY <1>27 DEF RotateLink, UpdateLink
<1>28. CASE RotateFooter
  <2>1. disk' \in [File -> FileState]
    BY <1>28, DiskType DEF RotateFooter
  <2> QED
    BY <1>28, <2>1 DEF RotateFooter, RotateEnd
<1>29. CASE Crash
  <2>1. disk' \in [File -> FileState]
    BY <1>29 DEF Crash, FileState
  <2>2. kept' \in File \cup {NoFile}
    BY <1>29 DEF Crash
  <2>3. {buffered, pending, killed, early}' \subseteq BOOLEAN
    BY <1>29 DEF Crash, Gone
  <2>4. size' \in 0 .. MaxSize /\ moved' \in 0 .. MaxCount /\ Current' \in File
    BY <1>29 DEF Crash, Gone
  <2> QED
    BY <1>29, <2>1, <2>2, <2>3, <2>4 DEF Crash, Gone
<1> QED
  BY <1>1, <1>2, <1>3, <1>4, <1>5, <1>6, <1>7, <1>8, <1>9, <1>10, <1>11,
     <1>12, <1>13, <1>14, <1>15, <1>16, <1>17, <1>18, <1>19, <1>20, <1>21,
     <1>22, <1>23, <1>24, <1>25, <1>26, <1>27, <1>28, <1>29
  DEF Next, Construct, Destruct, Write, HelperStep, Rotate

(* Every reachable state is well typed: OutputFile's TypeOK is inductive,  *)
(* and _name_index always numbers one of the files.                        *)
THEOREM TypeCorrect == Spec => []TypeOK
  BY TypeInit, TypeStep, PTL DEF Spec
-----------------------------------------------------------------------------
(* The inductive invariant                                                 *)

(* The helper is in do_rotate, from the choice of a name to the end.       *)
Rotating == {"name", "open", "header", "swap", "link", "footer"}

(* The application has not yet got past the constructor.                   *)
Starting == {"named", "opened", "headed", "thrown"}

(* A write holds _write_mutex and goes to the descriptor of the moment.    *)
WriterInv ==
  /\ writer = "idle" <=> writeMutex = "free"
  /\ writer # "idle" => wfd = fd /\ app \in {"running", "switch"}

(* The application has _rotate_mutex in switch_name, the helper all the    *)
(* way through do_rotate: the name does not change under its hands.        *)
MutexInv ==
  /\ app = "switch" <=> rotateMutex = "app"
  /\ helper \in Rotating <=> rotateMutex = "helper"

(* Nobody asks the helper for anything before the constructor is done, and *)
(* the helper is gone when the destructor writes the footer.               *)
PhaseInv ==
  /\ app = "none" => helper = "none"
  /\ app \in Starting => helper \in {"entry", "waiting", "woken"}
  /\ app \in Starting \cup {"none"} => ~pending /\ ~killed
  /\ app = "joined" => helper = "done"
  /\ app \in {"none", "named", "thrown"} <=> fd = NoFile

(* The file in _fd has no footer, and it has its header unless that is     *)
(* still in the output buffer or was missed. What is in the buffer becomes *)
(* a second header if the file has one.                                    *)
InServiceInv ==
  /\ app = "opened" => disk[fd] = "empty"
  /\ app \in {"headed", "running", "switch", "kill", "join", "joined"} =>
       /\ disk[fd] \in InUse \cup {"lost"}
       /\ disk[fd] = "empty" => buffered \/ fd \in stray
       /\ disk[fd] = "open" /\ buffered => fd \in stray
  /\ app \in {"none", "named", "opened", "thrown"} => ~buffered

(* The file that do_rotate opened is empty until it has its header, unless *)
(* it is the file in use.                                                  *)
NextFileInv ==
  /\ helper = "header" =>
       disk[Current] = IF Current = fd THEN "lost" ELSE "empty"
  /\ helper = "swap" =>
       IF Current = fd THEN disk[Current] = "lost"
       ELSE disk[Current] \in {"open", "odd"}

(* The old file of do_rotate awaits its footer. It does not get a header   *)
(* any more.                                                               *)
OldFileInv ==
  /\ helper \in {"open", "header", "swap"} => ofd = fd
  /\ helper \in {"link", "footer"} =>
       /\ ofd \in File /\ disk[ofd] \in InUse \cup {"lost"}
       /\ ofd = fd => disk[fd] = "lost"

IInv ==
  /\ TypeOK
  /\ WriterInv /\ MutexInv /\ PhaseInv
  /\ InServiceInv /\ NextFileInv /\ OldFileInv
  /\ FilesReadable

(* The invariant holds initially.                                          *)
LEMMA IInvInit == Init => IInv
<1> SUFFICES ASSUME Init PROVE IInv
  OBVIOUS
<1>1. TypeOK
  BY TypeInit
<1>2. WriterInv /\ MutexInv /\ PhaseInv
  BY DEF Init, WriterInv, MutexInv, PhaseInv, Rotating, Starting
<1>3. InServiceInv /\ NextFileInv /\ OldFileInv
  BY DEF Init, InServiceInv, NextFileInv, OldFileInv
<1>4. FilesReadable
  BY DEF Init, FilesReadable, Closing
<1> QED
  BY <1>1, <1>2, <1>3, <1>4 DEF IInv

(* Every step keeps the invariant.                                         *)
LEMMA IInvStep == IInv /\ [Next]_vars => IInv'
<1> SUFFICES ASSUME IInv, [Next]_vars PROVE IInv'
  OBVIOUS
<1> USE DEF IInv, TypeOK, FileState, InUse, Current, Rotating, Starting,
            WriterInv, MutexInv, PhaseInv, InServiceInv, NextFileInv,
            OldFileInv, FilesReadable, Closing, files, current, headerVars,
            writerVars, helperVars, rotateVars, history
<1>0. TypeOK /\ TypeOK'
  BY TypeStep DEF IInv
<1>1. CASE UNCHANGED vars
  BY <1>0, <1>1 DEF vars
<1>2. ASSUME NEW n \in Names, Create(n) PROVE IInv'
  <2>1. (WriterInv /\ MutexInv /\ PhaseInv)'
    BY <1>2 DEF IInv, Create, WriterInv, MutexInv, PhaseInv, Rotating, Starting
  <2>2. (InServiceInv /\ NextFileInv /\ OldFileInv /\ FilesReadable)'
    BY <1>2 DEF IInv, Create, InServiceInv, NextFileInv, OldFileInv,
                FilesReadable
  <2> QED
    BY <1>0, <2>1, <2>2 DEF IInv
<1>3. ASSUME NEW n \in Names, SwitchName(n) PROVE IInv'
  BY <1>0, <1>3 DEF SwitchName, Signal
<1>4. ASSUME NEW n \in 1 .. 2, Written(n) PROVE IInv'
  <2>1. /\ wfd = fd /\ fd \in File /\ disk[fd] \in InUse \cup {"lost"}
        /\ app \in {"running", "switch"} /\ writer # "idle"
    BY <1>0, <1>4 DEF Written
  <2>2. /\ disk'[fd] \in {"open", "odd", "lost"}
        /\ disk'[fd] = "odd" => fd \in stray'
        /\ \A f \in File : f # fd => /\ disk'[f] = disk[f]
                                     /\ f \in stray' <=> f \in stray
        /\ disk[fd] = "lost" => disk'[fd] = "lost"
        /\ ~buffered'
    BY <1>0, <1>4, <2>1
    DEF Written, WithData, WithBuffer, WithHeader, WithTorn, Appended
  <2>3. (WriterInv /\ MutexInv /\ PhaseInv /\ InServiceInv)'
    BY <1>0, <1>4, <2>1, <2>2 DEF Written
  <2>4. (NextFileInv /\ OldFileInv)'
    BY <1>0, <1>4, <2>1, <2>2 DEF Written
  <2>5. FilesReadable'
    BY <1>0, <1>4, <2>1, <2>2 DEF Written
  <2> QED
    BY <1>0, <2>3, <2>4, <2>5
<1>5. CASE CtorOpen
  BY <1>0, <1>5 DEF CtorOpen, Truncated
<1>6. CASE CtorThrow
  BY <1>0, <1>6 DEF CtorThrow
<1>7. CASE CtorHeader
  BY <1>0, <1>7 DEF CtorHeader
<1>8. CASE CtorLink
  BY <1>0, <1>8 DEF CtorLink, UpdateLink
<1>9. CASE SwitchLock
  BY <1>0, <1>9 DEF SwitchLock
<1>10. CASE DtorKill
  BY <1>0, <1>10 DEF DtorKill
<1>11. CASE DtorSignal
  BY <1>0, <1>11 DEF DtorSignal, Signal
<1>12. CASE DtorJoin
  BY <1>0, <1>12 DEF DtorJoin
<1>13. CASE DtorClose
  BY <1>0, <1>13
  DEF DtorClose, Finished, WithBuffer, WithHeader, Appended, Gone
<1>14. CASE WriteLock
  BY <1>0, <1>14 DEF WriteLock
<1>15. CASE WriteFailed
  <2>1. /\ wfd = fd /\ fd \in File /\ disk[fd] \in InUse \cup {"lost"}
        /\ app \in {"running", "switch"} /\ writer # "idle"
    BY <1>0, <1>15 DEF WriteFailed
  <2>2. /\ disk[fd] \in {"empty", "odd"} => fd \in stray'
        /\ \A f \in File : f # fd => (f \in stray' <=> f \in stray)
        /\ ~buffered' /\ disk' = disk
    BY <1>0, <1>15, <2>1 DEF WriteFailed, Missed
  <2>3. (WriterInv /\ MutexInv /\ PhaseInv /\ InServiceInv)'
    BY <1>0, <1>15, <2>1, <2>2 DEF WriteFailed
  <2>4. (NextFileInv /\ OldFileInv /\ FilesReadable)'
    BY <1>0, <1>15, <2>1, <2>2 DEF WriteFailed
  <2> QED
    BY <1>0, <2>3, <2>4
<1>16. CASE RequestRotate
  BY <1>0, <1>16 DEF RequestRotate, Signal
<1>17. CASE WriteUnlock
  BY <1>0, <1>17 DEF WriteUnlock
<1>18. CASE HelperWait
  BY <1>0, <1>18 DEF HelperWait
<1>19. CASE SpuriousWakeup
  BY <1>0, <1>19 DEF SpuriousWakeup
<1>20. CASE HelperWake
  BY <1>0, <1>20 DEF HelperWake, WakeTo
<1>21. CASE RotateName
  BY <1>0, <1>21 DEF RotateName
<1>22. CASE RotateOpen
  BY <1>0, <1>22 DEF RotateOpen, Truncated
<1>23. CASE RotateOpenFailed
  BY <1>0, <1>23 DEF RotateOpenFailed, RotateEnd
<1>24. CASE RotateHeader
  BY <1>0, <1>24 DEF RotateHeader, WithHeader, WithTorn, Appended
<1>25. CASE RotateHeaderFailed
  BY <1>0, <1>25 DEF RotateHeaderFailed, Finished, RotateEnd
<1>26. CASE RotateSwap
  <2>1. writer = "idle" /\ app # "switch" /\ ofd = fd /\ ofd' = ofd
        /\ fd' = Current /\ disk' = disk /\ buffered' = buffered
    BY <1>0, <1>26 DEF RotateSwap, CanSwap
  <2>2. /\ fd' \in File /\ disk[fd'] \in {"open", "odd", "lost"}
        /\ buffered => fd' \in stray'
        /\ disk[fd'] = "odd" => fd' \in stray'
    BY <1>0, <1>26 DEF RotateSwap
  <2>3. app \in {"running", "kill", "join"}
    BY <1>0, <1>26 DEF RotateSwap
  <2>4. /\ ofd' \in File /\ disk[ofd'] \in InUse \cup {"lost"}
        /\ ofd' = fd' => disk[fd'] = "lost"
    BY <1>0, <1>26, <2>1, <2>3 DEF RotateSwap
  <2>5. \A f \in File : disk[f] \in {"empty", "odd"} /\ f \in stray
                          => f \in stray'
    BY <1>0, <1>26 DEF RotateSwap, Missed
  <2>6. disk[ofd] \in {"empty", "odd"} => ofd \in stray'
    BY <1>0, <1>26, <2>1, <2>3, <2>4, <2>5 DEF RotateSwap, Missed
  <2>7. (WriterInv /\ MutexInv /\ PhaseInv)'
    BY <1>0, <1>26, <2>1, <2>2, <2>3 DEF RotateSwap
  <2>8. (InServiceInv /\ NextFileInv /\ OldFileInv)'
    BY <1>0, <1>26, <2>1, <2>2, <2>3, <2>4 DEF RotateSwap
  <2>9. FilesReadable'
    BY <1>0, <1>26, <2>1, <2>3, <2>5, <2>6 DEF RotateSwap
  <2> QED
    BY <1>0, <2>7, <2>8, <2>9
<1>27. CASE RotateLink
  BY <1>0, <1>27 DEF RotateLink, UpdateLink
<1>28. CASE RotateFooter
  <2>1. /\ \A f \in File : disk'[f] # "bad"
        /\ \A f \in File : f # ofd => /\ disk'[f] = disk[f]
                                      /\ f \in stray' <=> f \in stray
        /\ ofd # fd => disk'[ofd] = "unused"
        /\ ofd = fd => disk'[ofd] = "lost"
    BY <1>0, <1>28 DEF RotateFooter, Finished
  <2>2. (WriterInv /\ MutexInv /\ PhaseInv)'
    BY <1>0, <1>28 DEF RotateFooter, RotateEnd
  <2>3. (InServiceInv /\ NextFileInv /\ OldFileInv /\ FilesReadable)'
    BY <1>0, <1>28, <2>1 DEF RotateFooter, RotateEnd
  <2> QED
    BY <1>0, <2>2, <2>3
<1>29. CASE Crash
  BY <1>0, <1>29 DEF Crash, Gone
<1> QED
  BY <1>1, <1>2, <1>3, <1>4, <1>5, <1>6, <1>7, <1>8, <1>9, <1>10, <1>11,
     <1>12, <1>13, <1>14, <1>15, <1>16, <1>17, <1>18, <1>19, <1>20, <1>21,
     <1>22, <1>23, <1>24, <1>25, <1>26, <1>27, <1>28, <1>29
  DEF Next, Construct, Destruct, Write, HelperStep, Rotate

(* No write reaches a file after its footer, and every file reads header,  *)
(* data, footer, but for those where a header came short or missed its     *)
(* file, as the constructor's may.                                         *)
THEOREM FilesReadableHolds == Spec => []FilesReadable
<1>1. IInv => FilesReadable
  BY DEF IInv
<1> QED
  BY <1>1, IInvInit, IInvStep, PTL DEF Spec

-----------------------------------------------------------------------------
(* The file in use is not truncated                                        *)

(* The steps from the file in _fd to _name_index, going round.             *)
Ahead == IF index >= fd.index THEN index - fd.index
         ELSE index - fd.index + MaxCount

(* A file is opened under the name of the moment, and its symlink is made  *)
(* before the name can change.                                             *)
FreshInv ==
  app \in {"opened", "headed"} \/ helper = "link" => Current = fd /\ moved = 0

(* While the symlink is right, switch_name cannot set the index back: it   *)
(* runs ahead of the file in use by at most the number of its steps, and   *)
(* by one at least when a new file is about to be opened.                  *)
AheadInv ==
  LinkNamesFd /\ name = fd.name /\ moved < MaxCount =>
    IF moved = 0 THEN index = fd.index /\ helper # "open"
    ELSE Ahead \in 1 .. moved

(* What the last process left behind, as the constructor finds it.         *)
KeptInv ==
  /\ kept # NoFile => /\ app \in {"none", "named", "thrown"}
                      /\ link[kept.name] = kept.index
  /\ app = "named" => index = ReadLink(name)
  /\ app \in {"none", "named"} => moved = 0

UseInv == IInv /\ FreshInv /\ AheadInv /\ KeptInv

(* read_link without remainders.                                           *)
LEMMA ReadLinkValue ==
  ASSUME TypeOK, NEW n \in Names
  PROVE  ReadLink(n) = IF link[n] >= MaxCount - 1 THEN 0 ELSE link[n] + 1
  BY DEF TypeOK, ReadLink

(* The invariant holds initially.                                          *)
LEMMA UseInit == Init => UseInv
  BY IInvInit DEF Init, UseInv, FreshInv, AheadInv, KeptInv, LinkNamesFd

(* Every step keeps the invariant.                                         *)
LEMMA UseStep == UseInv /\ [Next]_vars => UseInv'
<1> SUFFICES ASSUME UseInv, [Next]_vars PROVE UseInv'
  OBVIOUS
<1> USE DEF UseInv, IInv, TypeOK, File, MutexInv, PhaseInv, FreshInv, AheadInv,
            KeptInv, Ahead, LinkNamesFd, ReadLink, Current, Rotating, Starting,
            files, current, headerVars, writerVars, helperVars, rotateVars,
            history
<1>0. IInv /\ IInv' /\ TypeOK /\ TypeOK'
  BY IInvStep DEF UseInv, IInv
<1>1. CASE UNCHANGED vars
  BY <1>0, <1>1 DEF vars
<1>2. ASSUME NEW n \in Names, Create(n) PROVE UseInv'
  BY <1>0, <1>2 DEF Create
<1>3. ASSUME NEW n \in Names, SwitchName(n) PROVE UseInv'
  BY <1>0, <1>3, ReadLinkValue DEF SwitchName, Signal, IndexMoved
<1>4. ASSUME NEW n \in 1 .. 2, Written(n) PROVE UseInv'
  BY <1>0, <1>4 DEF Written
<1>5. CASE CtorOpen
  BY <1>0, <1>5 DEF CtorOpen
<1>6. CASE CtorThrow
  BY <1>0, <1>6 DEF CtorThrow
<1>7. CASE CtorHeader
  BY <1>0, <1>7 DEF CtorHeader
<1>8. CASE CtorLink
  BY <1>0, <1>8 DEF CtorLink, UpdateLink
<1>9. CASE SwitchLock
  BY <1>0, <1>9 DEF SwitchLock
<1>10. CASE DtorKill
  BY <1>0, <1>10 DEF DtorKill
<1>11. CASE DtorSignal
  BY <1>0, <1>11 DEF DtorSignal, Signal
<1>12. CASE DtorJoin
  BY <1>0, <1>12 DEF DtorJoin
<1>13. CASE DtorClose
  BY <1>0, <1>13 DEF DtorClose, Gone
<1>14. CASE WriteLock
  BY <1>0, <1>14 DEF WriteLock
<1>15. CASE WriteFailed
  BY <1>0, <1>15 DEF WriteFailed
<1>16. CASE RequestRotate
  BY <1>0, <1>16 DEF RequestRotate, Signal
<1>17. CASE WriteUnlock
  BY <1>0, <1>17 DEF WriteUnlock
<1>18. CASE HelperWait
  BY <1>0, <1>18 DEF HelperWait
<1>19. CASE SpuriousWakeup
  BY <1>0, <1>19 DEF SpuriousWakeup
<1>20. CASE HelperWake
  BY <1>0, <1>20 DEF HelperWake, WakeTo
<1>21. CASE RotateName
  BY <1>0, <1>21 DEF RotateName, NextIndex, IndexMoved
<1>22. CASE RotateOpen
  BY <1>0, <1>22 DEF RotateOpen
<1>23. CASE RotateOpenFailed
  BY <1>0, <1>23 DEF RotateOpenFailed, RotateEnd
<1>24. CASE RotateHeader
  BY <1>0, <1>24 DEF RotateHeader
<1>25. CASE RotateHeaderFailed
  BY <1>0, <1>25 DEF RotateHeaderFailed, RotateEnd
<1>26. CASE RotateSwap
  BY <1>0, <1>26 DEF RotateSwap
<1>27. CASE RotateLink
  BY <1>0, <1>27 DEF RotateLink, UpdateLink
<1>28. CASE RotateFooter
  BY <1>0, <1>28 DEF RotateFooter, RotateEnd
<1>29. CASE Crash
  BY <1>0, <1>29 DEF Crash, Gone
<1> QED
  BY <1>1, <1>2, <1>3, <1>4, <1>5, <1>6, <1>7, <1>8, <1>9, <1>10, <1>11,
     <1>12, <1>13, <1>14, <1>15, <1>16, <1>17, <1>18, <1>19, <1>20, <1>21,
     <1>22, <1>23, <1>24, <1>25, <1>26, <1>27, <1>28, <1>29
  DEF Next, Construct, Destruct, Write, HelperStep, Rotate

(* With more than one file, neither a rotation nor a new process truncates *)
(* the file in use as long as its symlink is right, unless rotations that  *)
(* failed have gone all the way round. (With one file it must.)            *)
THEOREM InUseKeptHolds ==
  ASSUME MaxCount > 1
  PROVE  Spec => InUseKept
<1>1. UseInv /\ [Next]_vars =>
        [/\ helper = "open" /\ helper' = "header" /\ Current = fd /\ LinkNamesFd
              => moved = MaxCount
         /\ app = "named" /\ app' = "opened" => fd' # kept]_vars
  <2> SUFFICES ASSUME UseInv, Next
               PROVE  /\ helper = "open" /\ Current = fd /\ LinkNamesFd
                           => moved = MaxCount
                      /\ app = "named" /\ app' = "opened" => fd' # kept
    OBVIOUS
  <2>1. ASSUME helper = "open", Current = fd, LinkNamesFd
        PROVE  moved = MaxCount
    BY <2>1 DEF UseInv, IInv, TypeOK, AheadInv, Ahead, Current, File
  <2>2. ASSUME app = "named", app' = "opened"
        PROVE  fd' # kept
    <3>1. CtorOpen
      BY <2>2
      DEF Next, Construct, Destruct, Write, HelperStep, Rotate, Create,
          SwitchName, CtorThrow, CtorHeader, CtorLink, SwitchLock, DtorKill,
          DtorSignal, DtorJoin, DtorClose, Gone, WriteLock, Written,
          WriteFailed, RequestRotate, WriteUnlock, HelperWait, HelperWake,
          SpuriousWakeup, RotateName, RotateOpen, RotateOpenFailed, RotateEnd,
          RotateHeader, RotateHeaderFailed, RotateSwap, RotateLink,
          RotateFooter, Crash
    <3> QED
      BY <2>2, <3>1, ReadLinkValue
      DEF UseInv, IInv, TypeOK, KeptInv, CtorOpen, Current, File
  <2> QED
    BY <2>1, <2>2
<1> QED
  BY <1>1, UseInit, UseStep, PTL DEF Spec, InUseKept
=============================================================================
