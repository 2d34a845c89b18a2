------------------------------ MODULE CookLog ------------------------------
(***************************************************************************)
(* hogl-cook reads the raw log of LogPath's first stream, after the end of *)
(* the process or, with --tailf, while the engine writes it. It finds the  *)
(* start of a record by trial: a record whose names do not look like names *)
(* makes it start again one position further, unless it has already seen   *)
(* enough records.                                                         *)
(*                                                                         *)
(* The parser's checks are abstracted to pieces. Reading starts at the     *)
(* beginning of a record or elsewhere, and elsewhere anything may happen:  *)
(* whatever bytes are there may look like names or not, and lead to a      *)
(* length that is in the file or beyond its end. The true names do look    *)
(* like names: they are printable and have 2 to 128 characters.            *)
(***************************************************************************)
EXTENDS LogPath

CONSTANTS
  MinValid,   \* min_valid_recs
  MaxSkip     \* max_record_size, in pieces

ASSUME CookAssumption == {MinValid, MaxSkip} \subseteq Nat

VARIABLES
  cpc,        \* "off", "parse", "end"
  tailf,      \* the option
  offset,     \* of process(): what is skipped
  pos,        \* pieces of the file before the next record
  nrecs,      \* records of this attempt
  cooked      \* history: the records that were printed

cookVars == <<cpc, tailf, offset, pos, nrecs, cooked>>

(* hogl-cook sees what has left the process.                               *)
File == InFile(1)
Avail == Len(File) - pos

(* file_rdbuf starts at the end of the file to follow its growth.          *)
StartAt_EndBug(tail_) == Len(File)

StartAt(tail_) == IF tail_ THEN Len(File) ELSE 0

CookStart(tail_) ==
  /\ cpc = "off"
  /\ alive = tail_
  /\ cpc' = "parse"
  /\ tailf' = tail_
  /\ pos' = StartAt(tail_)
  /\ UNCHANGED <<offset, nrecs, cooked, logVars>>

(* What the file has next are the pieces of a record, as far as it goes.   *)
RecordAhead ==
  \A k \in 1 .. Pieces : k <= Avail => File[pos + k].k = k

(* raw_parser::next, fmt.process and out.flush.                            *)
CookRecord ==
  LET p == [k \in 1 .. Pieces |-> File[pos + k]]
      whole == \A k \in 1 .. Pieces : p[k] = [id |-> p[1].id, k |-> k]
  IN  /\ cpc = "parse" /\ Avail >= Pieces
      /\ RecordAhead
      /\ cooked' = Append(cooked, [id |-> p[1].id, whole |-> whole])
      /\ pos' = pos + Pieces
      /\ nrecs' = nrecs + 1
      /\ UNCHANGED <<cpc, tailf, offset, logVars>>

(* valid_name takes any 2 to 128 printable bytes for a name.               *)
CookGuess ==
  /\ cpc = "parse" /\ ~RecordAhead
  /\ cooked' = Append(cooked, [id |-> 0, whole |-> FALSE])
  /\ \E n \in 1 .. Avail : pos' = pos + n
  /\ nrecs' = nrecs + 1
  /\ UNCHANGED <<cpc, tailf, offset, logVars>>

(* reprocess gives up, or process starts again at the next offset.         *)
Enough == MinValid > 0 /\ nrecs >= MinValid

CookFormatError ==
  /\ cpc = "parse" /\ ~RecordAhead
  /\ IF Enough THEN cpc' = "end" /\ UNCHANGED <<offset, pos, nrecs>>
     ELSE /\ offset' = offset + 1
          /\ cpc' = IF offset' > MaxSkip THEN "end" ELSE "parse"
          /\ pos' = StartAt(tailf) + offset'
          /\ nrecs' = 0
  /\ UNCHANGED <<tailf, cooked, logVars>>

(* A read fails at the end of the file, before or inside of a record; with *)
(* --tailf it waits.                                                       *)
StopsAtEnd_AlwaysBug == TRUE

StopsAtEnd == ~tailf

CookInputEnd ==
  /\ cpc = "parse" /\ StopsAtEnd
  /\ Avail < Pieces \/ ~RecordAhead
  /\ cpc' = "end"
  /\ UNCHANGED <<tailf, offset, pos, nrecs, cooked, logVars>>

CookNext ==
  \/ \E tail_ \in BOOLEAN : CookStart(tail_)
  \/ CookRecord
  \/ CookGuess
  \/ CookFormatError
  \/ CookInputEnd

Init ==
  /\ LogInit
  /\ cpc = "off" /\ tailf = FALSE /\ offset = 0 /\ pos = 0 /\ nrecs = 0
  /\ cooked = <<>>

(* hogl-recover and hogl-cook do not see each other: a behaviour has one   *)
(* of them.                                                                *)
OneTool == dump' = <<>> \/ cpc' = "off"

Next == ((LogNext /\ UNCHANGED cookVars) \/ CookNext) /\ OneTool

vars == <<logVars, cookVars>>

Spec == Init /\ [][Next]_vars

(* The engine's loop and the tool run on; posting and crashing need not    *)
(* happen.                                                                 *)
FairSpec ==
  /\ Spec
  /\ WF_vars(EngineNext /\ UNCHANGED cookVars)
  /\ WF_vars(CookRecord \/ CookGuess \/ CookFormatError \/ CookInputEnd)

-----------------------------------------------------------------------------
(* Properties                                                              *)

(* The records in the first n pieces of a log in which nothing is missing. *)
WholeBefore(n) ==
  [j \in 1 .. n \div Pieces |->
     [id |-> File[Pieces * (j - 1) + 1].id, whole |-> TRUE]]

(* How much of the log is as the format handler produced it.               *)
Intact == CHOOSE n \in 0 .. Len(File) :
            /\ SubSeq(File, 1, n) = SubSeq(sent, 1, n)
            /\ n = Len(File) \/ File[n + 1] # sent[n + 1]

(* Cooking the log of a process that has ended, wherever it was cut off,   *)
(* prints the records of the log in order; if writes came short or failed  *)
(* it prints at least those before the first gap. With --tailf it starts   *)
(* wherever the last write ended, in general inside of a record, and it    *)
(* starts again at a file that has grown; it may then take other data for  *)
(* records. If all writes succeed, from the first true record that it      *)
(* prints it prints nothing but true records, none twice or out of order.  *)
CookedLog ==
  /\ cpc = "end" /\ ~tailf =>
       /\ IsPrefix(WholeBefore(Intact), cooked)
       /\ faults = 0 => cooked = WholeBefore(Len(File))
  /\ faults = 0 =>
       \A i, j \in DOMAIN cooked :
         i < j /\ cooked[i].whole
           => cooked[j].whole /\ cooked[i].id < cooked[j].id

(* Once --tailf has found a true record it keeps up: a record that is      *)
(* written to the file after it is printed.                                *)
TailfFollows ==
  \A id \in 1 .. MaxRec :
    (/\ tailf /\ nrecs > 0 /\ Last(cooked).whole /\ faults = 0
     /\ RecordIn(id, SubSeq(File, pos + 1, Len(File))))
      ~> (faults > 0 \/ \E i \in DOMAIN cooked : cooked[i].id = id)
=============================================================================
