------------------------------ MODULE RingFifo ------------------------------
(***************************************************************************)
(* What a ring promises to its users: a bounded queue of numbered records. *)
(* A record that is taken keeps its slot until the engine releases all the *)
(* records it took, and a record is dropped only when no slot is left.     *)
(***************************************************************************)
EXTENDS Naturals, Sequences

CONSTANTS
  Slots,    \* the number of records that fit
  MaxSeq    \* bound: sequence numbers are below MaxSeq

VARIABLES
  queue,    \* sequence numbers of the records waiting to be taken
  held,     \* number of records taken whose slots are not released
  out,      \* sequence numbers of the records taken, in order
  lost      \* number of records dropped

fifoVars == <<queue, held, out, lost>>

HasRoom == Len(queue) + held < Slots

Init == queue = <<>> /\ held = 0 /\ out = <<>> /\ lost = 0

(* Later records have larger numbers; numbers may be left out.             *)
Put ==
  /\ HasRoom
  /\ \E s \in 0 .. MaxSeq - 1 :
       /\ \A k \in DOMAIN queue : queue[k] < s
       /\ \A k \in DOMAIN out : out[k] < s
       /\ queue' = Append(queue, s)
  /\ UNCHANGED <<held, out, lost>>

Drop ==
  /\ ~HasRoom
  /\ lost' = lost + 1
  /\ UNCHANGED <<queue, held, out>>

Take ==
  /\ queue # <<>>
  /\ out' = Append(out, Head(queue))
  /\ queue' = Tail(queue)
  /\ held' = held + 1
  /\ UNCHANGED lost

Release ==
  /\ held > 0
  /\ held' = 0
  /\ UNCHANGED <<queue, out, lost>>

Next == Put \/ Drop \/ Take \/ Release

Spec == Init /\ [][Next]_fifoVars
=============================================================================
