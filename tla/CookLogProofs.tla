--------------------------- MODULE CookLogProofs ---------------------------
(***************************************************************************)
(* Proofs about the log files of LogPath and CookLog, for every ring, every*)
(* capacity of the output buffer, every number and kind of streams and any *)
(* number of writes that fail or come short.                               *)
(***************************************************************************)
EXTENDS CookLog, SequenceTheorems, WellFoundedInduction, TLAPS

-----------------------------------------------------------------------------
(* Sequences                                                               *)

(* A prefix agrees with the sequence for as long as it lasts.              *)
LEMMA PrefixMeaning ==
  ASSUME NEW S, NEW a \in Seq(S), NEW b \in Seq(S)
  PROVE  IsPrefix(a, b) <=> /\ Len(a) <= Len(b)
                            /\ \A k \in 1 .. Len(a) : a[k] = b[k]
<1>1. /\ SubSeq(a, 1, Len(a)) \in Seq(S) /\ Len(SubSeq(a, 1, Len(a))) = Len(a)
      /\ \A k \in 1 .. Len(a) : SubSeq(a, 1, Len(a))[k] = a[k]
  OBVIOUS
<1>2. ASSUME Len(a) <= Len(b)
      PROVE  /\ SubSeq(b, 1, Len(a)) \in Seq(S)
             /\ Len(SubSeq(b, 1, Len(a))) = Len(a)
             /\ \A k \in 1 .. Len(a) : SubSeq(b, 1, Len(a))[k] = b[k]
  BY <1>2
<1>3. ASSUME IsPrefix(a, b)
      PROVE  Len(a) <= Len(b) /\ \A k \in 1 .. Len(a) : a[k] = b[k]
  BY <1>1, <1>2, <1>3 DEF IsPrefix
<1>4. ASSUME Len(a) <= Len(b), \A k \in 1 .. Len(a) : a[k] = b[k]
      PROVE  IsPrefix(a, b)
  <2>1. SubSeq(a, 1, Len(a)) = SubSeq(b, 1, Len(a))
    BY <1>1, <1>2, <1>4, SeqEqual
  <2> QED
    BY <1>4, <2>1 DEF IsPrefix
<1> QED
  BY <1>3, <1>4

(* A sequence is a prefix of itself and of whatever continues it.          *)
LEMMA PrefixGrows ==
  ASSUME NEW S, NEW a \in Seq(S), NEW b \in Seq(S), NEW c \in Seq(S)
  PROVE  /\ IsPrefix(a, a) /\ IsPrefix(a, a \o c)
         /\ IsPrefix(a, b) => IsPrefix(a, b \o c)
<1>1. /\ b \o c \in Seq(S) /\ Len(b \o c) = Len(b) + Len(c)
      /\ \A k \in 1 .. Len(b) : (b \o c)[k] = b[k]
      /\ Len(a) \in Nat /\ Len(b) \in Nat /\ Len(c) \in Nat
  OBVIOUS
<1>2. /\ a \o c \in Seq(S) /\ Len(a \o c) = Len(a) + Len(c)
      /\ \A k \in 1 .. Len(a) : (a \o c)[k] = a[k]
  OBVIOUS
<1>3. IsPrefix(a, a)
  BY PrefixMeaning
<1>4. IsPrefix(a, a \o c)
  <2>1. Len(a) <= Len(a \o c)
    BY <1>1, <1>2
  <2> QED
    BY <1>2, <2>1, PrefixMeaning
<1>5. ASSUME IsPrefix(a, b) PROVE IsPrefix(a, b \o c)
  <2>1. Len(a) <= Len(b) /\ \A k \in 1 .. Len(a) : a[k] = b[k]
    BY <1>5, PrefixMeaning
  <2>2. /\ Len(a) <= Len(b \o c)
        /\ \A k \in 1 .. Len(a) : a[k] = (b \o c)[k]
    BY <1>1, <2>1
  <2> QED
    BY <1>1, <2>2, PrefixMeaning
<1> QED
  BY <1>3, <1>4, <1>5

(* Writing the first part of a chunk.                                      *)
LEMMA PartWritten ==
  ASSUME NEW S, NEW a \in Seq(S), NEW b \in Seq(S), NEW n \in 0 .. Len(b)
  PROVE  /\ a \o SubSeq(b, 1, n) \in Seq(S)
         /\ Len(a \o SubSeq(b, 1, n)) = Len(a) + n
         /\ IsPrefix(a \o SubSeq(b, 1, n), a \o b)
<1>1. /\ SubSeq(b, 1, n) \in Seq(S) /\ Len(SubSeq(b, 1, n)) = n
      /\ \A k \in 1 .. n : SubSeq(b, 1, n)[k] = b[k]
      /\ Len(a) \in Nat /\ Len(b) \in Nat
  OBVIOUS
<1> DEFINE c == SubSeq(b, 1, n)
<1> HIDE DEF c
<1>2. /\ a \o c \in Seq(S) /\ Len(a \o c) = Len(a) + n
      /\ \A k \in 1 .. Len(a) : (a \o c)[k] = a[k]
      /\ \A k \in 1 .. n : (a \o c)[Len(a) + k] = c[k]
  BY <1>1 DEF c
<1>3. /\ a \o b \in Seq(S) /\ Len(a \o b) = Len(a) + Len(b)
      /\ \A k \in 1 .. Len(a) : (a \o b)[k] = a[k]
      /\ \A k \in 1 .. Len(b) : (a \o b)[Len(a) + k] = b[k]
  OBVIOUS
<1>4. ASSUME NEW k \in 1 .. Len(a \o c)
      PROVE  (a \o c)[k] = (a \o b)[k]
  <2>1. CASE k \in 1 .. Len(a)
    BY <1>2, <1>3, <2>1
  <2>2. CASE k \notin 1 .. Len(a)
    <3>1. PICK j \in 1 .. n : k = Len(a) + j
      <4>1. k - Len(a) \in 1 .. n /\ k = Len(a) + (k - Len(a))
        BY <1>1, <1>2, <2>2
      <4> QED
        BY <4>1
    <3>2. (a \o c)[k] = c[j] /\ c[j] = b[j] /\ (a \o b)[k] = b[j]
      BY <1>1, <1>2, <1>3, <3>1 DEF c
    <3> QED
      BY <3>2
  <2> QED
    BY <2>1, <2>2
<1>5. Len(a \o c) <= Len(a \o b)
  BY <1>1, <1>2, <1>3
<1> QED
  BY <1>2, <1>3, <1>4, <1>5, PrefixMeaning DEF c

(* The beginning of a sequence.                                            *)
LEMMA CutMeaning ==
  ASSUME NEW S, NEW a \in Seq(S), NEW n \in 0 .. Len(a)
  PROVE  /\ SubSeq(a, 1, n) \in Seq(S) /\ Len(SubSeq(a, 1, n)) = n
         /\ \A k \in 1 .. n : SubSeq(a, 1, n)[k] = a[k]
         /\ IsPrefix(SubSeq(a, 1, n), a)
<1>1. /\ SubSeq(a, 1, n) \in Seq(S) /\ Len(SubSeq(a, 1, n)) = n
      /\ \A k \in 1 .. n : SubSeq(a, 1, n)[k] = a[k]
      /\ Len(a) \in Nat
  OBVIOUS
<1> DEFINE c == SubSeq(a, 1, n)
<1> HIDE DEF c
<1>2. /\ c \in Seq(S) /\ Len(c) <= Len(a)
      /\ \A k \in 1 .. Len(c) : c[k] = a[k]
  BY <1>1 DEF c
<1>3. IsPrefix(c, a)
  BY <1>2, PrefixMeaning
<1> QED
  BY <1>1, <1>3 DEF c

(* All but the last element of a sequence.                                 *)
LEMMA FrontMeaning ==
  ASSUME NEW S, NEW a \in Seq(S), NEW b \in Seq(S), a # <<>>,
         Len(a) - 1 <= Len(b), \A k \in 1 .. Len(a) - 1 : a[k] = b[k]
  PROVE  Front(a) \in Seq(S) /\ IsPrefix(Front(a), b)
<1>1. Len(a) \in Nat /\ Len(a) > 0
  BY EmptySeq
<1> DEFINE n == Len(a) - 1
           c == SubSeq(a, 1, n)
<1>0. n \in 0 .. Len(a)
  BY <1>1
<1> HIDE DEF n
<1>2. /\ c \in Seq(S) /\ Len(c) = n
      /\ \A k \in 1 .. n : c[k] = a[k]
  BY <1>0, CutMeaning
<1> HIDE DEF c
<1>3. /\ c \in Seq(S) /\ Len(c) <= Len(b)
      /\ \A k \in 1 .. Len(c) : c[k] = b[k]
  BY <1>2 DEF n
<1>4. IsPrefix(c, b)
  BY <1>3, PrefixMeaning
<1> QED
  BY <1>3, <1>4 DEF c, n, Front

(* It is a sequence of the same elements.                                  *)
LEMMA FrontType ==
  ASSUME NEW S, NEW a \in Seq(S)
  PROVE  Front(a) \in Seq(S)
  BY DEF Front

(* The elements of a concatenation.                                        *)
LEMMA ConcatMeaning ==
  ASSUME NEW S, NEW a \in Seq(S), NEW b \in Seq(S)
  PROVE  /\ a \o b \in Seq(S) /\ Len(a \o b) = Len(a) + Len(b)
         /\ \A k \in 1 .. Len(a) : (a \o b)[k] = a[k]
         /\ \A k \in 1 .. Len(b) : (a \o b)[Len(a) + k] = b[k]
         /\ Len(a) \in Nat /\ Len(b) \in Nat
  OBVIOUS

(* A piece at the end of a buffer is at the end of what it holds.          *)
LEMMA AppendWritten ==
  ASSUME NEW S, NEW a \in Seq(S), NEW b \in Seq(S), NEW e \in S
  PROVE  /\ a \o Append(b, e) = Append(a \o b, e)
         /\ a \o (b \o <<e>>) = Append(a \o b, e)
<1>1. Append(b, e) = b \o <<e>> /\ Append(a \o b, e) = (a \o b) \o <<e>>
  <2>1. a \o b \in Seq(S)
    OBVIOUS
  <2> QED
    BY <2>1, AppendIsConcat
<1>2. (a \o b) \o <<e>> = a \o (b \o <<e>>)
  <2>1. <<e>> \in Seq(S)
    OBVIOUS
  <2> QED
    BY <2>1, ConcatAssociative
<1> QED
  BY <1>1, <1>2

-----------------------------------------------------------------------------
(* The inductive invariant                                                 *)

Piece == [id: Nat, k: Nat]

(* No more of a stream is in the file than was written.                    *)
Stream ==
  {s \in [out: Seq(Piece), filed: Nat, failed: BOOLEAN] :
     s.filed <= Len(s.out)}

Index == 0 .. Slots - 1

(* The types of what the log depends on, and the bound of the buffer.      *)
TypeInv ==
  /\ slot \in [Index -> [id: Nat, ts: Nat, special: BOOLEAN]]
  /\ head \in Index /\ tail \in Index /\ it \in Index
  /\ posted \in Nat /\ piece \in Nat /\ faults \in Nat
  /\ target \in Nat /\ target # 0
  /\ kinds \in Seq(Kinds) /\ kinds # <<>>
  /\ streams \in [DOMAIN kinds -> Stream]
  /\ buf \in Seq(Piece) /\ data \in Seq(Piece) /\ sent \in Seq(Piece)
  /\ Len(buf) <= BufCap /\ Len(data) <= 1
  /\ back \in {"push", "idle"}

(* What is still to be written to stream s: during do_flush the streams    *)
(* before `target' have got everything.                                    *)
Pending(s) ==
  IF epc # "write" THEN buf
  ELSE IF s < target THEN <<>> ELSE buf \o data

(* What an unbroken stream has is the beginning of the log. As long as     *)
(* do_flush does not give up, what it has and what is pending are all of   *)
(* it.                                                                     *)
PrefixInv ==
  \A s \in DOMAIN kinds : Unbroken(s) => IsPrefix(streams[s].out, sent)

ExactInv ==
  \A s \in DOMAIN kinds :
    Unbroken(s) /\ ~streams[s].failed /\ (epc = "write" \/ ~FlushFails) =>
      streams[s].out \o Pending(s) = sent

(* A stream fails only by a write that did not write everything.           *)
FailedInv == \A s \in DOMAIN kinds : streams[s].failed => faults > 0

(* The last piece of a stdio stream may be the data after a gap.           *)
AlmostInv ==
  \A s \in DOMAIN kinds :
    kinds[s] = "stdio" /\ streams[s].out # <<>> =>
      IsPrefix(Front(streams[s].out), sent)

(* Only libc keeps data back.                                              *)
FiledInv ==
  \A s \in DOMAIN kinds :
    kinds[s] # "stdio" => streams[s].filed = Len(streams[s].out)

IInv ==
  TypeInv /\ PrefixInv /\ ExactInv /\ FailedInv /\ AlmostInv /\ FiledInv

-----------------------------------------------------------------------------
(* What do_flush does to a stream                                          *)

(* What has left the process stays in the file.                            *)
Kept(s, t) ==
  /\ s.filed <= t.filed
  /\ \A k \in 1 .. s.filed : t.out[k] = s.out[k]

(* One call of fwrite: everything is written, or the stream has an error.  *)
LEMMA FwriteFacts ==
  ASSUME NEW s \in Stream, NEW chunk \in Seq(Piece), NEW t \in Fwrite(s, chunk)
  PROVE  /\ t \in Stream /\ Kept(s, t)
         /\ IsPrefix(t.out, s.out \o chunk)
         /\ s.failed => t.failed
         /\ \/ t.out = s.out \o chunk /\ t.failed = s.failed
            \/ Len(t.out) < Len(s.out) + Len(chunk) /\ t.failed
<1> DEFINE all == s.out \o chunk
<1>1. /\ s.out \in Seq(Piece) /\ s.failed \in BOOLEAN /\ s.filed \in Nat
      /\ s.filed <= Len(s.out)
  BY DEF Stream
<1>2. /\ all \in Seq(Piece) /\ Len(all) = Len(s.out) + Len(chunk)
      /\ \A k \in 1 .. Len(s.out) : all[k] = s.out[k]
      /\ Len(s.out) \in Nat /\ Len(chunk) \in Nat
  BY <1>1, ConcatMeaning
<1>3. IsPrefix(all, all)
  BY <1>2, PrefixGrows
<1>4. CASE chunk = <<>>
  <2>1. t = s /\ all = s.out
    BY <1>1, <1>4 DEF Fwrite
  <2> QED
    BY <1>1, <1>3, <2>1 DEF Kept
<1> HIDE DEF all
<1>5. CASE chunk # <<>>
  <2>1. \/ \E n \in s.filed .. Len(all) :
             t = [s EXCEPT !.out = all, !.filed = n]
        \/ \E n \in s.filed .. Len(all) - 1 :
             t = [out |-> SubSeq(all, 1, n), filed |-> n, failed |-> TRUE]
    BY <1>5 DEF Fwrite, all
  <2>2. ASSUME NEW n \in s.filed .. Len(all),
               t = [s EXCEPT !.out = all, !.filed = n]
        PROVE  /\ t \in Stream /\ Kept(s, t) /\ t.out = all
               /\ t.failed = s.failed
    <3>0. s = [out |-> s.out, filed |-> s.filed, failed |-> s.failed]
      BY DEF Stream
    <3>1. /\ t = [out |-> all, filed |-> n, failed |-> s.failed]
          /\ n \in Nat /\ n <= Len(all) /\ s.filed <= n
      <4>1. n \in Nat /\ n <= Len(all) /\ s.filed <= n
        BY <1>1, <1>2
      <4> QED
        BY <2>2, <3>0, <4>1
    <3>2. t.out = all /\ t.filed = n /\ t.failed = s.failed
      BY <3>1
    <3>3. t \in Stream
      BY <1>1, <1>2, <3>1 DEF Stream
    <3>4. Kept(s, t)
      BY <1>1, <1>2, <3>1, <3>2 DEF Kept
    <3> QED
      BY <3>2, <3>3, <3>4
  <2>3. ASSUME NEW n \in s.filed .. Len(all) - 1,
               t = [out |-> SubSeq(all, 1, n), filed |-> n, failed |-> TRUE]
        PROVE  /\ t \in Stream /\ Kept(s, t) /\ IsPrefix(t.out, all)
               /\ t.failed /\ Len(t.out) < Len(all)
    <3>1. n \in 0 .. Len(all) /\ s.filed <= n /\ n < Len(all)
      BY <1>1, <1>2
    <3>2. /\ SubSeq(all, 1, n) \in Seq(Piece) /\ Len(SubSeq(all, 1, n)) = n
          /\ \A k \in 1 .. n : SubSeq(all, 1, n)[k] = all[k]
          /\ IsPrefix(SubSeq(all, 1, n), all)
      BY <1>2, <3>1, CutMeaning
    <3> DEFINE c == SubSeq(all, 1, n)
    <3> HIDE DEF c
    <3>3. t.out = c /\ t.filed = n /\ t.failed /\ t \in Stream
      BY <2>3, <3>1, <3>2 DEF Stream, c
    <3>4. Kept(s, t)
      BY <1>1, <1>2, <3>1, <3>2, <3>3 DEF Kept, c
    <3> QED
      BY <3>1, <3>2, <3>3, <3>4 DEF c
  <2>4. CASE \E n \in s.filed .. Len(all) :
               t = [s EXCEPT !.out = all, !.filed = n]
    BY <1>1, <1>3, <2>2, <2>4 DEF all
  <2>5. CASE \E n \in s.filed .. Len(all) - 1 :
               t = [out |-> SubSeq(all, 1, n), filed |-> n, failed |-> TRUE]
    BY <1>2, <2>3, <2>5 DEF all
  <2> QED
    BY <2>1, <2>4, <2>5
<1> QED
  BY <1>4, <1>5

(* One call of writev.                                                     *)
LEMMA WritevFacts ==
  ASSUME NEW s \in Stream, NEW chunk \in Seq(Piece), chunk # <<>>,
         NEW t \in Writev(s, chunk)
  PROVE  /\ t \in Stream /\ Kept(s, t)
         /\ IsPrefix(t.out, s.out \o chunk)
         /\ s.failed => t.failed
         /\ t.failed /\ ~s.failed => t.out = s.out
         /\ s.filed = Len(s.out) => t.filed = Len(t.out)
<1>1. /\ s.out \in Seq(Piece) /\ s.failed \in BOOLEAN /\ s.filed \in Nat
      /\ s.filed <= Len(s.out)
      /\ s = [out |-> s.out, filed |-> s.filed, failed |-> s.failed]
  BY DEF Stream
<1>2. \/ \E n \in 1 .. Len(chunk) :
           t = [s EXCEPT !.out = @ \o SubSeq(chunk, 1, n),
                         !.filed = Len(s.out) + n]
      \/ t = [s EXCEPT !.failed = TRUE]
  BY DEF Writev
<1>3. CASE t = [s EXCEPT !.failed = TRUE]
  <2>1. t.out = s.out /\ t.filed = s.filed /\ t.failed /\ t \in Stream
    BY <1>1, <1>3 DEF Stream
  <2>2. IsPrefix(s.out, s.out \o chunk)
    BY <1>1, PrefixGrows
  <2> QED
    BY <1>1, <2>1, <2>2 DEF Kept
<1>4. ASSUME NEW n \in 1 .. Len(chunk),
             t = [s EXCEPT !.out = @ \o SubSeq(chunk, 1, n),
                           !.filed = Len(s.out) + n]
      PROVE  /\ t \in Stream /\ Kept(s, t)
             /\ IsPrefix(t.out, s.out \o chunk)
             /\ t.failed = s.failed
             /\ t.filed = Len(t.out)
  <2> DEFINE c == SubSeq(chunk, 1, n)
  <2>1. Len(chunk) \in Nat /\ n \in 0 .. Len(chunk)
    OBVIOUS
  <2>2. c \in Seq(Piece)
    BY <2>1, CutMeaning
  <2>3. /\ s.out \o c \in Seq(Piece) /\ Len(s.out \o c) = Len(s.out) + n
        /\ IsPrefix(s.out \o c, s.out \o chunk)
    BY <1>1, <2>1, PartWritten
  <2> HIDE DEF c
  <2>4. t = [s EXCEPT !.out = @ \o c, !.filed = Len(s.out) + n]
    BY <1>4 DEF c
  <2>5. /\ t.out = s.out \o c /\ t.filed = Len(s.out) + n
        /\ t.failed = s.failed
        /\ t = [out |-> s.out \o c, filed |-> Len(s.out) + n,
                failed |-> s.failed]
    BY <1>1, <2>4
  <2>6. \A k \in 1 .. Len(s.out) : (s.out \o c)[k] = s.out[k]
    BY <1>1, <2>2, ConcatMeaning
  <2>7. Len(s.out) \in Nat /\ n \in Nat
    BY <1>1
  <2>8. t \in Stream
    BY <1>1, <2>3, <2>5, <2>7 DEF Stream
  <2>9. Kept(s, t)
    BY <1>1, <2>5, <2>6, <2>7 DEF Kept
  <2> QED
    BY <2>3, <2>5, <2>8, <2>9
<1> QED
  BY <1>2, <1>3, <1>4

(* Keeping what is in the file, twice.                                     *)
LEMMA KeptTwice ==
  ASSUME NEW s \in Stream, NEW u \in Stream, NEW t \in Stream,
         Kept(s, u), Kept(u, t)
  PROVE  Kept(s, t)
  BY DEF Kept, Stream

(* Two calls of fwrite, whose errors are looked at afterwards.             *)
LEMMA FwriteTwice ==
  ASSUME NEW s \in Stream, NEW held \in Seq(Piece), NEW new \in Seq(Piece),
         NEW u \in Fwrite(s, held), NEW t \in Fwrite(u, new)
  PROVE  /\ t \in Stream /\ Kept(s, t)
         /\ s.failed => t.failed
         /\ ~t.failed => t.out = s.out \o held \o new
         /\ t.failed /\ ~s.failed =>
              Len(t.out) < Len(s.out) + Len(held) + Len(new)
         /\ held = <<>> => IsPrefix(t.out, s.out \o new)
         /\ Len(new) <= 1 /\ t.out # <<>> =>
              IsPrefix(Front(t.out), s.out \o held \o new)
         /\ Len(t.out) <= Len(s.out) + Len(held) + Len(new)
<1>1. /\ u \in Stream /\ Kept(s, u)
      /\ IsPrefix(u.out, s.out \o held)
      /\ s.failed => u.failed
      /\ \/ u.out = s.out \o held /\ u.failed = s.failed
         \/ Len(u.out) < Len(s.out) + Len(held) /\ u.failed
  BY FwriteFacts
<1>2. /\ t \in Stream /\ Kept(u, t)
      /\ IsPrefix(t.out, u.out \o new)
      /\ u.failed => t.failed
      /\ \/ t.out = u.out \o new /\ t.failed = u.failed
         \/ Len(t.out) < Len(u.out) + Len(new) /\ t.failed
  BY <1>1, FwriteFacts
<1>3. /\ s.out \in Seq(Piece) /\ u.out \in Seq(Piece) /\ t.out \in Seq(Piece)
      /\ s.failed \in BOOLEAN /\ u.failed \in BOOLEAN /\ t.failed \in BOOLEAN
  BY <1>1, <1>2 DEF Stream
<1> DEFINE sh == s.out \o held
           whole == sh \o new
<1>4. /\ sh \in Seq(Piece) /\ Len(sh) = Len(s.out) + Len(held)
      /\ Len(s.out) \in Nat /\ Len(held) \in Nat /\ Len(new) \in Nat
      /\ Len(u.out) \in Nat /\ Len(t.out) \in Nat
  BY <1>3
<1> HIDE DEF sh
<1>5. /\ whole \in Seq(Piece) /\ Len(whole) = Len(sh) + Len(new)
      /\ \A k \in 1 .. Len(sh) : whole[k] = sh[k]
  <2>1. sh \in Seq(Piece)
    BY <1>4
  <2> QED
    BY <2>1, ConcatMeaning
<1>6. /\ u.out \o new \in Seq(Piece)
      /\ Len(u.out \o new) = Len(u.out) + Len(new)
      /\ \A k \in 1 .. Len(u.out) : (u.out \o new)[k] = u.out[k]
  BY <1>3, ConcatMeaning
<1>7. Len(u.out) <= Len(sh) /\ \A k \in 1 .. Len(u.out) : u.out[k] = sh[k]
  BY <1>1, <1>3, <1>4, PrefixMeaning DEF sh
<1>8. /\ Len(t.out) <= Len(u.out \o new)
      /\ \A k \in 1 .. Len(t.out) : t.out[k] = (u.out \o new)[k]
  BY <1>2, <1>3, <1>6, PrefixMeaning
<1>9. Kept(s, t)
  BY <1>1, <1>2, KeptTwice
<1>10. ~t.failed => t.out = whole
  BY <1>1, <1>2, <1>3 DEF sh
<1>11. ASSUME t.failed, ~s.failed
       PROVE  Len(t.out) < Len(s.out) + Len(held) + Len(new)
  <2>1. Len(u.out) <= Len(s.out) + Len(held)
    BY <1>4, <1>7
  <2>2. CASE Len(t.out) < Len(u.out) + Len(new)
    BY <1>4, <2>1, <2>2
  <2>3. CASE t.out = u.out \o new /\ t.failed = u.failed
    <3>1. Len(u.out) < Len(s.out) + Len(held)
      BY <1>1, <1>11, <2>3
    <3>2. Len(t.out) = Len(u.out) + Len(new)
      BY <1>6, <2>3
    <3> QED
      BY <1>4, <3>1, <3>2
  <2> QED
    BY <1>2, <2>2, <2>3
<1>12. ASSUME held = <<>> PROVE IsPrefix(t.out, s.out \o new)
  <2>1. u = s
    BY <1>12 DEF Fwrite
  <2> QED
    BY <1>2, <2>1
<1>13. ASSUME Len(new) <= 1, t.out # <<>>
       PROVE  IsPrefix(Front(t.out), whole)
  <2>1. Len(t.out) - 1 <= Len(u.out)
    BY <1>4, <1>6, <1>8, <1>13
  <2>2. Len(t.out) - 1 <= Len(whole)
    BY <1>4, <1>5, <1>7, <2>1
  <2>3. ASSUME NEW k \in 1 .. Len(t.out) - 1 PROVE t.out[k] = whole[k]
    <3>1. k \in 1 .. Len(t.out) /\ k \in 1 .. Len(u.out) /\ k \in 1 .. Len(sh)
      BY <1>4, <1>7, <2>1
    <3> QED
      BY <1>5, <1>6, <1>7, <1>8, <3>1
  <2> HIDE DEF whole
  <2> QED
    BY <1>3, <1>5, <1>13, <2>2, <2>3, FrontMeaning
<1>14. Len(t.out) <= Len(s.out) + Len(held) + Len(new)
  BY <1>4, <1>6, <1>7, <1>8
<1> QED
  BY <1>1, <1>2, <1>9, <1>10, <1>11, <1>12, <1>13, <1>14 DEF sh

(* do_flush of a stream, with what its buffer holds and new data.          *)
LEMMA WrittenFacts ==
  ASSUME NEW s \in Stream, NEW kind \in Kinds,
         NEW held \in Seq(Piece), NEW new \in Seq(Piece),
         NEW t \in Written(s, kind, held, new)
  PROVE  /\ t \in Stream /\ Kept(s, t)
         /\ s.failed => t.failed
         /\ s.failed /\ kind # "file" => t = s
         /\ kind = "stdio" /\ ~t.failed => t.out = s.out \o held \o new
         /\ kind = "fd" /\ t.failed => t.out = s.out
         /\ t.failed /\ ~s.failed =>
              Len(t.out) < Len(s.out) + Len(held) + Len(new)
         /\ ~s.failed /\ kind = "stdio" /\ held = <<>> =>
              IsPrefix(t.out, s.out \o new)
         /\ ~s.failed /\ kind = "stdio" /\ Len(new) <= 1 /\ t.out # <<>> =>
              IsPrefix(Front(t.out), s.out \o held \o new)
         /\ kind # "stdio" => IsPrefix(t.out, s.out \o held \o new)
         /\ kind # "stdio" /\ s.filed = Len(s.out) => t.filed = Len(t.out)
         /\ Len(t.out) <= Len(s.out) + Len(held) + Len(new)
<1>1. /\ s.out \in Seq(Piece) /\ s.failed \in BOOLEAN /\ s.filed \in Nat
  BY DEF Stream
<1> DEFINE chunk == held \o new
           whole == s.out \o held \o new
<1>2. /\ chunk \in Seq(Piece) /\ Len(chunk) = Len(held) + Len(new)
      /\ Len(held) \in Nat /\ Len(new) \in Nat /\ Len(s.out) \in Nat
  BY <1>1, ConcatMeaning
<1>3. whole = s.out \o chunk
  <2>1. \A a, b, c \in Seq(Piece) : (a \o b) \o c = a \o (b \o c)
    BY ConcatAssociative
  <2> QED
    BY <1>1, <2>1, Zenon
<1>4. whole \in Seq(Piece) /\ Len(whole) = Len(s.out) + Len(chunk)
  BY <1>1, <1>2, <1>3, ConcatMeaning
<1>5. Kept(s, s) /\ Len(s.out) <= Len(s.out) + Len(held) + Len(new)
  BY <1>1, <1>2 DEF Kept, Stream
<1>6. t \in IF chunk = <<>> \/ (s.failed /\ kind # "file") THEN {s}
            ELSE IF kind = "stdio"
                 THEN UNION {Fwrite(u, new) : u \in Fwrite(s, held)}
                 ELSE Writev(s, chunk)
  BY DEF Written, StopsWhenFailed
<1>7. CASE s.failed /\ kind # "file"
  <2>1. t = s
    BY <1>6, <1>7
  <2>2. IsPrefix(s.out, whole)
    BY <1>1, <1>2, <1>3, PrefixGrows
  <2> HIDE DEF chunk, whole
  <2>3. t \in Stream /\ t.failed
    BY <1>7, <2>1
  <2>4. kind # "stdio" => IsPrefix(t.out, s.out \o held \o new)
    BY <2>1, <2>2 DEF whole
  <2> QED
    BY <1>5, <1>7, <2>1, <2>3, <2>4
<1>8. CASE chunk = <<>> /\ ~(s.failed /\ kind # "file")
  <2>1. t = s
    BY <1>6, <1>8
  <2>2. Len(held) = 0 /\ Len(new) = 0
    BY <1>2, <1>8
  <2>3. held = <<>> /\ new = <<>>
    BY <2>2, EmptySeq
  <2>4. whole = s.out /\ s.out \o new = s.out
    BY <1>1, <2>3
  <2>5. /\ IsPrefix(s.out, s.out)
        /\ s.out # <<>> => IsPrefix(Front(s.out), s.out)
    <3>1. IsPrefix(s.out, s.out)
      BY <1>1, PrefixGrows
    <3>2. ASSUME s.out # <<>> PROVE IsPrefix(Front(s.out), s.out)
      <4>1. Len(s.out) - 1 <= Len(s.out)
        BY <1>2
      <4> QED
        BY <1>1, <3>2, <4>1, FrontMeaning
    <3> QED
      BY <3>1, <3>2
  <2> HIDE DEF chunk, whole
  <2>6. kind = "stdio" /\ s.failed => t = s
    BY <2>1
  <2> QED
    BY <1>5, <2>1, <2>4, <2>5 DEF whole
<1>9. CASE chunk # <<>> /\ kind = "stdio" /\ ~s.failed
  <2>1. PICK u \in Fwrite(s, held) : t \in Fwrite(u, new)
    BY <1>6, <1>9
  <2> QED
    BY <1>9, <2>1, FwriteTwice
<1>10. CASE chunk # <<>> /\ kind # "stdio" /\ ~(s.failed /\ kind # "file")
  <2>1. t \in Writev(s, chunk)
    BY <1>6, <1>10
  <2> HIDE DEF chunk
  <2>2. /\ t \in Stream /\ Kept(s, t)
        /\ IsPrefix(t.out, s.out \o chunk)
        /\ s.failed => t.failed
        /\ t.failed /\ ~s.failed => t.out = s.out
        /\ s.filed = Len(s.out) => t.filed = Len(t.out)
    BY <1>2, <1>10, <2>1, WritevFacts
  <2>3. Len(chunk) > 0
    BY <1>2, <1>10, EmptySeq
  <2>4. t.failed /\ ~s.failed =>
          Len(t.out) < Len(s.out) + Len(held) + Len(new)
    BY <1>2, <2>2, <2>3
  <2> HIDE DEF whole
  <2>5. IsPrefix(t.out, s.out \o held \o new)
    BY <1>3, <2>2 DEF whole
  <2>6. Len(t.out) <= Len(whole)
    BY <2>5 DEF IsPrefix, whole
  <2>7. Len(whole) = Len(s.out) + Len(held) + Len(new)
    <3>1. \A a, b, c \in Nat : a + (b + c) = a + b + c
      OBVIOUS
    <3>2. Len(whole) = Len(s.out) + (Len(held) + Len(new))
      BY <1>2, <1>4
    <3> QED
      BY <1>2, <3>1, <3>2
  <2> QED
    BY <1>10, <2>2, <2>4, <2>5, <2>6, <2>7
<1> QED
  BY <1>1, <1>7, <1>8, <1>9, <1>10

(* The flush of a stream, with the buffer and the new data.                *)
LEMMA FlushedFacts ==
  ASSUME TypeInv, NEW s \in Stream, NEW kind \in Kinds,
         NEW t \in FlushedTo(s, kind)
  PROVE  /\ t \in Stream /\ Kept(s, t)
         /\ s.failed => t.failed
         /\ s.failed /\ kind # "file" => t = s
         /\ ~s.failed /\ ((kind = "stdio" /\ Tee)
                            \/ (kind = "fd" /\ t.failed)) =>
              IsPrefix(t.out, s.out \o buf \o data)
         /\ ~s.failed /\ kind = "stdio" /\ t.out # <<>> =>
              IsPrefix(Front(t.out), s.out \o buf \o data)
         /\ kind = "stdio" /\ ~t.failed => t.out = s.out \o buf \o data
         /\ t.failed /\ ~s.failed => t.out # s.out \o buf \o data
         /\ kind # "stdio" /\ s.filed = Len(s.out) => t.filed = Len(t.out)
<1>1. /\ s.out \in Seq(Piece) /\ buf \in Seq(Piece) /\ data \in Seq(Piece)
      /\ Len(data) <= 1 /\ <<>> \in Seq(Piece)
  BY DEF Stream, TypeInv
<1> DEFINE whole == s.out \o buf \o data
<1>2. /\ s.out \o buf \in Seq(Piece) /\ whole \in Seq(Piece)
      /\ Len(whole) = Len(s.out) + Len(buf) + Len(data)
      /\ Len(s.out) \in Nat /\ Len(buf) \in Nat /\ Len(data) \in Nat
  <2>1. s.out \o buf \in Seq(Piece) /\ Len(s.out \o buf) = Len(s.out) + Len(buf)
    BY <1>1
  <2> QED
    BY <1>1, <2>1
<1>3. CASE ~Tee
  <2>1. t \in Written(s, kind, buf, data)
    BY <1>3 DEF FlushedTo
  <2>2. /\ t \in Stream /\ Kept(s, t)
        /\ s.failed => t.failed
        /\ s.failed /\ kind # "file" => t = s
        /\ kind = "stdio" /\ ~t.failed => t.out = whole
        /\ kind = "fd" /\ t.failed => t.out = s.out
        /\ t.failed /\ ~s.failed =>
             Len(t.out) < Len(s.out) + Len(buf) + Len(data)
        /\ ~s.failed /\ kind = "stdio" /\ Len(data) <= 1 /\ t.out # <<>> =>
             IsPrefix(Front(t.out), whole)
        /\ kind # "stdio" => IsPrefix(t.out, whole)
        /\ kind # "stdio" /\ s.filed = Len(s.out) => t.filed = Len(t.out)
    BY <1>1, <2>1, WrittenFacts
  <2>3. t.failed /\ ~s.failed => t.out # whole
    <3>1. Len(t.out) \in Nat
      BY <2>2 DEF Stream
    <3> HIDE DEF whole
    <3> QED
      BY <1>2, <2>2, <3>1
  <2> HIDE DEF whole
  <2> QED
    BY <1>1, <1>3, <2>2, <2>3 DEF whole
<1>4. CASE Tee
  <2> DEFINE e == <<>>
  <2>0. PICK u \in Written(s, kind, e, buf) : t \in Written(u, kind, e, data)
    BY <1>4 DEF FlushedTo
  <2>1. /\ e \in Seq(Piece) /\ e = <<>> /\ Len(e) = 0
        /\ \A a \in Seq(Piece) : a \o e = a
    OBVIOUS
  <2> HIDE DEF e
  <2>2. /\ u \in Stream /\ Kept(s, u)
        /\ s.failed => u.failed
        /\ s.failed /\ kind # "file" => u = s
        /\ kind = "stdio" /\ ~u.failed => u.out = s.out \o buf
        /\ kind = "fd" /\ u.failed => u.out = s.out
        /\ u.failed /\ ~s.failed => Len(u.out) < Len(s.out) + Len(buf)
        /\ ~s.failed /\ kind = "stdio" => IsPrefix(u.out, s.out \o buf)
        /\ kind # "stdio" => IsPrefix(u.out, s.out \o buf)
        /\ kind # "stdio" /\ s.filed = Len(s.out) => u.filed = Len(u.out)
    <3>1. /\ u \in Stream /\ Kept(s, u)
          /\ s.failed => u.failed
          /\ s.failed /\ kind # "file" => u = s
          /\ kind = "stdio" /\ ~u.failed => u.out = s.out \o e \o buf
          /\ kind = "fd" /\ u.failed => u.out = s.out
          /\ u.failed /\ ~s.failed =>
               Len(u.out) < Len(s.out) + Len(e) + Len(buf)
          /\ ~s.failed /\ kind = "stdio" /\ e = <<>> =>
               IsPrefix(u.out, s.out \o buf)
          /\ kind # "stdio" => IsPrefix(u.out, s.out \o e \o buf)
          /\ kind # "stdio" /\ s.filed = Len(s.out) => u.filed = Len(u.out)
      <4>1. e \in Seq(Piece) /\ buf \in Seq(Piece)
        BY <1>1, <2>1
      <4> QED
        BY <2>0, <4>1, WrittenFacts
    <3>2. /\ s.out \o e = s.out
          /\ Len(s.out) + Len(e) + Len(buf) = Len(s.out) + Len(buf)
      BY <1>1, <1>2, <2>1
    <3> QED
      BY <2>1, <3>1, <3>2
  <2>3. /\ t \in Stream /\ Kept(u, t)
        /\ u.failed => t.failed
        /\ u.failed /\ kind # "file" => t = u
        /\ kind = "stdio" /\ ~t.failed => t.out = u.out \o data
        /\ kind = "fd" /\ t.failed => t.out = u.out
        /\ t.failed /\ ~u.failed => Len(t.out) < Len(u.out) + Len(data)
        /\ ~u.failed /\ kind = "stdio" => IsPrefix(t.out, u.out \o data)
        /\ kind # "stdio" => IsPrefix(t.out, u.out \o data)
        /\ kind # "stdio" /\ u.filed = Len(u.out) => t.filed = Len(t.out)
    <3>1. /\ t \in Stream /\ Kept(u, t)
          /\ u.failed => t.failed
          /\ u.failed /\ kind # "file" => t = u
          /\ kind = "stdio" /\ ~t.failed => t.out = u.out \o e \o data
          /\ kind = "fd" /\ t.failed => t.out = u.out
          /\ t.failed /\ ~u.failed =>
               Len(t.out) < Len(u.out) + Len(e) + Len(data)
          /\ ~u.failed /\ kind = "stdio" /\ e = <<>> =>
               IsPrefix(t.out, u.out \o data)
          /\ kind # "stdio" => IsPrefix(t.out, u.out \o e \o data)
          /\ kind # "stdio" /\ u.filed = Len(u.out) => t.filed = Len(t.out)
      <4>1. e \in Seq(Piece) /\ data \in Seq(Piece) /\ u \in Stream
        BY <1>1, <2>1, <2>2
      <4> QED
        BY <2>0, <4>1, WrittenFacts
    <3>2. /\ u.out \o e = u.out
          /\ Len(u.out) + Len(e) + Len(data) = Len(u.out) + Len(data)
      BY <1>2, <2>1, <2>2 DEF Stream
    <3> QED
      BY <2>1, <3>1, <3>2
  <2>4. /\ u.out \in Seq(Piece) /\ t.out \in Seq(Piece)
        /\ u.failed \in BOOLEAN /\ t.failed \in BOOLEAN
        /\ s.failed \in BOOLEAN
    BY <2>2, <2>3 DEF Stream
  <2>5. ASSUME ~s.failed
        PROVE  /\ Len(u.out) <= Len(s.out) + Len(buf)
               /\ IsPrefix(u.out, whole)
    <3>1. IsPrefix(u.out, s.out \o buf)
      BY <2>2, <2>5
    <3>2. Len(u.out) <= Len(s.out \o buf)
      BY <3>1 DEF IsPrefix
    <3>3. IsPrefix(u.out, whole)
      BY <1>1, <1>2, <2>4, <3>1, PrefixGrows
    <3> QED
      BY <1>1, <3>2, <3>3
  <2>6. Len(u.out) \in Nat /\ Len(t.out) \in Nat
    BY <2>4
  <2>7. kind = "stdio" /\ ~t.failed => t.out = whole
    BY <2>2, <2>3, <2>4
  <2>8. ASSUME t.failed, ~s.failed PROVE t.out # whole
    <3>1. CASE ~u.failed
      <4>1. Len(t.out) < Len(u.out) + Len(data)
        BY <2>3, <2>8, <3>1
      <4> HIDE DEF whole
      <4> QED
        BY <1>2, <2>5, <2>6, <2>8, <4>1
    <3>2. CASE u.failed
      <4>1. Len(u.out) < Len(s.out) + Len(buf)
        BY <2>2, <2>8, <3>2
      <4>2. Len(t.out) <= Len(u.out) + Len(data)
        <5>1. CASE t = u
          BY <1>2, <2>6, <5>1
        <5>2. CASE t # u
          <6>1. IsPrefix(t.out, u.out \o data)
            BY <2>3, <3>2, <5>2
          <6>2. Len(t.out) <= Len(u.out \o data)
            BY <6>1 DEF IsPrefix
          <6> QED
            BY <1>1, <2>4, <6>2
        <5> QED
          BY <5>1, <5>2
      <4> HIDE DEF whole
      <4> QED
        BY <1>2, <2>6, <4>1, <4>2
    <3> QED
      BY <3>1, <3>2
  <2>9. ASSUME ~s.failed, kind = "stdio" PROVE IsPrefix(t.out, whole)
    <3>1. CASE u.failed
      BY <2>3, <2>5, <2>9, <3>1
    <3>2. CASE ~u.failed
      BY <2>2, <2>3, <2>9, <3>2
    <3> QED
      BY <3>1, <3>2
  <2>10. ASSUME ~s.failed, kind = "fd", t.failed
         PROVE  IsPrefix(t.out, whole)
    BY <2>3, <2>5, <2>10
  <2>11. ASSUME ~s.failed, kind = "stdio", t.out # <<>>
         PROVE  IsPrefix(Front(t.out), whole)
    <3>0. IsPrefix(t.out, whole)
      BY <2>9, <2>11
    <3> HIDE DEF whole
    <3>1. /\ Len(t.out) <= Len(whole)
          /\ \A k \in 1 .. Len(t.out) : t.out[k] = whole[k]
      BY <1>2, <2>4, <3>0, PrefixMeaning
    <3>2. /\ Len(t.out) - 1 <= Len(whole)
          /\ \A k \in 1 .. Len(t.out) - 1 : t.out[k] = whole[k]
      BY <1>2, <2>6, <3>1
    <3> QED
      BY <1>2, <2>4, <2>11, <3>2, FrontMeaning
  <2>12. Kept(s, t)
    BY <2>2, <2>3, KeptTwice
  <2>13. s.failed => t.failed
    BY <2>2, <2>3
  <2>14. s.failed /\ kind # "file" => t = s
    BY <2>2, <2>3
  <2>15. kind # "stdio" /\ s.filed = Len(s.out) => t.filed = Len(t.out)
    BY <2>2, <2>3
  <2> HIDE DEF whole
  <2>16. t \in Stream
    BY <2>3
  <2> QED
    BY <2>7, <2>8, <2>9, <2>10, <2>11, <2>12, <2>13, <2>14, <2>15, <2>16
    DEF whole
<1> QED
  BY <1>3, <1>4

-----------------------------------------------------------------------------
(* Every step keeps the invariant                                          *)

(* A step that neither pushes nor flushes.                                 *)
LEMMA QuietStep ==
  ASSUME IInv, UNCHANGED <<kinds, streams, buf, flushVars, sent, faults>>,
         epc' = epc \/ (epc # "write" /\ epc' # "write")
  PROVE  PrefixInv' /\ ExactInv' /\ FailedInv' /\ AlmostInv' /\ FiledInv'
<1>1. FlushFails' = FlushFails
  BY DEF FlushFails, Tee
<1>2. \A s \in DOMAIN kinds : Unbroken(s)' = Unbroken(s)
  BY DEF Unbroken, Tee
<1>3. \A s \in DOMAIN kinds : Pending(s)' = Pending(s)
  BY DEF Pending, flushVars
<1> QED
  BY <1>1, <1>2, <1>3
  DEF IInv, PrefixInv, ExactInv, FailedInv, AlmostInv, FiledInv

(* The invariant holds initially.                                          *)
LEMMA IInvInit == Init => IInv
<1> SUFFICES ASSUME Init PROVE IInv
  OBVIOUS
<1> USE DEF Init, LogInit
<1>1. head \in Index /\ tail \in Index /\ it \in Index
  BY SlotsAssumption DEF Index, Inc
<1>2. slot \in [Index -> [id: Nat, ts: Nat, special: BOOLEAN]]
  BY DEF NoRecord, Index
<1>3. kinds \in Seq(Kinds) /\ kinds # <<>>
  BY OutputsAssumption
<1>4. buf = <<>> /\ data = <<>> /\ sent = <<>> /\ Len(buf) <= BufCap
      /\ Len(data) <= 1
  BY BoundsAssumption
<1>5. /\ buf \in Seq(Piece) /\ data \in Seq(Piece) /\ sent \in Seq(Piece)
  BY <1>4
<1>6. streams \in [DOMAIN kinds -> Stream]
  <2>1. [out |-> <<>>, filed |-> 0, failed |-> FALSE] \in Stream
    BY DEF Stream
  <2> QED
    BY <2>1
<1>7. \A s \in DOMAIN kinds :
        /\ streams[s].out = <<>> /\ ~streams[s].failed
        /\ streams[s].filed = Len(streams[s].out)
  OBVIOUS
<1>8. TypeInv
  BY <1>1, <1>2, <1>3, <1>4, <1>5, <1>6 DEF TypeInv
<1>9. PrefixInv
  BY <1>4, <1>5, <1>7, PrefixGrows DEF PrefixInv
<1>10. ExactInv
  <2>1. epc # "write" /\ <<>> \o <<>> = <<>>
    OBVIOUS
  <2> QED
    BY <1>4, <1>7, <2>1 DEF ExactInv, Pending
<1> QED
  BY <1>7, <1>8, <1>9, <1>10 DEF IInv, FailedInv, AlmostInv, FiledInv

(* Posting, the iterator, the commit, a crash and the recovery leave the   *)
(* log alone.                                                              *)
LEMMA RingStep ==
  ASSUME IInv,
         \/ \E tick \in 0 .. 1 : Post(tick)
         \/ PostFlush \/ BeginPass \/ NextRecord \/ Commit \/ Crash
         \/ \E all \in BOOLEAN : Recover(all)
  PROVE  IInv'
<1> USE DEF ringVars, engineVars, flushVars
<1>0. TypeInv
  BY DEF IInv
<1>1. /\ UNCHANGED <<kinds, streams, buf, flushVars, sent, faults>>
      /\ epc' = epc \/ (epc # "write" /\ epc' # "write")
  BY DEF Post, PostFlush, BeginPass, NextRecord, Commit, Crash, Recover,
         ReadyForNext
<1>2. PrefixInv' /\ ExactInv' /\ FailedInv' /\ AlmostInv' /\ FiledInv'
  BY <1>1, QuietStep
<1>3. \A i \in Index : Inc(i) \in Index
  BY SlotsAssumption DEF Inc, Index
<1>4. /\ slot' \in [Index -> [id: Nat, ts: Nat, special: BOOLEAN]]
      /\ tail' \in Index /\ posted' \in Nat
  <2>1. CASE UNCHANGED <<slot, tail, posted>>
    BY <1>0, <2>1 DEF TypeInv
  <2>2. LastTs \in Nat
    <3>1. (tail + Slots - 1) % Slots \in Index
      BY <1>0, SlotsAssumption DEF TypeInv, Index
    <3> QED
      BY <1>0, <3>1 DEF LastTs, TypeInv
  <2>3. ASSUME NEW tick \in 0 .. 1, Post(tick)
        PROVE  /\ slot' \in [Index -> [id: Nat, ts: Nat, special: BOOLEAN]]
               /\ tail' \in Index /\ posted' \in Nat
    <3>1. posted' \in Nat /\ LastTs + tick \in Nat
      BY <1>0, <2>2, <2>3 DEF Post, TypeInv
    <3>2. \/ UNCHANGED <<slot, tail>>
          \/ /\ slot' = [slot EXCEPT ![tail] =
                           [id |-> posted', ts |-> LastTs + tick,
                            special |-> FALSE]]
             /\ tail' = Inc(tail)
      BY <2>3 DEF Post
    <3>3. [id |-> posted', ts |-> LastTs + tick, special |-> FALSE]
            \in [id: Nat, ts: Nat, special: BOOLEAN]
      BY <3>1
    <3> HIDE <2>3
    <3> QED
      BY <1>0, <1>3, <3>1, <3>2, <3>3 DEF TypeInv
  <2>4. CASE PostFlush
    <3>1. posted' \in Nat
      BY <1>0, <2>4 DEF PostFlush, TypeInv
    <3>2. /\ slot' = [slot EXCEPT ![tail] =
                        [id |-> posted', ts |-> LastTs, special |-> TRUE]]
          /\ tail' = Inc(tail)
      BY <2>4 DEF PostFlush
    <3> QED
      BY <1>0, <1>3, <2>2, <3>1, <3>2 DEF TypeInv
  <2> QED
    BY <2>1, <2>3, <2>4
    DEF BeginPass, NextRecord, Commit, Crash, Recover
<1>5. head' \in Index /\ it' \in Index /\ piece' \in Nat
  BY <1>0, <1>3, SMTT(30)
  DEF TypeInv, Post, PostFlush, BeginPass, NextRecord, Commit, Crash, Recover
<1>6. TypeInv'
  BY <1>0, <1>1, <1>4, <1>5 DEF TypeInv
<1> QED
  BY <1>2, <1>6 DEF IInv

(* A piece is pushed: into the buffer, or past a full one to the streams,  *)
(* or nowhere once do_flush gives up.                                      *)
LEMMA PushStep ==
  ASSUME IInv, PushBack
  PROVE  IInv'
<1> USE DEF ringVars, engineVars, flushVars
<1>0. /\ TypeInv /\ PrefixInv /\ ExactInv /\ FailedInv
      /\ AlmostInv /\ FiledInv
  BY DEF IInv
<1> DEFINE p == [id |-> slot[it].id, k |-> piece + 1]
<1>1. p \in Piece
  BY <1>0 DEF TypeInv, Piece
<1>2. /\ epc = "push" /\ piece' = piece + 1 /\ sent' = Append(sent, p)
      /\ UNCHANGED <<ringVars, acked, it, itTail, kinds, streams, faults>>
  BY DEF PushBack
<1>3. \/ /\ Fits /\ buf' = Append(buf, p)
         /\ UNCHANGED <<epc, data, target, back>>
      \/ /\ FlushFails /\ epc' = "push"
         /\ UNCHANGED <<buf, data, target, back>>
      \/ /\ epc' = "write" /\ data' = <<p>> /\ target' = 1
         /\ back' = "push" /\ UNCHANGED buf /\ ~FlushFails
  <2>1. CASE Fits
    BY <2>1 DEF PushBack
  <2>2. CASE ~Fits
    <3>1. DoFlush(<<p>>, "push") /\ UNCHANGED buf
      BY <2>2 DEF PushBack
    <3>2. <<p>> # <<>>
      OBVIOUS
    <3> QED
      BY <3>1, <3>2 DEF DoFlush
  <2> QED
    BY <2>1, <2>2
<1> HIDE DEF p
<1>4. /\ buf \in Seq(Piece) /\ sent \in Seq(Piece) /\ Len(buf) \in Nat
      /\ sent' \in Seq(Piece) /\ sent' = sent \o <<p>> /\ <<p>> \in Seq(Piece)
      /\ Append(buf, p) \in Seq(Piece) /\ Len(Append(buf, p)) = Len(buf) + 1
  <2>1. buf \in Seq(Piece) /\ sent \in Seq(Piece)
    BY <1>0 DEF TypeInv
  <2>2. Append(sent, p) = sent \o <<p>>
    BY <1>1, <2>1, AppendIsConcat
  <2> QED
    BY <1>1, <1>2, <2>1, <2>2
<1>5. TypeInv'
  <2>1. BufCap \in Nat
    BY BoundsAssumption
  <2>2. /\ data \in Seq(Piece) /\ Len(data) <= 1
        /\ Len(buf) <= BufCap /\ piece \in Nat
        /\ target \in Nat /\ target # 0 /\ back \in {"push", "idle"}
    BY <1>0 DEF TypeInv
  <2>3. buf' \in Seq(Piece) /\ data' \in Seq(Piece) /\ Len(data') <= 1
    <3>1. Len(<<p>>) <= 1
      OBVIOUS
    <3>2. data' = data \/ data' = <<p>>
      BY <1>3
    <3>3. buf' = buf \/ buf' = Append(buf, p)
      BY <1>3
    <3> QED
      BY <1>4, <2>2, <3>1, <3>2, <3>3
  <2>4. Len(buf') <= BufCap
    BY <1>3, <1>4, <2>1, <2>2 DEF Fits
  <2>5. /\ target' \in Nat /\ target' # 0 /\ back' \in {"push", "idle"}
        /\ piece' \in Nat
    BY <1>2, <1>3, <2>2
  <2> QED
    BY <1>0, <1>2, <1>4, <2>3, <2>4, <2>5 DEF TypeInv
<1>6. /\ \A s \in DOMAIN kinds : Unbroken(s)' = Unbroken(s)
      /\ FlushFails' = FlushFails
  BY <1>2 DEF Unbroken, FlushFails, Tee
<1>7. \A s \in DOMAIN kinds : streams[s].out \in Seq(Piece)
  BY <1>0 DEF TypeInv, Stream
<1>8. PrefixInv'
  <2> SUFFICES ASSUME NEW s \in DOMAIN kinds, Unbroken(s)
               PROVE  IsPrefix(streams[s].out, sent \o <<p>>)
    BY <1>2, <1>4, <1>6 DEF PrefixInv
  <2>1. IsPrefix(streams[s].out, sent)
    BY <1>0 DEF PrefixInv
  <2> QED
    BY <1>4, <1>7, <2>1, PrefixGrows
<1>9. ExactInv'
  <2> SUFFICES ASSUME NEW s \in DOMAIN kinds, Unbroken(s), ~streams[s].failed,
                      epc' = "write" \/ ~FlushFails
               PROVE  streams[s].out \o Pending(s)' = Append(sent, p)
    BY <1>2, <1>6 DEF ExactInv
  <2>1. ~FlushFails /\ ~(FlushFails /\ epc' = "push")
    BY <1>2, <1>3
  <2>2. streams[s].out \o buf = sent
    BY <1>0, <1>2, <2>1 DEF ExactInv, Pending
  <2>3. /\ streams[s].out \o Append(buf, p) = Append(sent, p)
        /\ streams[s].out \o (buf \o <<p>>) = Append(sent, p)
    <3>1. \A a, b \in Seq(Piece) :
            /\ a \o Append(b, p) = Append(a \o b, p)
            /\ a \o (b \o <<p>>) = Append(a \o b, p)
      BY <1>1, AppendWritten
    <3>2. /\ streams[s].out \o Append(buf, p) = Append(streams[s].out \o buf, p)
          /\ streams[s].out \o (buf \o <<p>>) = Append(streams[s].out \o buf, p)
      BY <1>4, <1>7, <3>1, Zenon
    <3> QED
      BY <2>2, <3>2
  <2>4. s \in Nat /\ ~(s < 1)
    BY <1>0 DEF TypeInv
  <2>5. Pending(s)' = Append(buf, p) \/ Pending(s)' = buf \o <<p>>
    BY <1>2, <1>3, <2>1, <2>4 DEF Pending
  <2> QED
    BY <2>3, <2>5
<1>10. FailedInv' /\ FiledInv'
  BY <1>0, <1>2 DEF FailedInv, FiledInv
<1>11. AlmostInv'
  <2> SUFFICES ASSUME NEW s \in DOMAIN kinds, kinds[s] = "stdio",
                      streams[s].out # <<>>
               PROVE  IsPrefix(Front(streams[s].out), sent \o <<p>>)
    BY <1>2, <1>4 DEF AlmostInv
  <2>1. IsPrefix(Front(streams[s].out), sent)
    BY <1>0 DEF AlmostInv
  <2>2. Front(streams[s].out) \in Seq(Piece)
    BY <1>7, FrontType
  <2> QED
    BY <1>4, <2>1, <2>2, PrefixGrows
<1> QED
  BY <1>5, <1>8, <1>9, <1>10, <1>11 DEF IInv

(* The end of a pass starts a flush of what is in the buffer, if any.      *)
LEMMA EndPassStep ==
  ASSUME IInv, EndPass
  PROVE  IInv'
<1> USE DEF ringVars, engineVars, flushVars
<1>0. /\ TypeInv /\ PrefixInv /\ ExactInv /\ FailedInv
      /\ AlmostInv /\ FiledInv
  BY DEF IInv
<1>1. /\ epc = "flush"
      /\ UNCHANGED <<ringVars, engineVars, kinds, streams, buf, sent, faults>>
      /\ \/ epc' = "idle" /\ UNCHANGED <<data, target, back>>
         \/ /\ epc' = "write" /\ data' = <<>> /\ target' = 1
            /\ back' = "idle" /\ ~FlushFails
  BY DEF EndPass, OutputFlush, DoFlush
<1>2. /\ data' \in Seq(Piece) /\ Len(data') <= 1
      /\ target' \in Nat /\ target' # 0
      /\ back' \in {"push", "idle"}
  <2>1. /\ data \in Seq(Piece) /\ <<>> \in Seq(Piece)
        /\ Len(data) <= 1 /\ Len(<<>>) <= 1
        /\ target \in Nat /\ target # 0 /\ back \in {"push", "idle"}
    BY <1>0 DEF TypeInv
  <2>2. CASE UNCHANGED <<data, target, back>>
    BY <2>1, <2>2
  <2>3. CASE data' = <<>> /\ target' = 1 /\ back' = "idle"
    BY <2>1, <2>3
  <2> QED
    BY <1>1, <2>2, <2>3
<1>3. TypeInv'
  BY <1>0, <1>1, <1>2 DEF TypeInv
<1>4. /\ \A s \in DOMAIN kinds : Unbroken(s)' = Unbroken(s)
      /\ FlushFails' = FlushFails
  BY <1>1 DEF Unbroken, FlushFails, Tee
<1>5. PrefixInv' /\ FailedInv' /\ AlmostInv' /\ FiledInv'
  BY <1>0, <1>1, <1>4 DEF PrefixInv, FailedInv, AlmostInv, FiledInv
<1>6. \A s \in DOMAIN kinds : Pending(s)' = Pending(s)
  <2> TAKE s \in DOMAIN kinds
  <2>1. s \in Nat /\ ~(s < 1)
    BY <1>0 DEF TypeInv
  <2>2. buf \o <<>> = buf
    BY <1>0 DEF TypeInv
  <2> QED
    BY <1>1, <2>1, <2>2 DEF Pending
<1>7. ExactInv'
  BY <1>0, <1>1, <1>4, <1>6 DEF ExactInv
<1> QED
  BY <1>3, <1>5, <1>7 DEF IInv

(* do_flush of one stream, whatever becomes of the write.                  *)
LEMMA StreamStep ==
  ASSUME IInv, FlushStream
  PROVE  IInv'
<1> USE DEF ringVars, engineVars, flushVars
<1>0. /\ TypeInv /\ PrefixInv /\ ExactInv /\ FailedInv
      /\ AlmostInv /\ FiledInv
  BY DEF IInv
<1>1. PICK t \in FlushedTo(streams[target], kinds[target]) :
        /\ streams' = [streams EXCEPT ![target] = t]
        /\ faults' = IF t.out = streams[target].out \o buf \o data THEN faults
                     ELSE faults + 1
  BY Zenon DEF FlushStream
<1>2. /\ epc = "write" /\ epc' = "write" /\ target <= Len(kinds)
      /\ target' = target + 1
      /\ UNCHANGED <<ringVars, engineVars, kinds, buf, data, back, sent>>
  BY DEF FlushStream
<1> DEFINE r == target
<1> DEFINE whole == streams[r].out \o buf \o data
<1>3. r \in DOMAIN kinds /\ kinds[r] \in Kinds /\ streams[r] \in Stream
  <2>1. DOMAIN kinds = 1 .. Len(kinds) /\ Len(kinds) \in Nat
    BY <1>0 DEF TypeInv
  <2>2. target \in 1 .. Len(kinds)
    BY <1>0, <1>2, <2>1 DEF TypeInv
  <2> QED
    BY <1>0, <2>1, <2>2 DEF TypeInv
<1>4. /\ t \in Stream
      /\ streams[r].failed => t.failed
      /\ streams[r].failed /\ kinds[r] # "file" => t = streams[r]
      /\ ~streams[r].failed /\ ((kinds[r] = "stdio" /\ Tee)
                                  \/ (kinds[r] = "fd" /\ t.failed)) =>
           IsPrefix(t.out, whole)
      /\ ~streams[r].failed /\ kinds[r] = "stdio" /\ t.out # <<>> =>
           IsPrefix(Front(t.out), whole)
      /\ kinds[r] # "stdio" /\ streams[r].filed = Len(streams[r].out) =>
           t.filed = Len(t.out)
      /\ kinds[r] = "stdio" /\ ~t.failed => t.out = whole
      /\ t.failed /\ ~streams[r].failed => t.out # whole
  <2> DEFINE q == streams[r]
             kind == kinds[r]
  <2>1. /\ TypeInv /\ t \in FlushedTo(q, kind) /\ q \in Stream
        /\ kind \in Kinds
    BY <1>0, <1>1, <1>3
  <2> HIDE DEF q, kind, r
  <2>2. /\ t \in Stream /\ Kept(q, t)
        /\ q.failed => t.failed
        /\ q.failed /\ kind # "file" => t = q
        /\ ~q.failed /\ ((kind = "stdio" /\ Tee)
                            \/ (kind = "fd" /\ t.failed)) =>
             IsPrefix(t.out, q.out \o buf \o data)
        /\ ~q.failed /\ kind = "stdio" /\ t.out # <<>> =>
             IsPrefix(Front(t.out), q.out \o buf \o data)
        /\ kind = "stdio" /\ ~t.failed => t.out = q.out \o buf \o data
        /\ t.failed /\ ~q.failed => t.out # q.out \o buf \o data
        /\ kind # "stdio" /\ q.filed = Len(q.out) => t.filed = Len(t.out)
    BY <2>1, FlushedFacts
  <2> QED
    BY <2>2 DEF q, kind
<1>5. /\ streams' \in [DOMAIN kinds -> Stream] /\ streams'[r] = t
      /\ \A s \in DOMAIN kinds : s # r => streams'[s] = streams[s]
      /\ faults \in Nat /\ faults' \in Nat /\ faults <= faults'
      /\ t.out = whole => faults' = faults
      /\ t.out # whole => faults' = faults + 1
  <2>1. streams \in [DOMAIN kinds -> Stream] /\ faults \in Nat
    BY <1>0 DEF TypeInv
  <2> HIDE DEF whole
  <2>2. faults' = IF t.out = whole THEN faults ELSE faults + 1
    BY <1>1 DEF whole
  <2>3. streams' = [streams EXCEPT ![r] = t]
    BY <1>1
  <2> HIDE DEF r
  <2>4. /\ streams' \in [DOMAIN kinds -> Stream] /\ streams'[r] = t
        /\ \A s \in DOMAIN kinds : s # r => streams'[s] = streams[s]
    BY <1>3, <1>4, <2>1, <2>3
  <2> QED
    BY <2>1, <2>2, <2>4
<1>6. whole = streams[r].out \o (buf \o data)
  <2>1. /\ streams[r].out \in Seq(Piece) /\ buf \in Seq(Piece)
        /\ data \in Seq(Piece)
    BY <1>0, <1>3 DEF TypeInv, Stream
  <2>2. \A a, b, c \in Seq(Piece) : (a \o b) \o c = a \o (b \o c)
    BY ConcatAssociative
  <2> QED
    BY <2>1, <2>2, Zenon
<1> HIDE DEF whole, r
<1>7. TypeInv'
  <2>1. target' \in Nat /\ target' # 0
    BY <1>0, <1>2 DEF TypeInv
  <2> QED
    BY <1>0, <1>2, <1>5, <2>1 DEF TypeInv
(* A failure counts. *)
<1>8. FailedInv'
  <2> SUFFICES ASSUME NEW s \in DOMAIN kinds, streams'[s].failed
               PROVE  faults' > 0
    BY <1>2 DEF FailedInv
  <2>1. CASE streams[s].failed
    BY <1>0, <1>5, <2>1 DEF FailedInv
  <2>2. CASE ~streams[s].failed
    <3>1. s = r /\ t.failed
      BY <1>5, <2>2
    <3> QED
      BY <1>4, <1>5, <2>2, <3>1
  <2> QED
    BY <2>1, <2>2
(* A stream that is clean afterwards was clean before, ... *)
<1>9. ASSUME NEW s \in DOMAIN kinds, Unbroken(s)'
      PROVE  Unbroken(s)
  <2>1. \/ kinds[s] = "stdio" /\ (Tee \/ ~streams'[s].failed)
        \/ faults' = 0
        \/ kinds[s] = "fd" /\ faults' = 1 /\ streams'[s].failed
    BY <1>2, <1>9 DEF Unbroken, Tee
  <2>2. CASE \/ kinds[s] = "stdio" /\ (Tee \/ ~streams'[s].failed)
             \/ faults' = 0
    <3>1. streams[s].failed => streams'[s].failed
      BY <1>4, <1>5
    <3> QED
      BY <1>5, <2>2, <3>1 DEF Unbroken
  <2>3. CASE kinds[s] = "fd" /\ faults' = 1 /\ streams'[s].failed
    <3>1. faults = 0 \/ faults = 1
      BY <1>5, <2>3
    <3>2. CASE streams[s].failed
      <4>1. faults > 0
        BY <1>0, <3>2 DEF FailedInv
      <4> QED
        BY <2>3, <3>1, <3>2, <4>1 DEF Unbroken, Tee
    <3>3. CASE ~streams[s].failed
      <4>1. s = r /\ t.failed
        BY <1>5, <2>3, <3>3
      <4>2. faults' = faults + 1
        BY <1>4, <1>5, <3>3, <4>1
      <4> QED
        BY <1>5, <2>3, <4>2 DEF Unbroken, Tee
    <3> QED
      BY <3>2, <3>3
  <2> QED
    BY <2>1, <2>2, <2>3
(* ... and had then all that was not pending. *)
<1>10. ASSUME Unbroken(r), ~streams[r].failed PROVE whole = sent
  <2>1. streams[r].out \o Pending(r) = sent
    BY <1>0, <1>2, <1>3, <1>10 DEF ExactInv
  <2>2. target \in Nat /\ ~(target < target)
    BY <1>0 DEF TypeInv
  <2>3. Pending(r) = buf \o data
    BY <1>2, <2>2 DEF Pending, r
  <2> QED
    BY <1>6, <2>1, <2>3
<1>11. PrefixInv'
  <2> SUFFICES ASSUME NEW s \in DOMAIN kinds, Unbroken(s)'
               PROVE  IsPrefix(streams'[s].out, sent)
    BY <1>2 DEF PrefixInv
  <2>1. IsPrefix(streams[s].out, sent) /\ Unbroken(s)
    BY <1>0, <1>9 DEF PrefixInv
  <2>2. CASE streams'[s] = streams[s]
    BY <2>1, <2>2
  <2>3. CASE streams'[s] # streams[s]
    <3>1. s = r /\ streams'[s] = t
      BY <1>5, <2>3
    <3>2. ~streams[r].failed
      <4>1. CASE kinds[r] = "file"
        <5>1. faults = 0
          BY <2>1, <3>1, <4>1 DEF Unbroken, Tee
        <5> QED
          BY <1>0, <1>3, <5>1 DEF FailedInv
      <4> QED
        BY <1>4, <2>3, <3>1, <4>1
    <3>3. whole = sent
      BY <1>10, <2>1, <3>1, <3>2
    <3>4. CASE t.out = whole
      <4>1. sent \in Seq(Piece)
        BY <1>0 DEF TypeInv
      <4> QED
        BY <3>1, <3>3, <3>4, <4>1, PrefixGrows
    <3>5. CASE t.out # whole
      <4>1. faults' # 0
        BY <1>5, <3>5
      <4>2. \/ kinds[r] = "stdio" /\ (Tee \/ ~t.failed)
            \/ kinds[r] = "fd" /\ t.failed
        BY <1>2, <3>1, <4>1 DEF Unbroken, Tee
      <4> QED
        BY <1>4, <3>1, <3>2, <3>3, <3>5, <4>2
    <3> QED
      BY <3>4, <3>5
  <2> QED
    BY <2>2, <2>3
<1>12. ExactInv'
  <2> SUFFICES ASSUME NEW s \in DOMAIN kinds, Unbroken(s)', ~streams'[s].failed
               PROVE  streams'[s].out \o Pending(s)' = sent
    BY <1>2 DEF ExactInv
  <2>1. Unbroken(s)
    BY <1>9
  <2>2. s \in Nat /\ target \in Nat
    BY <1>0 DEF TypeInv
  <2>3. CASE s # r
    <3>1. Pending(s)' = Pending(s)
      BY <1>2, <2>2, <2>3 DEF Pending, r
    <3>2. streams'[s] = streams[s]
      BY <1>5, <2>3
    <3> QED
      BY <1>0, <1>2, <2>1, <3>1, <3>2 DEF ExactInv
  <2>4. CASE s = r
    <3>1. streams'[s] = t /\ ~t.failed /\ ~streams[r].failed
      BY <1>4, <1>5, <2>4
    <3>2. whole = sent
      BY <1>10, <2>1, <2>4, <3>1
    <3>3. t.out = whole
      <4>1. CASE kinds[r] = "stdio"
        BY <1>4, <3>1, <4>1
      <4>2. CASE kinds[r] # "stdio"
        <5>1. faults' = 0
          BY <1>2, <2>4, <3>1, <4>2 DEF Unbroken, Tee
        <5> QED
          BY <1>5, <5>1
      <4> QED
        BY <4>1, <4>2
    <3>4. Pending(s)' = <<>>
      BY <1>2, <2>2, <2>4 DEF Pending, r
    <3>5. sent \o <<>> = sent
      BY <1>0 DEF TypeInv
    <3> QED
      BY <3>1, <3>2, <3>3, <3>4, <3>5
  <2> QED
    BY <2>3, <2>4
<1>13. AlmostInv'
  <2> SUFFICES ASSUME NEW s \in DOMAIN kinds, kinds[s] = "stdio",
                      streams'[s].out # <<>>
               PROVE  IsPrefix(Front(streams'[s].out), sent)
    BY <1>2 DEF AlmostInv
  <2>1. CASE streams'[s] = streams[s]
    BY <1>0, <2>1 DEF AlmostInv
  <2>2. CASE streams'[s] # streams[s]
    <3>1. s = r /\ streams'[s] = t
      BY <1>5, <2>2
    <3>2. ~streams[r].failed
      BY <1>4, <2>2, <3>1
    <3>3. Unbroken(r)
      BY <3>1, <3>2 DEF Unbroken
    <3>4. whole = sent
      BY <1>10, <3>2, <3>3
    <3> QED
      BY <1>4, <3>1, <3>2, <3>4
  <2> QED
    BY <2>1, <2>2
<1>14. FiledInv'
  <2> SUFFICES ASSUME NEW s \in DOMAIN kinds, kinds[s] # "stdio"
               PROVE  streams'[s].filed = Len(streams'[s].out)
    BY <1>2 DEF FiledInv
  <2>1. streams[s].filed = Len(streams[s].out)
    BY <1>0 DEF FiledInv
  <2>2. CASE s = r
    BY <1>4, <1>5, <2>1, <2>2
  <2>3. CASE s # r
    BY <1>5, <2>1, <2>3
  <2> QED
    BY <2>2, <2>3
<1> QED
  BY <1>7, <1>8, <1>11, <1>12, <1>13, <1>14 DEF IInv

(* The end of do_flush empties the buffer.                                 *)
LEMMA ResetStep ==
  ASSUME IInv, FlushReset
  PROVE  IInv'
<1> USE DEF ringVars, engineVars, flushVars
<1>0. /\ TypeInv /\ PrefixInv /\ ExactInv /\ FailedInv
      /\ AlmostInv /\ FiledInv
  BY DEF IInv
<1>1. /\ epc = "write" /\ target > Len(kinds) /\ buf' = <<>> /\ data' = <<>>
      /\ epc' = back /\ UNCHANGED <<ringVars, engineVars, kinds, streams,
                                    target, back, sent, faults>>
  BY DEF FlushReset
<1>2. back # "write" /\ BufCap \in Nat
  BY <1>0, BoundsAssumption DEF TypeInv
<1>3. TypeInv'
  <2>1. <<>> \in Seq(Piece) /\ Len(<<>>) <= BufCap /\ Len(<<>>) <= 1
    BY <1>2
  <2> QED
    BY <1>0, <1>1, <2>1 DEF TypeInv
<1>4. \A s \in DOMAIN kinds : Unbroken(s)' = Unbroken(s)
  BY <1>1 DEF Unbroken, Tee
<1>5. PrefixInv' /\ FailedInv' /\ AlmostInv' /\ FiledInv'
  BY <1>0, <1>1, <1>4 DEF PrefixInv, FailedInv, AlmostInv, FiledInv
<1>6. \A s \in DOMAIN kinds : Pending(s)' = Pending(s)
  <2> TAKE s \in DOMAIN kinds
  <2>1. s < target
    BY <1>0, <1>1 DEF TypeInv
  <2> QED
    BY <1>1, <1>2, <2>1 DEF Pending
<1>7. ExactInv'
  BY <1>0, <1>1, <1>4, <1>6 DEF ExactInv
<1> QED
  BY <1>3, <1>5, <1>7 DEF IInv

(* Every step of the program, of hogl-recover and of hogl-cook.            *)
LEMMA IInvStep == IInv /\ [Next]_vars => IInv'
<1> SUFFICES ASSUME IInv, [Next]_vars PROVE IInv'
  OBVIOUS
<1>1. CASE UNCHANGED logVars
  <2>1. UNCHANGED <<slot, head, tail, it, posted, piece, faults, target, kinds,
                    streams, buf, data, sent, back, epc>>
    BY <1>1 DEF logVars, ringVars, engineVars, flushVars
  <2>2. PrefixInv' /\ ExactInv' /\ FailedInv' /\ AlmostInv' /\ FiledInv'
    BY <2>1, QuietStep DEF flushVars
  <2>3. TypeInv'
    BY <2>1 DEF IInv, TypeInv
  <2> QED
    BY <2>2, <2>3 DEF IInv
<1>2. CASE LogNext
  BY <1>2, RingStep, PushStep, EndPassStep, StreamStep, ResetStep
  DEF LogNext, EngineNext
<1> QED
  BY <1>1, <1>2
  DEF Next, vars, CookNext, CookStart, CookRecord, CookGuess,
      CookFormatError, CookInputEnd

(* The output buffer is never overrun, and what a stream holds is the      *)
(* beginning of what the format handler has produced, or that and the data *)
(* which ostrbuf_stdio writes after a gap: for every failing or short      *)
(* write of any stream of a tee, wherever the process crashes, and         *)
(* whatever the tools read meanwhile.                                      *)
THEOREM NoHoleHolds == Spec => []NoHole
<1>1. IInv => NoHole
  BY DEF IInv, TypeInv, PrefixInv, AlmostInv, NoHole
<1> QED
  BY <1>1, IInvInit, IInvStep, PTL DEF Spec
-----------------------------------------------------------------------------
(* What recovery finds                                                     *)

(* The distance from one index to another, and the records up to an index. *)
Dist(a, b) == (b - a) % Slots
Count(h, t) == (t - h - 1) % Slots

(* The slots whose records were not released.                              *)
Unread == {i \in Index : Dist(head, i) \in 1 .. Count(head, tail)}

(* The records that are complete in what the streams and the buffer hold:  *)
(* all that was pushed, but for the data that do_flush is about to write.  *)
Complete ==
  {id \in Nat :
     \E i \in 1 .. Len(sent) - Len(data) - Pieces + 1 :
       \A k \in 1 .. Pieces : sent[i + k - 1] = [id |-> id, k |-> k]}

(* The engine is inside of a record; inside of a pass.                     *)
InRecord == epc = "push" \/ (epc = "write" /\ back = "push")
InPass == epc = "next" \/ InRecord

(* A record that was posted is in the ring until it is complete.           *)
HeldInv ==
  \A id \in (1 .. posted) \ (lost \cup acked) :
    \/ \E i \in Unread : slot[i].id = id
    \/ id \in Complete

(* What the iterator has passed is done with, but for the record it is at. *)
PassInv ==
  InPass =>
    /\ Dist(head, it) <= Count(head, itTail)
    /\ Count(head, itTail) <= Count(head, tail)
    /\ \A i \in Index :
         Dist(head, i) \in 1 .. Dist(head, it) =>
           IF slot[i].special THEN slot[i].id \in acked
           ELSE (i = it /\ InRecord) \/ slot[i].id \in Complete

(* The pieces of that record are the last ones that were pushed.           *)
PieceInv ==
  InRecord =>
    /\ ~slot[it].special /\ Dist(head, it) >= 1
    /\ piece <= Pieces /\ piece <= Len(sent)
    /\ \A k \in 1 .. piece :
         sent[Len(sent) - piece + k] = [id |-> slot[it].id, k |-> k]

DataInv ==
  /\ itTail \in Index
  /\ epc # "write" => data = <<>>
  /\ Len(data) <= Len(sent)

(* What hogl-recover has printed is still what is there.                   *)
DumpInv ==
  dump # <<>> =>
    /\ ~alive
    /\ \E all \in BOOLEAN, b \in DumpOutbufs :
         dump = [all |-> all, buf |-> b, recs |-> DumpRecords(all)]

RecInv == HeldInv /\ PassInv /\ PieceInv /\ DataInv

(* Indices without remainders.                                             *)
LEMMA IndexValues ==
  ASSUME NEW a \in Index, NEW b \in Index
  PROVE  /\ Dist(a, b) = IF b >= a THEN b - a ELSE b - a + Slots
         /\ Count(a, b) = IF b > a THEN b - a - 1 ELSE b - a - 1 + Slots
         /\ Inc(a) = (IF a = Slots - 1 THEN 0 ELSE a + 1)
         /\ Inc(a) \in Index
  BY SlotsAssumption DEF Dist, Count, Inc, Index

LEMMA Distances ==
  ASSUME NEW a \in Index, NEW b \in Index
  PROVE  /\ Dist(a, b) \in Nat /\ Count(a, b) \in Nat
         /\ Dist(a, b) = 0 <=> a = b
         /\ a # b => /\ Dist(a, b) = Count(a, b) + 1
                     /\ Count(a, Inc(b)) = Count(a, b) + 1
<1>1. /\ Dist(a, b) = IF b >= a THEN b - a ELSE b - a + Slots
      /\ Count(a, b) = IF b > a THEN b - a - 1 ELSE b - a - 1 + Slots
      /\ Inc(b) = (IF b = Slots - 1 THEN 0 ELSE b + 1)
      /\ Inc(b) \in Index
  BY IndexValues
<1>2. Count(a, Inc(b)) =
        IF Inc(b) > a THEN Inc(b) - a - 1 ELSE Inc(b) - a - 1 + Slots
  BY <1>1, IndexValues
<1> QED
  BY <1>1, <1>2, SlotsAssumption DEF Index

(* The iterator is one further after a step, if it is not at the end.      *)
LEMMA NextDistance ==
  \A a, b, c \in Index :
    Inc(b) # c /\ Dist(a, b) <= Count(a, c) =>
      Dist(a, Inc(b)) = Dist(a, b) + 1 /\ Dist(a, Inc(b)) <= Count(a, c)
<1> SUFFICES ASSUME NEW a \in Index, NEW b \in Index, NEW c \in Index,
                    Inc(b) # c, Dist(a, b) <= Count(a, c)
             PROVE  /\ Dist(a, Inc(b)) = Dist(a, b) + 1
                    /\ Dist(a, Inc(b)) <= Count(a, c)
  OBVIOUS
<1>1. /\ Dist(a, b) = IF b >= a THEN b - a ELSE b - a + Slots
      /\ Count(a, c) = IF c > a THEN c - a - 1 ELSE c - a - 1 + Slots
      /\ Inc(b) = (IF b = Slots - 1 THEN 0 ELSE b + 1)
      /\ Inc(b) \in Index
  BY IndexValues
<1>2. Dist(a, Inc(b)) =
        IF Inc(b) >= a THEN Inc(b) - a ELSE Inc(b) - a + Slots
  BY <1>1, IndexValues
<1> QED
  BY <1>1, <1>2, SlotsAssumption DEF Index

(* Different indices have different distances.                             *)
LEMMA SameDistance ==
  \A a, b, c \in Index : Dist(a, b) = Dist(a, c) => b = c
<1> SUFFICES ASSUME NEW a \in Index, NEW b \in Index, NEW c \in Index,
                    b # c
             PROVE  Dist(a, b) # Dist(a, c)
  OBVIOUS
<1>1. /\ Dist(a, b) = IF b >= a THEN b - a ELSE b - a + Slots
      /\ Dist(a, c) = IF c >= a THEN c - a ELSE c - a + Slots
  BY IndexValues
<1>2. Dist(a, b) < Dist(a, c) \/ Dist(a, c) < Dist(a, b)
  BY <1>1, SlotsAssumption DEF Index
<1>3. Dist(a, b) \in Nat /\ Dist(a, c) \in Nat
  BY Distances
<1> QED
  BY <1>2, <1>3

(* A complete record stays complete when pieces are added or written.      *)
LEMMA CompleteKept ==
  ASSUME TypeInv, TypeInv',
         Len(sent) - Len(data) <= Len(sent') - Len(data'),
         \A k \in 1 .. Len(sent) : sent'[k] = sent[k]
  PROVE  Complete \subseteq Complete'
<1> SUFFICES ASSUME NEW id \in Complete PROVE id \in Complete'
  OBVIOUS
<1>1. /\ Len(sent) \in Nat /\ Len(data) \in Nat
      /\ Len(sent') \in Nat /\ Len(data') \in Nat
  <2>1. sent \in Seq(Piece) /\ data \in Seq(Piece)
    BY DEF TypeInv
  <2>2. sent' \in Seq(Piece) /\ data' \in Seq(Piece)
    BY DEF TypeInv
  <2> QED
    BY <2>1, <2>2
<1>2. PICK i \in 1 .. Len(sent) - Len(data) - Pieces + 1 :
        \A k \in 1 .. Pieces : sent[i + k - 1] = [id |-> id, k |-> k]
  BY DEF Complete
<1>3. i \in 1 .. Len(sent') - Len(data') - Pieces + 1
  BY <1>1 DEF Pieces
<1>4. \A k \in 1 .. Pieces : i + k - 1 \in 1 .. Len(sent)
  BY <1>1 DEF Pieces
<1>5. \A k \in 1 .. Pieces : sent'[i + k - 1] = [id |-> id, k |-> k]
  BY <1>2, <1>4
<1> QED
  BY <1>3, <1>5 DEF Complete

(* A record all of whose pieces were pushed is complete.                   *)
LEMMA CompleteAtEnd ==
  ASSUME TypeInv, PieceInv, DataInv, InRecord, piece = Pieces,
         epc # "write"
  PROVE  slot[it].id \in Complete
<1>1. Len(sent) \in Nat /\ Len(data) = 0 /\ slot[it].id \in Nat
  BY DEF TypeInv, DataInv
<1>2. /\ Pieces <= Len(sent)
      /\ \A k \in 1 .. Pieces :
           sent[Len(sent) - Pieces + k] = [id |-> slot[it].id, k |-> k]
  BY DEF PieceInv
<1>3. Len(sent) - Pieces + 1 \in 1 .. Len(sent) - Len(data) - Pieces + 1
  BY <1>1, <1>2 DEF Pieces
<1>4. \A k \in 1 .. Pieces :
        (Len(sent) - Pieces + 1) + k - 1 = Len(sent) - Pieces + k
  BY <1>1 DEF Pieces
<1> QED
  BY <1>1, <1>2, <1>3, <1>4, SMTT(30) DEF Complete

(* A step that leaves the ring and the iterator alone and pushes nothing.  *)
LEMMA RecQuiet ==
  ASSUME IInv, IInv', RecInv,
         UNCHANGED <<ringVars, engineVars, sent>>,
         DataInv', Len(data') <= Len(data),
         InRecord' => InRecord, InPass' => InPass /\ (InRecord => InRecord')
  PROVE  RecInv'
<1> USE DEF ringVars, engineVars
<1>0. TypeInv /\ TypeInv' /\ HeldInv /\ PassInv /\ PieceInv
  BY DEF IInv, RecInv
<1>1. Complete \subseteq Complete'
  <2>1. sent \in Seq(Piece) /\ data \in Seq(Piece)
    BY <1>0 DEF TypeInv
  <2>2. data' \in Seq(Piece)
    BY <1>0 DEF TypeInv
  <2>3. Len(sent) - Len(data) <= Len(sent') - Len(data')
    BY <2>1, <2>2
  <2> QED
    BY <1>0, <2>3, CompleteKept
<1>2. Unread' = Unread
  BY DEF Unread
<1>3. HeldInv'
  BY <1>0, <1>1, <1>2 DEF HeldInv
<1>4. PassInv'
  BY <1>0, <1>1 DEF PassInv
<1>5. PieceInv'
  BY <1>0 DEF PieceInv
<1> QED
  BY <1>3, <1>4, <1>5 DEF RecInv

(* Publishing a record in a free slot.                                     *)
LEMMA PublishStep ==
  ASSUME IInv, IInv', RecInv, NEW r,
         tail # head, posted' = posted + 1, r.id = posted',
         slot' = [slot EXCEPT ![tail] = r], tail' = Inc(tail),
         UNCHANGED <<head, lost, engineVars, epc, back, data, sent>>
  PROVE  RecInv'
<1> USE DEF engineVars
<1>0. TypeInv /\ TypeInv' /\ HeldInv /\ PassInv /\ PieceInv /\ DataInv
  BY DEF IInv, RecInv
<1>1. /\ head \in Index /\ tail \in Index /\ it \in Index /\ itTail \in Index
      /\ posted \in Nat
  BY <1>0 DEF TypeInv, DataInv
<1>2. Complete' = Complete
  BY DEF Complete
<1>3. /\ Count(head, tail) \in Nat /\ Count(head, itTail) \in Nat
      /\ Count(head, tail') = Count(head, tail) + 1
      /\ Dist(head, tail) = Count(head, tail) + 1
  BY <1>1, Distances
<1>4. /\ \A i \in Index : Dist(head, i) \in Nat
      /\ \A i \in Index \ {tail} : slot'[i] = slot[i]
      /\ slot'[tail] = r
  <2>1. \A i \in Index : Dist(head, i) \in Nat
    BY <1>1, Distances
  <2> QED
    BY <1>0, <1>1, <2>1 DEF TypeInv
<1>5. Unread \subseteq Unread' \ {tail}
  BY <1>3, <1>4 DEF Unread
<1>6. tail \in Unread'
  BY <1>1, <1>3 DEF Unread
<1>7. HeldInv'
  <2> SUFFICES ASSUME NEW id \in (1 .. posted') \ (lost \cup acked)
               PROVE  \/ \E i \in Unread' : slot'[i].id = id
                      \/ id \in Complete'
    BY DEF HeldInv
  <2>1. CASE id = posted'
    BY <1>1, <1>4, <1>6, <2>1
  <2>2. CASE id # posted'
    <3>1. id \in (1 .. posted) \ (lost \cup acked)
      BY <1>1, <2>2
    <3> QED
      BY <1>0, <1>2, <1>4, <1>5, <3>1 DEF HeldInv
  <2> QED
    BY <2>1, <2>2
<1>8. PassInv'
  <2> SUFFICES ASSUME InPass
               PROVE  /\ Dist(head, it) <= Count(head, itTail)
                      /\ Count(head, itTail) <= Count(head, tail')
                      /\ \A i \in Index :
                           Dist(head, i) \in 1 .. Dist(head, it) =>
                             IF slot'[i].special THEN slot'[i].id \in acked
                             ELSE \/ i = it /\ InRecord
                                  \/ slot'[i].id \in Complete'
    BY <1>3 DEF PassInv, InPass, InRecord
  <2>1. /\ Dist(head, it) <= Count(head, itTail)
        /\ Count(head, itTail) <= Count(head, tail)
    BY <1>0 DEF PassInv
  <2>2. \A i \in Index :
          Dist(head, i) \in 1 .. Dist(head, it) => slot'[i] = slot[i]
    BY <1>1, <1>3, <1>4, <2>1
  <2> QED
    BY <1>0, <1>2, <1>3, <2>1, <2>2 DEF PassInv
<1>9. PieceInv'
  <2> SUFFICES ASSUME InRecord PROVE slot'[it] = slot[it]
    BY <1>0 DEF PieceInv, InRecord
  <2>1. /\ Dist(head, it) <= Count(head, itTail)
        /\ Count(head, itTail) <= Count(head, tail)
    BY <1>0 DEF PassInv, InPass
  <2> QED
    BY <1>1, <1>3, <1>4, <2>1
<1>10. DataInv'
  BY <1>0 DEF DataInv
<1> QED
  BY <1>7, <1>8, <1>9, <1>10 DEF RecInv

(* A record that is lost, and one that is posted.                          *)
LEMMA PostStep ==
  ASSUME IInv, IInv', RecInv, NEW tick \in 0 .. 1, Post(tick) \/ PostFlush
  PROVE  RecInv'
<1> USE DEF engineVars, flushVars
<1>1. CASE tail # head
  <2>1. /\ posted' = posted + 1 /\ tail' = Inc(tail)
        /\ UNCHANGED <<head, lost, engineVars, epc, back, data, sent>>
    BY <1>1 DEF Post, PostFlush
  <2>2. PICK r : r.id = posted' /\ slot' = [slot EXCEPT ![tail] = r]
    BY <1>1 DEF Post, PostFlush
  <2> QED
    BY <1>1, <2>1, <2>2, PublishStep
<1>2. CASE tail = head
  <2>1. /\ posted' = posted + 1 /\ lost' = lost \cup {posted'}
        /\ UNCHANGED <<slot, tail, head, engineVars, epc, back, data, sent>>
    BY <1>2 DEF Post, PostFlush
  <2>2. /\ Complete' = Complete
        /\ Unread' = Unread
    BY <2>1 DEF Complete, Unread, Count
  <2>3. posted \in Nat
    BY DEF IInv, TypeInv
  <2>4. \A id \in (1 .. posted') \ (lost' \cup acked) :
          id \in (1 .. posted) \ (lost \cup acked)
    BY <2>1, <2>3
  <2>5. HeldInv'
    BY <2>1, <2>2, <2>4 DEF RecInv, HeldInv
  <2>6. PassInv'
    BY <2>1, <2>2 DEF RecInv, PassInv, InPass, InRecord
  <2>7. PieceInv' /\ DataInv'
    BY <2>1 DEF RecInv, PieceInv, DataInv, InRecord
  <2> QED
    BY <2>5, <2>6, <2>7 DEF RecInv
<1> QED
  BY <1>1, <1>2

(* The engine starts a pass.                                               *)
LEMMA BeginStep ==
  ASSUME IInv, IInv', RecInv, BeginPass
  PROVE  RecInv'
<1> USE DEF ringVars, flushVars
<1>0. TypeInv /\ HeldInv /\ DataInv
  BY DEF IInv, RecInv
<1>1. /\ it' = head /\ itTail' = tail /\ epc = "idle" /\ epc' = "next"
      /\ UNCHANGED <<ringVars, acked, data, sent>>
  BY DEF BeginPass
<1>2. head \in Index /\ tail \in Index
  BY <1>0 DEF TypeInv
<1>3. HeldInv'
  BY <1>0, <1>1 DEF HeldInv, Unread, Complete
<1>4. PassInv'
  <2>1. Dist(head, head) = 0 /\ Count(head, tail) \in Nat
    BY <1>2, Distances
  <2>2. /\ Dist(head, it') <= Count(head, itTail')
        /\ Count(head, itTail') <= Count(head, tail)
        /\ 1 .. Dist(head, it') = {}
    BY <1>1, <2>1
  <2> QED
    BY <1>1, <2>2 DEF PassInv
<1>5. PieceInv' /\ DataInv'
  BY <1>0, <1>1, <1>2 DEF PieceInv, DataInv, InRecord
<1> QED
  BY <1>3, <1>4, <1>5 DEF RecInv

(* Moving on to the next record of the ring.                               *)
LEMMA NextRecordStep ==
  ASSUME IInv, IInv', RecInv, NextRecord
  PROVE  RecInv'
<1> USE DEF ringVars, flushVars
<1>0. TypeInv /\ HeldInv /\ PassInv /\ PieceInv /\ DataInv
  BY DEF IInv, RecInv
<1>1. /\ epc = "next" \/ (epc = "push" /\ piece = Pieces)
      /\ Inc(it) # itTail /\ it' = Inc(it) /\ piece' = 0
      /\ UNCHANGED <<ringVars, itTail, data, back, sent>>
  BY DEF NextRecord, ReadyForNext
<1>2. /\ slot[it'].special => /\ acked' = acked \cup {slot[it'].id}
                              /\ epc' = "next"
      /\ ~slot[it'].special => acked' = acked /\ epc' = "push"
      /\ acked \subseteq acked'
  BY <1>1 DEF NextRecord
<1>3. /\ head \in Index /\ tail \in Index /\ it \in Index /\ itTail \in Index
      /\ it' \in Index
  <2>1. head \in Index /\ tail \in Index /\ it \in Index /\ itTail \in Index
    BY <1>0 DEF TypeInv, DataInv
  <2> QED
    BY <1>1, <2>1, IndexValues
<1>4. Complete' = Complete /\ Unread' = Unread
  BY <1>1 DEF Complete, Unread
<1>5. HeldInv'
  BY <1>0, <1>1, <1>2, <1>4 DEF HeldInv
<1>6. /\ Dist(head, it) <= Count(head, itTail)
      /\ Count(head, itTail) <= Count(head, tail)
      /\ \A i \in Index :
           Dist(head, i) \in 1 .. Dist(head, it) =>
             IF slot[i].special THEN slot[i].id \in acked
             ELSE (i = it /\ InRecord) \/ slot[i].id \in Complete
  BY <1>0, <1>1 DEF PassInv, InPass, InRecord
<1>7. InRecord => slot[it].id \in Complete
  <2>1. epc # "write"
    BY <1>1
  <2>2. InRecord => piece = Pieces
    BY <1>1 DEF InRecord
  <2> QED
    BY <1>0, <2>1, <2>2, CompleteAtEnd
<1>8. /\ Dist(head, it') = Dist(head, it) + 1
      /\ Dist(head, it') <= Count(head, itTail)
      /\ Dist(head, it) \in Nat
      /\ \A i \in Index : /\ Dist(head, i) \in Nat
                          /\ Dist(head, i) = Dist(head, it') => i = it'
  <2>1. \A a, b, c \in Index :
          Inc(b) # c /\ Dist(a, b) <= Count(a, c) =>
            /\ Dist(a, Inc(b)) = Dist(a, b) + 1
            /\ Dist(a, Inc(b)) <= Count(a, c)
    BY NextDistance
  <2>2. \A a, b, c \in Index : Dist(a, b) = Dist(a, c) => b = c
    BY SameDistance
  <2> QED
    BY <1>1, <1>3, <1>6, <2>1, <2>2, Distances
<1>9. PassInv'
  <2>1. Count(head, itTail) \in Nat /\ Count(head, tail) \in Nat
    BY <1>3, Distances
  <2> SUFFICES ASSUME NEW i \in Index, Dist(head, i) \in 1 .. Dist(head, it')
               PROVE  IF slot[i].special THEN slot[i].id \in acked'
                      ELSE (i = it' /\ InRecord') \/ slot[i].id \in Complete
    BY <1>1, <1>4, <1>6, <1>8 DEF PassInv
  <2>2. CASE i = it'
    BY <1>2, <2>2 DEF InRecord
  <2>3. CASE i # it'
    <3>1. Dist(head, i) \in 1 .. Dist(head, it)
      BY <1>8, <2>3
    <3> QED
      BY <1>2, <1>6, <1>7, <3>1
  <2> QED
    BY <2>2, <2>3
<1>10. PieceInv'
  <2> SUFFICES ASSUME InRecord'
               PROVE  ~slot[it'].special /\ Dist(head, it') >= 1
                      /\ 0 <= Pieces /\ 0 <= Len(sent) /\ 1 .. 0 = {}
    BY <1>1 DEF PieceInv
  <2>1. ~slot[it'].special
    BY <1>2 DEF InRecord
  <2>2. Len(sent) \in Nat
    BY <1>0 DEF TypeInv
  <2> QED
    BY <1>8, <2>1, <2>2 DEF Pieces
<1>11. DataInv'
  BY <1>0, <1>1, <1>2 DEF DataInv
<1> QED
  BY <1>5, <1>9, <1>10, <1>11 DEF RecInv

(* ostrbuf::push_back of a piece.                                          *)
LEMMA PushRecStep ==
  ASSUME IInv, IInv', RecInv, PushBack
  PROVE  RecInv'
<1> USE DEF ringVars, flushVars
<1>0. TypeInv /\ TypeInv' /\ HeldInv /\ PassInv /\ PieceInv /\ DataInv
  BY DEF IInv, RecInv
<1> DEFINE p == [id |-> slot[it].id, k |-> piece + 1]
<1>1. /\ epc = "push" /\ piece < Pieces /\ piece' = piece + 1
      /\ sent' = Append(sent, p)
      /\ UNCHANGED <<ringVars, acked, it, itTail>>
      /\ \/ epc' = "push" /\ data' = data
         \/ epc' = "write" /\ data' = <<p>> /\ back' = "push"
  BY DEF PushBack, DoFlush
<1>2. data = <<>> /\ sent \in Seq(Piece) /\ p \in Piece /\ piece \in Nat
  BY <1>0, <1>1 DEF TypeInv, DataInv, Piece
<1> HIDE DEF p
<1>3. /\ Len(sent') = Len(sent) + 1 /\ sent'[Len(sent) + 1] = p
      /\ \A k \in 1 .. Len(sent) : sent'[k] = sent[k]
      /\ Len(sent) \in Nat /\ Len(data) = 0
      /\ Len(data') = 0 \/ Len(data') = 1
  BY <1>1, <1>2
<1>4. Complete \subseteq Complete'
  <2>1. Len(sent') - Len(data') = Len(sent) + 1 - Len(data')
    BY <1>3
  <2>2. CASE Len(data') = 0
    BY <1>0, <1>3, <2>1, <2>2, CompleteKept
  <2>3. CASE Len(data') = 1
    BY <1>0, <1>3, <2>1, <2>3, CompleteKept
  <2> QED
    BY <1>3, <2>2, <2>3
<1>5. InRecord /\ InPass /\ InRecord' /\ InPass'
  BY <1>1 DEF InRecord, InPass
<1>6. Unread' = Unread
  BY <1>1 DEF Unread
<1>7. HeldInv'
  BY <1>0, <1>1, <1>4, <1>6 DEF HeldInv
<1>8. PassInv'
  BY <1>0, <1>1, <1>4, <1>5 DEF PassInv
<1>9. PieceInv'
  <2>1. /\ ~slot[it].special /\ Dist(head, it) >= 1 /\ piece <= Len(sent)
        /\ \A k \in 1 .. piece :
             sent[Len(sent) - piece + k] = [id |-> slot[it].id, k |-> k]
    BY <1>0, <1>5 DEF PieceInv
  <2>2. piece' <= Pieces /\ piece' <= Len(sent')
    BY <1>1, <1>2, <1>3, <2>1 DEF Pieces
  <2>3. ASSUME NEW k \in 1 .. piece'
        PROVE  sent'[Len(sent') - piece' + k] = [id |-> slot[it].id, k |-> k]
    <3>1. Len(sent') - piece' + k = Len(sent) - piece + k
      BY <1>1, <1>2, <1>3
    <3>2. CASE k = piece + 1
      <4>1. Len(sent) - piece + k = Len(sent) + 1
        BY <1>2, <1>3, <3>2
      <4> QED
        BY <1>3, <3>1, <3>2, <4>1 DEF p
    <3>3. CASE k # piece + 1
      <4>1. k \in 1 .. piece /\ Len(sent) - piece + k \in 1 .. Len(sent)
        BY <1>1, <1>2, <1>3, <2>1, <3>3
      <4> QED
        BY <1>3, <2>1, <3>1, <4>1
    <3> QED
      BY <3>2, <3>3
  <2> QED
    BY <1>1, <2>1, <2>2, <2>3 DEF PieceInv
<1>10. DataInv'
  BY <1>0, <1>1, <1>2, <1>3 DEF DataInv
<1> QED
  BY <1>7, <1>8, <1>9, <1>10 DEF RecInv

(* Distances from a head that has moved.                                   *)
LEMMA MovedDistance ==
  \A a, b, c, i \in Index :
    Dist(a, b) < Dist(a, i) /\ Dist(a, i) <= Count(a, c) =>
      Dist(b, i) \in 1 .. Count(b, c)
<1> SUFFICES ASSUME NEW a \in Index, NEW b \in Index, NEW c \in Index,
                    NEW i \in Index,
                    Dist(a, b) < Dist(a, i), Dist(a, i) <= Count(a, c)
             PROVE  Dist(b, i) \in 1 .. Count(b, c)
  OBVIOUS
<1>1. /\ Dist(a, b) = IF b >= a THEN b - a ELSE b - a + Slots
      /\ Dist(a, i) = IF i >= a THEN i - a ELSE i - a + Slots
      /\ Count(a, c) = IF c > a THEN c - a - 1 ELSE c - a - 1 + Slots
      /\ Dist(b, i) = IF i >= b THEN i - b ELSE i - b + Slots
      /\ Count(b, c) = IF c > b THEN c - b - 1 ELSE c - b - 1 + Slots
  BY IndexValues
<1>2. /\ a \in Int /\ b \in Int /\ c \in Int /\ i \in Int /\ Slots \in Int
      /\ 0 <= a /\ a < Slots /\ 0 <= b /\ b < Slots
      /\ 0 <= c /\ c < Slots /\ 0 <= i /\ i < Slots
  BY SlotsAssumption DEF Index
<1>3. CASE b >= a
  BY <1>1, <1>2, <1>3
<1>4. CASE ~(b >= a)
  BY <1>1, <1>2, <1>4
<1> QED
  BY <1>3, <1>4

(* The pass releases the records that it has visited.                      *)
LEMMA CommitStep ==
  ASSUME IInv, IInv', RecInv, Commit
  PROVE  RecInv'
<1> USE DEF engineVars, flushVars
<1>0. TypeInv /\ HeldInv /\ PassInv /\ PieceInv /\ DataInv
  BY DEF IInv, RecInv
<1>1. /\ epc = "next" \/ (epc = "push" /\ piece = Pieces)
      /\ head' = it /\ epc' = "flush"
      /\ UNCHANGED <<slot, tail, posted, lost, engineVars, data, sent>>
  BY DEF Commit, ReadyForNext
<1>2. /\ head \in Index /\ tail \in Index /\ it \in Index /\ itTail \in Index
  BY <1>0 DEF TypeInv, DataInv
<1>3. Complete' = Complete
  BY <1>1 DEF Complete
<1>4. \A i \in Index :
        Dist(head, i) \in 1 .. Dist(head, it) =>
          IF slot[i].special THEN slot[i].id \in acked
          ELSE slot[i].id \in Complete
  <2>1. InRecord => slot[it].id \in Complete
    <3>1. epc # "write"
      BY <1>1
    <3>2. InRecord => piece = Pieces
      BY <1>1 DEF InRecord
    <3> QED
      BY <1>0, <3>1, <3>2, CompleteAtEnd
  <2> QED
    BY <1>0, <1>1, <2>1 DEF PassInv, InPass, InRecord
<1>5. HeldInv'
  <2> SUFFICES ASSUME NEW id \in (1 .. posted) \ (lost \cup acked),
                      id \notin Complete
               PROVE  \E i \in Unread' : slot[i].id = id
    BY <1>1, <1>3 DEF HeldInv
  <2>1. PICK i \in Unread : slot[i].id = id
    BY <1>0 DEF HeldInv
  <2>2. i \in Index /\ Dist(head, i) \in 1 .. Count(head, tail)
    BY <2>1 DEF Unread
  <2>3. Dist(head, i) \notin 1 .. Dist(head, it)
    BY <1>4, <2>1, <2>2
  <2>4. Dist(head, it) < Dist(head, i) /\ Dist(head, i) <= Count(head, tail)
    BY <1>2, <2>2, <2>3, Distances
  <2>5. Dist(it, i) \in 1 .. Count(it, tail)
    BY <1>2, <2>2, <2>4, MovedDistance
  <2> QED
    BY <1>1, <2>1, <2>2, <2>5 DEF Unread
<1>6. PassInv' /\ PieceInv' /\ DataInv'
  BY <1>0, <1>1 DEF PassInv, PieceInv, DataInv, InPass, InRecord
<1> QED
  BY <1>5, <1>6 DEF RecInv

(* Initially nothing was posted.                                           *)
LEMMA RecInvInit == Init => RecInv /\ DumpInv
<1> SUFFICES ASSUME Init PROVE RecInv /\ DumpInv
  OBVIOUS
<1>1. /\ posted = 0 /\ epc = "idle" /\ data = <<>> /\ sent = <<>>
      /\ dump = <<>> /\ itTail = Inc(Start)
  BY DEF Init, LogInit
<1>2. HeldInv
  <2>1. 1 .. posted = {}
    BY <1>1
  <2> QED
    BY <2>1 DEF HeldInv
<1>3. PassInv /\ PieceInv /\ DumpInv
  BY <1>1 DEF PassInv, PieceInv, DumpInv, InPass, InRecord
<1>4. DataInv
  <2>1. Inc(Start) \in Index
    BY SlotsAssumption DEF Inc, Index
  <2> QED
    BY <1>1, <2>1 DEF DataInv
<1> QED
  BY <1>2, <1>3, <1>4 DEF RecInv

(* Flushing, crashing, and the tools.                                      *)
LEMMA FlushRecStep ==
  ASSUME IInv, IInv', RecInv,
         EndPass \/ FlushStream \/ FlushReset \/ UNCHANGED logVars \/ Crash
           \/ \E all \in BOOLEAN : Recover(all)
  PROVE  RecInv'
<1> USE DEF ringVars, engineVars, flushVars
<1>0. TypeInv /\ DataInv
  BY DEF IInv, RecInv
<1>1. /\ Len(data) \in Nat /\ Len(sent) \in Nat /\ Len(<<>>) = 0
      /\ back \in {"push", "idle"}
  <2>1. /\ data \in Seq(Piece) /\ sent \in Seq(Piece)
        /\ back \in {"push", "idle"}
    BY <1>0 DEF TypeInv
  <2> QED
    BY <2>1
<1>2. CASE EndPass
  <2>1. /\ UNCHANGED <<ringVars, engineVars, sent>> /\ epc = "flush"
        /\ \/ epc' = "idle" /\ data' = data
           \/ epc' = "write" /\ back' = "idle" /\ data' = <<>>
    BY <1>2 DEF EndPass, OutputFlush, DoFlush
  <2>2. data = <<>> /\ data' = <<>>
    BY <1>0, <2>1 DEF DataInv
  <2>3. DataInv' /\ Len(data') <= Len(data)
    BY <1>0, <1>1, <2>1, <2>2 DEF DataInv
  <2>4. ~InRecord' /\ ~InPass'
    BY <2>1 DEF InRecord, InPass
  <2> QED
    BY <2>1, <2>3, <2>4, RecQuiet
<1>3. CASE FlushReset
  <2>1. /\ UNCHANGED <<ringVars, engineVars, sent, back>>
        /\ epc = "write" /\ epc' = back /\ data' = <<>>
    BY <1>3 DEF FlushReset
  <2>2. DataInv' /\ Len(data') <= Len(data)
    BY <1>0, <1>1, <2>1 DEF DataInv
  <2>3. InRecord' = InRecord /\ (InPass' => InPass)
    BY <1>1, <2>1 DEF InRecord, InPass
  <2> QED
    BY <2>1, <2>2, <2>3, RecQuiet
<1>4. CASE FlushStream \/ UNCHANGED logVars \/ Crash
             \/ \E all \in BOOLEAN : Recover(all)
  <2>1. UNCHANGED <<ringVars, engineVars, sent, back, epc, data>>
    BY <1>4 DEF FlushStream, logVars, Crash, Recover
  <2>2. DataInv' /\ Len(data') <= Len(data)
    BY <1>0, <1>1, <2>1 DEF DataInv
  <2>3. InRecord' = InRecord /\ InPass' = InPass
    BY <2>1 DEF InRecord, InPass
  <2> QED
    BY <2>1, <2>2, <2>3, RecQuiet
<1> QED
  BY <1>2, <1>3, <1>4

(* Every step keeps the ring, the log and the buffer complete.             *)
LEMMA RecInvStep == IInv /\ IInv' /\ RecInv /\ [Next]_vars => RecInv'
<1> SUFFICES ASSUME IInv, IInv', RecInv, [Next]_vars PROVE RecInv'
  OBVIOUS
<1>1. CASE UNCHANGED logVars
  BY <1>1, FlushRecStep
<1>2. CASE LogNext
  <2>1. CASE BeginPass \/ NextRecord \/ PushBack \/ Commit
    BY <2>1, BeginStep, NextRecordStep, PushRecStep, CommitStep
  <2>2. CASE EndPass \/ FlushStream \/ FlushReset \/ Crash
               \/ \E all \in BOOLEAN : Recover(all)
    BY <2>2, FlushRecStep
  <2>3. CASE PostFlush \/ \E tick \in 0 .. 1 : Post(tick)
    BY <2>3, PostStep
  <2> QED
    BY <1>2, <2>1, <2>2, <2>3 DEF LogNext, EngineNext
<1> QED
  BY <1>1, <1>2
  DEF Next, vars, CookNext, CookStart, CookRecord, CookGuess,
      CookFormatError, CookInputEnd

(* Nothing moves after the crash, so that what was printed stays true.     *)
LEMMA DumpInvStep == DumpInv /\ [Next]_vars => DumpInv'
<1> SUFFICES ASSUME DumpInv, [Next]_vars PROVE DumpInv'
  OBVIOUS
<1> USE DEF ringVars, engineVars, flushVars
<1>1. ASSUME UNCHANGED <<slot, head, tail, buf>>
      PROVE  /\ DumpOutbufs' = DumpOutbufs
             /\ \A all \in BOOLEAN : DumpRecords(all)' = DumpRecords(all)
  BY <1>1
  DEF DumpOutbufs, FoundOutbuf, ValidOutbuf, DumpRecords, RecoveredSlots
<1>2. CASE UNCHANGED <<slot, head, tail, buf, dump, alive>>
  BY <1>1, <1>2 DEF DumpInv
<1>3. CASE alive /\ dump' = dump
  BY <1>3 DEF DumpInv
<1>4. ASSUME NEW all \in BOOLEAN, Recover(all)
      PROVE  DumpInv'
  <2>1. /\ ~alive /\ UNCHANGED <<slot, head, tail, buf, alive>>
        /\ \E b \in DumpOutbufs :
             dump' = [all |-> all, buf |-> b, recs |-> DumpRecords(all)]
    BY <1>4 DEF Recover
  <2>2. /\ DumpOutbufs' = DumpOutbufs
        /\ DumpRecords(all)' = DumpRecords(all)
    BY <1>1, <2>1
  <2> QED
    BY <2>1, <2>2 DEF DumpInv
<1>5. CASE UNCHANGED logVars
  BY <1>2, <1>5 DEF logVars
<1>6. CASE EngineNext
  BY <1>3, <1>6
  DEF EngineNext, BeginPass, NextRecord, ReadyForNext, PushBack, Commit,
      EndPass, FlushStream, FlushReset
<1>7. CASE PostFlush \/ Crash \/ \E tick \in 0 .. 1 : Post(tick)
  BY <1>3, <1>7 DEF Post, PostFlush, Crash
<1> QED
  BY <1>4, <1>5, <1>6, <1>7
  DEF Next, LogNext, vars, CookNext, CookStart, CookRecord, CookGuess,
      CookFormatError, CookInputEnd

(* A set of naturals has a least element.                                  *)
LEMMA LeastNatural ==
  ASSUME NEW T \in SUBSET Nat, T # {}
  PROVE  \E x \in T : \A y \in T : x <= y
<1> DEFINE R == {ss \in Nat \X Nat : ss[1] < ss[2]}
<1>1. IsWellFoundedOn(R, Nat)
  BY NatLessThanWellFounded DEF OpToRel
<1>2. PICK x \in T : \A y \in T : ~(<<y, x>> \in R)
  <2> HIDE DEF R
  <2> QED
    BY <1>1, WFMin
<1>3. ASSUME NEW y \in T PROVE x <= y
  <2>1. x \in Nat /\ y \in Nat
    OBVIOUS
  <2>2. ~(<<y, x>> \in R)
    BY <1>2
  <2>3. <<y, x>> \in Nat \X Nat /\ <<y, x>>[1] = y /\ <<y, x>>[2] = x
    BY <2>1
  <2>4. ~(y < x)
    BY <2>2, <2>3
  <2> QED
    BY <2>1, <2>4
<1> QED
  BY <1>3

(* The recovered set has a record for every timestamp that was seen.       *)
LEMMA RecordSetCovers ==
  ASSUME NEW n \in Nat, NEW seq, DOMAIN seq = 1 .. n, NEW k \in 1 .. n
  PROVE  \E q \in RecordSet(seq) : q.ts = seq[k].ts
<1> DEFINE T == {j \in 1 .. n : seq[j].ts = seq[k].ts}
<1>1. T \in SUBSET Nat /\ T # {}
  OBVIOUS
<1>2. PICK x \in T : \A y \in T : x <= y
  <2> HIDE DEF T
  <2> QED
    BY <1>1, LeastNatural
<1>3. x \in DOMAIN seq /\ seq[x].ts = seq[k].ts /\ x \in Nat
  OBVIOUS
<1>4. ASSUME NEW j \in 1 .. x - 1 PROVE seq[j].ts # seq[x].ts
  <2>1. j \in 1 .. n /\ ~(x <= j)
    BY <1>3
  <2> QED
    BY <1>2, <1>3, <2>1
<1>5. seq[x] \in RecordSet(seq)
  BY <1>3, <1>4 DEF RecordSet
<1> QED
  BY <1>3, <1>5

(* The slots that are recovered: all unread ones, or with --all every one  *)
(* but the first and the last.                                             *)
LEMMA RecoveredCovers ==
  ASSUME TypeInv, NEW all \in BOOLEAN, NEW i \in Unread,
         all => i \notin {0, Slots - 1}
  PROVE  \E q \in DumpRecords(all) : q.ts = slot[i].ts
<1> DEFINE slots == RecoveredSlots(all)
<1> DEFINE seq == [j \in DOMAIN slots |-> slot[slots[j]]]
<1>1. /\ i \in Index /\ Dist(head, i) \in 1 .. Count(head, tail)
      /\ head \in Index /\ tail \in Index
  BY DEF Unread, TypeInv
<1>2. \E n \in Nat : DOMAIN slots = 1 .. n /\ \E k \in 1 .. n : slots[k] = i
  <2>1. CASE all
    <3>1. slots = [j \in 1 .. (Slots - 1 - 0 - 1) % Slots |-> (0 + j) % Slots]
      BY <2>1 DEF RecoveredSlots, Between
    <3>2. (Slots - 1 - 0 - 1) % Slots = Slots - 2 /\ Slots - 2 \in Nat
      BY SlotsAssumption
    <3>3. i \in 1 .. Slots - 2 /\ (0 + i) % Slots = i
      BY <1>1, <2>1, SlotsAssumption DEF Index
    <3>4. DOMAIN slots = 1 .. Slots - 2 /\ slots[i] = i
      <4> HIDE DEF slots
      <4> QED
        BY <3>1, <3>2, <3>3
    <3> HIDE DEF slots
    <3> QED
      BY <3>2, <3>3, <3>4
  <2>2. CASE ~all
    <3>1. slots = [j \in 1 .. Count(head, tail) |-> (head + j) % Slots]
      BY <2>2 DEF RecoveredSlots, Between, Count
    <3>2. (head + Dist(head, i)) % Slots = i
      <4>1. Dist(head, i) = IF i >= head THEN i - head ELSE i - head + Slots
        BY <1>1, IndexValues
      <4>2. CASE i >= head
        <5>1. head + Dist(head, i) = i
          BY <1>1, <4>1, <4>2 DEF Index
        <5>2. i % Slots = i
          BY <1>1, SlotsAssumption DEF Index
        <5> QED
          BY <5>1, <5>2
      <4>3. CASE ~(i >= head)
        <5>1. head + Dist(head, i) = i + Slots
          BY <1>1, <4>1, <4>3, SlotsAssumption DEF Index
        <5>2. (i + Slots) % Slots = i
          BY <1>1, SlotsAssumption DEF Index
        <5> QED
          BY <5>1, <5>2
      <4> QED
        BY <4>2, <4>3
    <3>3. Count(head, tail) \in Nat
      BY <1>1, Distances
    <3>4. DOMAIN slots = 1 .. Count(head, tail) /\ slots[Dist(head, i)] = i
      <4> HIDE DEF slots
      <4> QED
        BY <1>1, <3>1, <3>2
    <3> HIDE DEF slots
    <3> QED
      BY <1>1, <3>3, <3>4
  <2> QED
    BY <2>1, <2>2
<1>3. PICK n \in Nat : DOMAIN slots = 1 .. n
                         /\ \E k \in 1 .. n : slots[k] = i
  BY <1>2
<1>4. PICK k \in 1 .. n : slots[k] = i
  BY <1>3
<1>5. DumpRecords(all) = RecordSet(seq)
  BY DEF DumpRecords
<1> HIDE DEF slots
<1>6. DOMAIN seq = 1 .. n /\ seq[k] = slot[i]
  BY <1>3, <1>4
<1> HIDE DEF seq
<1>7. \E q \in RecordSet(seq) : q.ts = seq[k].ts
  BY <1>6, RecordSetCovers
<1> QED
  BY <1>5, <1>6, <1>7

(* If nothing has failed, what a stream has written and what is in the     *)
(* buffer are together all that was pushed before the data of do_flush.    *)
LEMMA StreamAndBuffer ==
  ASSUME IInv, DataInv, faults = 0, NEW s \in DOMAIN kinds
  PROVE  /\ streams[s].out \o buf \in Seq(Piece)
         /\ Len(sent) - Len(data) <= Len(streams[s].out \o buf)
         /\ \A k \in 1 .. Len(sent) - Len(data) :
              (streams[s].out \o buf)[k] = sent[k]
<1>0. TypeInv /\ ExactInv /\ FailedInv
  BY DEF IInv
<1>1. \A t \in DOMAIN kinds : ~streams[t].failed
  BY <1>0 DEF FailedInv
<1>2. ~FlushFails
  <2>1. kinds \in Seq(Kinds) /\ kinds # <<>>
    BY <1>0 DEF TypeInv
  <2>2. 1 \in DOMAIN kinds
    BY <2>1
  <2> QED
    BY <1>1, <2>2 DEF FlushFails
<1>3. streams[s].out \o Pending(s) = sent
  BY <1>0, <1>1, <1>2 DEF ExactInv, Unbroken
<1>4. PICK out \in Seq(Piece) : out = streams[s].out
  BY <1>0 DEF TypeInv, Stream
<1>5. /\ buf \in Seq(Piece) /\ data \in Seq(Piece) /\ sent \in Seq(Piece)
      /\ Len(buf) \in Nat /\ Len(data) \in Nat /\ Len(sent) \in Nat
  <2>1. buf \in Seq(Piece) /\ data \in Seq(Piece) /\ sent \in Seq(Piece)
    BY <1>0 DEF TypeInv
  <2> QED
    BY <2>1
<1>6. /\ out \o buf \in Seq(Piece) /\ Len(out \o buf) = Len(out) + Len(buf)
      /\ \A k \in 1 .. Len(out) : (out \o buf)[k] = out[k]
      /\ Len(out) \in Nat
  BY <1>5
<1>7. CASE epc # "write"
  <2>1. out \o buf = sent /\ Len(data) = 0
    BY <1>0, <1>3, <1>4, <1>7 DEF Pending, DataInv
  <2> QED
    BY <1>4, <1>5, <2>1
<1>8. CASE epc = "write" /\ s < target
  <2>1. out \o <<>> = sent
    BY <1>3, <1>4, <1>8 DEF Pending
  <2>2. out = sent
    BY <2>1
  <2>3. /\ Len(sent) - Len(data) <= Len(out \o buf)
        /\ \A k \in 1 .. Len(sent) - Len(data) : k \in 1 .. Len(out)
    BY <1>5, <1>6, <2>2
  <2> QED
    BY <1>4, <1>6, <2>2, <2>3
<1>9. CASE epc = "write" /\ ~(s < target)
  <2>1. out \o (buf \o data) = sent
    BY <1>3, <1>4, <1>9 DEF Pending
  <2>2. PICK ob \in Seq(Piece) : ob = out \o buf
    BY <1>6
  <2>3. ob \o data = sent
    <3>1. \A a, b, c \in Seq(Piece) : (a \o b) \o c = a \o (b \o c)
      BY ConcatAssociative
    <3> QED
      BY <1>5, <2>1, <2>2, <3>1, ZenonT(30)
  <2>4. /\ Len(ob \o data) = Len(ob) + Len(data) /\ Len(ob) \in Nat
        /\ \A k \in 1 .. Len(ob) : (ob \o data)[k] = ob[k]
    BY <1>5
  <2>5. Len(sent) - Len(data) = Len(ob)
    BY <1>5, <2>3, <2>4
  <2> QED
    BY <1>4, <2>2, <2>3, <2>4, <2>5
<1> QED
  BY <1>7, <1>8, <1>9

(* A record in a sequence of two parts is still there when each of the     *)
(* parts is cut, unless a piece of it was cut off.                         *)
LEMMA CutRecord ==
  ASSUME NEW x \in Seq(Piece), NEW y \in Seq(Piece), NEW id \in Nat,
         NEW a \in Nat, NEW f \in Nat, f <= a,
         NEW l \in Nat, NEW n \in Nat, n <= l,
         Len(x) = a + l, Len(y) = f + n,
         \A k \in 1 .. f : y[k] = x[k],
         \A k \in 1 .. n : y[f + k] = x[a + k],
         RecordIn(id, x),
         \A k \in f + 1 .. a : x[k].id # id,
         \A k \in a + n + 1 .. a + l : x[k].id # id
  PROVE  RecordIn(id, y)
<1> DEFINE P(k) == [id |-> id, k |-> k]
<1>1. PICK i \in 1 .. Len(x) :
        i + 2 <= Len(x) /\ x[i] = P(1) /\ x[i + 1] = P(2) /\ x[i + 2] = P(3)
  <2>1. DOMAIN x = 1 .. Len(x) /\ Len(x) \in Nat
    OBVIOUS
  <2>2. PICK i \in 1 .. Len(x) :
          /\ i + Pieces - 1 <= Len(x)
          /\ \A k \in 1 .. Pieces : x[i + k - 1] = P(k)
    BY <2>1 DEF RecordIn
  <2>3. 1 \in 1 .. Pieces /\ 2 \in 1 .. Pieces /\ 3 \in 1 .. Pieces
    BY DEF Pieces
  <2>4. i + 1 - 1 = i /\ i + 2 - 1 = i + 1 /\ i + 3 - 1 = i + 2
    BY <2>1
  <2>5. x[i] = P(1) /\ x[i + 1] = P(2) /\ x[i + 2] = P(3)
    BY <2>2, <2>3, <2>4
  <2> QED
    BY <2>1, <2>2, <2>4, <2>5 DEF Pieces
<1>2. x[i].id = id /\ x[i + 1].id = id /\ x[i + 2].id = id
  BY <1>1
<1>3. i \in Nat /\ i >= 1
  OBVIOUS
<1>4. /\ i \notin f + 1 .. a /\ i + 1 \notin f + 1 .. a
      /\ i + 2 \notin f + 1 .. a /\ i + 2 \notin a + n + 1 .. a + l
  BY <1>2
<1> HIDE DEF P
<1>5. i + 2 <= a + n
  BY <1>1, <1>3, <1>4
<1>6. i + 2 <= f \/ i > a \/ f = a
  BY <1>3, <1>4
(* It is enough to find it somewhere. *)
<1>7. ASSUME NEW j \in Nat, j >= 1, j + 2 <= f + n,
             y[j] = P(1), y[j + 1] = P(2), y[j + 2] = P(3)
      PROVE  RecordIn(id, y)
  <2>1. /\ j \in DOMAIN y /\ j + Pieces - 1 <= Len(y)
        /\ j + 1 - 1 = j /\ j + 2 - 1 = j + 1 /\ j + 3 - 1 = j + 2
    BY <1>7 DEF Pieces
  <2>2. \A k \in 1 .. Pieces : k = 1 \/ k = 2 \/ k = 3
    BY DEF Pieces
  <2>3. \A k \in 1 .. Pieces : y[j + k - 1] = P(k)
    BY <1>7, <2>1, <2>2
  <2> QED
    BY <2>1, <2>3 DEF RecordIn, P
<1>8. ASSUME NEW k \in Nat, k >= 1, k <= f PROVE y[k] = x[k]
  BY <1>8
<1>9. ASSUME NEW k \in Nat, k > a, k <= a + n PROVE y[k - a + f] = x[k]
  <2> DEFINE m == k - a
  <2>1. m \in 1 .. n /\ k = a + m /\ k - a + f = f + m
    BY <1>9
  <2> HIDE DEF m
  <2> QED
    BY <2>1
<1>10. CASE i + 2 <= f
  <2>0. /\ i + 1 \in Nat /\ i + 2 \in Nat /\ i + 1 >= 1 /\ i + 2 >= 1
        /\ i <= f /\ i + 1 <= f
    BY <1>3, <1>10
  <2>1. y[i] = x[i] /\ y[i + 1] = x[i + 1] /\ y[i + 2] = x[i + 2]
    BY <1>3, <1>8, <1>10, <2>0
  <2>2. i + 2 <= f + n
    BY <1>3, <1>10
  <2> QED
    BY <1>1, <1>3, <1>7, <2>1, <2>2
<1>11. CASE i > a
  <2> DEFINE j == i - a + f
  <2>1. /\ j \in Nat /\ j >= 1 /\ j + 2 <= f + n
        /\ i + 1 - a + f = j + 1 /\ i + 2 - a + f = j + 2
    <3>1. \A u, v, w, z \in Nat :
            u > v /\ u + 2 <= v + z =>
              /\ u - v + w \in Nat /\ u - v + w >= 1
              /\ (u - v + w) + 2 <= w + z
              /\ u + 1 - v + w = (u - v + w) + 1
              /\ u + 2 - v + w = (u - v + w) + 2
      OBVIOUS
    <3> QED
      BY <1>3, <1>5, <1>11, <3>1
  <2>2. y[j] = x[i]
    BY <1>3, <1>5, <1>9, <1>11
  <2>3. y[i + 1 - a + f] = x[i + 1]
    BY <1>3, <1>5, <1>9, <1>11
  <2>4. y[i + 2 - a + f] = x[i + 2]
    BY <1>3, <1>5, <1>9, <1>11
  <2> HIDE DEF j
  <2> QED
    BY <1>1, <1>7, <2>1, <2>2, <2>3, <2>4
<1>12. CASE f = a
  <2>1. ASSUME NEW k \in Nat, k >= 1, k <= a + n PROVE y[k] = x[k]
    <3>1. CASE k <= f
      BY <1>8, <2>1, <3>1
    <3>2. CASE k > f
      <4>1. k - a + f = k
        BY <1>12
      <4>2. y[k - a + f] = x[k]
        BY <1>9, <1>12, <2>1, <3>2
      <4> QED
        BY <4>1, <4>2
    <3> QED
      BY <3>1, <3>2
  <2>2. y[i] = x[i] /\ y[i + 1] = x[i + 1] /\ y[i + 2] = x[i + 2]
    BY <1>3, <1>5, <2>1
  <2> QED
    BY <1>1, <1>3, <1>5, <1>7, <1>12, <2>2
<1> QED
  BY <1>6, <1>10, <1>11, <1>12

(* Wherever the process crashes, every record that was posted and neither  *)
(* dropped nor acknowledged is complete in the log and the recovered       *)
(* buffer, or libc had a part of it or its zero bytes were cut off, or it  *)
(* is found in the ring, if no write has failed: for any tee of streams,   *)
(* any buffer, and at any step of the engine, inside of a record, of       *)
(* do_flush or of the commit of a pass.                                    *)
THEOREM RecoveryCompleteHolds == Spec => []RecoveryComplete
<1>1. IInv /\ RecInv /\ DumpInv => RecoveryComplete
  <2> SUFFICES ASSUME IInv, RecInv, DumpInv, dump # <<>>, faults = 0,
                      NEW id \in (1 .. posted) \ (lost \cup acked),
                      NEW s \in DOMAIN kinds
               PROVE  \/ RecordIn(id, InFile(s) \o dump.buf)
                      \/ InLibc(id, s) \/ Cut(id)
                      \/ \E i \in 0 .. Slots - 1 :
                           /\ slot[i].id = id
                           /\ \/ slot[i].special
                              \/ \E q \in dump.recs : q.ts = slot[i].ts
                              \/ dump.all /\ i \in {0, Slots - 1}
    BY DEF RecoveryComplete
  <2>1. TypeInv /\ HeldInv /\ DataInv /\ FiledInv
    BY DEF IInv, RecInv
  <2>2. PICK all \in BOOLEAN, b \in DumpOutbufs :
          dump = [all |-> all, buf |-> b, recs |-> DumpRecords(all)]
    BY DEF DumpInv
  <2>3. /\ dump.all = all /\ dump.buf \in DumpOutbufs
        /\ dump.recs = DumpRecords(all)
    BY <2>2
  <2>4. PICK n \in 0 .. Len(buf) :
          dump.buf = SubSeq(buf, 1, n) /\ Len(dump.buf) = n
    <3>1. buf \in Seq(Piece) /\ Len(buf) <= BufCap /\ BufCap \in Nat
      BY <2>1, BoundsAssumption DEF TypeInv
    <3>2. ~(BufCap > 0) => buf = <<>>
      BY <3>1
    <3>3. FoundOutbuf = buf
      BY <3>1, <3>2 DEF FoundOutbuf, ValidOutbuf
    <3>4. \E n \in 0 .. Len(buf) : dump.buf = SubSeq(buf, 1, n)
      BY <2>3, <3>3 DEF DumpOutbufs
    <3> QED
      BY <3>1, <3>4, CutMeaning
  <2>5. ASSUME NEW i \in Unread, slot[i].id = id
        PROVE  \E j \in 0 .. Slots - 1 :
                 /\ slot[j].id = id
                 /\ \/ slot[j].special
                    \/ \E q \in dump.recs : q.ts = slot[j].ts
                    \/ dump.all /\ j \in {0, Slots - 1}
    <3>1. i \in 0 .. Slots - 1
      BY DEF Unread, Index
    <3>2. CASE all /\ i \in {0, Slots - 1}
      BY <2>3, <2>5, <3>1, <3>2
    <3>3. CASE ~(all /\ i \in {0, Slots - 1})
      <4>1. \E q \in DumpRecords(all) : q.ts = slot[i].ts
        BY <2>1, <3>3, RecoveredCovers
      <4> QED
        BY <2>3, <2>5, <3>1, <4>1
    <3> QED
      BY <3>2, <3>3
  <2>6. ASSUME id \in Complete
        PROVE  RecordIn(id, streams[s].out \o buf)
    <3>1. /\ streams[s].out \o buf \in Seq(Piece)
          /\ Len(sent) - Len(data) <= Len(streams[s].out \o buf)
          /\ \A k \in 1 .. Len(sent) - Len(data) :
               (streams[s].out \o buf)[k] = sent[k]
      BY <2>1, StreamAndBuffer
    <3>2. PICK x \in Seq(Piece) : x = streams[s].out \o buf
      BY <3>1
    <3>3. PICK i \in 1 .. Len(sent) - Len(data) - Pieces + 1 :
            \A k \in 1 .. Pieces : sent[i + k - 1] = [id |-> id, k |-> k]
      BY <2>6 DEF Complete
    <3>4. Len(sent) \in Nat /\ Len(data) \in Nat /\ Len(x) \in Nat
      <4>1. sent \in Seq(Piece) /\ data \in Seq(Piece)
        BY <2>1 DEF TypeInv
      <4> QED
        BY <4>1
    <3>5. Len(sent) - Len(data) <= Len(x)
      BY <3>1, <3>2
    <3>6. /\ i \in 1 .. Len(x) /\ i + Pieces - 1 <= Len(x)
          /\ \A k \in 1 .. Pieces : i + k - 1 \in 1 .. Len(sent) - Len(data)
      BY <3>4, <3>5 DEF Pieces
    <3>7. \A k \in 1 .. Pieces : x[i + k - 1] = [id |-> id, k |-> k]
      BY <3>1, <3>2, <3>3, <3>6
    <3>8. DOMAIN x = 1 .. Len(x)
      OBVIOUS
    <3> QED
      BY <3>2, <3>6, <3>7, <3>8 DEF RecordIn
  <2>7. ASSUME id \in Complete, ~InLibc(id, s), ~Cut(id)
        PROVE  RecordIn(id, InFile(s) \o dump.buf)
    <3> DEFINE out == streams[s].out
               f == streams[s].filed
    <3>1. /\ out \in Seq(Piece) /\ buf \in Seq(Piece) /\ f \in Nat
          /\ f <= Len(out) /\ Len(out) \in Nat
      BY <2>1 DEF TypeInv, Stream
    <3>2. f \in 0 .. Len(out) /\ id \in Nat
      BY <3>1
    <3>3. \A k \in f + 1 .. Len(out) : out[k].id # id
      <4>1. CASE kinds[s] = "stdio"
        BY <2>7, <4>1 DEF InLibc
      <4>2. CASE kinds[s] # "stdio"
        <5>1. f = Len(out)
          BY <2>1, <4>2 DEF FiledInv
        <5> QED
          BY <3>1, <5>1
      <4> QED
        BY <4>1, <4>2
    <3>4. \A k \in n + 1 .. Len(buf) : buf[k].id # id
      BY <2>4, <2>7 DEF Cut
    <3>5. RecordIn(id, out \o buf)
      BY <2>6, <2>7
    <3>6. InFile(s) = SubSeq(out, 1, f)
      BY DEF InFile
    <3> HIDE DEF out, f
    <3> DEFINE c == SubSeq(out, 1, f)
               d == SubSeq(buf, 1, n)
               x == out \o buf
               y == c \o d
    <3>7. /\ c \in Seq(Piece) /\ Len(c) = f
          /\ \A k \in 1 .. f : c[k] = out[k]
      BY <3>1, <3>2, CutMeaning
    <3>8. /\ d \in Seq(Piece) /\ Len(d) = n
          /\ \A k \in 1 .. n : d[k] = buf[k]
      BY <3>1, CutMeaning
    <3>9. /\ x \in Seq(Piece) /\ Len(x) = Len(out) + Len(buf)
          /\ \A k \in 1 .. Len(out) : x[k] = out[k]
          /\ \A k \in 1 .. Len(buf) : x[Len(out) + k] = buf[k]
      BY <3>1, ConcatMeaning
    <3>10. /\ y \in Seq(Piece) /\ Len(y) = f + n
           /\ \A k \in 1 .. f : y[k] = c[k]
           /\ \A k \in 1 .. n : y[f + k] = d[k]
      <4>1. c \in Seq(Piece) /\ d \in Seq(Piece) /\ Len(c) = f /\ Len(d) = n
        BY <3>7, <3>8
      <4> HIDE DEF c, d
      <4>2. /\ c \o d \in Seq(Piece) /\ Len(c \o d) = Len(c) + Len(d)
            /\ \A k \in 1 .. Len(c) : (c \o d)[k] = c[k]
            /\ \A k \in 1 .. Len(d) : (c \o d)[Len(c) + k] = d[k]
        <5>1. c \in Seq(Piece) /\ d \in Seq(Piece)
          BY <4>1
        <5> QED
          BY <5>1, ConcatMeaning
      <4> QED
        BY <4>1, <4>2
    <3> HIDE DEF c, d, x, y
    <3>11. n \in Nat /\ n <= Len(buf) /\ Len(buf) \in Nat
      BY <3>1
    <3>12. \A k \in 1 .. f : y[k] = x[k]
      <4> TAKE k \in 1 .. f
      <4>1. k \in 1 .. Len(out)
        BY <3>1
      <4> QED
        BY <3>7, <3>9, <3>10, <4>1
    <3>13. \A k \in 1 .. n : y[f + k] = x[Len(out) + k]
      BY <3>8, <3>9, <3>10, <3>11
    <3>14. \A k \in f + 1 .. Len(out) : x[k].id # id
      BY <3>1, <3>3, <3>9
    <3>15. ASSUME NEW k \in Len(out) + n + 1 .. Len(out) + Len(buf)
           PROVE  x[k].id # id
      <4> DEFINE m == k - Len(out)
      <4>1. /\ m \in n + 1 .. Len(buf) /\ m \in 1 .. Len(buf)
            /\ k = Len(out) + m
        BY <3>1, <3>11
      <4> HIDE DEF m
      <4> QED
        BY <3>4, <3>9, <4>1
    <3>16. RecordIn(id, x)
      BY <3>5 DEF x
    <3>17. RecordIn(id, y)
      <4> DEFINE a == Len(out)
                 l == Len(buf)
      <4>1. /\ a \in Nat /\ l \in Nat /\ f \in Nat /\ n \in Nat
            /\ f <= a /\ n <= l
            /\ x \in Seq(Piece) /\ y \in Seq(Piece) /\ id \in Nat
            /\ Len(x) = a + l /\ Len(y) = f + n
        BY <3>1, <3>2, <3>9, <3>10, <3>11
      <4>2. /\ \A k \in 1 .. n : y[f + k] = x[a + k]
            /\ \A k \in f + 1 .. a : x[k].id # id
            /\ \A k \in a + n + 1 .. a + l : x[k].id # id
        BY <3>13, <3>14, <3>15
      <4> HIDE DEF a, l
      <4> QED
        BY <3>12, <3>16, <4>1, <4>2, CutRecord
    <3> QED
      BY <2>4, <3>6, <3>17 DEF c, d, y
  <2> QED
    BY <2>1, <2>5, <2>7 DEF HeldInv
<1>2. Init => IInv /\ RecInv /\ DumpInv
  BY IInvInit, RecInvInit
<1>3. /\ IInv /\ [Next]_vars => IInv'
      /\ IInv /\ IInv' /\ RecInv /\ [Next]_vars => RecInv'
      /\ DumpInv /\ [Next]_vars => DumpInv'
  BY IInvStep, RecInvStep, DumpInvStep
<1> QED
  BY <1>1, <1>2, <1>3, PTL DEF Spec
-----------------------------------------------------------------------------
(* What the format handler has produced                                    *)

(* What was produced is one record after another, with growing numbers, up *)
(* to the record that the engine is at.                                    *)
SentInv ==
  /\ \A j \in Nat, k \in 1 .. Pieces :
       Pieces * j + k <= Len(sent) =>
         sent[Pieces * j + k] = [id |-> sent[Pieces * j + 1].id, k |-> k]
  /\ \A j, l \in Nat :
       j < l /\ Pieces * l + 1 <= Len(sent) =>
         sent[Pieces * j + 1].id < sent[Pieces * l + 1].id
  /\ \E j \in Nat :
       Len(sent) = Pieces * j + (IF InRecord THEN piece ELSE 0)

(* The unread records that the engine has not got to.                      *)
Ahead == {i \in Unread : InPass => Dist(head, i) > Dist(head, it)}

(* Records are numbered as they are posted, and produced in that order.    *)
OrderInv ==
  /\ \A i, j \in Unread :
       Dist(head, i) < Dist(head, j) => slot[i].id < slot[j].id
  /\ \A i \in Unread : slot[i].id <= posted
  /\ \A q \in 1 .. Len(sent) :
       /\ sent[q].id <= posted
       /\ \A i \in Ahead : sent[q].id < slot[i].id
       /\ InRecord /\ q <= Len(sent) - piece => sent[q].id < slot[it].id

(* A stream does not get more than was produced, whatever fails.           *)
LengthInv ==
  \A s \in DOMAIN kinds : Len(streams[s].out) + Len(Pending(s)) <= Len(sent)

ProducedInv == SentInv /\ OrderInv /\ LengthInv

(* The types of what was produced.                                         *)
LEMMA PieceTypes ==
  ASSUME TypeInv
  PROVE  /\ Len(sent) \in Nat
         /\ \A q \in 1 .. Len(sent) : sent[q] \in Piece /\ sent[q].id \in Nat
         /\ \A i \in Index : slot[i].id \in Nat
         /\ posted \in Nat /\ piece \in Nat
<1>1. sent \in Seq(Piece)
  BY DEF TypeInv
<1>2. Len(sent) \in Nat /\ \A q \in 1 .. Len(sent) : sent[q] \in Piece
  BY <1>1
<1>3. \A p \in Piece : p.id \in Nat
  BY DEF Piece
<1>4. /\ \A i \in Index : slot[i].id \in Nat
      /\ posted \in Nat /\ piece \in Nat
  BY DEF TypeInv
<1> QED
  BY <1>2, <1>3, <1>4

(* Steps that leave the ring, the iterator and what was produced alone.    *)
LEMMA SentQuiet ==
  ASSUME SentInv, OrderInv, UNCHANGED <<slot, head, tail, posted, it, piece,
                                        sent>>,
         InRecord' = InRecord, InPass' = InPass
  PROVE  SentInv' /\ OrderInv'
<1>1. Unread' = Unread /\ Ahead' = Ahead
  BY DEF Unread, Ahead
<1>2. SentInv'
  BY DEF SentInv
<1>3. OrderInv'
  BY <1>1 DEF OrderInv
<1> QED
  BY <1>2, <1>3

(* Publishing a record in a free slot.                                     *)
LEMMA PublishOrder ==
  ASSUME IInv, RecInv, SentInv, OrderInv, NEW r,
         tail # head, posted' = posted + 1, r.id = posted',
         slot' = [slot EXCEPT ![tail] = r], tail' = Inc(tail),
         UNCHANGED <<head, engineVars, epc, back, sent>>
  PROVE  SentInv' /\ OrderInv'
<1> USE DEF engineVars
<1>0. TypeInv /\ PassInv /\ PieceInv /\ DataInv
  BY DEF IInv, RecInv
<1>1. /\ head \in Index /\ tail \in Index /\ it \in Index /\ itTail \in Index
      /\ posted \in Nat /\ slot \in [Index -> [id: Nat, ts: Nat,
                                               special: BOOLEAN]]
  BY <1>0 DEF TypeInv, DataInv
<1>2. InRecord' = InRecord /\ InPass' = InPass
  BY DEF InRecord, InPass
<1>3. SentInv'
  BY <1>2 DEF SentInv
<1>4. /\ Count(head, tail) \in Nat /\ Count(head, itTail) \in Nat
      /\ Count(head, tail') = Count(head, tail) + 1
      /\ Dist(head, tail) = Count(head, tail) + 1
  BY <1>1, Distances
<1>5. /\ \A i \in Index : /\ Dist(head, i) \in Nat
                          /\ Dist(head, i) = Dist(head, tail) => i = tail
      /\ \A i \in Index \ {tail} : slot'[i] = slot[i]
      /\ slot'[tail] = r
  <2>1. \A a, b, c \in Index : Dist(a, b) = Dist(a, c) => b = c
    BY SameDistance
  <2> QED
    BY <1>1, <2>1, Distances
<1>6. /\ \A i \in Unread' : i = tail \/ i \in Unread
      /\ \A i \in Unread : /\ i \in Index \ {tail}
                           /\ Dist(head, i) < Dist(head, tail)
                           /\ Dist(head, i) \in Nat
  BY <1>4, <1>5 DEF Unread
<1>7. \A i \in Unread : slot'[i] = slot[i] /\ slot[i].id \in Nat
  BY <1>1, <1>5, <1>6
<1>8. \A i \in Ahead' : i = tail \/ i \in Ahead
  BY <1>2, <1>6 DEF Ahead
<1>9. InRecord => it \in Unread
  BY <1>0, <1>1, <1>4, <1>5 DEF PieceInv, PassInv, InPass, Unread
<1>10. \A i, j \in Unread' :
         Dist(head, i) < Dist(head, j) => slot'[i].id < slot'[j].id
  <2> SUFFICES ASSUME NEW i \in Unread', NEW j \in Unread',
                      Dist(head, i) < Dist(head, j)
               PROVE  slot'[i].id < slot'[j].id
    OBVIOUS
  <2>1. i \in Unread
    BY <1>4, <1>6
  <2>2. CASE j = tail
    <3>1. slot'[i].id <= posted /\ slot'[i].id \in Nat
      BY <1>7, <2>1 DEF OrderInv
    <3> QED
      BY <1>1, <1>5, <2>2, <3>1
  <2>3. CASE j # tail
    BY <1>6, <1>7, <2>1, <2>3 DEF OrderInv
  <2> QED
    BY <2>2, <2>3
<1>11. \A i \in Unread' : slot'[i].id <= posted'
  <2> TAKE i \in Unread'
  <2>1. CASE i = tail
    BY <1>1, <1>5, <2>1
  <2>2. CASE i # tail
    <3>1. slot'[i].id <= posted /\ slot'[i].id \in Nat
      BY <1>6, <1>7, <2>2 DEF OrderInv
    <3> QED
      BY <1>1, <3>1
  <2> QED
    BY <2>1, <2>2
<1>12. \A q \in 1 .. Len(sent) : sent[q].id \in Nat /\ sent[q].id <= posted
  BY <1>0, PieceTypes DEF OrderInv
<1>13. ASSUME NEW q \in 1 .. Len(sent)
       PROVE  /\ sent[q].id <= posted'
              /\ \A i \in Ahead' : sent[q].id < slot'[i].id
              /\ InRecord /\ q <= Len(sent) - piece =>
                   sent[q].id < slot'[it].id
  <2>1. sent[q].id < posted + 1 /\ sent[q].id <= posted'
    BY <1>1, <1>12
  <2>2. \A i \in Ahead : i \in Unread /\ sent[q].id < slot[i].id
    BY DEF OrderInv, Ahead
  <2>3. \A i \in Ahead' : sent[q].id < slot'[i].id
    BY <1>5, <1>7, <1>8, <2>1, <2>2
  <2>4. InRecord /\ q <= Len(sent) - piece => sent[q].id < slot'[it].id
    BY <1>7, <1>9 DEF OrderInv
  <2> QED
    BY <2>1, <2>3, <2>4
<1>14. OrderInv'
  BY <1>2, <1>10, <1>11, <1>13 DEF OrderInv
<1> QED
  BY <1>3, <1>14

(* A record that is lost, and one that is posted.                          *)
LEMMA PostOrder ==
  ASSUME IInv, RecInv, SentInv, OrderInv,
         PostFlush \/ \E tick \in 0 .. 1 : Post(tick)
  PROVE  SentInv' /\ OrderInv'
<1> USE DEF engineVars, flushVars
<1>1. CASE tail # head
  <2>1. /\ posted' = posted + 1 /\ tail' = Inc(tail)
        /\ UNCHANGED <<head, engineVars, epc, back, sent>>
    BY <1>1 DEF Post, PostFlush
  <2>2. PICK r : r.id = posted' /\ slot' = [slot EXCEPT ![tail] = r]
    BY <1>1 DEF Post, PostFlush
  <2> QED
    BY <1>1, <2>1, <2>2, PublishOrder
<1>2. CASE tail = head
  <2>1. /\ posted' = posted + 1
        /\ UNCHANGED <<slot, tail, head, engineVars, epc, back, sent>>
    BY <1>2 DEF Post, PostFlush
  <2>2. InRecord' = InRecord /\ InPass' = InPass
    BY <2>1 DEF InRecord, InPass
  <2>3. Unread' = Unread /\ Ahead' = Ahead
    BY <2>1, <2>2 DEF Unread, Ahead
  <2>4. SentInv'
    BY <2>1, <2>2 DEF SentInv
  <2>5. /\ posted \in Nat
        /\ \A i \in Unread : slot[i].id \in Nat
        /\ \A q \in 1 .. Len(sent) : sent[q].id \in Nat
    BY PieceTypes DEF IInv, Unread
  <2>6. /\ \A i \in Unread : slot[i].id <= posted + 1
        /\ \A q \in 1 .. Len(sent) : sent[q].id <= posted + 1
    BY <2>5 DEF OrderInv
  <2>7. OrderInv'
    BY <2>1, <2>2, <2>3, <2>6 DEF OrderInv
  <2> QED
    BY <2>4, <2>7
<1> QED
  BY <1>1, <1>2

(* The engine starts a pass.                                               *)
LEMMA BeginOrder ==
  ASSUME IInv, SentInv, OrderInv, BeginPass
  PROVE  SentInv' /\ OrderInv'
<1> USE DEF ringVars
<1>1. /\ it' = head /\ epc = "idle" /\ epc' = "next"
      /\ UNCHANGED <<ringVars, piece, sent>>
  BY DEF BeginPass
<1>2. ~InRecord /\ ~InPass /\ ~InRecord'
  BY <1>1 DEF InRecord, InPass
<1>3. Unread' = Unread
  BY <1>1 DEF Unread
<1>4. Ahead' \subseteq Ahead
  BY <1>2, <1>3 DEF Ahead
<1>5. SentInv'
  BY <1>1, <1>2 DEF SentInv
<1>6. OrderInv'
  BY <1>1, <1>2, <1>3, <1>4 DEF OrderInv
<1> QED
  BY <1>5, <1>6

(* Moving on to the next record, when all pieces of the last were pushed.  *)
LEMMA NextOrder ==
  ASSUME IInv, RecInv, SentInv, OrderInv, NextRecord
  PROVE  SentInv' /\ OrderInv'
<1> USE DEF ringVars
<1>0. TypeInv /\ PassInv /\ DataInv
  BY DEF IInv, RecInv
<1>1. /\ epc = "next" \/ (epc = "push" /\ piece = Pieces)
      /\ Inc(it) # itTail /\ it' = Inc(it) /\ piece' = 0
      /\ UNCHANGED <<ringVars, sent>>
  BY DEF NextRecord, ReadyForNext
<1>2. epc' \in {"next", "push"}
  BY DEF NextRecord
<1>3. /\ head \in Index /\ tail \in Index /\ it \in Index /\ itTail \in Index
      /\ it' \in Index
  <2>1. head \in Index /\ tail \in Index /\ it \in Index /\ itTail \in Index
    BY <1>0 DEF TypeInv, DataInv
  <2> QED
    BY <1>1, <2>1, IndexValues
<1>4. /\ Dist(head, it) <= Count(head, itTail)
      /\ Count(head, itTail) <= Count(head, tail)
      /\ InPass /\ InPass'
  BY <1>0, <1>1, <1>2 DEF PassInv, InPass, InRecord
<1>5. /\ Dist(head, it') = Dist(head, it) + 1
      /\ Dist(head, it') <= Count(head, itTail)
      /\ \A i \in Index : Dist(head, i) \in Nat
      /\ Count(head, itTail) \in Nat /\ Count(head, tail) \in Nat
  <2>1. \A a, b, c \in Index :
          Inc(b) # c /\ Dist(a, b) <= Count(a, c) =>
            /\ Dist(a, Inc(b)) = Dist(a, b) + 1
            /\ Dist(a, Inc(b)) <= Count(a, c)
    BY NextDistance
  <2> QED
    BY <1>1, <1>3, <1>4, <2>1, Distances
<1>6. Unread' = Unread
  BY <1>1 DEF Unread
<1>7. it' \in Ahead
  <2>1. Dist(head, it') \in 1 .. Count(head, tail)
    BY <1>3, <1>4, <1>5
  <2> QED
    BY <1>3, <1>5, <2>1 DEF Ahead, Unread
<1>8. Ahead' \subseteq Ahead
  <2>1. \A i \in Unread : Dist(head, i) \in Nat
    BY <1>5 DEF Unread
  <2> QED
    BY <1>1, <1>3, <1>4, <1>5, <1>6, <2>1 DEF Ahead
<1>9. SentInv'
  <2>1. PICK j \in Nat :
          Len(sent) = Pieces * j + (IF InRecord THEN piece ELSE 0)
    BY DEF SentInv
  <2>2. Len(sent) = Pieces * j \/ Len(sent) = Pieces * (j + 1)
    BY <1>1, <2>1 DEF InRecord, Pieces
  <2>3. \E l \in Nat :
          Len(sent') = Pieces * l + (IF InRecord' THEN piece' ELSE 0)
    <3>1. PICK l \in Nat : Len(sent) = Pieces * l
      BY <2>2
    <3>2. Len(sent) = Pieces * l + 0
      BY <3>1 DEF Pieces
    <3> QED
      BY <1>1, <3>2
  <2> QED
    BY <1>1, <2>3 DEF SentInv
<1>10. OrderInv'
  <2>1. \A q \in 1 .. Len(sent) :
          /\ sent[q].id <= posted
          /\ sent[q].id < slot[it'].id
          /\ \A i \in Ahead' : sent[q].id < slot[i].id
    BY <1>7, <1>8 DEF OrderInv
  <2> QED
    BY <1>1, <1>6, <2>1 DEF OrderInv
<1> QED
  BY <1>9, <1>10

(* The record that the engine is at was numbered before those ahead.       *)
LEMMA CurrentRecord ==
  ASSUME TypeInv, PassInv, PieceInv, DataInv, OrderInv, InRecord
  PROVE  /\ it \in Unread
         /\ slot[it].id <= posted
         /\ \A i \in Ahead : slot[it].id < slot[i].id
<1>1. /\ Dist(head, it) <= Count(head, itTail)
      /\ Count(head, itTail) <= Count(head, tail)
      /\ Dist(head, it) >= 1 /\ InPass
  BY DEF PassInv, PieceInv, InPass
<1>2. /\ head \in Index /\ tail \in Index /\ it \in Index /\ itTail \in Index
  BY DEF TypeInv, DataInv
<1>3. /\ Dist(head, it) \in Nat /\ Count(head, itTail) \in Nat
      /\ Count(head, tail) \in Nat
  BY <1>2, Distances
<1>4. it \in Unread
  BY <1>1, <1>2, <1>3 DEF Unread
<1>5. \A i \in Ahead : i \in Unread /\ Dist(head, it) < Dist(head, i)
  <2>1. \A i \in Unread : Dist(head, i) \in Nat
    BY <1>2, Distances DEF Unread
  <2> QED
    BY <1>1, <1>3, <2>1 DEF Ahead
<1> QED
  BY <1>4, <1>5 DEF OrderInv

(* ostrbuf::push_back of a piece.                                          *)
LEMMA PushOrder ==
  ASSUME IInv, RecInv, SentInv, OrderInv, PushBack
  PROVE  SentInv' /\ OrderInv'
<1> USE DEF ringVars, flushVars
<1>0. TypeInv /\ PassInv /\ PieceInv /\ DataInv
  BY DEF IInv, RecInv
<1> DEFINE p == [id |-> slot[it].id, k |-> piece + 1]
<1>1. /\ epc = "push" /\ piece < Pieces /\ piece' = piece + 1
      /\ sent' = Append(sent, p)
      /\ UNCHANGED <<ringVars, it>>
      /\ epc' = "push" \/ (epc' = "write" /\ back' = "push")
  BY DEF PushBack, DoFlush
<1>2. /\ InRecord /\ InRecord' /\ InPass /\ InPass'
  BY <1>1 DEF InRecord, InPass
<1>3. sent \in Seq(Piece) /\ p \in Piece
  BY <1>0 DEF TypeInv, Piece
<1>4. p.id = slot[it].id /\ p.k = piece + 1
      /\ p = [id |-> slot[it].id, k |-> piece + 1]
  OBVIOUS
<1> HIDE DEF p
<1>5. /\ Len(sent') = Len(sent) + 1 /\ sent'[Len(sent) + 1] = p
      /\ \A q \in 1 .. Len(sent) : sent'[q] = sent[q]
      /\ \A q \in 1 .. Len(sent') : q = Len(sent) + 1 \/ q \in 1 .. Len(sent)
      /\ Len(sent) \in Nat
  BY <1>1, <1>3
<1>6. piece \in Nat /\ slot[it].id \in Nat
  BY <1>0 DEF TypeInv
<1>7. PICK m \in Nat : Len(sent) = Pieces * m + piece
  BY <1>2 DEF SentInv
<1>8. /\ piece <= Len(sent)
      /\ \A k \in 1 .. piece :
           sent[Len(sent) - piece + k] = [id |-> slot[it].id, k |-> k]
  BY <1>0, <1>2 DEF PieceInv
(* The first piece of the record. *)
<1>9. sent'[Pieces * m + 1].id = slot[it].id
  <2>1. CASE piece = 0
    <3>1. Pieces * m + 1 = Len(sent) + 1
      BY <1>7, <2>1 DEF Pieces
    <3> QED
      BY <1>4, <1>5, <3>1
  <2>2. CASE piece # 0
    <3>1. /\ 1 \in 1 .. piece /\ Len(sent) - piece + 1 = Pieces * m + 1
          /\ Pieces * m + 1 \in 1 .. Len(sent)
      BY <1>5, <1>6, <1>7, <2>2 DEF Pieces
    <3>2. sent[Len(sent) - piece + 1] = [id |-> slot[it].id, k |-> 1]
      BY <1>8, <3>1
    <3>3. sent[Pieces * m + 1].id = slot[it].id
      BY <3>1, <3>2
    <3> QED
      BY <1>5, <3>1, <3>3
  <2> QED
    BY <2>1, <2>2
<1>10. ASSUME NEW j \in Nat, NEW k \in 1 .. Pieces,
              Pieces * j + k <= Len(sent')
       PROVE  sent'[Pieces * j + k]
                = [id |-> sent'[Pieces * j + 1].id, k |-> k]
  <2>1. CASE Pieces * j + k <= Len(sent)
    <3>1. /\ Pieces * j + k \in 1 .. Len(sent)
          /\ Pieces * j + 1 \in 1 .. Len(sent)
      BY <1>5, <2>1 DEF Pieces
    <3>2. sent[Pieces * j + k] = [id |-> sent[Pieces * j + 1].id, k |-> k]
      BY <2>1 DEF SentInv
    <3> QED
      BY <1>5, <3>1, <3>2
  <2>2. CASE ~(Pieces * j + k <= Len(sent))
    <3>1. j = m /\ k = piece + 1 /\ Pieces * j + k = Len(sent) + 1
      BY <1>1, <1>5, <1>6, <1>7, <1>10, <2>2 DEF Pieces
    <3> QED
      BY <1>4, <1>5, <1>9, <3>1
  <2> QED
    BY <2>1, <2>2
<1>11. ASSUME NEW j \in Nat, NEW l \in Nat, j < l,
              Pieces * l + 1 <= Len(sent')
       PROVE  sent'[Pieces * j + 1].id < sent'[Pieces * l + 1].id
  <2>1. Pieces * j + 1 \in 1 .. Len(sent)
    BY <1>5, <1>11 DEF Pieces
  <2>2. CASE Pieces * l + 1 <= Len(sent)
    <3>1. Pieces * l + 1 \in 1 .. Len(sent)
      BY <1>5, <2>2 DEF Pieces
    <3>2. sent[Pieces * j + 1].id < sent[Pieces * l + 1].id
      BY <1>11, <2>2 DEF SentInv
    <3> QED
      BY <1>5, <2>1, <3>1, <3>2
  <2>3. CASE ~(Pieces * l + 1 <= Len(sent))
    <3>1. /\ l = m /\ piece = 0 /\ Pieces * l + 1 = Len(sent) + 1
          /\ Pieces * j + 1 <= Len(sent) - piece
      BY <1>1, <1>5, <1>6, <1>7, <1>11, <2>1, <2>3 DEF Pieces
    <3>2. sent[Pieces * j + 1].id < slot[it].id
      BY <1>2, <2>1, <3>1 DEF OrderInv
    <3> QED
      BY <1>4, <1>5, <2>1, <3>1, <3>2
  <2> QED
    BY <2>2, <2>3
<1>12. SentInv'
  <2>1. Len(sent') = Pieces * m + piece'
    BY <1>1, <1>5, <1>6, <1>7 DEF Pieces
  <2> QED
    BY <1>2, <1>10, <1>11, <2>1 DEF SentInv
<1>13. Unread' = Unread
  BY <1>1 DEF Unread
<1>14. Ahead' = Ahead
  BY <1>1, <1>2, <1>13 DEF Ahead
<1>15. /\ slot[it].id <= posted
       /\ \A i \in Ahead : slot[it].id < slot[i].id
  BY <1>0, <1>2, CurrentRecord
<1>16. ASSUME NEW q \in 1 .. Len(sent')
       PROVE  /\ sent'[q].id <= posted
              /\ \A i \in Ahead : sent'[q].id < slot[i].id
              /\ q <= Len(sent') - piece' => sent'[q].id < slot[it].id
  <2>1. CASE q \in 1 .. Len(sent)
    <3>1. q <= Len(sent') - piece' => q <= Len(sent) - piece
      BY <1>1, <1>5, <1>6
    <3> QED
      BY <1>2, <1>5, <2>1, <3>1 DEF OrderInv
  <2>2. CASE q = Len(sent) + 1
    <3>1. ~(q <= Len(sent') - piece')
      BY <1>1, <1>5, <1>6, <2>2
    <3> QED
      BY <1>4, <1>5, <1>15, <2>2, <3>1
  <2> QED
    BY <1>5, <2>1, <2>2
<1>17. OrderInv'
  BY <1>1, <1>13, <1>14, <1>16 DEF OrderInv
<1> QED
  BY <1>12, <1>17

(* Distances before the head has moved.                                    *)
LEMMA ReleasedDistance ==
  \A a, b, c, i \in Index :
    Dist(a, b) <= Count(a, c) /\ Dist(b, i) \in 1 .. Count(b, c) =>
      /\ Dist(a, i) = Dist(a, b) + Dist(b, i)
      /\ Dist(a, i) <= Count(a, c)
<1> SUFFICES ASSUME NEW a \in Index, NEW b \in Index, NEW c \in Index,
                    NEW i \in Index,
                    Dist(a, b) <= Count(a, c), Dist(b, i) >= 1,
                    Dist(b, i) <= Count(b, c)
             PROVE  /\ Dist(a, i) = Dist(a, b) + Dist(b, i)
                    /\ Dist(a, i) <= Count(a, c)
  OBVIOUS
<1>1. /\ Dist(a, b) = IF b >= a THEN b - a ELSE b - a + Slots
      /\ Dist(a, i) = IF i >= a THEN i - a ELSE i - a + Slots
      /\ Count(a, c) = IF c > a THEN c - a - 1 ELSE c - a - 1 + Slots
      /\ Dist(b, i) = IF i >= b THEN i - b ELSE i - b + Slots
      /\ Count(b, c) = IF c > b THEN c - b - 1 ELSE c - b - 1 + Slots
  BY IndexValues
<1>2. /\ a \in Int /\ b \in Int /\ c \in Int /\ i \in Int /\ Slots \in Int
      /\ 0 <= a /\ a < Slots /\ 0 <= b /\ b < Slots
      /\ 0 <= c /\ c < Slots /\ 0 <= i /\ i < Slots
  BY SlotsAssumption DEF Index
<1>3. CASE b >= a
  BY <1>1, <1>2, <1>3
<1>4. CASE ~(b >= a)
  BY <1>1, <1>2, <1>4
<1> QED
  BY <1>3, <1>4

(* The pass releases the records that it has visited.                      *)
LEMMA CommitOrder ==
  ASSUME IInv, RecInv, SentInv, OrderInv, Commit
  PROVE  SentInv' /\ OrderInv'
<1> USE DEF engineVars
<1>0. TypeInv /\ PassInv /\ DataInv
  BY DEF IInv, RecInv
<1>1. /\ epc = "next" \/ (epc = "push" /\ piece = Pieces)
      /\ head' = it /\ epc' = "flush"
      /\ UNCHANGED <<slot, tail, posted, engineVars, sent>>
  BY DEF Commit, ReadyForNext
<1>2. /\ head \in Index /\ tail \in Index /\ it \in Index /\ itTail \in Index
  BY <1>0 DEF TypeInv, DataInv
<1>3. /\ ~InRecord' /\ ~InPass' /\ InPass
      /\ InRecord => piece = Pieces
  BY <1>1 DEF InRecord, InPass
<1>4. /\ Dist(head, it) \in Nat /\ Count(head, itTail) \in Nat
      /\ Count(head, tail) \in Nat
      /\ \A i \in Index : Dist(it, i) \in Nat
  BY <1>2, Distances
<1>5. Dist(head, it) <= Count(head, tail)
  BY <1>0, <1>3, <1>4 DEF PassInv
<1>6. \A i \in Unread' : /\ i \in Index /\ Dist(it, i) \in 1 .. Count(it, tail)
                         /\ Dist(head, i) = Dist(head, it) + Dist(it, i)
                         /\ Dist(head, i) <= Count(head, tail)
  BY <1>1, <1>2, <1>5, ReleasedDistance DEF Unread
<1>7. Unread' \subseteq Ahead
  <2> SUFFICES ASSUME NEW i \in Unread' PROVE i \in Ahead
    OBVIOUS
  <2>1. /\ i \in Index /\ Dist(it, i) \in Nat /\ Dist(it, i) >= 1
        /\ Dist(head, i) = Dist(head, it) + Dist(it, i)
        /\ Dist(head, i) <= Count(head, tail)
    BY <1>4, <1>6
  <2>2. /\ Dist(head, i) \in 1 .. Count(head, tail)
        /\ Dist(head, i) > Dist(head, it)
    BY <1>4, <2>1
  <2> QED
    BY <2>1, <2>2 DEF Ahead, Unread
<1>8. \A i, j \in Unread' : Dist(it, i) < Dist(it, j) =>
                             Dist(head, i) < Dist(head, j)
  BY <1>4, <1>6
<1>9. SentInv'
  <2>1. PICK j \in Nat :
          Len(sent) = Pieces * j + (IF InRecord THEN piece ELSE 0)
    BY DEF SentInv
  <2>2. Len(sent) = Pieces * j + 0 \/ Len(sent) = Pieces * (j + 1) + 0
    BY <1>3, <2>1 DEF Pieces
  <2>3. \E l \in Nat : Len(sent) = Pieces * l + 0
    BY <2>2
  <2> QED
    BY <1>1, <1>3, <2>3 DEF SentInv
<1>10. OrderInv'
  <2>1. Unread' \subseteq Unread /\ Ahead' \subseteq Ahead
    BY <1>7 DEF Ahead
  <2>2. \A i, j \in Unread' :
          Dist(it, i) < Dist(it, j) => slot[i].id < slot[j].id
    BY <1>8, <2>1 DEF OrderInv
  <2> QED
    BY <1>1, <1>3, <2>1, <2>2 DEF OrderInv
<1> QED
  BY <1>9, <1>10

(* A flush writes at most the buffer and the new data.                     *)
LEMMA FlushedLength ==
  ASSUME TypeInv, NEW s \in Stream, NEW kind \in Kinds,
         NEW t \in FlushedTo(s, kind)
  PROVE  Len(t.out) \in Nat /\ Len(t.out) <= Len(s.out) + Len(buf) + Len(data)
<1>1. /\ s.out \in Seq(Piece) /\ buf \in Seq(Piece) /\ data \in Seq(Piece)
  BY DEF Stream, TypeInv
<1>2. Len(s.out) \in Nat /\ Len(buf) \in Nat /\ Len(data) \in Nat
  BY <1>1
<1>3. CASE ~Tee
  <2>1. t \in Written(s, kind, buf, data)
    BY <1>3 DEF FlushedTo
  <2>2. t \in Stream /\ Len(t.out) <= Len(s.out) + Len(buf) + Len(data)
    BY <1>1, <2>1, WrittenFacts
  <2> QED
    BY <2>2 DEF Stream
<1>4. CASE Tee
  <2> DEFINE e == <<>>
  <2>1. PICK u \in Written(s, kind, e, buf) : t \in Written(u, kind, e, data)
    BY <1>4 DEF FlushedTo
  <2>2. e \in Seq(Piece) /\ Len(e) = 0
    OBVIOUS
  <2> HIDE DEF e
  <2>3. u \in Stream /\ Len(u.out) <= Len(s.out) + Len(e) + Len(buf)
    BY <1>1, <2>1, <2>2, WrittenFacts
  <2>4. t \in Stream /\ Len(t.out) <= Len(u.out) + Len(e) + Len(data)
    BY <1>1, <2>1, <2>2, <2>3, WrittenFacts
  <2>5. Len(u.out) \in Nat /\ Len(t.out) \in Nat
    BY <2>3, <2>4 DEF Stream
  <2> QED
    BY <1>2, <2>2, <2>3, <2>4, <2>5
<1> QED
  BY <1>3, <1>4

(* Steps that write nothing and push nothing.                              *)
LEMMA LengthQuiet ==
  ASSUME LengthInv, UNCHANGED <<kinds, streams, sent>>,
         \A s \in DOMAIN kinds : Len(Pending(s)') <= Len(Pending(s)),
         TypeInv, TypeInv'
  PROVE  LengthInv'
<1> SUFFICES ASSUME NEW s \in DOMAIN kinds
             PROVE  Len(streams[s].out) + Len(Pending(s)') <= Len(sent)
  BY DEF LengthInv
<1>1. streams[s].out \in Seq(Piece)
  BY DEF TypeInv, Stream
<1>2. buf \in Seq(Piece) /\ data \in Seq(Piece) /\ sent \in Seq(Piece)
  BY DEF TypeInv
<1>3. buf' \in Seq(Piece) /\ data' \in Seq(Piece)
  BY DEF TypeInv
<1>4. Pending(s) \in Seq(Piece)
  BY <1>2 DEF Pending
<1>5. Pending(s)' \in Seq(Piece)
  BY <1>3 DEF Pending
<1>6. /\ Len(streams[s].out) \in Nat /\ Len(sent) \in Nat
      /\ Len(Pending(s)) \in Nat /\ Len(Pending(s)') \in Nat
  BY <1>1, <1>2, <1>4, <1>5
<1>7. Len(streams[s].out) + Len(Pending(s)) <= Len(sent)
  BY DEF LengthInv
<1> QED
  BY <1>6, <1>7

(* Pushing a piece, and flushing at the end of a pass.                     *)
LEMMA PushLength ==
  ASSUME TypeInv, TypeInv', DataInv, LengthInv, PushBack \/ EndPass
  PROVE  LengthInv'
<1> USE DEF ringVars, flushVars
<1>1. /\ buf \in Seq(Piece) /\ data \in Seq(Piece) /\ sent \in Seq(Piece)
      /\ kinds \in Seq(Kinds)
  BY DEF TypeInv
<1>2. CASE PushBack
  <2> DEFINE p == [id |-> slot[it].id, k |-> piece + 1]
  <2>1. /\ epc = "push" /\ sent' = Append(sent, p)
        /\ UNCHANGED <<kinds, streams>>
        /\ \/ buf' = Append(buf, p) /\ epc' = epc
           \/ buf' = buf /\ epc' = "push"
           \/ buf' = buf /\ epc' = "write" /\ data' = <<p>> /\ target' = 1
    BY <1>2 DEF PushBack, DoFlush
  <2>2. p \in Piece
    BY DEF TypeInv, Piece
  <2> HIDE DEF p
  <2>3. Len(sent') = Len(sent) + 1 /\ Len(sent) \in Nat /\ Len(buf) \in Nat
    BY <1>1, <2>1, <2>2
  <2>4. ASSUME NEW s \in DOMAIN kinds
        PROVE  Len(Pending(s)') \in Nat /\ Len(Pending(s)') <= Len(buf) + 1
    <3>1. CASE epc' # "write"
      <4>1. Pending(s)' = buf'
        BY <3>1 DEF Pending
      <4>2. Len(buf') \in Nat /\ Len(buf') <= Len(buf) + 1
        BY <1>1, <2>1, <2>2, <3>1
      <4> QED
        BY <4>1, <4>2
    <3>2. CASE epc' = "write"
      <4>1. s \in Nat /\ s >= 1
        BY <1>1
      <4>2. buf' = buf /\ data' = <<p>> /\ target' = 1
        BY <2>1, <3>2
      <4>3. Pending(s)' = buf \o <<p>>
        BY <3>2, <4>1, <4>2 DEF Pending
      <4>4. Len(buf \o <<p>>) = Len(buf) + 1
        BY <1>1, <2>2
      <4> QED
        BY <2>3, <4>3, <4>4
    <3> QED
      BY <3>1, <3>2
  <2>5. ASSUME NEW s \in DOMAIN kinds
        PROVE  Len(streams[s].out) + Len(Pending(s)') <= Len(sent) + 1
    <3>1. Len(streams[s].out) + Len(buf) <= Len(sent)
      BY <2>1 DEF LengthInv, Pending
    <3>2. Len(streams[s].out) \in Nat
      <4>1. streams[s].out \in Seq(Piece)
        BY DEF TypeInv, Stream
      <4> QED
        BY <4>1
    <3> QED
      BY <2>3, <2>4, <3>1, <3>2
  <2> QED
    BY <2>1, <2>3, <2>5 DEF LengthInv
<1>3. CASE EndPass
  <2>1. /\ epc = "flush" /\ UNCHANGED <<kinds, streams, sent, buf>>
        /\ \/ epc' = "idle"
           \/ epc' = "write" /\ data' = <<>> /\ target' = 1
    BY <1>3 DEF EndPass, OutputFlush, DoFlush
  <2>2. ASSUME NEW s \in DOMAIN kinds
        PROVE  Pending(s)' = Pending(s)
    <3>1. s \in Nat /\ s >= 1
      BY <1>1
    <3>2. buf \o <<>> = buf
      BY <1>1
    <3>3. Pending(s) = buf
      BY <2>1 DEF Pending
    <3>4. CASE epc' = "idle"
      BY <2>1, <3>3, <3>4 DEF Pending
    <3>5. CASE epc' = "write"
      <4>1. buf' = buf /\ data' = <<>> /\ target' = 1 /\ ~(s < 1)
        BY <2>1, <3>1, <3>5
      <4>2. Pending(s)' = buf \o <<>>
        BY <3>5, <4>1 DEF Pending
      <4> QED
        BY <3>2, <3>3, <4>2
    <3> QED
      BY <2>1, <3>4, <3>5
  <2>3. \A s \in DOMAIN kinds : Len(Pending(s)) \in Nat
    BY <1>1, <2>1 DEF Pending
  <2>4. \A s \in DOMAIN kinds : Len(Pending(s)') <= Len(Pending(s))
    BY <2>2, <2>3
  <2> QED
    BY <2>1, <2>4, LengthQuiet
<1> QED
  BY <1>2, <1>3

(* Writing to one stream, and the end of do_flush.                         *)
LEMMA WriteLength ==
  ASSUME TypeInv, TypeInv', LengthInv, FlushStream \/ FlushReset
  PROVE  LengthInv'
<1> USE DEF ringVars, engineVars, flushVars
<1>1. /\ buf \in Seq(Piece) /\ data \in Seq(Piece) /\ sent \in Seq(Piece)
      /\ kinds \in Seq(Kinds) /\ target \in Nat /\ target # 0
      /\ streams \in [DOMAIN kinds -> Stream]
      /\ back \in {"push", "idle"}
  BY DEF TypeInv
<1>2. CASE FlushStream
  <2>1. /\ epc = "write" /\ target <= Len(kinds) /\ target' = target + 1
        /\ UNCHANGED <<epc, kinds, buf, data, sent>>
    BY <1>2 DEF FlushStream
  <2>2. PICK t \in FlushedTo(streams[target], kinds[target]) :
          streams' = [streams EXCEPT ![target] = t]
    BY <1>2 DEF FlushStream
  <2>3. target \in DOMAIN kinds /\ \A s \in DOMAIN kinds : s \in Nat
    BY <1>1, <2>1
  <2>4. /\ streams[target] \in Stream /\ kinds[target] \in Kinds
        /\ streams'[target] = t
        /\ \A s \in DOMAIN kinds : s # target => streams'[s] = streams[s]
    <3>1. streams[target] \in Stream
      BY <1>1, <2>3
    <3>2. kinds[target] \in Kinds
      BY <1>1, <2>1
    <3>3. \A s \in DOMAIN kinds :
            streams'[s] = IF s = target THEN t ELSE streams[s]
      BY <1>1, <2>2
    <3> QED
      BY <2>3, <3>1, <3>2, <3>3
  <2>5. /\ Len(t.out) \in Nat
        /\ Len(t.out) <= Len(streams[target].out) + Len(buf) + Len(data)
    BY <2>4, FlushedLength
  <2>6. ASSUME NEW s \in DOMAIN kinds
        PROVE  Len(streams'[s].out) + Len(Pending(s)') <= Len(sent)
    <3>1. Len(streams[s].out) + Len(Pending(s)) <= Len(sent)
      BY DEF LengthInv
    <3>2. CASE s # target
      <4>1. (s < target') <=> (s < target)
        BY <1>1, <2>1, <2>3, <3>2
      <4>2. Pending(s)' = Pending(s)
        BY <2>1, <4>1 DEF Pending
      <4> QED
        BY <2>4, <3>1, <3>2, <4>2
    <3>3. CASE s = target
      <4>1. Pending(s) = buf \o data /\ Pending(s)' = <<>>
        BY <1>1, <2>1, <3>3 DEF Pending
      <4>2. /\ Len(buf \o data) = Len(buf) + Len(data) /\ Len(<<>>) = 0
            /\ Len(buf) \in Nat /\ Len(data) \in Nat /\ Len(sent) \in Nat
        BY <1>1
      <4>3. Len(streams[s].out) \in Nat
        <5>1. streams[s].out \in Seq(Piece)
          BY <1>1 DEF Stream
        <5> QED
          BY <5>1
      <4>4. \A a, b, c, d, e \in Nat :
              a <= b + c + d /\ b + (c + d) <= e => a + 0 <= e
        OBVIOUS
      <4>5. Len(streams[s].out) + (Len(buf) + Len(data)) <= Len(sent)
        BY <3>1, <4>1, <4>2
      <4>6. Len(t.out) + 0 <= Len(sent)
        BY <2>5, <3>3, <4>2, <4>3, <4>4, <4>5
      <4>7. streams'[s].out = t.out /\ Len(Pending(s)') = 0
        BY <2>4, <3>3, <4>1, <4>2
      <4> QED
        BY <4>6, <4>7
    <3> QED
      BY <3>2, <3>3
  <2> QED
    BY <2>1, <2>6 DEF LengthInv
<1>3. CASE FlushReset
  <2>1. /\ epc = "write" /\ target > Len(kinds) /\ buf' = <<>>
        /\ epc' = back /\ UNCHANGED <<kinds, streams, sent>>
    BY <1>3 DEF FlushReset
  <2>2. ASSUME NEW s \in DOMAIN kinds
        PROVE  Pending(s)' = <<>> /\ Pending(s) = <<>>
    <3>1. s < target
      BY <1>1, <2>1
    <3> QED
      BY <1>1, <2>1, <3>1 DEF Pending
  <2>3. \A s \in DOMAIN kinds : Len(Pending(s)') <= Len(Pending(s))
    BY <2>2
  <2> QED
    BY <2>1, <2>3, LengthQuiet
<1> QED
  BY <1>2, <1>3

(* The other steps do not touch the buffer.                                *)
LEMMA OtherLength ==
  ASSUME TypeInv, TypeInv', LengthInv,
         \/ UNCHANGED logVars \/ PostFlush \/ \E tick \in 0 .. 1 : Post(tick)
         \/ BeginPass \/ NextRecord \/ Commit \/ Crash
         \/ \E all \in BOOLEAN : Recover(all)
  PROVE  LengthInv'
<1> USE DEF ringVars, engineVars, flushVars
<1>1. /\ UNCHANGED <<kinds, streams, sent, buf, data, target>>
      /\ epc' = epc \/ (epc # "write" /\ epc' # "write")
  BY DEF logVars, PostFlush, Post, BeginPass, NextRecord, ReadyForNext, Commit,
         Crash, Recover
<1>2. \A s \in DOMAIN kinds : Pending(s)' = Pending(s)
  BY <1>1 DEF Pending
<1>3. \A s \in DOMAIN kinds : Len(Pending(s)) \in Nat
  <2>1. buf \in Seq(Piece) /\ data \in Seq(Piece)
    BY DEF TypeInv
  <2>2. \A s \in DOMAIN kinds : Pending(s) \in Seq(Piece)
    BY <2>1 DEF Pending
  <2> QED
    BY <2>2
<1>4. \A s \in DOMAIN kinds : Len(Pending(s)') <= Len(Pending(s))
  BY <1>2, <1>3
<1> QED
  BY <1>1, <1>4, LengthQuiet

(* Flushing, crashing, and the tools.                                      *)
LEMMA FlushOrder ==
  ASSUME IInv, SentInv, OrderInv,
         EndPass \/ FlushStream \/ FlushReset \/ UNCHANGED logVars \/ Crash
           \/ \E all \in BOOLEAN : Recover(all)
  PROVE  SentInv' /\ OrderInv'
<1> USE DEF ringVars, engineVars, flushVars
<1>1. UNCHANGED <<slot, head, tail, posted, it, piece, sent>>
  BY DEF EndPass, FlushStream, FlushReset, logVars, Crash, Recover
<1>2. InRecord' = InRecord /\ InPass' = InPass
  <2>1. CASE EndPass
    BY <2>1 DEF EndPass, OutputFlush, DoFlush, InRecord, InPass
  <2>2. CASE FlushReset
    <3>1. back \in {"push", "idle"} /\ epc = "write" /\ epc' = back
          /\ back' = back
      BY <2>2 DEF IInv, TypeInv, FlushReset
    <3> QED
      BY <3>1 DEF InRecord, InPass
  <2>3. CASE ~(EndPass \/ FlushReset)
    <3>1. UNCHANGED <<epc, back>>
      BY <2>3 DEF FlushStream, logVars, Crash, Recover
    <3> QED
      BY <3>1 DEF InRecord, InPass
  <2> QED
    BY <2>1, <2>2, <2>3
<1> QED
  BY <1>1, <1>2, SentQuiet

(* Nothing was produced and nothing written.                               *)
LEMMA ProducedInit == Init => ProducedInv
<1> SUFFICES ASSUME Init PROVE ProducedInv
  OBVIOUS
<1>1. /\ epc = "idle" /\ sent = <<>> /\ buf = <<>> /\ posted = 0
      /\ head = Start /\ tail = Inc(Start)
      /\ streams = [s \in DOMAIN kinds |->
                      [out |-> <<>>, filed |-> 0, failed |-> FALSE]]
  BY DEF Init, LogInit
<1>2. ~InRecord /\ ~InPass /\ Len(sent) = 0
  BY <1>1 DEF InRecord, InPass
<1>3. SentInv
  <2>1. 0 \in Nat /\ Len(sent) = Pieces * 0 + 0
    BY <1>2 DEF Pieces
  <2>2. \A j \in Nat, k \in 1 .. Pieces : ~(Pieces * j + k <= Len(sent))
    BY <1>2 DEF Pieces
  <2>3. \A j \in Nat : ~(Pieces * j + 1 <= Len(sent))
    BY <1>2 DEF Pieces
  <2> QED
    BY <1>2, <2>1, <2>2, <2>3 DEF SentInv
<1>4. Unread = {}
  <2>1. Start \in Index /\ Inc(Start) \in Index
    BY SlotsAssumption DEF Index, Inc
  <2>2. Count(head, tail) = 0
    <3>1. Count(Start, Inc(Start)) = IF Inc(Start) > Start
                                     THEN Inc(Start) - Start - 1
                                     ELSE Inc(Start) - Start - 1 + Slots
      BY <2>1, IndexValues
    <3>2. Inc(Start) = (IF Start = Slots - 1 THEN 0 ELSE Start + 1)
      BY <2>1, IndexValues
    <3> QED
      BY <1>1, <3>1, <3>2, SlotsAssumption
  <2> QED
    BY <2>2 DEF Unread
<1>5. OrderInv
  BY <1>2, <1>4 DEF OrderInv
<1>6. LengthInv
  <2>1. \A s \in DOMAIN kinds : streams[s].out = <<>> /\ Pending(s) = <<>>
    BY <1>1 DEF Pending
  <2> QED
    BY <1>2, <2>1 DEF LengthInv
<1> QED
  BY <1>3, <1>5, <1>6 DEF ProducedInv

(* Every step keeps what was produced in order.                            *)
LEMMA ProducedStep ==
  IInv /\ IInv' /\ RecInv /\ ProducedInv /\ [Next]_vars => ProducedInv'
<1> SUFFICES ASSUME IInv, IInv', RecInv, ProducedInv, [Next]_vars
             PROVE  ProducedInv'
  OBVIOUS
<1>0. TypeInv /\ TypeInv' /\ DataInv /\ SentInv /\ OrderInv /\ LengthInv
  BY DEF IInv, RecInv, ProducedInv
<1>1. CASE UNCHANGED logVars
  BY <1>0, <1>1, FlushOrder, OtherLength DEF ProducedInv
<1>2. CASE LogNext
  <2>1. CASE BeginPass \/ NextRecord \/ Commit
    BY <1>0, <2>1, BeginOrder, NextOrder, CommitOrder, OtherLength
    DEF ProducedInv
  <2>2. CASE PushBack
    BY <1>0, <2>2, PushOrder, PushLength DEF ProducedInv
  <2>3. CASE EndPass \/ FlushStream \/ FlushReset
    BY <1>0, <2>3, FlushOrder, PushLength, WriteLength DEF ProducedInv
  <2>4. CASE Crash \/ \E all \in BOOLEAN : Recover(all)
    BY <1>0, <2>4, FlushOrder, OtherLength DEF ProducedInv
  <2>5. CASE PostFlush \/ \E tick \in 0 .. 1 : Post(tick)
    BY <1>0, <2>5, PostOrder, OtherLength DEF ProducedInv
  <2> QED
    BY <1>2, <2>1, <2>2, <2>3, <2>4, <2>5 DEF LogNext, EngineNext
<1> QED
  BY <1>1, <1>2
  DEF Next, vars, CookNext, CookStart, CookRecord, CookGuess,
      CookFormatError, CookInputEnd

-----------------------------------------------------------------------------
(* What hogl-cook has printed                                              *)

CookedRecord == [id: Nat, whole: BOOLEAN]

CookTypeInv ==
  /\ cpc \in {"off", "parse", "end"} /\ tailf \in BOOLEAN
  /\ offset \in Nat /\ pos \in Nat /\ nrecs \in Nat
  /\ cooked \in Seq(CookedRecord)
  /\ cpc = "off" => offset = 0 /\ pos = 0 /\ nrecs = 0 /\ cooked = <<>>
  /\ cpc # "off" /\ ~tailf => ~alive

(* Without faults the true records that were printed were logged, before    *)
(* pos, and in order, and from the first of them on the parser is at the   *)
(* beginning of a record.                                                  *)
PrintedInv ==
  faults = 0 =>
    /\ \A i \in 1 .. Len(cooked) : cooked[i].whole =>
         \E j \in Nat : /\ Pieces * j + Pieces <= pos
                        /\ Pieces * j + 1 <= Len(sent)
                        /\ cooked[i].id = sent[Pieces * j + 1].id
    /\ \A i, j \in 1 .. Len(cooked) :
         i < j /\ cooked[i].whole
           => cooked[j].whole /\ cooked[i].id < cooked[j].id
    /\ (\E i \in 1 .. Len(cooked) : cooked[i].whole)
         => \E m \in Nat : pos = Pieces * m
    /\ cpc # "off" /\ ~tailf =>
         pos = Pieces * Len(cooked) /\ pos <= Len(File)

(* The first n pieces of the log are those that were produced.             *)
Agree(n) == n <= Len(File) /\ \A i \in 1 .. n : File[i] = sent[i]

(* The parser is at the record after the last that was printed.            *)
AtRecord ==
  /\ offset = 0 /\ nrecs = Len(cooked) /\ pos = Pieces * nrecs
  /\ cpc = "parse"

(* Records before the first gap are printed, and until then nothing stops  *)
(* or moves the parser.                                                    *)
PlainInv ==
  cpc # "off" /\ ~tailf =>
    \A j \in Nat : Agree(Pieces * j + Pieces) =>
      \/ /\ j < Len(cooked)
         /\ cooked[j + 1] = [id |-> sent[Pieces * j + 1].id, whole |-> TRUE]
      \/ j >= Len(cooked) /\ AtRecord

CookInv == CookTypeInv /\ PrintedInv /\ PlainInv

(* The log is as long as what was produced or shorter, and without faults  *)
(* it is the beginning of it.                                              *)
LEMMA FileFacts ==
  ASSUME IInv, LengthInv
  PROVE  /\ File \in Seq(Piece) /\ Len(File) \in Nat
         /\ Len(sent) \in Nat /\ Len(File) <= Len(sent)
         /\ faults = 0 => Agree(Len(File))
<1>0. TypeInv /\ PrefixInv
  BY DEF IInv
<1>1. /\ buf \in Seq(Piece) /\ data \in Seq(Piece) /\ sent \in Seq(Piece)
      /\ kinds \in Seq(Kinds) /\ kinds # <<>>
      /\ streams \in [DOMAIN kinds -> Stream]
  BY <1>0 DEF TypeInv
<1>2. 1 \in DOMAIN kinds
  BY <1>1
<1>3. streams[1] \in Stream
  BY <1>1, <1>2
<1>4. /\ File \in Seq(Piece)
      /\ Len(File) <= Len(streams[1].out)
      /\ \A k \in 1 .. Len(File) : File[k] = streams[1].out[k]
  <2>1. /\ streams[1].out \in Seq(Piece)
        /\ streams[1].filed \in 0 .. Len(streams[1].out)
    BY <1>3 DEF Stream
  <2>2. File = SubSeq(streams[1].out, 1, streams[1].filed)
    BY DEF File, InFile
  <2>3. /\ File \in Seq(Piece) /\ Len(File) = streams[1].filed
        /\ \A k \in 1 .. streams[1].filed : File[k] = streams[1].out[k]
    BY <2>1, <2>2, CutMeaning
  <2> QED
    BY <2>1, <2>3
<1>5. Len(File) \in Nat /\ Len(sent) \in Nat
  BY <1>1, <1>4
<1>6. Len(File) <= Len(sent)
  <2>1. Pending(1) \in Seq(Piece)
    BY <1>1 DEF Pending
  <2>2. Len(Pending(1)) \in Nat /\ Len(streams[1].out) \in Nat
    BY <1>3, <2>1 DEF Stream
  <2>3. Len(streams[1].out) + Len(Pending(1)) <= Len(sent)
    BY <1>2 DEF LengthInv
  <2> QED
    BY <1>4, <1>5, <2>2, <2>3
<1>7. ASSUME faults = 0 PROVE Agree(Len(File))
  <2>1. IsPrefix(streams[1].out, sent)
    BY <1>0, <1>2, <1>7 DEF PrefixInv, Unbroken
  <2>2. streams[1].out \in Seq(Piece)
    BY <1>3 DEF Stream
  <2>3. \A i \in 1 .. Len(streams[1].out) : streams[1].out[i] = sent[i]
    BY <1>1, <2>1, <2>2, PrefixMeaning
  <2>4. \A i \in 1 .. Len(File) : File[i] = sent[i]
    BY <1>4, <1>5, <2>2, <2>3
  <2> QED
    BY <1>5, <2>4 DEF Agree
<1> QED
  BY <1>4, <1>5, <1>6, <1>7

(* Every place of the log is in one of its records.                        *)
LEMMA Thirds ==
  ASSUME NEW n \in Nat, n >= 1
  PROVE  \E j \in Nat, k \in 1 .. Pieces : n = Pieces * j + k
<1>1. /\ (n - 1) \div 3 \in Nat /\ ((n - 1) % 3) + 1 \in 1 .. 3
      /\ n = 3 * ((n - 1) \div 3) + (((n - 1) % 3) + 1)
  OBVIOUS
<1> QED
  BY <1>1 DEF Pieces

(* A record of the log that is as it was produced.                         *)
LEMMA RecordAt ==
  ASSUME SentInv, Len(sent) \in Nat, Len(File) \in Nat,
         Len(File) <= Len(sent),
         NEW m \in Nat, NEW n \in 1 .. Pieces, Agree(Pieces * m + n)
  PROVE  \A k \in 1 .. n : /\ Pieces * m + k \in 1 .. Len(File)
                           /\ File[Pieces * m + k]
                                = [id |-> sent[Pieces * m + 1].id, k |-> k]
<1> SUFFICES ASSUME NEW k \in 1 .. n
             PROVE  /\ Pieces * m + k \in 1 .. Len(File)
                    /\ File[Pieces * m + k]
                         = [id |-> sent[Pieces * m + 1].id, k |-> k]
  OBVIOUS
<1>1. /\ k \in 1 .. Pieces
      /\ Pieces * m + k \in 1 .. Pieces * m + n
      /\ Pieces * m + k \in 1 .. Len(File)
      /\ Pieces * m + k <= Len(sent)
  BY DEF Agree, Pieces
<1>2. File[Pieces * m + k] = sent[Pieces * m + k]
  BY <1>1 DEF Agree
<1>3. sent[Pieces * m + k] = [id |-> sent[Pieces * m + 1].id, k |-> k]
  BY <1>1 DEF SentInv
<1> QED
  BY <1>1, <1>2, <1>3

(* What raw_parser::next makes of it.                                      *)
LEMMA CookedRecordAt ==
  ASSUME CookRecord, pos \in Nat, File \in Seq(Piece), Len(File) \in Nat
  PROVE  \E c \in CookedRecord :
           /\ cooked' = Append(cooked, c)
           /\ \A id : (\A k \in 1 .. Pieces :
                         File[pos + k] = [id |-> id, k |-> k])
                      => c = [id |-> id, whole |-> TRUE]
<1> DEFINE p == [k \in 1 .. Pieces |-> File[pos + k]]
<1> DEFINE whole == \A k \in 1 .. Pieces : p[k] = [id |-> p[1].id, k |-> k]
<1> DEFINE c == [id |-> p[1].id, whole |-> whole]
<1>1. cooked' = Append(cooked, c)
  BY DEF CookRecord
<1>2. pos + 1 \in 1 .. Len(File)
  BY DEF CookRecord, Avail, Pieces
<1>3. p[1] = File[pos + 1] /\ \A k \in 1 .. Pieces : p[k] = File[pos + k]
  BY DEF Pieces
<1>4. File[pos + 1] \in Piece
  BY <1>2
<1>5. p[1].id \in Nat
  BY <1>3, <1>4 DEF Piece
<1>6. whole \in BOOLEAN
  OBVIOUS
<1> HIDE DEF whole
<1>7. c \in CookedRecord
  BY <1>5, <1>6 DEF CookedRecord
<1>8. ASSUME NEW id,
             \A k \in 1 .. Pieces : File[pos + k] = [id |-> id, k |-> k]
      PROVE  c = [id |-> id, whole |-> TRUE]
  <2>1. \A k \in 1 .. Pieces : p[k] = [id |-> id, k |-> k]
    BY <1>3, <1>8
  <2>2. p[1].id = id
    <3>1. 1 \in 1 .. Pieces
      BY DEF Pieces
    <3>2. p[1] = [id |-> id, k |-> 1]
      BY <2>1, <3>1
    <3> QED
      BY <3>2
  <2>3. whole
    BY <2>1, <2>2 DEF whole
  <2> QED
    BY <1>6, <2>2, <2>3
<1> HIDE DEF c
<1> QED
  BY <1>1, <1>7, <1>8

(* Without faults the pieces of a record follow where a record begins, and *)
(* nowhere else.                                                           *)
LEMMA AheadAt ==
  ASSUME SentInv, Len(sent) \in Nat, Len(File) \in Nat,
         Len(File) <= Len(sent), pos \in Nat, Agree(Len(File))
  PROVE  /\ (\E m \in Nat : pos = Pieces * m) => RecordAhead
         /\ RecordAhead /\ Avail >= 1 => \E m \in Nat : pos = Pieces * m
<1>1. ASSUME NEW m \in Nat, pos = Pieces * m PROVE RecordAhead
  <2> SUFFICES ASSUME NEW k \in 1 .. Pieces, k <= Avail
               PROVE  File[pos + k].k = k
    BY DEF RecordAhead
  <2>1. pos + k \in 1 .. Len(File) /\ pos + k <= Len(sent)
    BY DEF Avail, Pieces
  <2>2. File[pos + k] = sent[pos + k]
    BY <2>1 DEF Agree
  <2>3. sent[Pieces * m + k] = [id |-> sent[Pieces * m + 1].id, k |-> k]
    BY <1>1, <2>1 DEF SentInv
  <2> QED
    BY <1>1, <2>2, <2>3
<1>2. ASSUME RecordAhead, Avail >= 1 PROVE \E m \in Nat : pos = Pieces * m
  <2>1. pos + 1 \in 1 .. Len(File) /\ pos + 1 <= Len(sent)
        /\ pos + 1 \in Nat /\ pos + 1 >= 1
    BY <1>2 DEF Avail
  <2>2. PICK j \in Nat, k \in 1 .. Pieces : pos + 1 = Pieces * j + k
    BY <2>1, Thirds
  <2>3. File[pos + 1] = sent[pos + 1]
    BY <2>1 DEF Agree
  <2>4. sent[pos + 1] = [id |-> sent[Pieces * j + 1].id, k |-> k]
    BY <2>1, <2>2 DEF SentInv
  <2>5. File[pos + 1].k = 1
    BY <1>2 DEF RecordAhead, Pieces
  <2>6. k = 1
    BY <2>3, <2>4, <2>5
  <2>7. pos = Pieces * j
    BY <2>2, <2>6 DEF Pieces
  <2> QED
    BY <2>7
<1> QED
  BY <1>1, <1>2

(* A record is printed.                                                    *)
LEMMA CookRecordStep ==
  ASSUME IInv, ProducedInv, CookInv, CookRecord
  PROVE  CookInv'
<1>0. /\ SentInv /\ LengthInv /\ CookTypeInv /\ PrintedInv /\ PlainInv
      /\ pos \in Nat /\ nrecs \in Nat /\ cooked \in Seq(CookedRecord)
  BY DEF ProducedInv, CookInv, CookTypeInv
<1>1. /\ cpc = "parse" /\ Avail >= Pieces /\ RecordAhead
      /\ pos' = pos + Pieces /\ nrecs' = nrecs + 1
      /\ UNCHANGED <<cpc, tailf, offset, logVars>>
  BY DEF CookRecord
<1>2. /\ sent' = sent /\ faults' = faults /\ File' = File
      /\ alive' = alive
      /\ \A n : Agree(n)' = Agree(n)
  BY <1>1 DEF logVars, File, InFile, Agree
<1>3. /\ File \in Seq(Piece) /\ Len(File) \in Nat /\ Len(sent) \in Nat
      /\ Len(File) <= Len(sent)
      /\ faults = 0 => Agree(Len(File))
  BY <1>0, FileFacts
<1>4. PICK c \in CookedRecord :
        /\ cooked' = Append(cooked, c)
        /\ \A id : (\A k \in 1 .. Pieces :
                      File[pos + k] = [id |-> id, k |-> k])
                   => c = [id |-> id, whole |-> TRUE]
  BY <1>0, <1>3, CookedRecordAt
<1>5. /\ Len(cooked') = Len(cooked) + 1 /\ cooked'[Len(cooked) + 1] = c
      /\ \A i \in 1 .. Len(cooked) : cooked'[i] = cooked[i]
      /\ \A i \in 1 .. Len(cooked') :
           i = Len(cooked) + 1 \/ i \in 1 .. Len(cooked)
      /\ Len(cooked) \in Nat /\ cooked' \in Seq(CookedRecord)
  BY <1>0, <1>4
<1>6. CookTypeInv'
  <2>1. pos' \in Nat /\ nrecs' \in Nat
    BY <1>0, <1>1 DEF Pieces
  <2> QED
    BY <1>0, <1>1, <1>2, <1>5, <2>1 DEF CookTypeInv
<1>7. ASSUME NEW m \in Nat, pos = Pieces * m, Agree(Pieces * m + Pieces)
      PROVE  c = [id |-> sent[Pieces * m + 1].id, whole |-> TRUE]
  <2>1. \A k \in 1 .. Pieces :
          File[Pieces * m + k] = [id |-> sent[Pieces * m + 1].id, k |-> k]
    <3>1. Pieces \in 1 .. Pieces
      BY DEF Pieces
    <3> QED
      BY <1>0, <1>3, <1>7, <3>1, RecordAt
  <2> QED
    BY <1>4, <1>7, <2>1
<1>8. pos + Pieces <= Len(File)
  BY <1>0, <1>1, <1>3 DEF Avail, Pieces
<1>9. ASSUME faults = 0
      PROVE  \E m \in Nat :
               /\ pos = Pieces * m
               /\ Pieces * m + 1 <= Len(sent)
               /\ c = [id |-> sent[Pieces * m + 1].id, whole |-> TRUE]
  <2>1. Avail >= 1
    BY <1>0, <1>3, <1>8 DEF Avail, Pieces
  <2>2. PICK m \in Nat : pos = Pieces * m
    BY <1>0, <1>1, <1>3, <1>9, <2>1, AheadAt
  <2>3. Agree(Pieces * m + Pieces) /\ Pieces * m + 1 <= Len(sent)
    BY <1>3, <1>8, <1>9, <2>2 DEF Agree, Pieces
  <2> QED
    BY <1>7, <2>2, <2>3
<1>10. PrintedInv'
  <2> SUFFICES ASSUME faults = 0
               PROVE  /\ \A i \in 1 .. Len(cooked') : cooked'[i].whole =>
                           \E j \in Nat :
                             /\ Pieces * j + Pieces <= pos'
                             /\ Pieces * j + 1 <= Len(sent)
                             /\ cooked'[i].id = sent[Pieces * j + 1].id
                      /\ \A i, j \in 1 .. Len(cooked') :
                           i < j /\ cooked'[i].whole =>
                             /\ cooked'[j].whole
                             /\ cooked'[i].id < cooked'[j].id
                      /\ \E m \in Nat : pos' = Pieces * m
                      /\ ~tailf => /\ pos' = Pieces * Len(cooked')
                                   /\ pos' <= Len(File)
    BY <1>1, <1>2 DEF PrintedInv
  <2>1. PICK m \in Nat :
               /\ pos = Pieces * m
               /\ Pieces * m + 1 <= Len(sent)
               /\ c = [id |-> sent[Pieces * m + 1].id, whole |-> TRUE]
    BY <1>9
  <2>2. c.whole /\ c.id = sent[Pieces * m + 1].id
    BY <2>1
  <2>3. \A i \in 1 .. Len(cooked) : cooked[i].whole =>
          \E j \in Nat : /\ j < m /\ Pieces * j + Pieces <= pos'
                         /\ Pieces * j + 1 <= Len(sent)
                         /\ cooked[i].id = sent[Pieces * j + 1].id
    <3> SUFFICES ASSUME NEW i \in 1 .. Len(cooked), cooked[i].whole
                 PROVE  \E j \in Nat :
                          /\ j < m /\ Pieces * j + Pieces <= pos'
                          /\ Pieces * j + 1 <= Len(sent)
                          /\ cooked[i].id = sent[Pieces * j + 1].id
      OBVIOUS
    <3>1. PICK j \in Nat : /\ Pieces * j + Pieces <= pos
                           /\ Pieces * j + 1 <= Len(sent)
                           /\ cooked[i].id = sent[Pieces * j + 1].id
      BY <1>0 DEF PrintedInv
    <3>2. j < m /\ Pieces * j + Pieces <= pos'
      BY <1>0, <1>1, <2>1, <3>1 DEF Pieces
    <3> QED
      BY <3>1, <3>2
  <2>4. \A i \in 1 .. Len(cooked) : cooked[i].whole => cooked[i].id < c.id
    BY <1>0, <2>1, <2>2, <2>3 DEF SentInv
  <2>5. ASSUME NEW i \in 1 .. Len(cooked'), cooked'[i].whole
        PROVE  \E j \in Nat : /\ Pieces * j + Pieces <= pos'
                              /\ Pieces * j + 1 <= Len(sent)
                              /\ cooked'[i].id = sent[Pieces * j + 1].id
    <3>1. CASE i \in 1 .. Len(cooked)
      BY <1>5, <2>3, <2>5, <3>1
    <3>2. CASE i = Len(cooked) + 1
      <4>1. Pieces * m + Pieces <= pos'
        BY <1>1, <2>1 DEF Pieces
      <4> QED
        BY <1>5, <2>1, <2>2, <3>2, <4>1
    <3> QED
      BY <1>5, <3>1, <3>2
  <2>6. ASSUME NEW i \in 1 .. Len(cooked'), NEW j \in 1 .. Len(cooked'),
               i < j, cooked'[i].whole
        PROVE  cooked'[j].whole /\ cooked'[i].id < cooked'[j].id
    <3>1. i \in 1 .. Len(cooked) /\ cooked[i].whole
      BY <1>5, <2>6
    <3>2. CASE j \in 1 .. Len(cooked)
      BY <1>0, <1>5, <2>6, <3>1, <3>2 DEF PrintedInv
    <3>3. CASE j = Len(cooked) + 1
      BY <1>5, <2>2, <2>4, <3>1, <3>3
    <3> QED
      BY <1>5, <3>2, <3>3
  <2>7. ~tailf => pos' = Pieces * Len(cooked') /\ pos' <= Len(File)
    <3>1. ~tailf => pos = Pieces * Len(cooked)
      BY <1>0, <1>1 DEF PrintedInv
    <3> QED
      BY <1>1, <1>5, <1>8, <3>1 DEF Pieces
  <2>8. \E n \in Nat : pos' = Pieces * n
    <3>1. pos' = Pieces * (m + 1) /\ m + 1 \in Nat
      BY <1>1, <2>1 DEF Pieces
    <3> QED
      BY <3>1
  <2> QED
    BY <2>5, <2>6, <2>7, <2>8
<1>11. PlainInv'
  <2> SUFFICES ASSUME ~tailf, NEW j \in Nat, Agree(Pieces * j + Pieces)
               PROVE  \/ /\ j < Len(cooked')
                         /\ cooked'[j + 1] = [id |-> sent[Pieces * j + 1].id,
                                              whole |-> TRUE]
                      \/ j >= Len(cooked') /\ AtRecord'
    BY <1>1, <1>2 DEF PlainInv
  <2>1. \/ /\ j < Len(cooked)
           /\ cooked[j + 1] = [id |-> sent[Pieces * j + 1].id, whole |-> TRUE]
        \/ j >= Len(cooked) /\ AtRecord
    BY <1>0, <1>1 DEF PlainInv
  <2>2. CASE j < Len(cooked)
    <3>1. j + 1 \in 1 .. Len(cooked) /\ j < Len(cooked')
      BY <1>5, <2>2
    <3> QED
      BY <1>5, <2>1, <2>2, <3>1
  <2>3. CASE j >= Len(cooked) /\ AtRecord
    <3>1. nrecs = Len(cooked) /\ pos = Pieces * nrecs /\ offset = 0
      BY <2>3 DEF AtRecord
    <3>2. CASE j = Len(cooked)
      <4>1. c = [id |-> sent[Pieces * j + 1].id, whole |-> TRUE]
        BY <1>7, <3>1, <3>2
      <4> QED
        BY <1>5, <3>2, <4>1
    <3>3. CASE j # Len(cooked)
      <4>1. j >= Len(cooked')
        BY <1>5, <2>3, <3>3
      <4>2. nrecs' = Len(cooked') /\ pos' = Pieces * nrecs'
        BY <1>0, <1>1, <1>5, <3>1 DEF Pieces
      <4> QED
        BY <1>1, <3>1, <4>1, <4>2 DEF AtRecord
    <3> QED
      BY <3>2, <3>3
  <2> QED
    BY <1>5, <2>1, <2>2, <2>3
<1> QED
  BY <1>6, <1>10, <1>11 DEF CookInv

(* The tool does not stop or start again before the first gap.             *)
LEMMA NoErrorBefore ==
  ASSUME IInv, ProducedInv, CookInv, ~tailf,
         CookFormatError \/ CookInputEnd \/ CookGuess,
         NEW j \in Nat, Agree(Pieces * j + Pieces)
  PROVE  /\ j < Len(cooked)
         /\ cooked[j + 1] = [id |-> sent[Pieces * j + 1].id, whole |-> TRUE]
<1>0. /\ SentInv /\ LengthInv /\ PlainInv
      /\ pos \in Nat /\ cooked \in Seq(CookedRecord)
  BY DEF ProducedInv, CookInv, CookTypeInv
<1>1. cpc = "parse"
  BY DEF CookFormatError, CookInputEnd, CookGuess
<1>2. /\ Len(File) \in Nat /\ Len(sent) \in Nat /\ Len(File) <= Len(sent)
  BY <1>0, FileFacts
<1>3. ASSUME j >= Len(cooked), AtRecord PROVE FALSE
  <2>1. pos = Pieces * Len(cooked) /\ Len(cooked) \in Nat
    BY <1>0, <1>3 DEF AtRecord
  <2>2. Agree(Pieces * Len(cooked) + Pieces) /\ Avail >= Pieces
    BY <1>2, <1>3, <2>1 DEF Agree, Avail, Pieces
  <2>3. RecordAhead
    <3>1. \A k \in 1 .. Pieces :
            File[pos + k] = [id |-> sent[Pieces * Len(cooked) + 1].id, k |-> k]
      <4>1. Pieces \in 1 .. Pieces
        BY DEF Pieces
      <4> QED
        BY <1>0, <1>2, <2>1, <2>2, <4>1, RecordAt
    <3>2. ASSUME NEW k \in 1 .. Pieces PROVE File[pos + k].k = k
      <4>1. PICK id : File[pos + k] = [id |-> id, k |-> k]
        BY <3>1
      <4> QED
        BY <4>1
    <3> QED
      BY <3>2, Zenon DEF RecordAhead
  <2>4. Avail \in Int
    BY <1>0, <1>2 DEF Avail
  <2> QED
    BY <2>2, <2>3, <2>4 DEF CookFormatError, CookInputEnd, CookGuess, Pieces
<1> QED
  BY <1>0, <1>1, <1>3 DEF PlainInv

(* The tool stops or starts again.                                         *)
LEMMA CookStopStep ==
  ASSUME IInv, ProducedInv, CookInv, CookFormatError \/ CookInputEnd
  PROVE  CookInv'
<1>0. /\ SentInv /\ LengthInv /\ CookTypeInv /\ PrintedInv /\ PlainInv
      /\ pos \in Nat /\ nrecs \in Nat /\ offset \in Nat
      /\ cooked \in Seq(CookedRecord) /\ tailf \in BOOLEAN
  BY DEF ProducedInv, CookInv, CookTypeInv
<1>1. /\ cpc = "parse" /\ cpc' \in {"parse", "end"}
      /\ UNCHANGED <<tailf, cooked, logVars>>
  BY DEF CookFormatError, CookInputEnd
<1>2. /\ sent' = sent /\ faults' = faults /\ File' = File
      /\ alive' = alive
      /\ \A n : Agree(n)' = Agree(n)
  BY <1>1 DEF logVars, File, InFile, Agree
<1>3. /\ Len(File) \in Nat /\ Len(sent) \in Nat /\ Len(File) <= Len(sent)
      /\ faults = 0 => Agree(Len(File))
      /\ Len(cooked) \in Nat
  BY <1>0, FileFacts
<1>4. \/ UNCHANGED <<offset, pos, nrecs>>
      \/ /\ offset' = offset + 1 /\ nrecs' = 0
         /\ pos' = (IF tailf THEN Len(File) ELSE 0) + offset'
         /\ ~RecordAhead
  BY DEF CookFormatError, CookInputEnd, StartAt
<1>5. offset' \in Nat /\ pos' \in Nat /\ nrecs' \in Nat
  BY <1>0, <1>3, <1>4
<1>6. CookTypeInv'
  BY <1>0, <1>1, <1>2, <1>5 DEF CookTypeInv
<1>7. ASSUME faults = 0
      PROVE  \/ pos' = pos
             \/ tailf /\ ~\E i \in 1 .. Len(cooked) : cooked[i].whole
  <2>1. CASE UNCHANGED <<offset, pos, nrecs>>
    BY <2>1
  <2>2. CASE ~RecordAhead
    <3>1. ~\E m \in Nat : pos = Pieces * m
      BY <1>0, <1>3, <1>7, <2>2, AheadAt
    <3>2. ~tailf => pos = Pieces * Len(cooked)
      BY <1>0, <1>1, <1>7 DEF PrintedInv
    <3>3. tailf
      BY <1>3, <3>1, <3>2
    <3> QED
      BY <1>0, <1>7, <3>1, <3>3 DEF PrintedInv
  <2> QED
    BY <1>4, <2>1, <2>2
<1>8. PrintedInv'
  <2> SUFFICES ASSUME faults = 0 PROVE PrintedInv'
    BY <1>2 DEF PrintedInv
  <2>1. CASE pos' = pos
    BY <1>0, <1>1, <1>2, <2>1 DEF PrintedInv
  <2>2. CASE tailf /\ ~\E i \in 1 .. Len(cooked) : cooked[i].whole
    BY <1>1, <1>2, <2>2 DEF PrintedInv
  <2> QED
    BY <1>7, <2>1, <2>2
<1>9. PlainInv'
  BY <1>1, <1>2, NoErrorBefore DEF PlainInv
<1> QED
  BY <1>6, <1>8, <1>9 DEF CookInv

(* Other data is taken for a record: without faults no true record has     *)
(* been printed before.                                                    *)
LEMMA CookGuessStep ==
  ASSUME IInv, ProducedInv, CookInv, CookGuess
  PROVE  CookInv'
<1>0. /\ SentInv /\ LengthInv /\ CookTypeInv /\ PrintedInv /\ PlainInv
      /\ pos \in Nat /\ nrecs \in Nat /\ cooked \in Seq(CookedRecord)
  BY DEF ProducedInv, CookInv, CookTypeInv
<1> DEFINE c == [id |-> 0, whole |-> FALSE]
<1>1. /\ cpc = "parse" /\ ~RecordAhead /\ nrecs' = nrecs + 1
      /\ cooked' = Append(cooked, c)
      /\ UNCHANGED <<cpc, tailf, offset, logVars>>
  BY DEF CookGuess
<1>2. /\ sent' = sent /\ faults' = faults /\ File' = File
      /\ alive' = alive
      /\ \A n : Agree(n)' = Agree(n)
  BY <1>1 DEF logVars, File, InFile, Agree
<1>3. /\ File \in Seq(Piece) /\ Len(File) \in Nat /\ Len(sent) \in Nat
      /\ Len(File) <= Len(sent)
      /\ faults = 0 => Agree(Len(File))
  BY <1>0, FileFacts
<1>4. c \in CookedRecord /\ c.whole = FALSE
  BY DEF CookedRecord
<1> HIDE DEF c
<1>5. /\ Len(cooked') = Len(cooked) + 1 /\ cooked'[Len(cooked) + 1] = c
      /\ \A i \in 1 .. Len(cooked) : cooked'[i] = cooked[i]
      /\ \A i \in 1 .. Len(cooked') :
           i = Len(cooked) + 1 \/ i \in 1 .. Len(cooked)
      /\ Len(cooked) \in Nat /\ cooked' \in Seq(CookedRecord)
  BY <1>0, <1>1, <1>4
<1>6. CookTypeInv'
  <2>1. PICK n \in 1 .. Avail : pos' = pos + n
    BY DEF CookGuess
  <2>2. pos' \in Nat /\ nrecs' \in Nat
    BY <1>0, <1>1, <2>1
  <2> QED
    BY <1>0, <1>1, <1>2, <1>5, <2>2 DEF CookTypeInv
<1>7. PrintedInv'
  <2> SUFFICES ASSUME faults = 0 PROVE PrintedInv'
    BY <1>2 DEF PrintedInv
  <2>1. ~\E m \in Nat : pos = Pieces * m
    BY <1>0, <1>1, <1>3, AheadAt
  <2>2. ~tailf => pos = Pieces * Len(cooked)
    BY <1>0, <1>1 DEF PrintedInv
  <2>3. tailf
    BY <1>5, <2>1, <2>2
  <2>4. ~\E i \in 1 .. Len(cooked) : cooked[i].whole
    BY <1>0, <2>1 DEF PrintedInv
  <2>5. ~\E i \in 1 .. Len(cooked') : cooked'[i].whole
    BY <1>4, <1>5, <2>4
  <2> QED
    BY <1>1, <2>3, <2>5 DEF PrintedInv
<1>8. PlainInv'
  <2> SUFFICES ASSUME ~tailf, NEW j \in Nat, Agree(Pieces * j + Pieces)
               PROVE  /\ j < Len(cooked')
                      /\ cooked'[j + 1] = [id |-> sent[Pieces * j + 1].id,
                                           whole |-> TRUE]
    BY <1>1, <1>2 DEF PlainInv
  <2>1. /\ j < Len(cooked)
        /\ cooked[j + 1] = [id |-> sent[Pieces * j + 1].id, whole |-> TRUE]
    BY NoErrorBefore
  <2>2. j + 1 \in 1 .. Len(cooked) /\ j < Len(cooked')
    BY <1>5, <2>1
  <2> QED
    BY <1>5, <2>1, <2>2
<1> QED
  BY <1>6, <1>7, <1>8 DEF CookInv

(* The tool starts, at the beginning of the log or at its end.             *)
LEMMA CookStartStep ==
  ASSUME IInv, ProducedInv, CookInv, NEW tail_ \in BOOLEAN, CookStart(tail_)
  PROVE  CookInv'
<1>0. CookTypeInv /\ LengthInv
  BY DEF ProducedInv, CookInv
<1>1. /\ cpc = "off" /\ alive = tail_ /\ cpc' = "parse" /\ tailf' = tail_
      /\ pos' = IF tail_ THEN Len(File) ELSE 0
      /\ UNCHANGED <<offset, nrecs, cooked, logVars>>
  BY DEF CookStart, StartAt
<1>2. offset = 0 /\ pos = 0 /\ nrecs = 0 /\ cooked = <<>>
  BY <1>0, <1>1 DEF CookTypeInv
<1>3. File' = File /\ alive' = alive
  BY <1>1 DEF logVars, File, InFile
<1>4. Len(File) \in Nat
  BY <1>0, FileFacts
<1>5. CookTypeInv'
  BY <1>0, <1>1, <1>2, <1>3, <1>4 DEF CookTypeInv
<1>6. Len(cooked') = 0 /\ cooked' = <<>> /\ nrecs' = 0 /\ offset' = 0
  BY <1>1, <1>2
<1>7. ~tailf' => pos' = 0 /\ pos' = Pieces * 0 /\ pos' <= Len(File)
  BY <1>1, <1>4 DEF Pieces
<1>8. PrintedInv'
  <2>1. 1 .. Len(cooked') = {}
    BY <1>6
  <2> QED
    BY <1>3, <1>6, <1>7, <2>1 DEF PrintedInv
<1>9. PlainInv'
  <2>1. ~tailf' => AtRecord'
    BY <1>1, <1>6, <1>7 DEF AtRecord
  <2>2. \A j \in Nat : j >= Len(cooked')
    BY <1>6
  <2> QED
    BY <2>1, <2>2 DEF PlainInv
<1> QED
  BY <1>5, <1>8, <1>9 DEF CookInv

(* What the process does meanwhile: what was produced only grows, and      *)
(* nothing moves after the crash.                                          *)
LEMMA LogStepFacts ==
  ASSUME TypeInv, LogNext
  PROVE  /\ Len(sent) \in Nat /\ Len(sent') \in Nat /\ Len(sent) <= Len(sent')
         /\ \A q \in 1 .. Len(sent) : sent'[q] = sent[q]
         /\ faults' = 0 => faults = 0
         /\ ~alive => UNCHANGED <<sent, streams, faults, alive>>
<1> USE DEF ringVars, engineVars, flushVars
<1>1. sent \in Seq(Piece) /\ faults \in Nat
  BY DEF TypeInv
<1>2. CASE PushBack
  <2>1. /\ alive /\ faults' = faults
        /\ sent' = Append(sent, [id |-> slot[it].id, k |-> piece + 1])
    BY <1>2 DEF PushBack
  <2>2. [id |-> slot[it].id, k |-> piece + 1] \in Piece
    BY DEF TypeInv, Piece
  <2> QED
    BY <1>1, <2>1, <2>2
<1>3. CASE FlushStream
  <2>1. sent' = sent /\ alive /\ faults' \in {faults, faults + 1}
    BY <1>3 DEF FlushStream
  <2> QED
    BY <1>1, <2>1
<1>4. CASE \/ PostFlush \/ \E tick \in 0 .. 1 : Post(tick)
           \/ BeginPass \/ NextRecord \/ Commit \/ EndPass \/ FlushReset
           \/ Crash
  <2>1. sent' = sent /\ alive /\ faults' = faults
    BY <1>4 DEF PostFlush, Post, BeginPass, NextRecord, ReadyForNext, Commit,
                EndPass, FlushReset, Crash
  <2> QED
    BY <1>1, <2>1
<1>5. CASE \E all \in BOOLEAN : Recover(all)
  <2>1. UNCHANGED <<sent, streams, faults, alive>>
    BY <1>5 DEF Recover
  <2> QED
    BY <1>1, <2>1
<1> QED
  BY <1>2, <1>3, <1>4, <1>5 DEF LogNext, EngineNext

(* The steps of the process.                                               *)
LEMMA CookLogStep ==
  ASSUME IInv, ProducedInv, CookInv, LogNext, UNCHANGED cookVars
  PROVE  CookInv'
<1>0. /\ TypeInv /\ CookTypeInv /\ PrintedInv /\ PlainInv
      /\ cooked \in Seq(CookedRecord)
  BY DEF IInv, CookInv, CookTypeInv
<1>1. UNCHANGED <<cpc, tailf, offset, pos, nrecs, cooked>>
  BY DEF cookVars
<1>2. /\ Len(sent) \in Nat /\ Len(sent') \in Nat /\ Len(sent) <= Len(sent')
      /\ \A q \in 1 .. Len(sent) : sent'[q] = sent[q]
      /\ faults' = 0 => faults = 0
      /\ ~alive => UNCHANGED <<sent, streams, faults, alive>>
  BY <1>0, LogStepFacts
<1>3. cpc # "off" /\ ~tailf =>
        /\ ~alive /\ ~alive' /\ sent' = sent /\ File' = File
        /\ \A n : Agree(n)' = Agree(n)
  BY <1>0, <1>2 DEF CookTypeInv, File, InFile, Agree
<1>4. CookTypeInv'
  BY <1>0, <1>1, <1>3 DEF CookTypeInv
<1>5. PrintedInv'
  <2> SUFFICES ASSUME faults' = 0 PROVE PrintedInv'
    BY DEF PrintedInv
  <2>1. faults = 0
    BY <1>2
  <2>2. \A j \in Nat : Pieces * j + 1 <= Len(sent) =>
          /\ Pieces * j + 1 <= Len(sent')
          /\ sent'[Pieces * j + 1] = sent[Pieces * j + 1]
    BY <1>2 DEF Pieces
  <2>3. ASSUME NEW i \in 1 .. Len(cooked), cooked[i].whole
        PROVE  \E j \in Nat : /\ Pieces * j + Pieces <= pos
                              /\ Pieces * j + 1 <= Len(sent')
                              /\ cooked[i].id = sent'[Pieces * j + 1].id
    <3>1. PICK j \in Nat : /\ Pieces * j + Pieces <= pos
                           /\ Pieces * j + 1 <= Len(sent)
                           /\ cooked[i].id = sent[Pieces * j + 1].id
      BY <1>0, <2>1, <2>3 DEF PrintedInv
    <3> QED
      BY <2>2, <3>1
  <2>4. cpc # "off" /\ ~tailf =>
          pos = Pieces * Len(cooked) /\ pos <= Len(File')
    BY <1>0, <1>3, <2>1 DEF PrintedInv
  <2>5. /\ \A i, j \in 1 .. Len(cooked) :
            i < j /\ cooked[i].whole
              => cooked[j].whole /\ cooked[i].id < cooked[j].id
        /\ (\E i \in 1 .. Len(cooked) : cooked[i].whole)
             => \E m \in Nat : pos = Pieces * m
    BY <1>0, <2>1 DEF PrintedInv
  <2> QED
    BY <1>1, <2>3, <2>4, <2>5 DEF PrintedInv
<1>6. PlainInv'
  BY <1>0, <1>1, <1>3 DEF PlainInv, AtRecord
<1> QED
  BY <1>4, <1>5, <1>6 DEF CookInv

(* Every step of the process and of the tool.                              *)
LEMMA CookInvStep ==
  IInv /\ ProducedInv /\ CookInv /\ [Next]_vars => CookInv'
<1> SUFFICES ASSUME IInv, ProducedInv, CookInv, [Next]_vars PROVE CookInv'
  OBVIOUS
<1>1. CASE UNCHANGED vars
  <2>1. UNCHANGED <<cpc, tailf, offset, pos, nrecs, cooked, alive, faults,
                    sent, streams>>
    BY <1>1 DEF vars, cookVars, logVars
  <2>2. CookTypeInv'
    BY <2>1 DEF CookInv, CookTypeInv
  <2>3. PrintedInv'
    BY <2>1 DEF CookInv, PrintedInv, File, InFile
  <2>4. PlainInv'
    BY <2>1 DEF CookInv, PlainInv, AtRecord, Agree, File, InFile
  <2> QED
    BY <2>2, <2>3, <2>4 DEF CookInv
<1>2. CASE LogNext /\ UNCHANGED cookVars
  BY <1>2, CookLogStep
<1>3. CASE CookNext
  BY <1>3, CookStartStep, CookRecordStep, CookGuessStep, CookStopStep
  DEF CookNext
<1> QED
  BY <1>1, <1>2, <1>3 DEF Next

(* How much of the log is as it was produced.                              *)
LEMMA IntactAgrees ==
  ASSUME File \in Seq(Piece), sent \in Seq(Piece), Len(File) <= Len(sent)
  PROVE  /\ Intact \in 0 .. Len(File) /\ Agree(Intact)
<1>0. Len(File) \in Nat /\ Len(sent) \in Nat
  OBVIOUS
<1> DEFINE T == {n \in 0 .. Len(File) :
                   n = Len(File) \/ File[n + 1] # sent[n + 1]}
<1>1. Len(File) \in T /\ T \in SUBSET Nat
  BY <1>0
<1>2. PICK x \in T : \A y \in T : x <= y
  <2> HIDE DEF T
  <2> QED
    BY <1>1, LeastNatural
<1>3. ASSUME NEW n \in 0 .. Len(File)
      PROVE  SubSeq(File, 1, n) = SubSeq(sent, 1, n) <=>
               \A i \in 1 .. n : File[i] = sent[i]
  <2>1. n \in Nat /\ n <= Len(File) /\ n <= Len(sent)
    BY <1>0
  <2>2. /\ SubSeq(File, 1, n) \in Seq(Piece) /\ Len(SubSeq(File, 1, n)) = n
        /\ \A i \in 1 .. n : SubSeq(File, 1, n)[i] = File[i]
    BY <2>1
  <2>3. /\ SubSeq(sent, 1, n) \in Seq(Piece) /\ Len(SubSeq(sent, 1, n)) = n
        /\ \A i \in 1 .. n : SubSeq(sent, 1, n)[i] = sent[i]
    BY <2>1
  <2>4. ASSUME SubSeq(File, 1, n) = SubSeq(sent, 1, n), NEW i \in 1 .. n
        PROVE  File[i] = sent[i]
    BY <2>2, <2>3, <2>4
  <2>5. ASSUME \A i \in 1 .. n : File[i] = sent[i]
        PROVE  SubSeq(File, 1, n) = SubSeq(sent, 1, n)
    BY <2>2, <2>3, <2>5, SeqEqual
  <2> QED
    BY <2>4, <2>5
<1>4. x \in 0 .. Len(File) /\ (x = Len(File) \/ File[x + 1] # sent[x + 1])
  OBVIOUS
<1>5. \A i \in 1 .. x : File[i] = sent[i]
  <2> TAKE i \in 1 .. x
  <2>1. i - 1 \in 0 .. Len(File) /\ ~(x <= i - 1) /\ i - 1 # Len(File)
        /\ (i - 1) + 1 = i
    BY <1>0, <1>4
  <2>2. i - 1 \notin T
    BY <1>2, <2>1
  <2> QED
    BY <2>1, <2>2
<1> HIDE DEF T
<1>6. \E n \in 0 .. Len(File) :
        /\ SubSeq(File, 1, n) = SubSeq(sent, 1, n)
        /\ n = Len(File) \/ File[n + 1] # sent[n + 1]
  BY <1>3, <1>4, <1>5
<1>7. /\ Intact \in 0 .. Len(File)
      /\ SubSeq(File, 1, Intact) = SubSeq(sent, 1, Intact)
  BY <1>6, Zenon DEF Intact
<1> QED
  BY <1>0, <1>3, <1>7 DEF Agree

(* When the tool has ended, the records before the first gap were printed. *)
LEMMA PrintedBefore ==
  ASSUME CookTypeInv, PlainInv, SentInv, cpc = "end", ~tailf,
         Len(File) \in Nat, Len(sent) \in Nat, Len(File) <= Len(sent),
         NEW n \in 0 .. Len(File), Agree(n)
  PROVE  /\ WholeBefore(n) \in Seq([id: Nat, whole: BOOLEAN])
         /\ Len(WholeBefore(n)) = n \div Pieces
         /\ IsPrefix(WholeBefore(n), cooked)
<1>0. cooked \in Seq(CookedRecord) /\ Len(cooked) \in Nat
  BY DEF CookTypeInv
<1> DEFINE l == n \div Pieces
<1>1. l \in Nat /\ Pieces * l <= n
  BY DEF Pieces
<1>2. WholeBefore(n) = [j \in 1 .. l |->
                          [id |-> File[Pieces * (j - 1) + 1].id,
                           whole |-> TRUE]]
  BY DEF WholeBefore
<1> HIDE DEF l
<1>3. ASSUME NEW j \in 1 .. l
      PROVE  /\ j <= Len(cooked)
             /\ cooked[j] = [id |-> File[Pieces * (j - 1) + 1].id,
                             whole |-> TRUE]
  <2>1. j - 1 \in Nat /\ (j - 1) + 1 = j
    BY <1>1
  <2>2. PICK m \in Nat : m = j - 1
    BY <2>1
  <2>3. /\ Agree(Pieces * m + Pieces)
        /\ Pieces * m + 1 \in 1 .. n
    BY <1>1, <2>1, <2>2 DEF Agree, Pieces
  <2>4. ~AtRecord
    BY DEF AtRecord
  <2>5. /\ m < Len(cooked)
        /\ cooked[m + 1] = [id |-> sent[Pieces * m + 1].id, whole |-> TRUE]
    BY <2>3, <2>4 DEF PlainInv
  <2>6. File[Pieces * m + 1] = sent[Pieces * m + 1]
    BY <2>3 DEF Agree
  <2>7. j <= Len(cooked) /\ m + 1 = j
    BY <1>0, <2>1, <2>2, <2>5
  <2> QED
    BY <2>2, <2>5, <2>6, <2>7
<1>4. \A j \in 1 .. l : WholeBefore(n)[j] = cooked[j]
                        /\ cooked[j] \in CookedRecord
  BY <1>0, <1>1, <1>2, <1>3
<1>5. WholeBefore(n) \in Seq(CookedRecord) /\ Len(WholeBefore(n)) = l
  <2>1. WholeBefore(n) \in [1 .. l -> CookedRecord]
    BY <1>2, <1>4
  <2> QED
    BY <1>1, <2>1
<1>6. l <= Len(cooked)
  <2>1. CASE l = 0
    BY <1>0, <2>1
  <2>2. CASE l # 0
    <3>1. l \in 1 .. l
      BY <1>1, <2>2
    <3> QED
      BY <1>3, <3>1
  <2> QED
    BY <2>1, <2>2
<1>7. IsPrefix(WholeBefore(n), cooked)
  BY <1>0, <1>4, <1>5, <1>6, PrefixMeaning
<1> QED
  BY <1>5, <1>7 DEF l, CookedRecord

(* Cooking the log of a process that has ended prints every record before  *)
(* the first gap that failed or short writes left, and if there is none    *)
(* exactly the records of the log. With --tailf the tool starts inside of  *)
(* a record and starts again while the engine writes, and takes what looks *)
(* like names for a record: without faults, from the first true record on  *)
(* it prints true records only, none twice or out of order. For every      *)
(* ring, buffer and log, and wherever the process crashes.                 *)
THEOREM CookedLogHolds == Spec => []CookedLog
<1>1. IInv /\ ProducedInv /\ CookInv => CookedLog
  <2> SUFFICES ASSUME IInv, ProducedInv, CookInv PROVE CookedLog
    OBVIOUS
  <2>0. /\ SentInv /\ LengthInv /\ CookTypeInv /\ PrintedInv /\ PlainInv
        /\ cooked \in Seq(CookedRecord) /\ Len(cooked) \in Nat
        /\ sent \in Seq(Piece)
    BY DEF IInv, TypeInv, ProducedInv, CookInv, CookTypeInv
  <2>1. /\ File \in Seq(Piece) /\ Len(File) \in Nat
        /\ Len(sent) \in Nat /\ Len(File) <= Len(sent)
        /\ faults = 0 => Agree(Len(File))
    BY <2>0, FileFacts
  <2>2. ASSUME cpc = "end", ~tailf
        PROVE  IsPrefix(WholeBefore(Intact), cooked)
    <3>1. Intact \in 0 .. Len(File) /\ Agree(Intact)
      BY <2>0, <2>1, IntactAgrees
    <3> QED
      BY <2>0, <2>1, <2>2, <3>1, PrintedBefore
  <2>3. ASSUME cpc = "end", ~tailf, faults = 0
        PROVE  cooked = WholeBefore(Len(File))
    <3>1. PICK w : w = WholeBefore(Len(File))
      OBVIOUS
    <3>2. Len(File) \in 0 .. Len(File) /\ Agree(Len(File))
      BY <2>1, <2>3
    <3>3. /\ w \in Seq(CookedRecord) /\ Len(w) = Len(File) \div Pieces
          /\ IsPrefix(w, cooked)
      BY <2>0, <2>1, <2>3, <3>1, <3>2, PrintedBefore DEF CookedRecord
    <3>4. Len(w) <= Len(cooked) /\ \A i \in 1 .. Len(w) : w[i] = cooked[i]
      BY <2>0, <3>3, PrefixMeaning
    <3>5. Pieces * Len(cooked) <= Len(File)
      BY <2>0, <2>3 DEF PrintedInv
    <3>6. Len(cooked) <= Len(File) \div Pieces
      BY <2>0, <2>1, <3>5 DEF Pieces
    <3>7. Len(w) = Len(cooked)
      BY <2>0, <3>3, <3>4, <3>6
    <3> QED
      BY <2>0, <3>1, <3>3, <3>4, <3>7, SeqEqual
  <2>4. DOMAIN cooked = 1 .. Len(cooked)
    BY <2>0
  <2> QED
    BY <2>0, <2>2, <2>3, <2>4 DEF CookedLog, PrintedInv
<1>2. Init => IInv /\ RecInv /\ ProducedInv /\ CookInv
  <2>1. Init => CookInv
    <3> SUFFICES ASSUME Init PROVE CookInv
      OBVIOUS
    <3>1. /\ cpc = "off" /\ tailf = FALSE /\ offset = 0 /\ pos = 0 /\ nrecs = 0
          /\ cooked = <<>>
      BY DEF Init
    <3>2. 1 .. Len(cooked) = {} /\ cooked \in Seq(CookedRecord)
      BY <3>1
    <3>3. CookTypeInv /\ PlainInv
      BY <3>1, <3>2 DEF CookTypeInv, PlainInv
    <3>4. PrintedInv
      BY <3>1, <3>2 DEF PrintedInv
    <3> QED
      BY <3>3, <3>4 DEF CookInv
  <2> QED
    BY <2>1, IInvInit, RecInvInit, ProducedInit
<1>3. /\ IInv /\ [Next]_vars => IInv'
      /\ IInv /\ IInv' /\ RecInv /\ [Next]_vars => RecInv'
      /\ IInv /\ IInv' /\ RecInv /\ ProducedInv /\ [Next]_vars => ProducedInv'
      /\ IInv /\ ProducedInv /\ CookInv /\ [Next]_vars => CookInv'
  BY IInvStep, RecInvStep, ProducedStep, CookInvStep
<1> QED
  BY <1>1, <1>2, <1>3, PTL DEF Spec
=============================================================================
