--------------------------- MODULE AreaMaskProofs ---------------------------
(***************************************************************************)
(* Proofs about the areas and masks of FrontEnd, for any number of threads *)
(* and areas, and masks of any length.                                     *)
(***************************************************************************)
EXTENDS FrontEnd, FiniteSetTheorems, SequenceTheorems, WellFoundedInduction,
        TLAPS

-----------------------------------------------------------------------------
(* Indices                                                                 *)

(* A set of naturals has a least element.                                  *)
LEMMA LeastNatural ==
  ASSUME NEW T \in SUBSET Nat, T # {}
  PROVE  \E x \in T : \A y \in T : x <= y
<1> DEFINE R == {ss \in Nat \X Nat : ss[1] < ss[2]}
<1>1. IsWellFoundedOn(R, Nat)
  BY NatLessThanWellFounded DEF OpToRel
<1>2. PICK x \in T : \A y \in T : ~(<<y, x>> \in R)
  <2> HIDE DEF R
  <2> QED
    BY <1>1, WFMin
<1>3. ASSUME NEW y \in T PROVE x <= y
  <2>1. x \in Nat /\ y \in Nat
    OBVIOUS
  <2>2. ~(<<y, x>> \in R)
    BY <1>2
  <2>3. <<y, x>> \in Nat \X Nat /\ <<y, x>>[1] = y /\ <<y, x>>[2] = x
    BY <2>1
  <2>4. ~(y < x)
    BY <2>2, <2>3
  <2> QED
    BY <2>1, <2>4
<1> QED
  BY <1>3

(* Induction over the naturals, for a set.                                 *)
LEMMA SetInduction ==
  ASSUME NEW T, 0 \in T, \A n \in Nat : n \in T => n + 1 \in T
  PROVE  Nat \subseteq T
<1> SUFFICES ASSUME Nat \ T # {} PROVE FALSE
  OBVIOUS
<1>1. PICK x \in Nat \ T : \A y \in Nat \ T : x <= y
  BY LeastNatural
<1>2. x - 1 \in Nat /\ (x - 1) + 1 = x
  BY <1>1
<1>3. x - 1 \in T
  BY <1>1, <1>2
<1> QED
  BY <1>1, <1>2, <1>3

(* A set of indices has a greatest element.                                *)
LEMMA GreatestIndex ==
  ASSUME NEW m \in Nat, NEW T \in SUBSET (1 .. m), T # {}
  PROVE  /\ Max(T) \in T
         /\ \A y \in T : y <= Max(T)
<1> DEFINE D == {d \in Nat : m - d \in T}
<1>1. PICK y \in T : TRUE
  OBVIOUS
<1>2. m - y \in Nat /\ m - (m - y) = y
  BY <1>1
<1>3. D # {}
  BY <1>1, <1>2
<1>4. PICK d \in D : \A e \in D : d <= e
  BY <1>3, LeastNatural
<1>5. ASSUME NEW z \in T PROVE z <= m - d
  <2>1. m - z \in Nat /\ m - (m - z) = z
    OBVIOUS
  <2>2. m - z \in D
    BY <2>1
  <2>3. d \in Nat /\ z \in Nat
    BY <1>4
  <2>4. d <= m - z
    <3> HIDE DEF D
    <3> QED
      BY <1>4, <2>2
  <2> QED
    BY <2>3, <2>4
<1>6. m - d \in T /\ \A z \in T : m - d >= z
  BY <1>4, <1>5
<1> QED
  BY <1>6 DEF Max

-----------------------------------------------------------------------------
(* The bits that masks write                                               *)

(* The last bit for section s of area n in a list, if there is one, is v.  *)
NoBit(q, n, s) == \A k \in DOMAIN q : q[k].area = n => q[k].sect # s

LastBit(q, n, s, v) ==
  \E k \in DOMAIN q :
    /\ q[k].area = n /\ q[k].sect = s /\ q[k].on = v
    /\ \A l \in DOMAIN q : l > k /\ q[l].area = n => q[l].sect # s

(* An empty list has no bits, a list of one that bit.                      *)
LEMMA ShortLists ==
  ASSUME NEW n, NEW s, NEW b
  PROVE  /\ NoBit(<<>>, n, s)
         /\ b.area # n \/ b.sect # s => NoBit(<<b>>, n, s)
         /\ b.area = n /\ b.sect = s => LastBit(<<b>>, n, s, b.on)
<1>1. DOMAIN <<>> = {} /\ DOMAIN <<b>> = {1} /\ <<b>>[1] = b
  OBVIOUS
<1>2. PICK q : q = <<b>>
  OBVIOUS
<1>3. NoBit(<<>>, n, s)
  BY <1>1 DEF NoBit
<1>4. DOMAIN q = {1} /\ q[1] = b
  BY <1>1, <1>2
<1>5. ~(1 > 1)
  OBVIOUS
<1> QED
  BY <1>2, <1>3, <1>4, <1>5 DEF NoBit, LastBit

(* The last bit of a list says that there is one.                          *)
LEMMA LastIsBit ==
  ASSUME NEW q, NEW n, NEW s, NEW v, LastBit(q, n, s, v)
  PROVE  ~NoBit(q, n, s)
  BY DEF NoBit, LastBit

(* A list that follows another one overrides it.                           *)
LEMMA JoinedLists ==
  ASSUME NEW S, NEW p \in Seq(S), NEW q \in Seq(S), NEW n, NEW s
  PROVE  /\ p \o q \in Seq(S)
         /\ NoBit(p \o q, n, s) <=> NoBit(p, n, s) /\ NoBit(q, n, s)
         /\ \A v : LastBit(q, n, s, v) => LastBit(p \o q, n, s, v)
         /\ \A v : LastBit(p, n, s, v) /\ NoBit(q, n, s)
                     => LastBit(p \o q, n, s, v)
<1>1. PICK r \in Seq(S) : r = p \o q
  BY ConcatProperties
<1>2. /\ Len(p) \in Nat /\ Len(q) \in Nat /\ Len(r) = Len(p) + Len(q)
      /\ DOMAIN p = 1 .. Len(p) /\ DOMAIN q = 1 .. Len(q)
      /\ DOMAIN r = 1 .. Len(r)
  BY <1>1, ConcatProperties, LenProperties
<1>3. \A k \in 1 .. Len(p) : k \in DOMAIN r /\ r[k] = p[k]
  BY <1>1, <1>2, ConcatProperties
<1>4. \A k \in 1 .. Len(q) :
        /\ Len(p) + k \in DOMAIN r
        /\ r[Len(p) + k] = q[k]
  BY <1>1, <1>2, ConcatProperties
<1>5. \A k \in DOMAIN r : \/ k \in DOMAIN p /\ r[k] = p[k]
                          \/ /\ k - Len(p) \in DOMAIN q /\ k > Len(p)
                             /\ r[k] = q[k - Len(p)]
  BY <1>1, <1>2, ConcatProperties
<1>6. NoBit(r, n, s) <=> NoBit(p, n, s) /\ NoBit(q, n, s)
  BY <1>2, <1>3, <1>4, <1>5 DEF NoBit
<1>7. ASSUME NEW v, LastBit(q, n, s, v) PROVE LastBit(r, n, s, v)
  <2>1. PICK k \in DOMAIN q :
          /\ q[k].area = n /\ q[k].sect = s /\ q[k].on = v
          /\ \A l \in DOMAIN q : l > k /\ q[l].area = n => q[l].sect # s
    BY <1>7 DEF LastBit
  <2>2. PICK i \in DOMAIN r : i = Len(p) + k /\ r[i] = q[k]
    BY <1>2, <1>4
  <2>3. ASSUME NEW l \in DOMAIN r, l > i, r[l].area = n PROVE r[l].sect # s
    <3>1. PICK j \in DOMAIN q : j = l - Len(p) /\ r[l] = q[j]
      BY <1>2, <1>5, <2>2, <2>3
    <3>2. j > k
      BY <1>2, <2>2, <2>3, <3>1
    <3> QED
      BY <2>1, <2>3, <3>1, <3>2
  <2> QED
    BY <2>1, <2>2, <2>3 DEF LastBit
<1>8. ASSUME NEW v, LastBit(p, n, s, v), NoBit(q, n, s)
      PROVE  LastBit(r, n, s, v)
  <2>1. PICK k \in DOMAIN p :
          /\ p[k].area = n /\ p[k].sect = s /\ p[k].on = v
          /\ \A l \in DOMAIN p : l > k /\ p[l].area = n => p[l].sect # s
    BY <1>8 DEF LastBit
  <2>2. k \in DOMAIN r /\ r[k] = p[k]
    BY <1>2, <1>3
  <2>3. ASSUME NEW l \in DOMAIN r, l > k, r[l].area = n PROVE r[l].sect # s
    BY <1>5, <1>8, <2>1, <2>3 DEF NoBit
  <2> QED
    BY <2>1, <2>2, <2>3 DEF LastBit
<1> QED
  BY <1>1, <1>6, <1>7, <1>8

(* The lists joined so far.                                                *)
IsFlattening(g, qs) ==
  g = [i \in 1 .. Len(qs) |-> IF i = 1 THEN qs[i] ELSE g[i - 1] \o qs[i]]

(* Lists can be joined one after another.                                  *)
LEMMA FlatteningExists ==
  ASSUME NEW qs, Len(qs) \in Nat
  PROVE  \E g : IsFlattening(g, qs)
<1> DEFINE T == {n \in Nat : \E g : g = [i \in 1 .. n |->
                   IF i = 1 THEN qs[i] ELSE g[i - 1] \o qs[i]]}
<1>1. 0 \in T
  <2>1. PICK g : g = [i \in 1 .. 0 |-> qs]
    OBVIOUS
  <2>2. g = [i \in 1 .. 0 |-> IF i = 1 THEN qs[i] ELSE g[i - 1] \o qs[i]]
    BY <2>1
  <2> QED
    BY <2>2
<1>2. ASSUME NEW n \in Nat, n \in T PROVE n + 1 \in T
  <2>1. PICK g : g = [i \in 1 .. n |-> IF i = 1 THEN qs[i]
                                       ELSE g[i - 1] \o qs[i]]
    BY <1>2
  <2>2. PICK h : h = [i \in 1 .. n + 1 |-> IF i = 1 THEN qs[i]
                                           ELSE g[i - 1] \o qs[i]]
    OBVIOUS
  <2>3. \A i \in 1 .. n : h[i] = g[i]
    <3>1. \A i \in 1 .. n : i \in 1 .. n + 1
      OBVIOUS
    <3>2. \A i \in 1 .. n + 1 : h[i] = IF i = 1 THEN qs[i]
                                       ELSE g[i - 1] \o qs[i]
      BY <2>2
    <3>3. \A i \in 1 .. n : g[i] = IF i = 1 THEN qs[i]
                                   ELSE g[i - 1] \o qs[i]
      BY <2>1
    <3> QED
      BY <3>1, <3>2, <3>3
  <2>4. \A i \in 1 .. n + 1 : i # 1 => i - 1 \in 1 .. n
    OBVIOUS
  <2>5. h = [i \in 1 .. n + 1 |-> IF i = 1 THEN qs[i]
                                  ELSE h[i - 1] \o qs[i]]
    BY <2>2, <2>3, <2>4
  <2>6. n + 1 \in Nat
    OBVIOUS
  <2> QED
    BY <2>5, <2>6
<1> HIDE DEF T
<1>3. Len(qs) \in T
  BY <1>1, <1>2, SetInduction
<1> QED
  BY <1>3 DEF T, IsFlattening

(* In the lists joined, the last list with a bit for a section counts.     *)
LEMMA FlattenedLists ==
  ASSUME NEW S, NEW qs \in Seq(Seq(S)), NEW n, NEW s
  PROVE  /\ FlattenSeq(qs) \in Seq(S)
         /\ NoBit(FlattenSeq(qs), n, s)
              <=> \A i \in DOMAIN qs : NoBit(qs[i], n, s)
         /\ \A v : \A i \in DOMAIN qs :
              (/\ LastBit(qs[i], n, s, v)
               /\ \A j \in DOMAIN qs : j > i => NoBit(qs[j], n, s))
              => LastBit(FlattenSeq(qs), n, s, v)
<1>0. Len(qs) \in Nat /\ DOMAIN qs = 1 .. Len(qs)
      /\ \A i \in DOMAIN qs : qs[i] \in Seq(S)
  BY LenProperties, ElementOfSeq
<1>1. CASE Len(qs) = 0
  <2>1. qs = <<>> /\ DOMAIN qs = {}
    BY <1>0, <1>1, EmptySeq
  <2>2. FlattenSeq(qs) = <<>>
    BY <1>1, <2>1 DEF FlattenSeq
  <2>3. NoBit(<<>>, n, s) /\ <<>> \in Seq(S)
    BY ShortLists, EmptySeq
  <2> QED
    BY <2>1, <2>2, <2>3
<1>2. CASE Len(qs) # 0
  <2>1. PICK h : IsFlattening(h, qs)
    BY <1>0, FlatteningExists
  <2>2. PICK g : g = CHOOSE f : IsFlattening(f, qs)
    OBVIOUS
  <2>3. IsFlattening(g, qs)
    BY <2>1, <2>2
  <2>4. FlattenSeq(qs) = g[Len(qs)]
    BY <1>2, <2>2 DEF FlattenSeq, IsFlattening
  <2>5. \A i \in 1 .. Len(qs) :
          g[i] = IF i = 1 THEN qs[i] ELSE g[i - 1] \o qs[i]
    BY <2>3 DEF IsFlattening
  <2> DEFINE Facts(k) ==
        /\ g[k] \in Seq(S)
        /\ NoBit(g[k], n, s) <=> \A i \in 1 .. k : NoBit(qs[i], n, s)
        /\ \A v : \A i \in 1 .. k :
             (/\ LastBit(qs[i], n, s, v)
              /\ \A j \in 1 .. k : j > i => NoBit(qs[j], n, s))
             => LastBit(g[k], n, s, v)
  <2> DEFINE T == {k \in Nat : k \in 1 .. Len(qs) => Facts(k)}
  <2>6. 0 \in T
    OBVIOUS
  <2>7. ASSUME NEW k \in Nat, k \in T PROVE k + 1 \in T
    <3>0. SUFFICES ASSUME k + 1 \in 1 .. Len(qs) PROVE Facts(k + 1)
      <4>1. k + 1 \in Nat
        OBVIOUS
      <4> HIDE DEF Facts
      <4> QED
        BY <4>1
    <3>1. CASE k = 0
      <4>1. g[1] = qs[1] /\ k + 1 = 1 /\ 1 .. 1 = {1} /\ qs[1] \in Seq(S)
        BY <1>0, <2>5, <3>0, <3>1
      <4> QED
        BY <4>1
    <3>2. CASE k # 0
      <4>1. k \in 1 .. Len(qs)
        BY <1>0, <3>0, <3>2
      <4>2. Facts(k)
        BY <2>7, <4>1
      <4>3. g[k + 1] = g[k] \o qs[k + 1]
        <5>1. k + 1 # 1 /\ (k + 1) - 1 = k
          BY <3>2
        <5> QED
          BY <2>5, <3>0, <5>1
      <4>4. PICK p \in Seq(S) : p = g[k]
        BY <4>2
      <4>5. PICK q \in Seq(S) : q = qs[k + 1]
        BY <1>0, <3>0
      <4>6. /\ p \o q \in Seq(S)
            /\ NoBit(p \o q, n, s) <=> NoBit(p, n, s) /\ NoBit(q, n, s)
            /\ \A v : LastBit(q, n, s, v) => LastBit(p \o q, n, s, v)
            /\ \A v : LastBit(p, n, s, v) /\ NoBit(q, n, s)
                        => LastBit(p \o q, n, s, v)
        BY JoinedLists
      <4>7. g[k + 1] = p \o q
        BY <4>3, <4>4, <4>5
      <4>8. \A i : i \in 1 .. k + 1 <=> i \in 1 .. k \/ i = k + 1
        BY <4>1
      <4>9. g[k + 1] \in Seq(S)
        BY <4>6, <4>7
      <4>10. NoBit(g[k + 1], n, s)
               <=> \A i \in 1 .. k + 1 : NoBit(qs[i], n, s)
        BY <4>2, <4>4, <4>5, <4>6, <4>7, <4>8
      <4>11. ASSUME NEW v, NEW i \in 1 .. k + 1, LastBit(qs[i], n, s, v),
                    \A j \in 1 .. k + 1 : j > i => NoBit(qs[j], n, s)
             PROVE  LastBit(g[k + 1], n, s, v)
        <5>1. CASE i = k + 1
          BY <4>5, <4>6, <4>7, <4>11, <5>1
        <5>2. CASE i \in 1 .. k
          <6>1. k + 1 > i /\ \A j \in 1 .. k : j \in 1 .. k + 1
            BY <5>2
          <6>2. NoBit(q, n, s)
            BY <4>5, <4>11, <6>1
          <6>3. LastBit(p, n, s, v)
            BY <4>2, <4>4, <4>11, <5>2, <6>1
          <6> QED
            BY <4>6, <4>7, <6>2, <6>3
        <5> QED
          BY <4>8, <5>1, <5>2
      <4> QED
        BY <4>9, <4>10, <4>11
    <3> QED
      BY <3>1, <3>2
  <2> HIDE DEF T
  <2>8. Len(qs) \in T
    BY <1>0, <2>6, <2>7, SetInduction
  <2>9. Facts(Len(qs))
    BY <1>0, <1>2, <2>8 DEF T
  <2> QED
    BY <1>0, <2>4, <2>9
<1> QED
  BY <1>1, <1>2

(* What a mask says of section s of area n, if an element matches.         *)
Says(m, n, s) == m[Max(Matching(m, n, s))].on

(* The masks.                                                              *)
MaskLists == {MaskOf(strs) : strs \in Masks}

(* A mask is a sequence of elements, each of which is on or off.           *)
LEMMA MaskFacts ==
  ASSUME NEW m \in MaskLists
  PROVE  /\ Len(m) \in Nat /\ DOMAIN m = 1 .. Len(m)
         /\ \A i \in DOMAIN m : m[i].on \in BOOLEAN
<1>1. PICK strs \in Masks : m = MaskOf(strs)
  BY DEF MaskLists
<1>2. /\ strs \in Seq(Range(strs))
      /\ \A i \in DOMAIN strs : strs[i].not \in BOOLEAN
  BY ListsAssumption
<1>3. PICK l \in Nat : l = Len(strs) /\ DOMAIN strs = 1 .. l
  BY <1>2, LenProperties
<1>4. m = [i \in 1 .. l |-> MaskElement(strs[i])]
  BY <1>1, <1>3 DEF MaskOf
<1>5. Len(m) = l /\ DOMAIN m = 1 .. l
  BY <1>4
<1>6. ASSUME NEW i \in DOMAIN m PROVE m[i].on \in BOOLEAN
  <2>1. m[i] = MaskElement(strs[i])
    BY <1>4, <1>5
  <2>2. MaskElement(strs[i]).on = ~strs[i].not
    BY DEF MaskElement
  <2> QED
    BY <1>2, <1>3, <1>5, <2>1, <2>2
<1> QED
  BY <1>5, <1>6

(* The last of the elements of a mask that match.                          *)
LEMMA LastMatching ==
  ASSUME NEW m \in MaskLists, NEW n, NEW s, Matching(m, n, s) # {}
  PROVE  /\ Max(Matching(m, n, s)) \in Matching(m, n, s)
         /\ \A i \in Matching(m, n, s) : i <= Max(Matching(m, n, s))
         /\ Says(m, n, s) \in BOOLEAN
<1>1. Len(m) \in Nat /\ Matching(m, n, s) \subseteq 1 .. Len(m)
  BY MaskFacts DEF Matching
<1>2. /\ Max(Matching(m, n, s)) \in Matching(m, n, s)
      /\ \A i \in Matching(m, n, s) : i <= Max(Matching(m, n, s))
  BY <1>1, GreatestIndex
<1>3. Max(Matching(m, n, s)) \in DOMAIN m
  BY <1>2 DEF Matching
<1> QED
  BY <1>2, <1>3, MaskFacts DEF Says

(* The bits of an area with given sections.                                *)
AreaBits(n, sects) == [area: {n}, sect: Range(sects), on: BOOLEAN]

(* A function over indices is a sequence.                                  *)
LEMMA IndexedSeq ==
  ASSUME NEW S, NEW m \in Nat, NEW q, DOMAIN q = 1 .. m,
         q = [i \in DOMAIN q |-> q[i]], \A i \in 1 .. m : q[i] \in S
  PROVE  q \in Seq(S) /\ Len(q) = m
<1>1. q \in [1 .. m -> S]
  OBVIOUS
<1> QED
  BY <1>1, SeqDef

(* What an element of a mask writes in an area: its value, in the sections *)
(* that it matches.                                                        *)
LEMMA ElementBitsFacts ==
  ASSUME NEW e, e.on \in BOOLEAN, NEW n, NEW sects, NEW Q,
         sects \in Seq(Q), NEW a, NEW s
  PROVE  /\ ElementBits(e, n, sects) \in Seq(AreaBits(n, sects))
         /\ a = n /\ s \in Range(sects) /\ n \in e.areas /\ s \in e.sects
              => LastBit(ElementBits(e, n, sects), a, s, e.on)
         /\ ~(a = n /\ s \in Range(sects) /\ n \in e.areas /\ s \in e.sects)
              => NoBit(ElementBits(e, n, sects), a, s)
<1> DEFINE B(j) == IF n \in e.areas /\ sects[j] \in e.sects
                   THEN <<Bit(n, sects[j], e.on)>> ELSE <<>>
<1>1. PICK l \in Nat : l = Len(sects) /\ DOMAIN sects = 1 .. l
  BY LenProperties
<1>2. PICK qs : qs = [j \in DOMAIN sects |-> B(j)]
  OBVIOUS
<1>3. ElementBits(e, n, sects) = FlattenSeq(qs)
  BY <1>2 DEF ElementBits
<1>4. \A j \in 1 .. l : qs[j] = B(j)
  BY <1>1, <1>2
<1>5. DOMAIN qs = 1 .. l /\ qs = [j \in DOMAIN qs |-> qs[j]]
  BY <1>1, <1>2
<1>6. \A j \in 1 .. l : sects[j] \in Range(sects)
  BY <1>1 DEF Range
<1>7. ASSUME NEW j \in 1 .. l
      PROVE  /\ qs[j] \in Seq(AreaBits(n, sects))
             /\ a = n /\ s = sects[j] /\ n \in e.areas /\ s \in e.sects
                  => LastBit(qs[j], a, s, e.on)
             /\ ~(a = n /\ s = sects[j] /\ n \in e.areas /\ s \in e.sects)
                  => NoBit(qs[j], a, s)
  <2>1. PICK b : b = Bit(n, sects[j], e.on)
    OBVIOUS
  <2>2. b.area = n /\ b.sect = sects[j] /\ b.on = e.on
    BY <2>1 DEF Bit
  <2>3. b \in AreaBits(n, sects)
    BY <1>6, <2>1 DEF Bit, AreaBits
  <2>4. <<b>> \in Seq(AreaBits(n, sects)) /\ <<>> \in Seq(AreaBits(n, sects))
    BY <2>3
  <2>5. CASE n \in e.areas /\ sects[j] \in e.sects
    <3>1. qs[j] = <<b>>
      BY <1>4, <2>1, <2>5
    <3> QED
      BY <2>2, <2>4, <2>5, <3>1, ShortLists
  <2>6. CASE ~(n \in e.areas /\ sects[j] \in e.sects)
    <3>1. qs[j] = <<>>
      BY <1>4, <2>6
    <3> QED
      BY <2>4, <2>6, <3>1, ShortLists
  <2> QED
    BY <2>5, <2>6
<1> HIDE DEF B
<1>8. qs \in Seq(Seq(AreaBits(n, sects)))
  BY <1>5, <1>7, IndexedSeq
<1>9. /\ FlattenSeq(qs) \in Seq(AreaBits(n, sects))
      /\ NoBit(FlattenSeq(qs), a, s)
           <=> \A i \in DOMAIN qs : NoBit(qs[i], a, s)
      /\ \A v : \A i \in DOMAIN qs :
           (/\ LastBit(qs[i], a, s, v)
            /\ \A j \in DOMAIN qs : j > i => NoBit(qs[j], a, s))
           => LastBit(FlattenSeq(qs), a, s, v)
  BY <1>8, FlattenedLists
<1>10. ASSUME a = n, s \in Range(sects), n \in e.areas, s \in e.sects
       PROVE  LastBit(FlattenSeq(qs), a, s, e.on)
  <2>1. PICK T \in SUBSET (1 .. l) : T = {j \in 1 .. l : sects[j] = s}
    OBVIOUS
  <2>2. T # {}
    BY <1>1, <1>10, <2>1 DEF Range
  <2>3. PICK k \in T : \A j \in T : j <= k
    BY <2>2, GreatestIndex
  <2>4. k \in 1 .. l /\ sects[k] = s
    BY <2>1
  <2>5. LastBit(qs[k], a, s, e.on)
    BY <1>7, <1>10, <2>4
  <2>6. ASSUME NEW j \in 1 .. l, j > k PROVE NoBit(qs[j], a, s)
    <3>1. ~(j <= k)
      BY <2>4, <2>6
    <3>2. sects[j] # s
      BY <2>1, <2>3, <3>1
    <3> QED
      BY <1>7, <3>2
  <2> QED
    BY <1>5, <1>9, <2>4, <2>5, <2>6
<1>11. ASSUME ~(a = n /\ s \in Range(sects) /\ n \in e.areas /\ s \in e.sects)
       PROVE  NoBit(FlattenSeq(qs), a, s)
  BY <1>5, <1>6, <1>7, <1>9, <1>11
<1> QED
  BY <1>3, <1>9, <1>10, <1>11

(* What a mask writes in an area: in the end what it says of the sections  *)
(* that it matches, and nothing of others.                                 *)
LEMMA MaskBitsFacts ==
  ASSUME NEW m \in MaskLists, NEW n, NEW sects, NEW Q, sects \in Seq(Q),
         NEW a, NEW s
  PROVE  /\ MaskBits(m, n, sects) \in Seq(AreaBits(n, sects))
         /\ a = n /\ s \in Range(sects) /\ Matching(m, n, s) # {}
              => LastBit(MaskBits(m, n, sects), a, s, Says(m, n, s))
         /\ ~(a = n /\ s \in Range(sects) /\ Matching(m, n, s) # {})
              => NoBit(MaskBits(m, n, sects), a, s)
<1>1. PICK l \in Nat : l = Len(m) /\ DOMAIN m = 1 .. l
  BY MaskFacts
<1>2. PICK qs : qs = [i \in DOMAIN m |-> ElementBits(m[i], n, sects)]
  OBVIOUS
<1>3. MaskBits(m, n, sects) = FlattenSeq(qs)
  BY <1>2 DEF MaskBits
<1>4. DOMAIN qs = 1 .. l /\ qs = [i \in DOMAIN qs |-> qs[i]]
      /\ \A i \in 1 .. l : qs[i] = ElementBits(m[i], n, sects)
  BY <1>1, <1>2
<1>5. ASSUME NEW i \in 1 .. l
      PROVE  /\ qs[i] \in Seq(AreaBits(n, sects))
             /\ a = n /\ s \in Range(sects) /\ i \in Matching(m, n, s)
                  => LastBit(qs[i], a, s, m[i].on)
             /\ ~(a = n /\ s \in Range(sects) /\ i \in Matching(m, n, s))
                  => NoBit(qs[i], a, s)
  <2>1. m[i].on \in BOOLEAN /\ qs[i] = ElementBits(m[i], n, sects)
    BY <1>1, <1>4, MaskFacts
  <2>2. i \in Matching(m, n, s) <=> n \in m[i].areas /\ s \in m[i].sects
    BY <1>1 DEF Matching
  <2>3. PICK e : e = m[i]
    OBVIOUS
  <2>4. /\ ElementBits(e, n, sects) \in Seq(AreaBits(n, sects))
        /\ a = n /\ s \in Range(sects) /\ n \in e.areas /\ s \in e.sects
             => LastBit(ElementBits(e, n, sects), a, s, e.on)
        /\ ~(a = n /\ s \in Range(sects) /\ n \in e.areas /\ s \in e.sects)
             => NoBit(ElementBits(e, n, sects), a, s)
    <3>1. e.on \in BOOLEAN
      BY <2>1, <2>3
    <3> QED
      BY <3>1, ElementBitsFacts
  <2> QED
    BY <2>1, <2>2, <2>3, <2>4
<1>6. qs \in Seq(Seq(AreaBits(n, sects)))
  BY <1>4, <1>5, IndexedSeq
<1>7. /\ FlattenSeq(qs) \in Seq(AreaBits(n, sects))
      /\ NoBit(FlattenSeq(qs), a, s)
           <=> \A i \in DOMAIN qs : NoBit(qs[i], a, s)
      /\ \A v : \A i \in DOMAIN qs :
           (/\ LastBit(qs[i], a, s, v)
            /\ \A j \in DOMAIN qs : j > i => NoBit(qs[j], a, s))
           => LastBit(FlattenSeq(qs), a, s, v)
  BY <1>6, FlattenedLists
<1>8. ASSUME a = n, s \in Range(sects), Matching(m, n, s) # {}
      PROVE  LastBit(FlattenSeq(qs), a, s, Says(m, n, s))
  <2>1. PICK k : /\ k = Max(Matching(m, n, s))
                 /\ k \in Matching(m, n, s)
                 /\ \A i \in Matching(m, n, s) : i <= k
    BY <1>8, LastMatching
  <2>2. k \in 1 .. l /\ Says(m, n, s) = m[k].on
    BY <1>1, <2>1 DEF Matching, Says
  <2>3. LastBit(qs[k], a, s, Says(m, n, s))
    BY <1>5, <1>8, <2>1, <2>2
  <2>4. ASSUME NEW j \in 1 .. l, j > k PROVE NoBit(qs[j], a, s)
    <3>1. ~(j <= k)
      BY <2>2, <2>4
    <3> QED
      BY <1>5, <2>1, <3>1
  <2> QED
    BY <1>4, <1>7, <2>2, <2>3, <2>4
<1>9. ASSUME ~(a = n /\ s \in Range(sects) /\ Matching(m, n, s) # {})
      PROVE  NoBit(FlattenSeq(qs), a, s)
  BY <1>4, <1>5, <1>7, <1>9
<1> QED
  BY <1>3, <1>7, <1>8, <1>9

(* The names of a finite set in some order: each of them once.             *)
LEMMA NamesInOrder ==
  ASSUME NEW S, IsFiniteSet(S)
  PROVE  LET q == SetToSeq(S)
         IN  /\ Cardinality(S) \in Nat /\ DOMAIN q = 1 .. Cardinality(S)
             /\ q \in [1 .. Cardinality(S) -> S]
             /\ \A i, j \in DOMAIN q : q[i] = q[j] => i = j
             /\ \A x \in S : \E i \in DOMAIN q : q[i] = x
<1>1. PICK c \in Nat : c = Cardinality(S)
  BY FS_CardinalityType
<1>2. PICK f : f \in Bijection(1 .. c, S)
  <2>1. PICK d \in Nat : ExistsBijection(1 .. d, S)
    BY FS_NatBijection
  <2>2. d = c
    BY <1>1, <2>1, FS_CountingElements
  <2> QED
    BY <2>1, <2>2 DEF ExistsBijection
<1>3. f \in [1 .. c -> S] /\ IsInjective(f)
  BY <1>2 DEF Bijection, Injection, IsInjective
<1>4. PICK q : q = SetToSeq(S)
  OBVIOUS
<1>5. q \in [1 .. c -> S] /\ IsInjective(q)
  BY <1>1, <1>3, <1>4 DEF SetToSeq
<1>6. q \in Injection(1 .. c, S)
  BY <1>5 DEF Injection, IsInjective
<1>7. Cardinality(1 .. c) = c
  BY <1>1, FS_Interval
<1>8. q \in Surjection(1 .. c, S)
  BY <1>1, <1>6, <1>7, FS_Injection
<1> QED
  BY <1>1, <1>4, <1>5, <1>8 DEF Surjection, IsInjective

-----------------------------------------------------------------------------
(* The inductive invariant                                                 *)

(* The bits that masks and threads write.                                  *)
Bits == [area: AreaNames, sect: Sections, on: BOOLEAN]

MaskTypeInv ==
  /\ areas \in [AreaNames -> Area \cup {Null}]
  /\ mask \in MaskLists
  /\ mutex \in Threads \cup {Null}
  /\ job \in [Threads -> AreaNames \cup Jobs]
  /\ todo \in [Threads -> Seq(Bits)]
  /\ word \in [Threads -> (SUBSET Sections) \cup {Null}]
  /\ raced \in BOOLEAN

(* The bits that a thread is going to write are of sections that there     *)
(* are, those of a switch of sections that are marked as switched.         *)
BitInv(t, b) ==
  /\ areas[b.area] # Null
  /\ b.sect \in Range(areas[b.area].sects)
  /\ job[t] = "switch" => <<b.area, b.sect>> \in touched

ThreadInv(t) ==
  /\ job[t] \in AreaNames => areas[job[t]] # Null
  /\ job[t] \in AreaNames \cup {"idle", "delete"} => todo[t] = <<>>
  /\ todo[t] = <<>> => word[t] = Null
  /\ job[t] \in {"delete", "apply"} <=> mutex = t
  /\ job[t] = "freed" => raced
  /\ \A k \in DOMAIN todo[t] : BitInv(t, todo[t][k])

JobInv == \A t \in Threads : ThreadInv(t)

(* A thread that applies a mask ends with what the mask in force says.     *)
EndsAsMask(q, n, s) ==
  \/ NoBit(q, n, s)
  \/ Matching(mask, n, s) # {} /\ LastBit(q, n, s, Says(mask, n, s))

BitsInv ==
  ~raced => \A t \in Threads : job[t] \in {"masking", "apply"} =>
              \A n \in AreaNames, s \in Sections : EndsAsMask(todo[t], n, s)

(* The thread is going to set section s of area n as the mask says.        *)
WillSet(t, n, s) ==
  \/ job[t] = n
  \/ job[t] \in {"masking", "apply"} /\ ~NoBit(todo[t], n, s)

(* A section is as the mask says, or somebody is going to see to it.       *)
AsMasked(n, s) ==
  \/ <<n, s>> \in touched
  \/ Matching(mask, n, s) = {}
  \/ (s \in areas[n].on) = Says(mask, n, s)

SetInv ==
  ~raced => \A n \in Registered : \A s \in Range(areas[n].sects) :
              AsMasked(n, s) \/ \E t \in Threads : WillSet(t, n, s)

MaskInv == MaskTypeInv /\ JobInv /\ BitsInv /\ SetInv

(* While the list of the mask is deleted nobody has bits of the old one.   *)
DeleteInv ==
  ~raced => \A t, u \in Threads :
              job[t] = "delete" /\ job[u] = "masking" => todo[u] = <<>>

-----------------------------------------------------------------------------
(* The initial states                                                      *)

(* Before the first call there are no areas.                               *)
LEMMA MaskInvInit == Init => MaskInv
<1> SUFFICES ASSUME Init PROVE MaskInv
  OBVIOUS
<1>1. AreaInit
  BY DEF Init
<1>2. MaskTypeInv
  <2>1. <<>> \in Seq(Bits) /\ "idle" \in Jobs
    BY EmptySeq DEF Jobs
  <2>2. mask \in MaskLists
    BY <1>1 DEF AreaInit, MaskLists
  <2>3. areas \in [AreaNames -> Area \cup {Null}]
    BY <1>1 DEF AreaInit
  <2>4. /\ job \in [Threads -> AreaNames \cup Jobs]
        /\ todo \in [Threads -> Seq(Bits)]
        /\ word \in [Threads -> (SUBSET Sections) \cup {Null}]
    BY <1>1, <2>1 DEF AreaInit
  <2> QED
    BY <1>1, <2>2, <2>3, <2>4 DEF AreaInit, MaskTypeInv
<1>3. \A t \in Threads : job[t] = "idle" /\ todo[t] = <<>> /\ word[t] = Null
  BY <1>1 DEF AreaInit
<1>4. DOMAIN <<>> = {} /\ "idle" \notin AreaNames
      /\ \A t \in Threads : Null # t
  BY NullAssumption, NamesAssumption DEF Jobs
<1>5. JobInv
  BY <1>1, <1>3, <1>4 DEF AreaInit, JobInv, ThreadInv
<1>6. BitsInv
  BY <1>3 DEF BitsInv
<1>7. SetInv
  BY <1>1 DEF AreaInit, SetInv, Registered
<1> QED
  BY <1>2, <1>5, <1>6, <1>7 DEF MaskInv

(* The jobs of threads that are not adding an area.                        *)
LEMMA JobNames ==
  {"idle", "masking", "delete", "apply", "switch", "freed"} \cap AreaNames = {}
  BY NamesAssumption DEF Jobs

(* The sections of a registered area.                                      *)
LEMMA RegisteredFacts ==
  ASSUME MaskTypeInv, NEW n \in AreaNames, areas[n] # Null
  PROVE  /\ areas[n] \in Area
         /\ areas[n].sects \in SectionLists /\ areas[n].on \subseteq Sections
         /\ areas[n].sects \in Seq(Sections)
         /\ Range(areas[n].sects) \subseteq Sections
<1>1. areas[n] \in Area
  BY DEF MaskTypeInv
<1>2. areas[n].sects \in SectionLists /\ areas[n].on \subseteq Sections
  BY <1>1 DEF Area
<1> QED
  BY <1>1, <1>2, ListsAssumption DEF Sections

(* The first of the bits of a thread and those behind it.                  *)
LEMMA HeadAndTail ==
  ASSUME NEW q \in Seq(Bits), q # <<>>, NEW n, NEW s
  PROVE  /\ Head(q) \in Bits /\ Tail(q) \in Seq(Bits)
         /\ 1 \in DOMAIN q /\ Head(q) = q[1]
         /\ \A k \in DOMAIN Tail(q) : \E l \in DOMAIN q : Tail(q)[k] = q[l]
         /\ Head(q).area # n \/ Head(q).sect # s
              => (NoBit(Tail(q), n, s) <=> NoBit(q, n, s))
         /\ \A v : LastBit(q, n, s, v) =>
              \/ LastBit(Tail(q), n, s, v)
              \/ /\ NoBit(Tail(q), n, s)
                 /\ Head(q).area = n /\ Head(q).sect = s /\ Head(q).on = v
<1>1. /\ Len(q) \in Nat \ {0} /\ DOMAIN q = 1 .. Len(q)
      /\ Head(q) = q[1] /\ q[1] \in Bits
  BY EmptySeq, LenProperties, ElementOfSeq
<1>2. PICK p \in Seq(Bits) : p = Tail(q)
  BY HeadTailProperties
<1>3. /\ DOMAIN p = 1 .. Len(q) - 1
      /\ \A k \in 1 .. Len(q) - 1 : p[k] = q[k + 1]
  BY <1>1, <1>2
<1>4. \A k \in DOMAIN p : k + 1 \in DOMAIN q /\ p[k] = q[k + 1]
  BY <1>1, <1>3
<1>5. \A k \in DOMAIN q : k # 1 => k - 1 \in DOMAIN p /\ q[k] = p[k - 1]
  BY <1>1, <1>3
<1>6. ASSUME Head(q).area # n \/ Head(q).sect # s
      PROVE  NoBit(p, n, s) <=> NoBit(q, n, s)
  BY <1>1, <1>4, <1>5, <1>6 DEF NoBit
<1>7. ASSUME NEW v, LastBit(q, n, s, v)
      PROVE  \/ LastBit(p, n, s, v)
             \/ /\ NoBit(p, n, s)
                /\ Head(q).area = n /\ Head(q).sect = s /\ Head(q).on = v
  <2>1. PICK k \in DOMAIN q :
          /\ q[k].area = n /\ q[k].sect = s /\ q[k].on = v
          /\ \A l \in DOMAIN q : l > k /\ q[l].area = n => q[l].sect # s
    BY <1>7 DEF LastBit
  <2>2. CASE k = 1
    <3>1. \A j \in DOMAIN p : j + 1 > k
      BY <1>3, <2>2
    <3>2. NoBit(p, n, s)
      BY <1>4, <2>1, <3>1 DEF NoBit
    <3> QED
      BY <1>1, <2>1, <2>2, <3>2
  <2>3. CASE k # 1
    <3>1. PICK i \in DOMAIN p : i = k - 1 /\ p[i] = q[k]
      BY <1>5, <2>3
    <3>2. ASSUME NEW l \in DOMAIN p, l > i, p[l].area = n PROVE p[l].sect # s
      <4>1. l + 1 > k
        BY <1>1, <1>3, <3>1, <3>2
      <4> QED
        BY <1>4, <2>1, <3>2, <4>1
    <3> QED
      BY <2>1, <3>1, <3>2 DEF LastBit
  <2> QED
    BY <2>2, <2>3
<1> QED
  BY <1>1, <1>2, <1>4, <1>6, <1>7

(* The bits that a thread has to write.                                    *)
LEMMA TodoBits ==
  ASSUME MaskTypeInv, NEW t \in Threads, NEW k \in DOMAIN todo[t]
  PROVE  todo[t][k].area \in AreaNames /\ todo[t][k].sect \in Sections
<1>1. PICK q \in Seq(Bits) : q = todo[t]
  BY DEF MaskTypeInv
<1>2. q[k] \in Bits
  BY <1>1, ElementOfSeq, LenProperties
<1> QED
  BY <1>1, <1>2 DEF Bits

-----------------------------------------------------------------------------
(* The steps                                                               *)

(* A new area is going to be masked by the thread that added it.           *)
LEMMA AddAreaStep ==
  ASSUME MaskInv, NEW t \in Threads, NEW n \in AreaNames,
         NEW sects \in SectionLists, AddArea(t, n, sects)
  PROVE  MaskInv'
<1>0. MaskTypeInv /\ JobInv /\ BitsInv /\ SetInv
  BY DEF MaskInv
<1>1. /\ job[t] = "idle" /\ mutex = Null /\ areas[n] = Null
      /\ areas' = [areas EXCEPT ![n] = NewArea(sects)]
      /\ job' = [job EXCEPT ![t] = n]
      /\ UNCHANGED <<mask, mutex, todo, word, touched, raced>>
  BY DEF AddArea
<1>2. NewArea(sects) \in Area
  BY DEF NewArea, Area
<1>3. NewArea(sects) # Null
  BY <1>2, NullAssumption
<1>4. /\ areas'[n] = NewArea(sects)
      /\ \A a \in AreaNames : a # n => areas'[a] = areas[a]
  BY <1>0, <1>1 DEF MaskTypeInv
<1>5. job'[t] = n /\ \A u \in Threads : u # t => job'[u] = job[u]
  BY <1>0, <1>1 DEF MaskTypeInv
<1>6. MaskTypeInv'
  BY <1>0, <1>1, <1>2 DEF MaskTypeInv
<1>7. JobInv'
  <2> SUFFICES ASSUME NEW u \in Threads PROVE ThreadInv(u)'
    BY DEF JobInv
  <2>1. ThreadInv(u)
    BY <1>0 DEF JobInv
  <2>2. \A k \in DOMAIN todo[u] : todo[u][k].area \in AreaNames
    BY <1>0, TodoBits
  <2>3. ASSUME NEW k \in DOMAIN todo[u] PROVE BitInv(u, todo[u][k])'
    <3>1. PICK b : b = todo[u][k]
      OBVIOUS
    <3>2. b.area \in AreaNames /\ BitInv(u, b)
      BY <2>1, <2>2, <3>1 DEF ThreadInv
    <3>3. areas'[b.area] = areas[b.area]
      BY <1>1, <1>4, <3>2 DEF BitInv
    <3>4. job'[u] = "switch" => job[u] = "switch"
      BY <1>5, JobNames
    <3>5. BitInv(u, b)'
      BY <1>1, <3>2, <3>3, <3>4 DEF BitInv
    <3> QED
      BY <1>1, <3>1, <3>5
  <2>4. todo'[u] = todo[u] /\ word'[u] = word[u] /\ raced' = raced
        /\ mutex' = mutex
    BY <1>1
  <2>5. job[u] \in AreaNames => areas'[job[u]] # Null
    BY <1>3, <1>4, <2>1 DEF ThreadInv
  <2>6. CASE u = t
    BY <1>1, <1>3, <1>4, <1>5, <2>1, <2>3, <2>4, <2>6, JobNames DEF ThreadInv
  <2>7. CASE u # t
    BY <1>5, <2>1, <2>3, <2>4, <2>5, <2>7 DEF ThreadInv
  <2> QED
    BY <2>6, <2>7
<1>8. BitsInv'
  <2>1. \A u \in Threads : job'[u] \in {"masking", "apply"} => job'[u] = job[u]
    BY <1>5, JobNames
  <2> QED
    BY <1>0, <1>1, <2>1 DEF BitsInv, EndsAsMask
<1>9. SetInv'
  <2> SUFFICES ASSUME ~raced, NEW a \in AreaNames, areas'[a] # Null,
                      NEW s \in Range(areas'[a].sects)
               PROVE  AsMasked(a, s)' \/ \E u \in Threads : WillSet(u, a, s)'
    BY <1>1 DEF SetInv, Registered
  <2>1. CASE a = n
    BY <1>5, <2>1 DEF WillSet
  <2>2. CASE a # n
    <3>1. areas'[a] = areas[a]
      BY <1>4, <2>2
    <3>2. AsMasked(a, s) \/ \E u \in Threads : WillSet(u, a, s)
      BY <1>0, <3>1 DEF SetInv, Registered
    <3>3. AsMasked(a, s) => AsMasked(a, s)'
      BY <1>1, <3>1 DEF AsMasked
    <3>4. ASSUME NEW u \in Threads, WillSet(u, a, s) PROVE WillSet(u, a, s)'
      <4>1. u # t
        BY <1>1, <3>4, JobNames DEF WillSet
      <4> QED
        BY <1>1, <1>5, <3>4, <4>1 DEF WillSet
    <3> QED
      BY <3>2, <3>3, <3>4
  <2> QED
    BY <2>1, <2>2
<1> QED
  BY <1>6, <1>7, <1>8, <1>9 DEF MaskInv

(* The mask's bits for it, which is what the thread was going to do.       *)
LEMMA StartMaskStep ==
  ASSUME MaskInv, NEW t \in Threads, StartMask(t)
  PROVE  MaskInv'
<1>0. MaskTypeInv /\ JobInv /\ BitsInv /\ SetInv
  BY DEF MaskInv
<1>1. PICK n \in AreaNames, m \in MaskLists :
      /\ job[t] = n
      /\ todo' = [todo EXCEPT ![t] = MaskBits(m, n, areas[n].sects)]
      /\ job' = [job EXCEPT ![t] = IF Deleted THEN "freed" ELSE "masking"]
      /\ raced' = (raced \/ Deleted) /\ (~Deleted => m = mask)
      /\ UNCHANGED <<areas, mask, mutex, word, touched>>
  BY <1>0 DEF StartMask, MaskLists, MaskTypeInv
<1>2. areas[n] # Null /\ todo[t] = <<>> /\ word[t] = Null /\ mutex # t
  BY <1>0, <1>1, JobNames DEF JobInv, ThreadInv
<1>3. PICK sects : sects = areas[n].sects
  OBVIOUS
<1>4. /\ sects \in Seq(Sections) /\ Range(sects) \subseteq Sections
  BY <1>0, <1>2, <1>3, RegisteredFacts
<1>5. PICK q : q = MaskBits(m, n, sects)
  OBVIOUS
<1>6. q \in Seq(AreaBits(n, sects))
  BY <1>4, <1>5, MaskBitsFacts
<1>7. \A a, s :
        /\ a = n /\ s \in Range(sects) /\ Matching(m, n, s) # {}
             => LastBit(q, a, s, Says(m, n, s))
        /\ ~(a = n /\ s \in Range(sects) /\ Matching(m, n, s) # {})
             => NoBit(q, a, s)
  BY <1>4, <1>5, MaskBitsFacts
<1>8. q \in Seq(Bits)
  <2>1. AreaBits(n, sects) \subseteq Bits
    BY <1>4 DEF AreaBits, Bits
  <2> QED
    BY <1>6, <2>1, SeqMonotonic
<1>9. /\ todo'[t] = q /\ job'[t] = IF Deleted THEN "freed" ELSE "masking"
      /\ \A u \in Threads : u # t => todo'[u] = todo[u] /\ job'[u] = job[u]
  BY <1>0, <1>1, <1>3, <1>5 DEF MaskTypeInv
<1>10. MaskTypeInv'
  <2>1. todo' \in [Threads -> Seq(Bits)]
    BY <1>0, <1>1, <1>3, <1>5, <1>8 DEF MaskTypeInv
  <2>2. job' \in [Threads -> AreaNames \cup Jobs]
    BY <1>0, <1>1 DEF MaskTypeInv, Jobs
  <2>3. raced' \in BOOLEAN
    BY <1>0, <1>1 DEF MaskTypeInv
  <2> QED
    BY <1>0, <1>1, <2>1, <2>2, <2>3 DEF MaskTypeInv
<1>11. JobInv'
  <2> SUFFICES ASSUME NEW u \in Threads PROVE ThreadInv(u)'
    BY DEF JobInv
  <2>1. ThreadInv(u)
    BY <1>0 DEF JobInv
  <2>2. CASE u = t
    <3>1. ASSUME NEW k \in DOMAIN q PROVE BitInv(t, q[k])'
      <4>1. q[k] \in AreaBits(n, sects)
        BY <1>6, ElementOfSeq, LenProperties
      <4>2. q[k].area = n /\ q[k].sect \in Range(sects)
        BY <4>1 DEF AreaBits
      <4> QED
        BY <1>1, <1>2, <1>3, <1>9, <4>2 DEF BitInv
    <3> QED
      <4>1. job'[t] \in {"freed", "masking"} /\ (job'[t] = "freed" => raced')
        <5>1. CASE Deleted
          BY <1>1, <1>9, <5>1
        <5>2. CASE ~Deleted
          BY <1>9, <5>2
        <5> QED
          BY <5>1, <5>2
      <4> QED
        BY <1>1, <1>2, <1>9, <2>2, <3>1, <4>1, JobNames DEF ThreadInv
  <2>3. CASE u # t
    <3>1. raced => raced'
      BY <1>1
    <3>2. \A k \in DOMAIN todo[u] : BitInv(u, todo[u][k])'
      BY <1>1, <1>9, <2>1, <2>3 DEF ThreadInv, BitInv
    <3> QED
      BY <1>1, <1>9, <2>1, <2>3, <3>1, <3>2 DEF ThreadInv
  <2> QED
    BY <2>2, <2>3
<1>12. BitsInv'
  <2> SUFFICES ASSUME ~raced', NEW u \in Threads,
                      job'[u] \in {"masking", "apply"},
                      NEW a \in AreaNames, NEW s \in Sections
               PROVE  EndsAsMask(todo[u], a, s)'
    BY DEF BitsInv
  <2>0. ~raced /\ m = mask
    BY <1>1
  <2>1. CASE u = t
    <3>1. EndsAsMask(q, a, s)
      BY <1>7, <2>0 DEF EndsAsMask
    <3>2. EndsAsMask(q, a, s)'
      BY <1>1, <3>1 DEF EndsAsMask
    <3> QED
      BY <1>9, <2>1, <3>2
  <2>2. CASE u # t
    <3>1. EndsAsMask(todo[u], a, s)
      BY <1>0, <1>9, <2>0, <2>2 DEF BitsInv
    <3> QED
      BY <1>1, <1>9, <2>2, <3>1 DEF EndsAsMask
  <2> QED
    BY <2>1, <2>2
<1>13. SetInv'
  <2> SUFFICES ASSUME ~raced', NEW a \in AreaNames, areas[a] # Null,
                      NEW s \in Range(areas[a].sects)
               PROVE  AsMasked(a, s)' \/ \E u \in Threads : WillSet(u, a, s)'
    BY <1>1 DEF SetInv, Registered
  <2>0. ~raced /\ m = mask /\ job'[t] = "masking"
    BY <1>1, <1>9
  <2>1. AsMasked(a, s) \/ \E u \in Threads : WillSet(u, a, s)
    BY <1>0, <2>0 DEF SetInv, Registered
  <2>2. AsMasked(a, s) => AsMasked(a, s)'
    BY <1>1 DEF AsMasked
  <2>3. ASSUME NEW u \in Threads, WillSet(u, a, s)
        PROVE  AsMasked(a, s)' \/ WillSet(u, a, s)'
    <3>1. CASE u = t
      <4>1. a = n
        BY <1>1, <2>3, <3>1, JobNames DEF WillSet
      <4>2. CASE Matching(mask, n, s) = {}
        BY <2>2, <4>1, <4>2 DEF AsMasked
      <4>3. CASE Matching(mask, n, s) # {}
        <5>1. ~NoBit(q, a, s)
          BY <1>3, <1>7, <2>0, <4>1, <4>3, LastIsBit
        <5> QED
          BY <1>9, <2>0, <3>1, <5>1 DEF WillSet
      <4> QED
        BY <4>2, <4>3
    <3>2. CASE u # t
      BY <1>9, <2>3, <3>2 DEF WillSet
    <3> QED
      BY <3>1, <3>2
  <2> QED
    BY <2>1, <2>2, <2>3
<1> QED
  BY <1>10, <1>11, <1>12, <1>13 DEF MaskInv

(* What apply_mask writes: what the new mask says of every area.           *)
LEMMA AllBitsFacts ==
  ASSUME MaskTypeInv, NEW m \in MaskLists,
         NEW names, names = SetToSeq(Registered), NEW q,
         q = FlattenSeq([i \in DOMAIN names |->
                           MaskBits(m, names[i], areas[names[i]].sects)])
  PROVE  /\ q \in Seq(Bits)
         /\ \A k \in DOMAIN q :
              /\ areas[q[k].area] # Null
              /\ q[k].sect \in Range(areas[q[k].area].sects)
         /\ \A a \in AreaNames, s \in Sections :
              \/ NoBit(q, a, s)
              \/ Matching(m, a, s) # {} /\ LastBit(q, a, s, Says(m, a, s))
         /\ \A a \in Registered : \A s \in Range(areas[a].sects) :
              Matching(m, a, s) # {} => ~NoBit(q, a, s)
<1> DEFINE B == {b \in Bits : /\ areas[b.area] # Null
                              /\ b.sect \in Range(areas[b.area].sects)}
<1>1. IsFiniteSet(Registered)
  BY NamesAssumption, FS_Subset DEF Registered
<1>2. PICK l \in Nat :
        /\ DOMAIN names = 1 .. l
        /\ \A i \in 1 .. l : names[i] \in Registered
        /\ \A i, j \in 1 .. l : names[i] = names[j] => i = j
        /\ \A a \in Registered : \E i \in 1 .. l : names[i] = a
  BY <1>1, NamesInOrder
<1>3. PICK qs : qs = [i \in DOMAIN names |->
                        MaskBits(m, names[i], areas[names[i]].sects)]
  OBVIOUS
<1>4. /\ DOMAIN qs = 1 .. l /\ qs = [i \in DOMAIN qs |-> qs[i]]
      /\ \A i \in 1 .. l :
           qs[i] = MaskBits(m, names[i], areas[names[i]].sects)
      /\ q = FlattenSeq(qs)
  BY <1>2, <1>3
<1>5. ASSUME NEW i \in 1 .. l
      PROVE  /\ qs[i] \in Seq(B)
             /\ \A a, s :
                  IF /\ a = names[i] /\ s \in Range(areas[a].sects)
                     /\ Matching(m, a, s) # {}
                  THEN LastBit(qs[i], a, s, Says(m, a, s))
                  ELSE NoBit(qs[i], a, s)
  <2>1. PICK n \in AreaNames : n = names[i] /\ areas[n] # Null
    BY <1>2 DEF Registered
  <2>2. PICK sects \in Seq(Sections) :
          sects = areas[n].sects /\ Range(sects) \subseteq Sections
    BY <2>1, RegisteredFacts
  <2>3. qs[i] = MaskBits(m, n, sects)
    BY <1>4, <2>1, <2>2
  <2>4. qs[i] \in Seq(AreaBits(n, sects))
    BY <2>3, MaskBitsFacts
  <2>5. \A a, s :
          /\ a = n /\ s \in Range(sects) /\ Matching(m, n, s) # {}
               => LastBit(qs[i], a, s, Says(m, n, s))
          /\ ~(a = n /\ s \in Range(sects) /\ Matching(m, n, s) # {})
               => NoBit(qs[i], a, s)
    BY <2>3, MaskBitsFacts
  <2>6. AreaBits(n, sects) \subseteq B
    BY <2>1, <2>2 DEF AreaBits, Bits
  <2>7. qs[i] \in Seq(B)
    <3> HIDE DEF B
    <3> QED
      BY <2>4, <2>6, SeqMonotonic
  <2> QED
    BY <2>1, <2>2, <2>5, <2>7
<1> HIDE DEF B
<1>6. qs \in Seq(Seq(B))
  BY <1>4, <1>5, IndexedSeq
<1>7. \A a, s :
        /\ q \in Seq(B)
        /\ NoBit(q, a, s) <=> \A i \in DOMAIN qs : NoBit(qs[i], a, s)
        /\ \A v : \A i \in DOMAIN qs :
             (/\ LastBit(qs[i], a, s, v)
              /\ \A j \in DOMAIN qs : j > i => NoBit(qs[j], a, s))
             => LastBit(q, a, s, v)
  <2> TAKE a, s
  <2>1. /\ FlattenSeq(qs) \in Seq(B)
        /\ NoBit(FlattenSeq(qs), a, s)
             <=> \A i \in DOMAIN qs : NoBit(qs[i], a, s)
        /\ \A v : \A i \in DOMAIN qs :
             (/\ LastBit(qs[i], a, s, v)
              /\ \A j \in DOMAIN qs : j > i => NoBit(qs[j], a, s))
             => LastBit(FlattenSeq(qs), a, s, v)
    BY <1>6, FlattenedLists
  <2> QED
    BY <1>4, <2>1
<1>8. q \in Seq(B) /\ B \subseteq Bits
  BY <1>7 DEF B
<1>9. q \in Seq(Bits)
  BY <1>8, SeqMonotonic
<1>10. ASSUME NEW k \in DOMAIN q
       PROVE  /\ areas[q[k].area] # Null
              /\ q[k].sect \in Range(areas[q[k].area].sects)
  <2>1. q[k] \in B
    BY <1>8, ElementOfSeq, LenProperties
  <2> QED
    BY <2>1 DEF B
<1>11. ASSUME NEW a, NEW s, Matching(m, a, s) # {}, NEW i \in 1 .. l,
              a = names[i], s \in Range(areas[a].sects)
       PROVE  LastBit(q, a, s, Says(m, a, s))
  <2>1. LastBit(qs[i], a, s, Says(m, a, s))
    BY <1>5, <1>11
  <2>2. ASSUME NEW j \in 1 .. l, j > i PROVE NoBit(qs[j], a, s)
    <3>1. j # i
      BY <2>2
    <3>2. names[j] # a
      BY <1>2, <1>11, <3>1
    <3> QED
      BY <1>5, <3>2
  <2> QED
    BY <1>4, <1>7, <2>1, <2>2
<1>12. ASSUME NEW a \in AreaNames, NEW s \in Sections
       PROVE  \/ NoBit(q, a, s)
              \/ Matching(m, a, s) # {} /\ LastBit(q, a, s, Says(m, a, s))
  <2>1. CASE \E i \in 1 .. l : /\ a = names[i] /\ s \in Range(areas[a].sects)
                               /\ Matching(m, a, s) # {}
    BY <1>11, <2>1
  <2>2. CASE ~\E i \in 1 .. l : /\ a = names[i] /\ s \in Range(areas[a].sects)
                                /\ Matching(m, a, s) # {}
    <3>1. \A i \in 1 .. l : NoBit(qs[i], a, s)
      BY <1>5, <2>2
    <3> QED
      BY <1>4, <1>7, <3>1
  <2> QED
    BY <2>1, <2>2
<1>13. ASSUME NEW a \in Registered, NEW s \in Range(areas[a].sects),
              Matching(m, a, s) # {}
       PROVE  ~NoBit(q, a, s)
  <2>1. PICK i \in 1 .. l : names[i] = a
    BY <1>2
  <2>2. LastBit(q, a, s, Says(m, a, s))
    BY <1>11, <1>13, <2>1
  <2> QED
    BY <2>2, LastIsBit
<1> QED
  BY <1>9, <1>10, <1>12, <1>13

(* The mask is deleted. Unless somebody is reading it, nobody has bits of  *)
(* it that are not written.                                                *)
LEMMA DeleteMaskStep ==
  ASSUME MaskInv, NEW t \in Threads, DeleteMask(t)
  PROVE  MaskInv' /\ DeleteInv'
<1> DEFINE reading == {u \in Threads : job[u] = "masking" /\ todo[u] # <<>>}
<1>0. MaskTypeInv /\ JobInv /\ BitsInv /\ SetInv
  BY DEF MaskInv
<1>1. /\ job[t] = "idle" /\ mutex = Null /\ mutex' = t
      /\ job' = [u \in Threads |-> IF u = t THEN "delete"
                                   ELSE IF u \in reading THEN "freed"
                                   ELSE job[u]]
      /\ raced' = (raced \/ reading # {})
      /\ UNCHANGED <<areas, mask, todo, word, touched>>
  BY DEF DeleteMask
<1>2. /\ job'[t] = "delete" /\ todo[t] = <<>> /\ word[t] = Null
      /\ \A u \in Threads : u # t =>
           job'[u] = IF u \in reading THEN "freed" ELSE job[u]
  BY <1>0, <1>1, JobNames DEF JobInv, ThreadInv
<1>3. \A u \in Threads : mutex # u /\ job[u] \notin {"delete", "apply"}
  BY <1>0, <1>1, NullAssumption DEF JobInv, ThreadInv
<1>4. /\ raced' \in BOOLEAN /\ (~raced' => ~raced /\ reading = {})
      /\ (raced => raced')
  BY <1>0, <1>1 DEF MaskTypeInv
<1>5. MaskTypeInv'
  <2>1. job' \in [Threads -> AreaNames \cup Jobs]
    BY <1>0, <1>1 DEF MaskTypeInv, Jobs
  <2> QED
    BY <1>0, <1>1, <1>4, <2>1 DEF MaskTypeInv
<1>6. JobInv'
  <2> SUFFICES ASSUME NEW u \in Threads PROVE ThreadInv(u)'
    BY DEF JobInv
  <2>1. ThreadInv(u) /\ DOMAIN <<>> = {}
    BY <1>0 DEF JobInv
  <2>2. CASE u = t
    BY <1>1, <1>2, <2>1, <2>2, JobNames DEF ThreadInv
  <2>3. CASE u # t
    <3>1. \/ job'[u] = job[u] /\ u \notin reading
          \/ job'[u] = "freed" /\ raced' /\ u \in reading
      BY <1>1, <1>2, <2>3
    <3>2. ASSUME NEW k \in DOMAIN todo[u] PROVE BitInv(u, todo[u][k])'
      <4>1. PICK b : b = todo[u][k]
        OBVIOUS
      <4>2. BitInv(u, b)
        BY <2>1, <4>1 DEF ThreadInv
      <4>3. BitInv(u, b)'
        BY <1>1, <3>1, <4>2 DEF BitInv
      <4> QED
        BY <1>1, <4>1, <4>3
    <3>3. mutex' # u /\ job'[u] \notin {"delete", "apply"}
      BY <1>1, <1>3, <2>3, <3>1
    <3> HIDE DEF reading
    <3>4. CASE job'[u] = job[u]
      BY <1>1, <1>4, <2>1, <3>2, <3>3, <3>4 DEF ThreadInv
    <3>5. CASE job'[u] = "freed" /\ raced'
      BY <1>1, <2>1, <3>2, <3>3, <3>5, JobNames DEF ThreadInv
    <3> QED
      BY <3>1, <3>4, <3>5
  <2> QED
    BY <2>2, <2>3
<1>7. BitsInv'
  <2>1. \A u \in Threads : job'[u] \in {"masking", "apply"} =>
          job'[u] = job[u]
    BY <1>2
  <2> QED
    BY <1>0, <1>1, <1>4, <2>1 DEF BitsInv, EndsAsMask
<1>8. SetInv'
  <2> SUFFICES ASSUME ~raced', NEW a \in Registered,
                      NEW x \in Range(areas[a].sects)
               PROVE  AsMasked(a, x)' \/ \E u \in Threads : WillSet(u, a, x)'
    BY <1>1 DEF SetInv, Registered
  <2>1. AsMasked(a, x) \/ \E u \in Threads : WillSet(u, a, x)
    BY <1>0, <1>4 DEF SetInv
  <2>2. AsMasked(a, x) => AsMasked(a, x)'
    BY <1>1 DEF AsMasked
  <2>3. ASSUME NEW u \in Threads, WillSet(u, a, x) PROVE WillSet(u, a, x)'
    <3>1. u # t /\ u \notin reading
      BY <1>1, <1>4, <2>3, JobNames DEF WillSet, Registered
    <3> QED
      BY <1>1, <1>2, <2>3, <3>1 DEF WillSet
  <2> QED
    BY <2>1, <2>2, <2>3
<1>9. DeleteInv'
  BY <1>1, <1>2, <1>4 DEF DeleteInv
<1> QED
  BY <1>5, <1>6, <1>7, <1>8, <1>9 DEF MaskInv

(* A new mask, which apply_mask is going to write to every area. Nobody    *)
(* writes bits of the old one.                                             *)
LEMMA ApplyMaskStep ==
  ASSUME MaskInv, DeleteInv, NEW t \in Threads, NEW m \in MaskLists,
         ApplyMask(t, m)
  PROVE  MaskInv'
<1> DEFINE names == SetToSeq(Registered)
<1>0. MaskTypeInv /\ JobInv /\ BitsInv /\ SetInv
  BY DEF MaskInv
<1>1. PICK q : q = FlattenSeq([i \in DOMAIN names |->
                       MaskBits(m, names[i], areas[names[i]].sects)])
  OBVIOUS
<1>2. /\ job[t] = "delete" /\ mask' = m
      /\ todo' = [todo EXCEPT ![t] = q]
      /\ job' = [job EXCEPT ![t] = "apply"]
      /\ touched' = IF \E u \in Threads : job[u] = "switch" THEN touched
                    ELSE {}
      /\ UNCHANGED <<areas, mutex, word, raced>>
  BY <1>1 DEF ApplyMask
<1>3. /\ q \in Seq(Bits)
      /\ \A k \in DOMAIN q : /\ areas[q[k].area] # Null
                             /\ q[k].sect \in Range(areas[q[k].area].sects)
      /\ \A a \in AreaNames, s \in Sections :
           \/ NoBit(q, a, s)
           \/ Matching(m, a, s) # {} /\ LastBit(q, a, s, Says(m, a, s))
      /\ \A a \in Registered : \A s \in Range(areas[a].sects) :
           Matching(m, a, s) # {} => ~NoBit(q, a, s)
  BY <1>0, <1>1, AllBitsFacts
<1>4. /\ job'[t] = "apply" /\ todo'[t] = q
      /\ \A u \in Threads :
           u # t => job'[u] = job[u] /\ todo'[u] = todo[u]
  BY <1>0, <1>2 DEF MaskTypeInv
<1>5. \A u \in Threads : u # t => mutex # u /\ job[u] # "apply"
  <2>1. mutex = t
    BY <1>0, <1>2 DEF JobInv, ThreadInv
  <2> QED
    BY <1>0, <2>1 DEF JobInv, ThreadInv
<1>6. ~raced => \A u \in Threads : job[u] = "masking" => todo[u] = <<>>
  BY <1>2 DEF DeleteInv
<1>7. MaskTypeInv'
  <2>1. todo' \in [Threads -> Seq(Bits)]
    BY <1>0, <1>2, <1>3 DEF MaskTypeInv
  <2>2. job' \in [Threads -> AreaNames \cup Jobs]
    BY <1>0, <1>2 DEF MaskTypeInv, Jobs
  <2> QED
    BY <1>0, <1>2, <2>1, <2>2 DEF MaskTypeInv
<1>8. JobInv'
  <2> SUFFICES ASSUME NEW u \in Threads PROVE ThreadInv(u)'
    BY DEF JobInv
  <2>1. ThreadInv(u)
    BY <1>0 DEF JobInv
  <2>2. CASE u = t
    <3>1. ASSUME NEW k \in DOMAIN q PROVE BitInv(t, q[k])'
      BY <1>2, <1>3, <1>4 DEF BitInv
    <3>2. word[t] = Null /\ mutex = t
      BY <1>2, <2>1, <2>2 DEF ThreadInv
    <3> QED
      BY <1>2, <1>4, <2>2, <3>1, <3>2, JobNames DEF ThreadInv
  <2>3. CASE u # t
    <3>1. ASSUME NEW k \in DOMAIN todo[u] PROVE BitInv(u, todo[u][k])'
      <4>1. PICK b : b = todo[u][k]
        OBVIOUS
      <4>2. BitInv(u, b)
        BY <2>1, <4>1 DEF ThreadInv
      <4>3. job[u] = "switch" => touched' = touched
        BY <1>2
      <4>4. BitInv(u, b)'
        BY <1>2, <1>4, <2>3, <4>2, <4>3 DEF BitInv
      <4> QED
        BY <1>4, <2>3, <4>1, <4>4
    <3> QED
      BY <1>2, <1>4, <2>1, <2>3, <3>1 DEF ThreadInv
  <2> QED
    BY <2>2, <2>3
<1>9. BitsInv'
  <2> SUFFICES ASSUME ~raced', NEW u \in Threads,
                      job'[u] \in {"masking", "apply"},
                      NEW a \in AreaNames, NEW s \in Sections
               PROVE  EndsAsMask(todo[u], a, s)'
    BY DEF BitsInv
  <2>1. CASE u = t
    <3>1. EndsAsMask(q, a, s)'
      BY <1>2, <1>3 DEF EndsAsMask
    <3> QED
      BY <1>4, <2>1, <3>1
  <2>2. CASE u # t
    <3>1. todo'[u] = <<>>
      BY <1>2, <1>4, <1>5, <1>6, <2>2
    <3>2. NoBit(todo'[u], a, s)
      BY <3>1, ShortLists
    <3> QED
      BY <3>2 DEF EndsAsMask
  <2> QED
    BY <2>1, <2>2
<1>10. SetInv'
  <2> SUFFICES ASSUME NEW a \in Registered, NEW s \in Range(areas[a].sects)
               PROVE  AsMasked(a, s)' \/ WillSet(t, a, s)'
    BY <1>2 DEF SetInv, Registered
  <2>1. CASE Matching(m, a, s) = {}
    BY <1>2, <2>1 DEF AsMasked
  <2>2. CASE Matching(m, a, s) # {}
    <3>1. ~NoBit(q, a, s)
      BY <1>3, <2>2
    <3> QED
      BY <1>4, <3>1 DEF WillSet
  <2> QED
    BY <2>1, <2>2
<1> QED
  BY <1>7, <1>8, <1>9, <1>10 DEF MaskInv

(* A section that a thread switches is marked.                             *)
LEMMA SwitchSectionStep ==
  ASSUME MaskInv, NEW t \in Threads, NEW n \in AreaNames,
         NEW s, NEW on \in BOOLEAN, SwitchSection(t, n, s, on)
  PROVE  MaskInv'
<1>0. MaskTypeInv /\ JobInv /\ BitsInv /\ SetInv
  BY DEF MaskInv
<1>1. PICK b : b = Bit(n, s, on)
  OBVIOUS
<1>2. /\ job[t] = "idle" /\ areas[n] # Null /\ s \in Range(areas[n].sects)
      /\ job' = [job EXCEPT ![t] = "switch"]
      /\ todo' = [todo EXCEPT ![t] = <<b>>]
      /\ touched' = touched \cup {<<n, s>>}
      /\ UNCHANGED <<areas, mask, mutex, word, raced>>
  BY <1>1 DEF SwitchSection
<1>3. b.area = n /\ b.sect = s /\ b \in Bits
  BY <1>0, <1>1, <1>2, RegisteredFacts DEF Bit, Bits
<1>4. <<b>> \in Seq(Bits) /\ DOMAIN <<b>> = {1} /\ <<b>>[1] = b /\ <<b>> # <<>>
  BY <1>3
<1>5. /\ job'[t] = "switch" /\ todo'[t] = <<b>>
      /\ \A u \in Threads : u # t => job'[u] = job[u] /\ todo'[u] = todo[u]
  BY <1>0, <1>2 DEF MaskTypeInv
<1>6. MaskTypeInv'
  <2>1. todo' \in [Threads -> Seq(Bits)]
    BY <1>0, <1>2, <1>4 DEF MaskTypeInv
  <2>2. job' \in [Threads -> AreaNames \cup Jobs]
    BY <1>0, <1>2 DEF MaskTypeInv, Jobs
  <2> QED
    BY <1>0, <1>2, <2>1, <2>2 DEF MaskTypeInv
<1>7. JobInv'
  <2> SUFFICES ASSUME NEW u \in Threads PROVE ThreadInv(u)'
    BY DEF JobInv
  <2>1. ThreadInv(u)
    BY <1>0 DEF JobInv
  <2>2. CASE u = t
    <3>1. BitInv(t, b)'
      BY <1>2, <1>3 DEF BitInv
    <3>2. \A k \in DOMAIN todo'[t] : BitInv(t, todo[t][k])'
      BY <1>4, <1>5, <3>1
    <3>3. todo'[t] # <<>> /\ mutex' # t
      BY <1>2, <1>4, <1>5, <2>1, <2>2 DEF ThreadInv
    <3> QED
      BY <1>5, <2>2, <3>2, <3>3, JobNames DEF ThreadInv
  <2>3. CASE u # t
    BY <1>2, <1>5, <2>1, <2>3 DEF ThreadInv, BitInv
  <2> QED
    BY <2>2, <2>3
<1>8. BitsInv'
  <2>1. \A u \in Threads : job'[u] \in {"masking", "apply"} =>
          job'[u] = job[u] /\ todo'[u] = todo[u]
    BY <1>5
  <2> QED
    BY <1>0, <1>2, <2>1 DEF BitsInv, EndsAsMask
<1>9. SetInv'
  <2> SUFFICES ASSUME ~raced, NEW a \in Registered,
                      NEW x \in Range(areas[a].sects)
               PROVE  AsMasked(a, x)' \/ \E u \in Threads : WillSet(u, a, x)'
    BY <1>2 DEF SetInv, Registered
  <2>1. AsMasked(a, x) \/ \E u \in Threads : WillSet(u, a, x)
    BY <1>0 DEF SetInv
  <2>2. AsMasked(a, x) => AsMasked(a, x)'
    BY <1>2 DEF AsMasked
  <2>3. ASSUME NEW u \in Threads, WillSet(u, a, x) PROVE WillSet(u, a, x)'
    <3>1. u # t
      BY <1>2, <2>3, JobNames DEF WillSet, Registered
    <3> QED
      BY <1>5, <2>3, <3>1 DEF WillSet
  <2> QED
    BY <2>1, <2>2, <2>3
<1> QED
  BY <1>6, <1>7, <1>8, <1>9 DEF MaskInv

(* So are all the sections of an area.                                     *)
LEMMA SwitchAllStep ==
  ASSUME MaskInv, NEW t \in Threads, NEW n \in AreaNames,
         NEW on \in BOOLEAN, SwitchAll(t, n, on)
  PROVE  MaskInv'
<1>0. MaskTypeInv /\ JobInv /\ BitsInv /\ SetInv
  BY DEF MaskInv
<1>1. PICK w : w = IF on THEN Range(areas[n].sects) ELSE {}
  OBVIOUS
<1>2. /\ areas[n] # Null /\ areas' = [areas EXCEPT ![n].on = w]
      /\ touched' = touched \cup {<<n, s>> : s \in Range(areas[n].sects)}
      /\ UNCHANGED <<mask, mutex, job, todo, word, raced>>
  BY <1>1 DEF SwitchAll
<1>3. w \subseteq Sections /\ areas[n] \in Area
  BY <1>0, <1>1, <1>2, RegisteredFacts
<1>4. PICK v \in Area : v = [areas[n] EXCEPT !.on = w]
  BY <1>3 DEF Area
<1>5. areas' = [areas EXCEPT ![n] = v]
  BY <1>2, <1>4
<1>6. /\ v # Null /\ v.sects = areas[n].sects
      /\ areas'[n] = v
      /\ \A a \in AreaNames : a # n => areas'[a] = areas[a]
  BY <1>0, <1>3, <1>4, <1>5, NullAssumption DEF MaskTypeInv, Area
<1>7. \A a \in AreaNames : /\ areas'[a] # Null <=> areas[a] # Null
                           /\ areas'[a].sects = areas[a].sects
  BY <1>2, <1>6
<1>8. MaskTypeInv'
  BY <1>0, <1>2, <1>5 DEF MaskTypeInv
<1>9. JobInv'
  <2> SUFFICES ASSUME NEW u \in Threads PROVE ThreadInv(u)'
    BY DEF JobInv
  <2>1. ThreadInv(u)
    BY <1>0 DEF JobInv
  <2>2. ASSUME NEW k \in DOMAIN todo[u] PROVE BitInv(u, todo[u][k])'
    <3>1. todo[u][k].area \in AreaNames
      BY <1>0, TodoBits
    <3> QED
      BY <1>2, <1>7, <2>1, <3>1 DEF BitInv, ThreadInv
  <2> QED
    BY <1>2, <1>7, <2>1, <2>2 DEF ThreadInv
<1>10. BitsInv'
  BY <1>0, <1>2 DEF BitsInv, EndsAsMask
<1>11. SetInv'
  <2> SUFFICES ASSUME ~raced, NEW a \in AreaNames, areas'[a] # Null,
                      NEW x \in Range(areas'[a].sects)
               PROVE  AsMasked(a, x)' \/ \E u \in Threads : WillSet(u, a, x)'
    BY <1>2 DEF SetInv, Registered
  <2>1. areas[a] # Null /\ x \in Range(areas[a].sects)
    BY <1>7
  <2>2. AsMasked(a, x) \/ \E u \in Threads : WillSet(u, a, x)
    BY <1>0, <2>1 DEF SetInv, Registered
  <2>3. AsMasked(a, x) => AsMasked(a, x)'
    <3>1. CASE a = n
      BY <1>2, <2>1, <3>1 DEF AsMasked
    <3>2. CASE a # n
      BY <1>2, <1>6, <3>2 DEF AsMasked
    <3> QED
      BY <3>1, <3>2
  <2> QED
    BY <1>2, <2>2, <2>3 DEF WillSet
<1> QED
  BY <1>8, <1>9, <1>10, <1>11 DEF MaskInv

(* Reading a word changes nothing else.                                    *)
LEMMA ReadWordStep ==
  ASSUME MaskInv, NEW t \in Threads, ReadWord(t)
  PROVE  MaskInv'
<1>0. MaskTypeInv /\ JobInv /\ BitsInv /\ SetInv
  BY DEF MaskInv
<1>1. PICK b : b = Head(todo[t])
  OBVIOUS
<1>2. /\ todo[t] # <<>> /\ word' = [word EXCEPT ![t] = areas[b.area].on]
      /\ UNCHANGED <<areas, mask, mutex, job, todo, touched, raced>>
  BY <1>1 DEF ReadWord
<1>3. areas[b.area].on \in SUBSET Sections
  <2>1. PICK q \in Seq(Bits) : q = todo[t]
    BY <1>0 DEF MaskTypeInv
  <2>2. 1 \in DOMAIN q /\ b = q[1] /\ b \in Bits
    BY <1>1, <1>2, <2>1, HeadAndTail
  <2>3. b.area \in AreaNames /\ areas[b.area] # Null
    BY <1>0, <2>1, <2>2 DEF JobInv, ThreadInv, BitInv, Bits
  <2> QED
    BY <1>0, <2>3, RegisteredFacts
<1>4. MaskTypeInv'
  BY <1>0, <1>2, <1>3 DEF MaskTypeInv
<1>5. JobInv'
  BY <1>0, <1>2 DEF MaskTypeInv, JobInv, ThreadInv, BitInv
<1>6. BitsInv'
  BY <1>0, <1>2 DEF BitsInv, EndsAsMask
<1>7. SetInv'
  <2> SUFFICES ASSUME ~raced, NEW a \in Registered,
                      NEW x \in Range(areas[a].sects)
               PROVE  AsMasked(a, x)' \/ \E u \in Threads : WillSet(u, a, x)'
    BY <1>2 DEF SetInv, Registered
  <2>1. AsMasked(a, x) \/ \E u \in Threads : WillSet(u, a, x)
    BY <1>0 DEF SetInv
  <2>2. AsMasked(a, x) => AsMasked(a, x)'
    BY <1>2 DEF AsMasked
  <2> QED
    BY <1>2, <2>1, <2>2 DEF WillSet
<1> QED
  BY <1>4, <1>5, <1>6, <1>7 DEF MaskInv

(* Writing a word sets the next bit. Unless it undoes what another thread  *)
(* has set, sections without a bit are left as they were; and if the bit   *)
(* is the last one for its section, it is as the mask says.                *)
LEMMA WriteWordStep ==
  ASSUME MaskInv, NEW t \in Threads, WriteWord(t)
  PROVE  MaskInv'
<1>0. MaskTypeInv /\ JobInv /\ BitsInv /\ SetInv
  BY DEF MaskInv
<1>1. PICK q \in Seq(Bits) : q = todo[t]
  BY <1>0 DEF MaskTypeInv
<1>2. PICK b : b = Head(q)
  OBVIOUS
<1>3. PICK n : n = b.area
  OBVIOUS
<1>4. PICK w : w = SetBit(word[t], b)
  OBVIOUS
<1>5. /\ q # <<>> /\ word[t] # Null
      /\ areas' = [areas EXCEPT ![n].on = w]
      /\ raced' = (raced \/ Undone(t, n) # {})
      /\ todo' = [todo EXCEPT ![t] = Tail(todo[t])]
      /\ word' = [word EXCEPT ![t] = Null]
      /\ UNCHANGED <<mask, mutex, job, touched>>
  BY <1>1, <1>2, <1>3, <1>4 DEF WriteWord
<1>6. /\ b \in Bits /\ Tail(q) \in Seq(Bits) /\ 1 \in DOMAIN q /\ b = q[1]
      /\ \A k \in DOMAIN Tail(q) : \E l \in DOMAIN q : Tail(q)[k] = q[l]
  BY <1>2, <1>5, HeadAndTail
<1>7. \A a, s :
        /\ a # n \/ b.sect # s => (NoBit(Tail(q), a, s) <=> NoBit(q, a, s))
        /\ \A v : LastBit(q, a, s, v) =>
             \/ LastBit(Tail(q), a, s, v)
             \/ /\ NoBit(Tail(q), a, s)
                /\ a = n /\ b.sect = s /\ b.on = v
  BY <1>2, <1>3, <1>5, HeadAndTail
<1>8. /\ n \in AreaNames /\ b.sect \in Sections /\ b.on \in BOOLEAN
      /\ areas[n] # Null
  BY <1>0, <1>1, <1>3, <1>6 DEF Bits, JobInv, ThreadInv, BitInv
<1>9. word[t] \subseteq Sections /\ w \subseteq Sections /\ areas[n] \in Area
  BY <1>0, <1>4, <1>5, <1>8, RegisteredFacts DEF MaskTypeInv, SetBit
<1>10. PICK v \in Area : v = [areas[n] EXCEPT !.on = w]
  BY <1>9 DEF Area
<1>11. areas' = [areas EXCEPT ![n] = v]
  BY <1>5, <1>10
<1>12. /\ v # Null /\ v.sects = areas[n].sects /\ v.on = w
       /\ areas'[n] = v
       /\ \A a \in AreaNames : a # n => areas'[a] = areas[a]
  BY <1>0, <1>8, <1>9, <1>10, <1>11, NullAssumption DEF MaskTypeInv, Area
<1>13. \A a \in AreaNames : /\ areas'[a] # Null <=> areas[a] # Null
                            /\ areas'[a].sects = areas[a].sects
  BY <1>8, <1>12
<1>14. /\ todo'[t] = Tail(q) /\ word'[t] = Null
       /\ \A u \in Threads : u # t => todo'[u] = todo[u] /\ word'[u] = word[u]
  BY <1>0, <1>1, <1>5 DEF MaskTypeInv
<1>15. raced' \in BOOLEAN /\ (~raced' => ~raced /\ Undone(t, n) = {})
       /\ (raced => raced')
  BY <1>0, <1>5 DEF MaskTypeInv
<1>16. MaskTypeInv'
  <2>1. todo' \in [Threads -> Seq(Bits)]
    BY <1>0, <1>1, <1>5, <1>6 DEF MaskTypeInv
  <2>2. areas' \in [AreaNames -> Area \cup {Null}]
    BY <1>0, <1>11 DEF MaskTypeInv
  <2>3. word' \in [Threads -> (SUBSET Sections) \cup {Null}]
    BY <1>0, <1>5 DEF MaskTypeInv
  <2> QED
    BY <1>0, <1>5, <1>15, <2>1, <2>2, <2>3 DEF MaskTypeInv
<1>17. ThreadInv(t) /\ job[t] \notin AreaNames \cup {"idle", "delete"}
  BY <1>0, <1>1, <1>5 DEF JobInv, ThreadInv
<1>18. JobInv'
  <2> SUFFICES ASSUME NEW u \in Threads PROVE ThreadInv(u)'
    BY DEF JobInv
  <2>1. ThreadInv(u)
    BY <1>0 DEF JobInv
  <2>2. ASSUME NEW c, c.area \in AreaNames, BitInv(u, c)
        PROVE  BitInv(u, c)'
    BY <1>5, <1>13, <2>2 DEF BitInv
  <2>3. \A k \in DOMAIN todo[u] : BitInv(u, todo[u][k])
    BY <2>1 DEF ThreadInv
  <2>4. job[u] \in AreaNames => areas'[job[u]] # Null
    BY <1>13, <2>1 DEF ThreadInv
  <2>5. CASE u = t
    <3>1. PICK p \in Seq(Bits) : p = Tail(q)
      BY <1>6
    <3>2. ASSUME NEW k \in DOMAIN p PROVE BitInv(t, p[k])'
      <4>1. PICK l \in DOMAIN q : p[k] = q[l]
        BY <1>6, <3>1
      <4>2. q[l].area \in AreaNames /\ BitInv(t, q[l])
        BY <1>0, <1>1, <2>3, <2>5, TodoBits
      <4>3. PICK c : c = q[l]
        OBVIOUS
      <4>4. BitInv(t, c)'
        BY <2>2, <2>5, <4>2, <4>3
      <4> QED
        BY <4>1, <4>3, <4>4
    <3>3. todo'[t] = p
      BY <1>14, <3>1
    <3>4. \A k \in DOMAIN todo'[t] : BitInv(t, todo[t][k])'
      BY <3>2, <3>3
    <3> QED
      BY <1>5, <1>14, <1>15, <1>17, <2>5, <3>4 DEF ThreadInv
  <2>6. CASE u # t
    <3>1. ASSUME NEW k \in DOMAIN todo[u] PROVE BitInv(u, todo[u][k])'
      <4>1. PICK c : c = todo[u][k]
        OBVIOUS
      <4>2. c.area \in AreaNames /\ BitInv(u, c)
        BY <1>0, <2>3, <4>1, TodoBits
      <4>3. BitInv(u, c)'
        BY <2>2, <4>2
      <4> QED
        BY <1>14, <2>6, <4>1, <4>3
    <3> QED
      BY <1>5, <1>14, <1>15, <2>1, <2>4, <2>6, <3>1 DEF ThreadInv
  <2> QED
    BY <2>5, <2>6
<1>19. BitsInv'
  <2> SUFFICES ASSUME ~raced', NEW u \in Threads,
                      job[u] \in {"masking", "apply"},
                      NEW a \in AreaNames, NEW s \in Sections
               PROVE  EndsAsMask(todo[u], a, s)'
    BY <1>5 DEF BitsInv
  <2>1. EndsAsMask(todo[u], a, s)
    BY <1>0, <1>15 DEF BitsInv
  <2>2. CASE u = t
    <3>1. \/ NoBit(Tail(q), a, s)
          \/ /\ Matching(mask, a, s) # {}
             /\ LastBit(Tail(q), a, s, Says(mask, a, s))
      <4>1. CASE NoBit(q, a, s)
        <5>1. a # n \/ b.sect # s
          BY <1>3, <1>6, <4>1 DEF NoBit
        <5> QED
          BY <1>7, <4>1, <5>1
      <4>2. CASE ~NoBit(q, a, s)
        BY <1>1, <1>7, <2>1, <2>2, <4>2 DEF EndsAsMask
      <4> QED
        BY <4>1, <4>2
    <3>2. PICK p : p = Tail(q) /\ todo'[t] = p
      BY <1>14
    <3>3. EndsAsMask(p, a, s)
      BY <3>1, <3>2 DEF EndsAsMask
    <3>4. EndsAsMask(p, a, s)'
      BY <1>5, <3>3 DEF EndsAsMask
    <3> QED
      BY <2>2, <3>2, <3>4
  <2>3. CASE u # t
    BY <1>5, <1>14, <2>1, <2>3 DEF EndsAsMask
  <2> QED
    BY <2>2, <2>3
<1>20. SetInv'
  <2> SUFFICES ASSUME ~raced', NEW a \in AreaNames, areas'[a] # Null,
                      NEW s \in Range(areas'[a].sects)
               PROVE  AsMasked(a, s)' \/ \E u \in Threads : WillSet(u, a, s)'
    BY DEF SetInv, Registered
  <2>1. /\ areas[a] # Null /\ s \in Range(areas[a].sects) /\ s \in Sections
        /\ ~raced
    BY <1>0, <1>13, <1>15, RegisteredFacts
  <2>2. AsMasked(a, s) \/ \E u \in Threads : WillSet(u, a, s)
    BY <1>0, <2>1 DEF SetInv, Registered
  <2>3. CASE a # n
    <3>1. AsMasked(a, s) => AsMasked(a, s)'
      BY <1>5, <1>12, <2>3 DEF AsMasked
    <3>2. ASSUME NEW u \in Threads, WillSet(u, a, s) PROVE WillSet(u, a, s)'
      <4>1. CASE u = t
        <5>1. ~NoBit(q, a, s) /\ job[t] \in {"masking", "apply"}
          BY <1>1, <1>17, <3>2, <4>1 DEF WillSet
        <5>2. PICK p : p = Tail(q) /\ todo'[t] = p
          BY <1>14
        <5>3. ~NoBit(p, a, s)
          BY <1>7, <2>3, <5>1, <5>2
        <5> QED
          BY <1>5, <4>1, <5>1, <5>2, <5>3 DEF WillSet
      <4>2. CASE u # t
        BY <1>5, <1>14, <3>2, <4>2 DEF WillSet
      <4> QED
        BY <4>1, <4>2
    <3> QED
      BY <2>2, <3>1, <3>2
  <2>4. CASE a = n /\ ~NoBit(Tail(q), n, s)
    <3>1. CASE job[t] \in {"masking", "apply"}
      BY <1>5, <1>14, <2>4, <3>1 DEF WillSet
    <3>2. CASE job[t] = "switch"
      <4>1. PICK k \in DOMAIN Tail(q) :
              Tail(q)[k].area = n /\ Tail(q)[k].sect = s
        BY <2>4 DEF NoBit
      <4>2. PICK l \in DOMAIN q : q[l].area = n /\ q[l].sect = s
        BY <1>6, <4>1
      <4>3. <<n, s>> \in touched
        BY <1>1, <1>17, <3>2, <4>2 DEF ThreadInv, BitInv
      <4> QED
        BY <1>5, <2>4, <4>3 DEF AsMasked
    <3>3. CASE job[t] = "freed"
      BY <1>17, <2>1, <3>3 DEF ThreadInv
    <3> QED
      BY <1>0, <1>17, <3>1, <3>2, <3>3 DEF MaskTypeInv, Jobs
  <2>5. CASE a = n /\ NoBit(Tail(q), n, s) /\ b.sect # s
    <3>1. NoBit(q, n, s)
      BY <1>7, <2>5
    <3>2. s \notin Undone(t, n)
      BY <1>15
    <3>3. (s \in areas[n].on) = (s \in word[t])
      BY <1>1, <2>1, <2>5, <3>1, <3>2 DEF Undone, NoBit
    <3>4. (s \in areas'[n].on) = (s \in areas[n].on)
      BY <1>4, <1>12, <2>5, <3>3 DEF SetBit
    <3>5. AsMasked(a, s) => AsMasked(a, s)'
      BY <1>5, <2>5, <3>4 DEF AsMasked
    <3>6. ASSUME NEW u \in Threads, WillSet(u, a, s) PROVE WillSet(u, a, s)'
      <4>1. u # t
        BY <1>1, <1>8, <1>17, <2>5, <3>1, <3>6 DEF WillSet
      <4> QED
        BY <1>5, <1>14, <3>6, <4>1 DEF WillSet
    <3> QED
      BY <2>2, <3>5, <3>6
  <2>6. CASE a = n /\ NoBit(Tail(q), n, s) /\ b.sect = s
    <3>1. ~NoBit(q, n, s)
      BY <1>3, <1>6, <2>6 DEF NoBit
    <3>2. CASE job[t] \in {"masking", "apply"}
      <4>1. LastBit(q, n, s, Says(mask, n, s))
        BY <1>0, <1>1, <1>8, <2>1, <3>1, <3>2 DEF BitsInv, EndsAsMask
      <4>2. b.on = Says(mask, n, s)
        BY <1>7, <2>6, <4>1, LastIsBit
      <4>3. (s \in areas'[n].on) = b.on
        BY <1>4, <1>8, <1>12, <2>6 DEF SetBit
      <4> QED
        BY <1>5, <2>6, <4>2, <4>3 DEF AsMasked
    <3>3. CASE job[t] = "switch"
      <4>1. <<n, s>> \in touched
        BY <1>1, <1>3, <1>6, <1>17, <2>6, <3>3 DEF ThreadInv, BitInv
      <4> QED
        BY <1>5, <2>6, <4>1 DEF AsMasked
    <3>4. CASE job[t] = "freed"
      BY <1>17, <2>1, <3>4 DEF ThreadInv
    <3> QED
      BY <1>0, <1>17, <3>2, <3>3, <3>4 DEF MaskTypeInv, Jobs
  <2> QED
    BY <2>3, <2>4, <2>5, <2>6
<1> QED
  BY <1>16, <1>18, <1>19, <1>20 DEF MaskInv

(* A thread that has written its bits, or whose list was deleted.          *)
LEMMA FinishStep ==
  ASSUME MaskInv, NEW t \in Threads, Finish(t) \/ ReadFreed(t)
  PROVE  MaskInv'
<1>0. MaskTypeInv /\ JobInv /\ BitsInv /\ SetInv
  BY DEF MaskInv
<1>1. CASE Finish(t)
  <2>1. /\ job[t] \notin AreaNames \cup {"idle", "delete"} /\ todo[t] = <<>>
        /\ job' = [job EXCEPT ![t] = "idle"]
        /\ mutex' = IF mutex = t THEN Null ELSE mutex
        /\ UNCHANGED <<areas, mask, todo, word, touched, raced>>
    BY <1>1 DEF Finish
  <2>2. job'[t] = "idle" /\ \A u \in Threads : u # t => job'[u] = job[u]
    BY <1>0, <2>1 DEF MaskTypeInv
  <2>3. MaskTypeInv'
    <3>1. job' \in [Threads -> AreaNames \cup Jobs]
      BY <1>0, <2>1 DEF MaskTypeInv, Jobs
    <3>2. mutex' \in Threads \cup {Null}
      BY <1>0, <2>1 DEF MaskTypeInv
    <3> QED
      BY <1>0, <2>1, <3>1, <3>2 DEF MaskTypeInv
  <2>4. JobInv'
    <3> SUFFICES ASSUME NEW u \in Threads PROVE ThreadInv(u)'
      BY DEF JobInv
    <3>1. ThreadInv(u)
      BY <1>0 DEF JobInv
    <3>2. Null # u /\ Null # t /\ DOMAIN <<>> = {}
      BY NullAssumption
    <3>3. CASE u = t
      BY <2>1, <2>2, <3>1, <3>2, <3>3, JobNames DEF ThreadInv
    <3>4. CASE u # t
      <4>1. mutex' = u <=> mutex = u
        BY <2>1, <3>2, <3>4
      <4> QED
        BY <2>1, <2>2, <3>1, <3>4, <4>1 DEF ThreadInv, BitInv
    <3> QED
      BY <3>3, <3>4
  <2>5. BitsInv'
    <3>1. \A u \in Threads : job'[u] \in {"masking", "apply"} =>
            job'[u] = job[u]
      BY <2>2
    <3> QED
      BY <1>0, <2>1, <3>1
         DEF BitsInv, EndsAsMask
  <2>6. SetInv'
    <3> SUFFICES ASSUME ~raced, NEW a \in Registered,
                        NEW x \in Range(areas[a].sects)
                 PROVE  \/ AsMasked(a, x)'
                        \/ \E u \in Threads : WillSet(u, a, x)'
      BY <2>1 DEF SetInv, Registered
    <3>1. AsMasked(a, x) \/ \E u \in Threads : WillSet(u, a, x)
      BY <1>0 DEF SetInv
    <3>2. AsMasked(a, x) => AsMasked(a, x)'
      BY <2>1 DEF AsMasked
    <3>3. ASSUME NEW u \in Threads, WillSet(u, a, x) PROVE WillSet(u, a, x)'
      <4>1. NoBit(todo[t], a, x) /\ a \in AreaNames
        BY <2>1, ShortLists DEF Registered
      <4>2. u # t
        BY <2>1, <3>3, <4>1 DEF WillSet
      <4> QED
        BY <2>1, <2>2, <3>3, <4>2 DEF WillSet
    <3> QED
      BY <3>1, <3>2, <3>3
  <2> QED
    BY <2>3, <2>4, <2>5, <2>6 DEF MaskInv
<1>2. CASE ReadFreed(t)
  <2>1. /\ job[t] = "freed" /\ word[t] = Null
        /\ todo' = [todo EXCEPT ![t] = <<>>]
        /\ UNCHANGED <<areas, mask, mutex, job, word, touched, raced>>
    BY <1>2 DEF ReadFreed
  <2>2. raced
    BY <1>0, <2>1 DEF JobInv, ThreadInv
  <2>3. todo'[t] = <<>> /\ \A u \in Threads : u # t => todo'[u] = todo[u]
    BY <1>0, <2>1 DEF MaskTypeInv
  <2>4. MaskTypeInv'
    <3>1. <<>> \in Seq(Bits)
      BY EmptySeq
    <3> QED
      BY <1>0, <2>1, <3>1 DEF MaskTypeInv
  <2>5. JobInv'
    <3> SUFFICES ASSUME NEW u \in Threads PROVE ThreadInv(u)'
      BY DEF JobInv
    <3>1. ThreadInv(u) /\ DOMAIN <<>> = {}
      BY <1>0 DEF JobInv
    <3>2. CASE u = t
      BY <2>1, <2>2, <2>3, <3>1, <3>2, JobNames DEF ThreadInv
    <3>3. CASE u # t
      BY <2>1, <2>3, <3>1, <3>3 DEF ThreadInv, BitInv
    <3> QED
      BY <3>2, <3>3
  <2>6. BitsInv' /\ SetInv'
    BY <2>1, <2>2 DEF BitsInv, SetInv
  <2> QED
    BY <2>4, <2>5, <2>6 DEF MaskInv
<1> QED
  BY <1>1, <1>2

(* Shutting the engine down deletes the areas, and a new one starts with   *)
(* its own mask.                                                           *)
LEMMA ShutdownStep ==
  ASSUME MaskInv, Shutdown
  PROVE  MaskInv'
<1>0. MaskTypeInv /\ JobInv /\ BitsInv /\ SetInv
  BY DEF MaskInv
<1>1. /\ \A t \in Threads : job[t] = "idle"
      /\ areas' = [n \in AreaNames |-> Null]
      /\ touched' = {} /\ raced' = FALSE
      /\ mask' \in MaskLists
      /\ UNCHANGED <<mutex, job, todo, word>>
  BY DEF Shutdown, MaskLists
<1>2. MaskTypeInv'
  BY <1>0, <1>1 DEF MaskTypeInv
<1>3. JobInv'
  <2>1. DOMAIN <<>> = {}
    OBVIOUS
  <2> QED
    BY <1>0, <1>1, <2>1, JobNames DEF JobInv, ThreadInv
<1>4. BitsInv'
  BY <1>1 DEF BitsInv
<1>5. SetInv'
  BY <1>1 DEF SetInv, Registered
<1> QED
  BY <1>2, <1>3, <1>4, <1>5 DEF MaskInv

(* Nothing else touches areas.                                             *)
LEMMA OtherStep ==
  ASSUME MaskInv, UNCHANGED areaVars
  PROVE  MaskInv'
<1>0. MaskTypeInv /\ JobInv /\ BitsInv /\ SetInv
  BY DEF MaskInv
<1>1. UNCHANGED <<areas, mask, mutex, job, todo, word, touched, raced>>
  BY DEF areaVars
<1>2. MaskTypeInv'
  BY <1>0, <1>1 DEF MaskTypeInv
<1>3. JobInv'
  BY <1>0, <1>1 DEF JobInv, ThreadInv, BitInv
<1>4. BitsInv'
  BY <1>0, <1>1 DEF BitsInv, EndsAsMask
<1>5. SetInv'
  <2> SUFFICES ASSUME ~raced, NEW a \in Registered,
                      NEW x \in Range(areas[a].sects)
               PROVE  AsMasked(a, x)' \/ \E u \in Threads : WillSet(u, a, x)'
    BY <1>1 DEF SetInv, Registered
  <2>1. AsMasked(a, x) \/ \E u \in Threads : WillSet(u, a, x)
    BY <1>0 DEF SetInv
  <2>2. AsMasked(a, x) => AsMasked(a, x)'
    BY <1>1 DEF AsMasked
  <2> QED
    BY <1>1, <2>1, <2>2 DEF WillSet
<1> QED
  BY <1>2, <1>3, <1>4, <1>5 DEF MaskInv

(* Nobody starts to read the mask while it is deleted without being marked *)
(* for it.                                                                 *)
LEMMA DeleteInvStep == MaskInv /\ DeleteInv /\ [Next]_vars => DeleteInv'
<1> SUFFICES ASSUME MaskInv, DeleteInv, [Next]_vars PROVE DeleteInv'
  OBVIOUS
<1>0. MaskTypeInv
  BY DEF MaskInv
<1>1. CASE UNCHANGED areaVars
  BY <1>1 DEF areaVars, DeleteInv
<1>2. ASSUME NEW t \in Threads, AreaCall(t) PROVE DeleteInv'
  <2>1. ASSUME NEW n \in AreaNames, NEW sects \in SectionLists,
               AddArea(t, n, sects)
        PROVE  DeleteInv'
    <3>1. /\ job' = [job EXCEPT ![t] = n] /\ UNCHANGED <<todo, raced>>
      BY <2>1 DEF AddArea
    <3>2. \A u \in Threads :
            job'[u] \in {"delete", "masking"} => job'[u] = job[u]
      BY <1>0, <3>1, JobNames DEF MaskTypeInv
    <3> QED
      BY <3>1, <3>2 DEF DeleteInv
  <2>2. CASE DeleteMask(t)
    BY <2>2, DeleteMaskStep
  <2>3. ASSUME NEW n \in Registered, NEW s, NEW on \in BOOLEAN,
               SwitchSection(t, n, s, on)
        PROVE  DeleteInv'
    <3>1. /\ job' = [job EXCEPT ![t] = "switch"] /\ raced' = raced
          /\ todo' = [todo EXCEPT ![t] = <<Bit(n, s, on)>>]
      BY <2>3 DEF SwitchSection
    <3>2. \A u \in Threads : job'[u] \in {"delete", "masking"} =>
            job'[u] = job[u] /\ todo'[u] = todo[u]
      BY <1>0, <3>1 DEF MaskTypeInv
    <3> QED
      BY <3>1, <3>2 DEF DeleteInv
  <2>4. ASSUME NEW n \in Registered, NEW on \in BOOLEAN, SwitchAll(t, n, on)
        PROVE  DeleteInv'
    BY <2>4 DEF SwitchAll, DeleteInv
  <2> QED
    BY <1>2, <2>1, <2>2, <2>3, <2>4 DEF AreaCall
<1>3. ASSUME NEW t \in Threads, AreaStep(t) PROVE DeleteInv'
  <2>1. CASE StartMask(t)
    <3>1. /\ job' = [job EXCEPT ![t] = IF Deleted THEN "freed" ELSE "masking"]
          /\ raced' = (raced \/ Deleted)
      BY <2>1 DEF StartMask
    <3>2. \A u \in Threads : job'[u] = "delete" => job[u] = "delete"
      BY <1>0, <3>1 DEF MaskTypeInv
    <3> QED
      BY <3>1, <3>2 DEF DeleteInv, Deleted
  <2>2. ASSUME NEW m, ApplyMask(t, m) PROVE DeleteInv'
    <3>1. /\ job[t] = "delete" /\ job' = [job EXCEPT ![t] = "apply"]
      BY <2>2 DEF ApplyMask
    <3>2. \A u \in Threads : job'[u] # "delete"
      <4>1. \A u \in Threads : job[u] = "delete" => u = t
        BY <3>1 DEF MaskInv, JobInv, ThreadInv
      <4> QED
        BY <1>0, <3>1, <4>1 DEF MaskTypeInv
    <3> QED
      BY <3>2 DEF DeleteInv
  <2>3. CASE ReadWord(t)
    BY <2>3 DEF ReadWord, DeleteInv
  <2>4. CASE WriteWord(t)
    <3>1. /\ todo[t] # <<>> /\ todo' = [todo EXCEPT ![t] = Tail(@)]
          /\ job' = job /\ (raced => raced')
      BY <2>4 DEF WriteWord
    <3>2. \A u \in Threads : todo[u] = <<>> => todo'[u] = <<>>
      BY <1>0, <3>1 DEF MaskTypeInv
    <3> QED
      BY <3>1, <3>2 DEF DeleteInv
  <2>5. CASE Finish(t)
    <3>1. job' = [job EXCEPT ![t] = "idle"] /\ UNCHANGED <<todo, raced>>
      BY <2>5 DEF Finish
    <3>2. \A u \in Threads :
            job'[u] \in {"delete", "masking"} => job'[u] = job[u]
      BY <1>0, <3>1 DEF MaskTypeInv
    <3> QED
      BY <3>1, <3>2 DEF DeleteInv
  <2>6. CASE ReadFreed(t)
    <3>1. todo' = [todo EXCEPT ![t] = <<>>] /\ UNCHANGED <<job, raced>>
      BY <2>6 DEF ReadFreed
    <3>2. \A u \in Threads : todo[u] = <<>> => todo'[u] = <<>>
      BY <1>0, <3>1 DEF MaskTypeInv
    <3> QED
      BY <3>1, <3>2 DEF DeleteInv
  <2> QED
    BY <1>3, <2>1, <2>2, <2>3, <2>4, <2>5, <2>6 DEF AreaStep
<1>4. ASSUME NEW t \in Threads, Call(t) PROVE DeleteInv'
  BY <1>1, <1>2, <1>4 DEF Call, RefuseArea, ExistingArea
<1>5. CASE Shutdown
  BY <1>5 DEF Shutdown, DeleteInv
<1> QED
  BY <1>1, <1>3, <1>4, <1>5 DEF Next, Post, Startup, vars

(* Every step keeps the invariant.                                         *)
LEMMA MaskInvStep == MaskInv /\ DeleteInv /\ [Next]_vars => MaskInv'
<1> SUFFICES ASSUME MaskInv, DeleteInv, [Next]_vars PROVE MaskInv'
  OBVIOUS
<1>1. ASSUME NEW t \in Threads, AreaCall(t) PROVE MaskInv'
  <2>1. ASSUME NEW n \in AreaNames, NEW sects \in SectionLists,
               AddArea(t, n, sects)
        PROVE  MaskInv'
    BY <2>1, AddAreaStep
  <2>2. CASE DeleteMask(t)
    BY <2>2, DeleteMaskStep
  <2>3. ASSUME NEW n \in Registered, NEW s, NEW on \in BOOLEAN,
               SwitchSection(t, n, s, on)
        PROVE  MaskInv'
    BY <2>3, SwitchSectionStep DEF Registered
  <2>4. ASSUME NEW n \in Registered, NEW on \in BOOLEAN, SwitchAll(t, n, on)
        PROVE  MaskInv'
    BY <2>4, SwitchAllStep DEF Registered
  <2> QED
    BY <1>1, <2>1, <2>2, <2>3, <2>4 DEF AreaCall
<1>2. ASSUME NEW t \in Threads, AreaStep(t) PROVE MaskInv'
  <2>1. ASSUME NEW strs \in Masks, ApplyMask(t, MaskOf(strs)) PROVE MaskInv'
    <3>1. PICK m \in MaskLists : m = MaskOf(strs)
      BY DEF MaskLists
    <3> QED
      BY <2>1, <3>1, ApplyMaskStep
  <2> QED
    BY <1>2, <2>1, StartMaskStep, ReadWordStep, WriteWordStep, FinishStep
       DEF AreaStep
<1>3. CASE UNCHANGED areaVars
  BY <1>3, OtherStep
<1>4. ASSUME NEW t \in Threads, RefuseArea(t) PROVE UNCHANGED areaVars
  BY <1>4 DEF RefuseArea, ExistingArea
<1>5. ASSUME NEW t \in Threads, Call(t) PROVE MaskInv'
  BY <1>1, <1>3, <1>4, <1>5 DEF Call
<1>6. ASSUME NEW t \in Threads, Post(t) PROVE MaskInv'
  BY <1>3, <1>6 DEF Post
<1>7. CASE Startup
  BY <1>3, <1>7 DEF Startup
<1>8. CASE Shutdown
  BY <1>8, ShutdownStep
<1>9. CASE TlsEngineStep /\ UNCHANGED <<areaVars, calls>>
  BY <1>3, <1>9
<1>10. CASE UNCHANGED vars
  BY <1>3, <1>10 DEF vars
<1> QED
  BY <1>2, <1>5, <1>6, <1>7, <1>8, <1>9, <1>10 DEF Next

-----------------------------------------------------------------------------
(* MaskInForce: when all threads are idle, every section that the mask in  *)
(* force says something about, and that no thread has switched since, is   *)
(* as the last matching element says, unless a race that breaks this was   *)
(* marked. For any number of threads and areas, and any masks.             *)
THEOREM MaskInForceHolds == Spec => []MaskInForce
<1>1. MaskInv => MaskInForce
  <2> SUFFICES ASSUME MaskInv, \A t \in Threads : job[t] = "idle", ~raced,
                      NEW n \in Registered, NEW s \in Range(areas[n].sects)
               PROVE  \/ <<n, s>> \in touched
                      \/ Matching(mask, n, s) = {}
                      \/ (s \in areas[n].on)
                           = mask[Max(Matching(mask, n, s))].on
    BY DEF MaskInForce
  <2>1. AsMasked(n, s) \/ \E t \in Threads : WillSet(t, n, s)
    BY DEF MaskInv, SetInv
  <2>2. \A t \in Threads : ~WillSet(t, n, s)
    BY JobNames DEF WillSet, Registered
  <2> QED
    BY <2>1, <2>2 DEF AsMasked, Says
<1>2. Init => DeleteInv
  BY DEF Init, AreaInit, DeleteInv
<1> QED
  BY <1>1, <1>2, MaskInvInit, MaskInvStep, DeleteInvStep, PTL DEF Spec
=============================================================================
