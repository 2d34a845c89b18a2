--------------------------- MODULE FrontEndProofs ---------------------------
(***************************************************************************)
(* Proofs about the thread local state of FrontEnd, for any number of      *)
(* threads, rings of any kind and tls objects nested to any depth.         *)
(***************************************************************************)
EXTENDS FrontEnd, FiniteSetTheorems, SequenceTheorems, WellFoundedInduction,
        TLAPS

-----------------------------------------------------------------------------
(* Sequences and sets                                                      *)

(* The empty sequence has no indices.                                      *)
LEMMA EmptyDomain == DOMAIN <<>> = {}
  OBVIOUS

(* A sequence without its i-th element.                                    *)
LEMMA RemoveAtFacts ==
  ASSUME NEW S, NEW q \in Seq(S), NEW i \in 1 .. Len(q)
  PROVE  /\ RemoveAt(q, i) \in Seq(S)
         /\ Len(RemoveAt(q, i)) = Len(q) - 1
         /\ \A k \in 1 .. Len(q) - 1 :
              RemoveAt(q, i)[k] = IF k < i THEN q[k] ELSE q[k + 1]
<1>1. Len(q) \in Nat /\ i \in Nat
  OBVIOUS
<1>2. PICK a \in Seq(S) : a = SubSeq(q, 1, i - 1)
  <2>1. i - 1 \in 0 .. Len(q)
    BY <1>1
  <2>2. \A n \in 0 .. Len(q) : SubSeq(q, 1, n) \in Seq(S)
    OBVIOUS
  <2> QED
    BY <2>1, <2>2
<1>3. PICK b \in Seq(S) : b = SubSeq(q, i + 1, Len(q))
  <2>1. i + 1 \in 1 .. Len(q) + 1
    BY <1>1
  <2>2. \A m \in 1 .. Len(q) + 1 : SubSeq(q, m, Len(q)) \in Seq(S)
    BY SubSeqProperties
  <2> QED
    BY <2>1, <2>2
<1>4. Len(a) = i - 1 /\ \A k \in 1 .. i - 1 : a[k] = q[k]
  BY <1>1, <1>2
<1>5. Len(b) = Len(q) - i /\ \A k \in 1 .. Len(q) - i : b[k] = q[i + k]
  <2>1. Len(b) = Len(q) - i
    BY <1>1, <1>3
  <2>2. \A k \in 1 .. Len(q) - i : b[k] = q[(i + 1) + k - 1]
    BY <1>1, <1>3
  <2>3. \A k \in 1 .. Len(q) - i : (i + 1) + k - 1 = i + k
    BY <1>1
  <2> QED
    BY <2>1, <2>2, <2>3
<1>6. /\ a \o b \in Seq(S) /\ Len(a \o b) = Len(q) - 1
      /\ \A k \in 1 .. Len(a) : (a \o b)[k] = a[k]
      /\ \A k \in 1 .. Len(b) : (a \o b)[Len(a) + k] = b[k]
  BY <1>1, <1>4, <1>5
<1>7. ASSUME NEW k \in 1 .. Len(q) - 1
      PROVE  (a \o b)[k] = IF k < i THEN q[k] ELSE q[k + 1]
  <2>1. CASE k < i
    BY <1>1, <1>4, <1>6, <2>1
  <2>2. CASE ~(k < i)
    <3>1. PICK j \in 1 .. Len(b) : k = Len(a) + j
      <4>1. k - i + 1 \in 1 .. Len(b) /\ k = Len(a) + (k - i + 1)
        BY <1>1, <1>4, <1>5, <2>2
      <4> QED
        BY <4>1
    <3>2. (a \o b)[k] = b[j]
      BY <1>6, <3>1
    <3>3. b[j] = q[i + j] /\ i + j = k + 1
      BY <1>1, <1>4, <1>5, <3>1
    <3> QED
      BY <2>2, <3>2, <3>3
  <2> QED
    BY <2>1, <2>2
<1> QED
  BY <1>2, <1>3, <1>6, <1>7 DEF RemoveAt

-----------------------------------------------------------------------------
(* The inductive invariant                                                 *)

(* A tls object has no ring if it is not valid.                            *)
Object == {[ring |-> Null, previous |-> Null]}
            \cup [ring: AllRings, previous: AllRings]

TypeInv ==
  /\ active \in BOOLEAN
  /\ inMap \subseteq AllRings
  /\ refs \in [AllRings -> Int]
  /\ unread \in [AllRings -> BOOLEAN]
  /\ current \in [Threads -> AllRings]
  /\ objs \in [Threads -> Seq(Object)]
  /\ held \in [Threads -> SUBSET AllRings]
  /\ borrowed \in [AllRings -> Nat]
  /\ dying \in AllRings \cup {Null}
  /\ reused \subseteq AllRings

(* References without an owner cannot be counted otherwise.                *)
FiniteInv ==
  \A r \in AllRings : IsFiniteSet(Owners(r)) /\ IsFiniteSet(Holders(r))

Used(r) == Owners(r) # {} \/ Holders(r) # {}

(* The rings of the engine, and the one that it is about to kill.          *)
MapInv ==
  /\ active /\ borrowed[DefaultRing] = 0 => DefaultRing \in inMap
  /\ DefaultRing \in reused \cup {dying} => borrowed[DefaultRing] > 0
  /\ ~active => inMap = {} /\ dying = Null
  /\ ~active => \A t \in Threads : objs[t] = <<>>
  /\ dying # Null => dying \in inMap
  /\ dying # Null /\ dying \notin reused /\ borrowed[dying] = 0
       => refs[dying] = 1
  /\ \A r \in reused \cap inMap : r = dying \/ borrowed[r] > 0
  /\ \A r \in AllRings :
       Used(r) => r \in inMap \cup reused \/ borrowed[r] > 0

IInv == TypeInv /\ FiniteInv /\ RefsOwned /\ MapInv

-----------------------------------------------------------------------------
(* Who owns references                                                     *)

(* What it means to own a reference.                                       *)
LEMMA OwnersMeaning ==
  ASSUME NEW r, NEW x
  PROVE  x \in Owners(r) <=>
           \E t \in Threads : \E i \in DOMAIN objs[t] :
             \/ x = <<t, i, "ring">> /\ objs[t][i].ring = r
             \/ x = <<t, i, "previous">> /\ objs[t][i].previous = r
  BY DEF Owners

(* A new object owns a reference of its ring and one of the previous ring. *)
LEMMA PushOwners ==
  ASSUME TypeInv, NEW t \in Threads, NEW o \in Object, NEW r \in AllRings,
         objs' = [objs EXCEPT ![t] = Append(@, o)],
         IsFiniteSet(Owners(r))
  PROVE  /\ IsFiniteSet(Owners(r)')
         /\ Cardinality(Owners(r)') = Cardinality(Owners(r))
              + (IF o.ring = r THEN 1 ELSE 0)
              + (IF o.previous = r THEN 1 ELSE 0)
         /\ Owners(r)' # {} =>
              Owners(r) # {} \/ o.ring = r \/ o.previous = r
<1>1. PICK q \in Seq(Object) : q = objs[t]
  BY DEF TypeInv
<1>2. PICK n \in Nat : n = Len(q) + 1
  BY <1>1
<1>3. /\ objs'[t] = Append(q, o)
      /\ \A u \in Threads : u # t => objs'[u] = objs[u]
  BY <1>1 DEF TypeInv
<1>4. /\ DOMAIN objs[t] = 1 .. n - 1 /\ DOMAIN objs'[t] = 1 .. n
      /\ objs'[t][n] = o /\ \A i \in 1 .. n - 1 : objs'[t][i] = objs[t][i]
  BY <1>1, <1>2, <1>3
<1> DEFINE A == <<t, n, "ring">>
<1> DEFINE B == <<t, n, "previous">>
<1>5. A # B /\ A \notin Owners(r) /\ B \notin Owners(r)
  <2>1. \A i \in DOMAIN objs[t] : i # n
    BY <1>2, <1>4
  <2> QED
    BY <2>1, OwnersMeaning
<1>6. \A x : x \in Owners(r)' <=>
        \E u \in Threads : \E i \in DOMAIN objs'[u] :
          \/ x = <<u, i, "ring">> /\ objs'[u][i].ring = r
          \/ x = <<u, i, "previous">> /\ objs'[u][i].previous = r
  BY DEF Owners
<1>7. \A x : x \in Owners(r)' <=> \/ x \in Owners(r)
                                  \/ x = A /\ o.ring = r
                                  \/ x = B /\ o.previous = r
  <2> SUFFICES ASSUME NEW x
               PROVE  x \in Owners(r)' <=> \/ x \in Owners(r)
                                           \/ x = A /\ o.ring = r
                                           \/ x = B /\ o.previous = r
    OBVIOUS
  <2>1. ASSUME x \in Owners(r) PROVE x \in Owners(r)'
    <3>0. PICK u \in Threads : \E i \in DOMAIN objs[u] :
             \/ x = <<u, i, "ring">> /\ objs[u][i].ring = r
             \/ x = <<u, i, "previous">> /\ objs[u][i].previous = r
      BY <2>1, OwnersMeaning
    <3>1. PICK i \in DOMAIN objs[u] :
             \/ x = <<u, i, "ring">> /\ objs[u][i].ring = r
             \/ x = <<u, i, "previous">> /\ objs[u][i].previous = r
      BY <3>0
    <3>2. i \in DOMAIN objs'[u] /\ objs'[u][i] = objs[u][i]
      BY <1>2, <1>3, <1>4
    <3> QED
      BY <1>6, <3>1, <3>2
  <2>2. n \in DOMAIN objs'[t]
    BY <1>1, <1>2, <1>4
  <2>3. ASSUME (x = A /\ o.ring = r) \/ (x = B /\ o.previous = r)
        PROVE  x \in Owners(r)'
    BY <1>4, <1>6, <2>2, <2>3
  <2>4. ASSUME x \in Owners(r)'
        PROVE  \/ x \in Owners(r)
               \/ x = A /\ o.ring = r
               \/ x = B /\ o.previous = r
    <3>0. PICK u \in Threads : \E i \in DOMAIN objs'[u] :
             \/ x = <<u, i, "ring">> /\ objs'[u][i].ring = r
             \/ x = <<u, i, "previous">> /\ objs'[u][i].previous = r
      BY <1>6, <2>4
    <3>1. PICK i \in DOMAIN objs'[u] :
             \/ x = <<u, i, "ring">> /\ objs'[u][i].ring = r
             \/ x = <<u, i, "previous">> /\ objs'[u][i].previous = r
      BY <3>0
    <3>2. CASE u = t /\ i = n
      BY <1>4, <3>1, <3>2
    <3>3. CASE ~(u = t /\ i = n)
      <4>1. i \in DOMAIN objs[u] /\ objs'[u][i] = objs[u][i]
        BY <1>2, <1>3, <1>4, <3>3
      <4> QED
        BY <3>1, <4>1, OwnersMeaning
    <3> QED
      BY <3>2, <3>3
  <2> QED
    BY <2>1, <2>3, <2>4, Zenon
<1> HIDE DEF A, B
<1>8. PICK S : S = Owners(r)
  OBVIOUS
<1>9. /\ IsFiniteSet(S) /\ Cardinality(S) \in Nat
      /\ IsFiniteSet(S \cup {A}) /\ Cardinality(S \cup {A}) = Cardinality(S) + 1
      /\ IsFiniteSet(S \cup {B}) /\ Cardinality(S \cup {B}) = Cardinality(S) + 1
  BY <1>5, <1>8, FS_AddElement, FS_CardinalityType
<1>10. /\ IsFiniteSet((S \cup {A}) \cup {B})
       /\ Cardinality((S \cup {A}) \cup {B}) = Cardinality(S) + 1 + 1
  <2>1. B \notin S \cup {A}
    BY <1>5, <1>8
  <2> QED
    BY <1>9, <2>1, FS_AddElement
<1>11. CASE o.ring = r /\ o.previous = r
  <2>1. Owners(r)' = (S \cup {A}) \cup {B}
    BY <1>7, <1>8, <1>11
  <2> QED
    BY <1>8, <1>10, <1>11, <2>1
<1>12. CASE o.ring = r /\ o.previous # r
  <2>1. Owners(r)' = S \cup {A}
    BY <1>7, <1>8, <1>12
  <2> QED
    BY <1>8, <1>9, <1>12, <2>1
<1>13. CASE o.ring # r /\ o.previous = r
  <2>1. Owners(r)' = S \cup {B}
    BY <1>7, <1>8, <1>13
  <2> QED
    BY <1>8, <1>9, <1>13, <2>1
<1>14. CASE o.ring # r /\ o.previous # r
  <2>1. Owners(r)' = S
    BY <1>7, <1>8, <1>14
  <2> QED
    BY <1>8, <1>9, <1>14, <2>1
<1> QED
  BY <1>11, <1>12, <1>13, <1>14

(* The two references of an object, named by its fields.                   *)
Field == {"ring", "previous"}

(* The same, with the field as a parameter.                                *)
LEMMA OwnersByField ==
  ASSUME NEW r, NEW x
  PROVE  x \in Owners(r) <=>
           \E t \in Threads : \E i \in DOMAIN objs[t] : \E g \in Field :
             x = <<t, i, g>> /\ objs[t][i][g] = r
<1>1. ASSUME NEW t \in Threads, NEW i \in DOMAIN objs[t]
      PROVE  (\E g \in Field : x = <<t, i, g>> /\ objs[t][i][g] = r) <=>
               \/ x = <<t, i, "ring">> /\ objs[t][i].ring = r
               \/ x = <<t, i, "previous">> /\ objs[t][i].previous = r
  BY DEF Field
<1> QED
  BY <1>1, OwnersMeaning

(* A deleted object gives its two references back. The objects behind it   *)
(* move up.                                                                *)
LEMMA PopOwners ==
  ASSUME TypeInv, NEW t \in Threads, NEW i \in DOMAIN objs[t],
         NEW r \in AllRings,
         objs' = [objs EXCEPT ![t] = RemoveAt(@, i)],
         IsFiniteSet(Owners(r))
  PROVE  /\ IsFiniteSet(Owners(r)')
         /\ Cardinality(Owners(r)') = Cardinality(Owners(r))
              - (IF objs[t][i].ring = r THEN 1 ELSE 0)
              - (IF objs[t][i].previous = r THEN 1 ELSE 0)
         /\ Owners(r)' # {} => Owners(r) # {}
<1>1. PICK q \in Seq(Object) : q = objs[t]
  BY DEF TypeInv
<1>2. DOMAIN q = 1 .. Len(q) /\ Len(q) \in Nat /\ i \in 1 .. Len(q)
  BY <1>1
<1>3. PICK p \in Seq(Object) : p = RemoveAt(q, i)
  BY <1>2, RemoveAtFacts
<1>4. /\ Len(p) = Len(q) - 1 /\ DOMAIN p = 1 .. Len(q) - 1
      /\ \A k \in 1 .. Len(q) - 1 : p[k] = IF k < i THEN q[k] ELSE q[k + 1]
  <2>1. Len(p) = Len(q) - 1
    BY <1>2, <1>3, RemoveAtFacts
  <2>2. DOMAIN p = 1 .. Len(p)
    OBVIOUS
  <2> QED
    BY <1>2, <1>3, <2>1, <2>2, RemoveAtFacts
<1>5. objs'[t] = p /\ \A u \in Threads : u # t => objs'[u] = objs[u]
  BY <1>1, <1>3 DEF TypeInv
<1>6. \A x : x \in Owners(r)' <=>
        \E u \in Threads : \E k \in DOMAIN objs'[u] : \E g \in Field :
          x = <<u, k, g>> /\ objs'[u][k][g] = r
  <2>1. \A x : x \in Owners(r)' <=>
        \E u \in Threads : \E k \in DOMAIN objs'[u] :
          \/ x = <<u, k, "ring">> /\ objs'[u][k].ring = r
          \/ x = <<u, k, "previous">> /\ objs'[u][k].previous = r
    BY DEF Owners
  <2>2. ASSUME NEW x, NEW u \in Threads, NEW k \in DOMAIN objs'[u]
        PROVE  (\E g \in Field : x = <<u, k, g>> /\ objs'[u][k][g] = r) <=>
               \/ x = <<u, k, "ring">> /\ objs'[u][k].ring = r
               \/ x = <<u, k, "previous">> /\ objs'[u][k].previous = r
    BY DEF Field
  <2> QED
    BY <2>1, <2>2
<1> DEFINE A == <<t, i, "ring">>
<1> DEFINE B == <<t, i, "previous">>
<1> DEFINE Rest == (Owners(r) \ {A}) \ {B}
<1> DEFINE Down(x) == IF x[1] = t /\ x[2] > i THEN <<t, x[2] - 1, x[3]>>
                      ELSE x
<1> DEFINE f == [x \in Rest |-> Down(x)]
<1>7. ASSUME NEW x \in Rest
      PROVE  \E u \in Threads : \E k \in DOMAIN objs[u] : \E g \in Field :
               /\ x = <<u, k, g>> /\ objs[u][k][g] = r
               /\ ~(u = t /\ k = i)
  BY <1>7, OwnersByField DEF Field
(* Every remaining reference is still owned. *)
<1>8. ASSUME NEW x \in Rest PROVE f[x] \in Owners(r)'
  <2>1. PICK u \in Threads : \E k \in DOMAIN objs[u] : \E g \in Field :
               /\ x = <<u, k, g>> /\ objs[u][k][g] = r
               /\ ~(u = t /\ k = i)
    BY <1>7
  <2>2. PICK k \in DOMAIN objs[u] : \E g \in Field :
               /\ x = <<u, k, g>> /\ objs[u][k][g] = r
               /\ ~(u = t /\ k = i)
    BY <2>1
  <2>3. PICK g \in Field : /\ x = <<u, k, g>> /\ objs[u][k][g] = r
                           /\ ~(u = t /\ k = i)
    BY <2>2
  <2>4. x[1] = u /\ x[2] = k /\ x[3] = g /\ f[x] = Down(x)
    BY <2>3
  <2>5. CASE u # t
    BY <1>5, <1>6, <2>3, <2>4, <2>5
  <2>6. CASE u = t /\ k < i
    <3>1. k \in DOMAIN p /\ p[k] = q[k] /\ k \in Int /\ ~(k > i)
      BY <1>1, <1>2, <1>4, <2>6, SMTT(30)
    <3>2. f[x] = <<u, k, g>> /\ k \in DOMAIN objs'[u] /\ objs'[u][k][g] = r
      BY <1>1, <1>5, <2>3, <2>4, <2>6, <3>1
    <3> QED
      BY <1>6, <3>2
  <2>7. CASE u = t /\ ~(k < i)
    <3>1. /\ k - 1 \in DOMAIN p /\ p[k - 1] = q[k] /\ k \in Int /\ k > i
      <4>1. k \in 1 .. Len(q) /\ k # i
        BY <1>1, <1>2, <2>3, <2>7
      <4>2. k - 1 \in 1 .. Len(q) - 1 /\ ~(k - 1 < i) /\ (k - 1) + 1 = k
        BY <1>2, <2>7, <4>1
      <4> QED
        BY <1>2, <1>4, <2>7, <4>1, <4>2
    <3>2. /\ f[x] = <<u, k - 1, g>> /\ k - 1 \in DOMAIN objs'[u]
          /\ objs'[u][k - 1][g] = r
      BY <1>1, <1>5, <2>3, <2>4, <2>7, <3>1
    <3> QED
      BY <1>6, <3>2
  <2> QED
    BY <2>5, <2>6, <2>7
(* No two become the same. *)
<1>9. ASSUME NEW x \in Rest, NEW y \in Rest, f[x] = f[y] PROVE x = y
  <2>1. PICK u \in Threads, k \in Int, g \in Field :
          x = <<u, k, g>> /\ ~(u = t /\ k = i)
    <3>1. \A v \in Threads : \A j \in DOMAIN objs[v] : j \in Int
      BY DEF TypeInv
    <3> QED
      BY <1>7, <3>1, SMTT(30)
  <2>2. PICK v \in Threads, j \in Int, h \in Field :
          y = <<v, j, h>> /\ ~(v = t /\ j = i)
    <3>1. \A w \in Threads : \A l \in DOMAIN objs[w] : l \in Int
      BY DEF TypeInv
    <3> QED
      BY <1>7, <3>1
  <2>3. /\ f[x] = IF u = t /\ k > i THEN <<u, k - 1, g>> ELSE <<u, k, g>>
        /\ f[y] = IF v = t /\ j > i THEN <<v, j - 1, h>> ELSE <<v, j, h>>
    BY <2>1, <2>2
  <2>4. i \in Int
    BY <1>2
  <2> HIDE DEF f
  <2>5. u = v /\ g = h
    <3>1. f[x][1] = u /\ f[x][3] = g /\ f[y][1] = v /\ f[y][3] = h
      BY <2>3
    <3> QED
      BY <1>9, <3>1
  <2>6. k = j
    BY <1>9, <2>1, <2>2, <2>3, <2>4, <2>5
  <2> QED
    BY <2>1, <2>2, <2>5, <2>6
(* And every reference that is owned was owned before. *)
<1>10. ASSUME NEW y \in Owners(r)' PROVE \E x \in Rest : f[x] = y
  <2>1. PICK u \in Threads : \E k \in DOMAIN objs'[u] : \E g \in Field :
          y = <<u, k, g>> /\ objs'[u][k][g] = r
    BY <1>6, <1>10
  <2>2. PICK k \in DOMAIN objs'[u] : \E g \in Field :
          y = <<u, k, g>> /\ objs'[u][k][g] = r
    BY <2>1
  <2>3. PICK g \in Field : y = <<u, k, g>> /\ objs'[u][k][g] = r
    BY <2>2
  <2>4. CASE u # t
    <3>1. y \in Owners(r)
      BY <1>5, <2>3, <2>4, OwnersByField
    <3>2. y \in Rest /\ y[1] # t
      BY <2>3, <2>4, <3>1
    <3> QED
      BY <3>2
  <2>5. CASE u = t /\ k < i
    <3>1. k \in DOMAIN q /\ p[k] = q[k] /\ k \in Int /\ k # i /\ ~(k > i)
      BY <1>2, <1>4, <1>5, <2>5
    <3>2. y \in Owners(r)
      BY <1>1, <1>5, <2>3, <2>5, <3>1, OwnersByField
    <3>3. y \in Rest /\ y[2] = k
      BY <2>3, <3>1, <3>2
    <3> QED
      BY <3>1, <3>3
  <2>6. CASE u = t /\ ~(k < i)
    <3>1. /\ k + 1 \in DOMAIN q /\ p[k] = q[k + 1] /\ k \in Int
          /\ k + 1 > i /\ k + 1 # i /\ (k + 1) - 1 = k
      BY <1>2, <1>4, <1>5, <2>6
    <3>2. <<u, k + 1, g>> \in Owners(r)
      BY <1>1, <1>5, <2>3, <2>6, <3>1, OwnersByField
    <3>3. <<u, k + 1, g>> \in Rest
      BY <3>1, <3>2
    <3>4. f[<<u, k + 1, g>>] = <<u, k, g>>
      BY <2>6, <3>1, <3>3
    <3> QED
      BY <2>3, <3>3, <3>4
  <2> QED
    BY <2>4, <2>5, <2>6
<1>11. ExistsBijection(Rest, Owners(r)')
  <2>1. f \in [Rest -> Owners(r)']
    BY <1>8
  <2> HIDE DEF f, Rest
  <2>2. f \in Injection(Rest, Owners(r)')
    BY <1>9, <2>1 DEF Injection, IsInjective
  <2>3. f \in Surjection(Rest, Owners(r)')
    BY <1>10, <2>1 DEF Surjection
  <2> QED
    BY <2>2, <2>3 DEF ExistsBijection, Bijection
<1>12. /\ A \in Owners(r) <=> objs[t][i].ring = r
       /\ B \in Owners(r) <=> objs[t][i].previous = r
       /\ A # B
  BY OwnersMeaning, SMTT(30)
<1>13. /\ IsFiniteSet(Owners(r) \ {A})
       /\ Cardinality(Owners(r) \ {A}) =
            IF A \in Owners(r) THEN Cardinality(Owners(r)) - 1
            ELSE Cardinality(Owners(r))
       /\ Cardinality(Owners(r)) \in Nat
  BY FS_RemoveElement, FS_CardinalityType
<1>14. /\ IsFiniteSet(Rest)
       /\ Cardinality(Rest) =
            IF B \in Owners(r) \ {A} THEN Cardinality(Owners(r) \ {A}) - 1
            ELSE Cardinality(Owners(r) \ {A})
  <2> HIDE DEF A, B
  <2> QED
    BY <1>13, FS_RemoveElement
<1>15. IsFiniteSet(Owners(r)') /\ Cardinality(Owners(r)') = Cardinality(Rest)
  <2> HIDE DEF Rest
  <2> QED
    BY <1>11, <1>14, FS_Bijection
<1>16. B \in Owners(r) \ {A} <=> objs[t][i].previous = r
  BY <1>12
<1>17. Owners(r)' # {} => Owners(r) # {}
  BY <1>10
<1> HIDE DEF A, B, Rest
<1> QED
  BY <1>12, <1>13, <1>14, <1>15, <1>16, <1>17

(* Callers get references and drop them, or hand them over.                *)
LEMMA TakeHolders ==
  ASSUME TypeInv, NEW t \in Threads, NEW r \in AllRings, r \notin held[t],
         held' = [held EXCEPT ![t] = @ \cup {r}],
         NEW q \in AllRings, IsFiniteSet(Holders(q))
  PROVE  /\ IsFiniteSet(Holders(q)')
         /\ Cardinality(Holders(q)') = Cardinality(Holders(q))
              + (IF q = r THEN 1 ELSE 0)
         /\ Holders(q)' # {} => Holders(q) # {} \/ q = r
<1>1. /\ held'[t] = held[t] \cup {r}
      /\ \A u \in Threads : u # t => held'[u] = held[u]
  BY DEF TypeInv
<1>2. Cardinality(Holders(q)) \in Nat
  BY FS_CardinalityType
<1>3. CASE q = r
  <2>1. t \notin Holders(q) /\ Holders(q)' = Holders(q) \cup {t}
    BY <1>1, <1>3 DEF Holders
  <2>2. /\ IsFiniteSet(Holders(q) \cup {t})
        /\ Cardinality(Holders(q) \cup {t}) = Cardinality(Holders(q)) + 1
    BY <2>1, FS_AddElement
  <2> QED
    BY <1>3, <2>1, <2>2
<1>4. CASE q # r
  <2>1. Holders(q)' = Holders(q)
    BY <1>1, <1>4 DEF Holders
  <2> QED
    BY <1>2, <1>4, <2>1
<1> QED
  BY <1>3, <1>4

(* A caller that has no reference has none afterwards.                     *)
LEMMA DropHolders ==
  ASSUME TypeInv, NEW t \in Threads, NEW r \in AllRings,
         held' = [held EXCEPT ![t] = @ \ {r}],
         NEW q \in AllRings, IsFiniteSet(Holders(q))
  PROVE  /\ IsFiniteSet(Holders(q)')
         /\ Cardinality(Holders(q)') = Cardinality(Holders(q))
              - (IF q = r /\ r \in held[t] THEN 1 ELSE 0)
         /\ Holders(q)' # {} => Holders(q) # {}
<1>1. /\ held'[t] = held[t] \ {r}
      /\ \A u \in Threads : u # t => held'[u] = held[u]
  BY DEF TypeInv
<1>2. Cardinality(Holders(q)) \in Nat
  BY FS_CardinalityType
<1>3. CASE q = r /\ r \in held[t]
  <2>1. t \in Holders(q) /\ Holders(q)' = Holders(q) \ {t}
    BY <1>1, <1>3 DEF Holders
  <2>2. /\ IsFiniteSet(Holders(q) \ {t})
        /\ Cardinality(Holders(q) \ {t}) = Cardinality(Holders(q)) - 1
    BY <2>1, FS_RemoveElement
  <2> QED
    BY <1>3, <2>1, <2>2
<1>4. CASE ~(q = r /\ r \in held[t])
  <2>1. Holders(q)' = Holders(q)
    BY <1>1, <1>4 DEF Holders
  <2> QED
    BY <1>2, <1>4, <2>1
<1> QED
  BY <1>3, <1>4

(* A count changed at one ring.                                            *)
LEMMA AddedAt ==
  ASSUME NEW f \in [AllRings -> Int], NEW r \in AllRings, NEW d \in Int
  PROVE  LET g == [f EXCEPT ![r] = @ + d]
         IN  /\ g \in [AllRings -> Int]
             /\ \A q \in AllRings : g[q] = f[q] + (IF q = r THEN d ELSE 0)
<1> DEFINE g == [f EXCEPT ![r] = @ + d]
<1>1. \A q \in AllRings : f[q] \in Int /\ f[q] + d \in Int
  OBVIOUS
<1>2. g \in [AllRings -> Int]
  BY <1>1
<1>3. \A q \in AllRings : g[q] = IF q = r THEN f[q] + d ELSE f[q]
  OBVIOUS
<1>4. \A q \in AllRings : g[q] = f[q] + (IF q = r THEN d ELSE 0)
  <2> HIDE DEF g
  <2> QED
    BY <1>1, <1>3
<1> QED
  BY <1>2, <1>4

(* What the owners of a ring say about its references.                     *)
LEMMA OwnedRefs ==
  ASSUME IInv, NEW r \in AllRings
  PROVE  /\ Cardinality(Owners(r)) \in Nat /\ Cardinality(Holders(r)) \in Nat
         /\ refs[r] \in Int /\ borrowed[r] \in Nat
         /\ borrowed[r] = 0 =>
              /\ refs[r] \in Nat
              /\ Used(r) => refs[r] >= 1
              /\ Used(r) /\ r \in inMap => refs[r] >= 2
              /\ r \in inMap => refs[r] >= 1
              /\ refs[r] > 0 => r \in inMap \cup reused
              /\ r \notin inMap \cup reused => refs[r] = 0
<1>1. /\ Cardinality(Owners(r)) \in Nat /\ Cardinality(Holders(r)) \in Nat
      /\ Cardinality(Owners(r)) = 0 <=> Owners(r) = {}
      /\ Cardinality(Holders(r)) = 0 <=> Holders(r) = {}
  BY FS_CardinalityType, FS_EmptySet DEF IInv, FiniteInv
<1>2. refs[r] = (IF r \in inMap THEN 1 ELSE 0)
                + (IF r = DefaultRing /\ active THEN 1 ELSE 0)
                + Cardinality(Owners(r)) + Cardinality(Holders(r))
                - borrowed[r]
  BY DEF IInv, RefsOwned
<1>3. refs[r] \in Int /\ borrowed[r] \in Nat
  BY DEF IInv, TypeInv
<1>4. ASSUME borrowed[r] = 0
      PROVE  /\ Used(r) => r \in inMap \cup reused
             /\ r = DefaultRing /\ active => r \in inMap
  BY <1>4 DEF IInv, MapInv
<1>5. Used(r) <=> Cardinality(Owners(r)) > 0 \/ Cardinality(Holders(r)) > 0
  BY <1>1 DEF Used
<1> QED
  BY <1>1, <1>2, <1>3, <1>4, <1>5

(* Nobody owns a ring that is going to be killed.                          *)
LEMMA DyingUnowned ==
  ASSUME IInv, dying # Null, dying \notin reused, borrowed[dying] = 0
  PROVE  dying \in AllRings /\ dying # DefaultRing /\ ~Used(dying)
<1>1. /\ dying \in AllRings /\ dying \in inMap /\ refs[dying] = 1
      /\ dying # DefaultRing
  BY DEF IInv, MapInv, TypeInv
<1>2. PICK r \in AllRings : r = dying
  BY <1>1
<1>3. ~Used(r)
  BY <1>1, <1>2, OwnedRefs
<1> QED
  BY <1>1, <1>2, <1>3

(* A message of the library goes to one ring.                              *)
LEMMA LoggedFacts ==
  ASSUME TypeInv, NEW r \in AllRings, NEW counts, Logged(r, counts)
  PROVE  /\ unread' \in [AllRings -> BOOLEAN]
         /\ \A q \in AllRings : unread'[q] => unread[q] \/ q = r
  BY DEF Logged, TypeInv

(* Steps that only post or drain.                                          *)
LEMMA UnreadStep ==
  ASSUME IInv, unread' \in [AllRings -> BOOLEAN],
         UNCHANGED <<active, inMap, refs, lost, dying, reused, threadVars>>
  PROVE  IInv'
<1> USE DEF threadVars
<1>1. \A r \in AllRings : /\ Owners(r)' = Owners(r)
                          /\ Holders(r)' = Holders(r)
                          /\ Used(r)' = Used(r)
  BY DEF Owners, Holders, Used
<1>2. TypeInv'
  BY DEF IInv, TypeInv
<1>3. FiniteInv'
  BY <1>1 DEF IInv, FiniteInv
<1>4. RefsOwned'
  BY <1>1 DEF IInv, RefsOwned
<1>5. MapInv'
  BY <1>1 DEF IInv, MapInv
<1> QED
  BY <1>2, <1>3, <1>4, <1>5 DEF IInv

(* A tls object that is not valid.                                         *)
LEMMA NullObjectStep ==
  ASSUME IInv, NEW t \in Threads, active,
         unread' \in [AllRings -> BOOLEAN],
         UNCHANGED <<active, inMap, refs, dying, reused, current, held,
                     borrowed>>,
         \/ objs' = [objs EXCEPT ![t] =
                       Append(@, [ring |-> Null, previous |-> Null])]
         \/ \E i \in DOMAIN objs[t] :
              /\ objs[t][i].ring = Null
              /\ objs' = [objs EXCEPT ![t] = RemoveAt(@, i)]
  PROVE  IInv'
<1>0. TypeInv /\ FiniteInv /\ RefsOwned /\ MapInv
  BY DEF IInv
<1>1. \A r \in AllRings : /\ IsFiniteSet(Owners(r)')
                          /\ Cardinality(Owners(r)') = Cardinality(Owners(r))
                          /\ Owners(r)' # {} => Owners(r) # {}
  <2> SUFFICES ASSUME NEW r \in AllRings
               PROVE  /\ IsFiniteSet(Owners(r)')
                      /\ Cardinality(Owners(r)') = Cardinality(Owners(r))
                      /\ Owners(r)' # {} => Owners(r) # {}
    OBVIOUS
  <2>1. /\ r # Null /\ IsFiniteSet(Owners(r))
        /\ Cardinality(Owners(r)) \in Nat
    BY <1>0, OwnedRefs, RingsAssumption DEF FiniteInv
  <2>2. CASE objs' = [objs EXCEPT ![t] =
                        Append(@, [ring |-> Null, previous |-> Null])]
    <3>1. PICK o \in Object : o = [ring |-> Null, previous |-> Null]
      BY DEF Object
    <3>2. o.ring # r /\ o.previous # r
      BY <2>1, <3>1
    <3>3. objs' = [objs EXCEPT ![t] = Append(@, o)]
      BY <2>2, <3>1
    <3>4. /\ IsFiniteSet(Owners(r)')
          /\ Cardinality(Owners(r)') = Cardinality(Owners(r))
               + (IF o.ring = r THEN 1 ELSE 0)
               + (IF o.previous = r THEN 1 ELSE 0)
          /\ Owners(r)' # {} =>
               Owners(r) # {} \/ o.ring = r \/ o.previous = r
      BY <1>0, <2>1, <3>3, PushOwners
    <3> QED
      BY <2>1, <3>2, <3>4
  <2>3. ASSUME NEW i \in DOMAIN objs[t], objs[t][i].ring = Null,
               objs' = [objs EXCEPT ![t] = RemoveAt(@, i)]
        PROVE  /\ IsFiniteSet(Owners(r)')
               /\ Cardinality(Owners(r)') = Cardinality(Owners(r))
               /\ Owners(r)' # {} => Owners(r) # {}
    <3>1. objs[t][i] \in Object
      BY <1>0 DEF TypeInv
    <3>2. objs[t][i].ring # r /\ objs[t][i].previous # r
      BY <2>1, <2>3, <3>1, RingsAssumption DEF Object, AllRings
    <3>3. /\ IsFiniteSet(Owners(r)')
          /\ Cardinality(Owners(r)') = Cardinality(Owners(r))
               - (IF objs[t][i].ring = r THEN 1 ELSE 0)
               - (IF objs[t][i].previous = r THEN 1 ELSE 0)
          /\ Owners(r)' # {} => Owners(r) # {}
      BY <1>0, <2>1, <2>3, PopOwners
    <3> QED
      BY <2>1, <3>2, <3>3
  <2> QED
    BY <2>2, <2>3
<1>2. objs' \in [Threads -> Seq(Object)]
  <2>1. objs[t] \in Seq(Object)
    BY <1>0 DEF TypeInv
  <2>2. Append(objs[t], [ring |-> Null, previous |-> Null]) \in Seq(Object)
    BY <2>1 DEF Object
  <2>3. \A i \in DOMAIN objs[t] : RemoveAt(objs[t], i) \in Seq(Object)
    BY <2>1, RemoveAtFacts
  <2> QED
    BY <1>0, <2>2, <2>3 DEF TypeInv
<1>3. TypeInv'
  BY <1>0, <1>2 DEF TypeInv
<1>4. \A r \in AllRings : Holders(r)' = Holders(r) /\ (Used(r)' => Used(r))
  BY <1>1 DEF Holders, Used
<1>5. FiniteInv'
  BY <1>0, <1>1, <1>4 DEF FiniteInv
<1>6. RefsOwned'
  BY <1>0, <1>1, <1>4 DEF RefsOwned
<1>7. MapInv'
  <2>1. \A u \in Threads : ~active => objs'[u] = <<>>
    OBVIOUS
  <2> QED
    BY <1>0, <1>4, <2>1 DEF MapInv
<1> QED
  BY <1>3, <1>5, <1>6, <1>7 DEF IInv

(* A tls object with a ring, which is new, shared or taken up again.       *)
LEMMA NewObjectStep ==
  ASSUME IInv, NEW t \in Threads, NEW r \in Rings,
         active, Exists(current[t]), NameFree(r),
         AddRing(r) # Null, Update(t, r, [refs EXCEPT ![r] = AddRing(r)]),
         inMap' = inMap \cup {r},
         reused' = reused \cup ({r, current[t]} \cap {dying}),
         unread' \in [AllRings -> BOOLEAN],
         UNCHANGED <<active, dying, held, borrowed>>
  PROVE  IInv'
<1>0. TypeInv /\ FiniteInv /\ RefsOwned /\ MapInv
  BY DEF IInv
<1>1. r \in AllRings /\ r # DefaultRing
  BY RingsAssumption DEF AllRings
<1>2. PICK c \in AllRings : c = current[t]
  BY <1>0 DEF TypeInv
<1>3. PICK o \in Object : o = [ring |-> r, previous |-> c]
  BY <1>1 DEF Object
<1>4. objs' = [objs EXCEPT ![t] = Append(@, o)] /\ o.ring = r /\ o.previous = c
  BY <1>2, <1>3 DEF Update
<1>5. \A q \in AllRings :
        /\ IsFiniteSet(Owners(q)')
        /\ Cardinality(Owners(q)') = Cardinality(Owners(q))
             + (IF q = r THEN 1 ELSE 0) + (IF q = c THEN 1 ELSE 0)
        /\ Owners(q)' # {} => Owners(q) # {} \/ q = r \/ q = c
  <2> SUFFICES ASSUME NEW q \in AllRings
               PROVE  /\ IsFiniteSet(Owners(q)')
                      /\ Cardinality(Owners(q)') = Cardinality(Owners(q))
                           + (IF q = r THEN 1 ELSE 0)
                           + (IF q = c THEN 1 ELSE 0)
                      /\ Owners(q)' # {} => Owners(q) # {} \/ q = r \/ q = c
    OBVIOUS
  <2>1. IsFiniteSet(Owners(q))
    BY <1>0 DEF FiniteInv
  <2>2. /\ IsFiniteSet(Owners(q)')
        /\ Cardinality(Owners(q)') = Cardinality(Owners(q))
             + (IF o.ring = q THEN 1 ELSE 0)
             + (IF o.previous = q THEN 1 ELSE 0)
        /\ Owners(q)' # {} => Owners(q) # {} \/ o.ring = q \/ o.previous = q
    BY <1>0, <1>4, <2>1, PushOwners
  <2> QED
    BY <1>4, <2>2
<1>6. \A q \in AllRings :
        /\ Cardinality(Owners(q)) \in Nat /\ Cardinality(Holders(q)) \in Nat
        /\ refs[q] \in Int /\ borrowed[q] \in Nat
        /\ borrowed[q] = 0 =>
             /\ refs[q] > 0 => q \in inMap \cup reused
             /\ q \notin inMap \cup reused => refs[q] = 0
  BY OwnedRefs
<1>7. AddRing(r) = refs[r] + 1 + (IF r \in inMap THEN 0 ELSE 1)
  <2>1. CASE r \in inMap
    BY <1>1, <1>6, <2>1 DEF AddRing
  <2>2. CASE r \notin inMap
    <3>1. refs[r] = 0
      BY <1>1, <1>6, <2>2 DEF NameFree
    <3> QED
      BY <2>2, <3>1 DEF AddRing
  <2> QED
    BY <2>1, <2>2
<1>8. /\ refs' \in [AllRings -> Int]
      /\ \A q \in AllRings :
           refs'[q] = refs[q]
             + (IF q = r THEN 1 + (IF r \in inMap THEN 0 ELSE 1) ELSE 0)
             + (IF q = c THEN 1 ELSE 0)
  <2>1. PICK n \in Int : n = AddRing(r)
    BY <1>1, <1>6, <1>7
  <2>2. refs' = [[refs EXCEPT ![r] = n] EXCEPT ![c] = @ + 1]
    BY <1>2, <2>1 DEF Update
  <2>3. refs \in [AllRings -> Int]
    BY <1>0 DEF TypeInv
  <2>4. refs' \in [AllRings -> Int]
    BY <1>1, <2>1, <2>2, <2>3
  <2>5. ASSUME NEW q \in AllRings
        PROVE  refs'[q] = refs[q]
                 + (IF q = r THEN 1 + (IF r \in inMap THEN 0 ELSE 1) ELSE 0)
                 + (IF q = c THEN 1 ELSE 0)
    <3>1. CASE q = r /\ q = c
      BY <1>1, <1>6, <1>7, <2>1, <2>2, <2>3, <3>1
    <3>2. CASE q = r /\ q # c
      BY <1>1, <1>6, <1>7, <2>1, <2>2, <2>3, <3>2
    <3>3. CASE q # r /\ q = c
      BY <1>1, <1>6, <2>1, <2>2, <2>3, <3>3
    <3>4. CASE q # r /\ q # c
      BY <1>1, <1>6, <2>1, <2>2, <2>3, <3>4
    <3> QED
      BY <3>1, <3>2, <3>3, <3>4
  <2> QED
    BY <2>4, <2>5
<1>9. TypeInv'
  <2>1. objs' \in [Threads -> Seq(Object)]
    <3>1. objs[t] \in Seq(Object)
      BY <1>0 DEF TypeInv
    <3>2. Append(objs[t], o) \in Seq(Object)
      BY <3>1
    <3> QED
      BY <1>0, <1>4, <3>2 DEF TypeInv
  <2>2. current' \in [Threads -> AllRings]
    BY <1>0, <1>1 DEF Update, TypeInv
  <2>3. reused' \subseteq AllRings
    BY <1>0, <1>1, <1>2 DEF TypeInv
  <2> QED
    BY <1>0, <1>1, <1>8, <2>1, <2>2, <2>3 DEF TypeInv
<1>10. /\ FiniteInv'
       /\ \A q \in AllRings : /\ Holders(q)' = Holders(q)
                              /\ Used(q)' => Used(q) \/ q = r \/ q = c
  BY <1>0, <1>5 DEF FiniteInv, Holders, Used
<1>11. RefsOwned'
  <2> SUFFICES ASSUME NEW q \in AllRings
               PROVE  refs'[q] = (IF q \in inMap' THEN 1 ELSE 0)
                        + (IF q = DefaultRing /\ active THEN 1 ELSE 0)
                        + Cardinality(Owners(q)') + Cardinality(Holders(q))
                        - borrowed[q]
    BY <1>10 DEF RefsOwned
  <2>1. refs[q] = (IF q \in inMap THEN 1 ELSE 0)
                  + (IF q = DefaultRing /\ active THEN 1 ELSE 0)
                  + Cardinality(Owners(q)) + Cardinality(Holders(q))
                  - borrowed[q]
    BY <1>0 DEF RefsOwned
  <2>2. q \in inMap' <=> q \in inMap \/ q = r
    OBVIOUS
  <2>3. CASE q = r
    BY <1>5, <1>6, <1>8, <2>1, <2>2, <2>3
  <2>4. CASE q # r
    BY <1>5, <1>6, <1>8, <2>1, <2>2, <2>4
  <2> QED
    BY <2>3, <2>4
<1>12. c \in inMap \cup reused \/ borrowed[c] > 0
  <2>1. c = DefaultRing \/ refs[c] > 0
    BY <1>2 DEF Exists, Usable
  <2> QED
    BY <1>0, <1>6, <2>1 DEF MapInv
<1>13. MapInv'
  <2>1. /\ borrowed[DefaultRing] = 0 => DefaultRing \in inMap'
        /\ active'
        /\ dying' # Null => dying' \in inMap'
    BY <1>0 DEF MapInv
  <2>2. ASSUME dying # Null, dying \notin reused', borrowed[dying] = 0
        PROVE  refs'[dying] = 1
    <3>1. /\ dying \in AllRings /\ dying # r /\ dying # c
          /\ refs[dying] = 1
      BY <1>0, <1>2, <2>2 DEF MapInv, TypeInv
    <3> QED
      BY <1>8, <3>1
  <2>3. \A x \in reused' \cap inMap' : x = dying \/ borrowed[x] > 0
    BY <1>0 DEF MapInv, NameFree
  <2>4. \A q \in AllRings :
          Used(q)' => q \in inMap' \cup reused' \/ borrowed[q] > 0
    BY <1>0, <1>10, <1>12 DEF MapInv
  <2>5. DefaultRing \in reused' \cup {dying} => borrowed[DefaultRing] > 0
    BY <1>0 DEF MapInv
  <2> QED
    BY <2>1, <2>2, <2>3, <2>4, <2>5 DEF MapInv
<1> QED
  BY <1>9, <1>10, <1>11, <1>13 DEF IInv

(* The destructor of a valid tls object.                                   *)
LEMMA DeleteObjectStep ==
  ASSUME IInv, NEW t \in Threads, NEW i \in DOMAIN objs[t],
         DeleteTls(t, i), objs[t][i].ring # Null
  PROVE  IInv'
<1>0. TypeInv /\ FiniteInv /\ RefsOwned /\ MapInv
  BY DEF IInv
<1>1. objs[t][i] \in Object
  BY <1>0 DEF TypeInv
<1>2. PICK r \in AllRings : r = objs[t][i].ring
  BY <1>1 DEF Object
<1>3. PICK c \in AllRings : c = objs[t][i].previous
  BY <1>1 DEF Object
<1>4. /\ active /\ objs' = [objs EXCEPT ![t] = RemoveAt(@, i)]
      /\ current' = [current EXCEPT ![t] = c]
      /\ refs' = [[refs EXCEPT ![c] = @ - 1] EXCEPT ![r] = @ - 1]
      /\ UNCHANGED <<active, inMap, dying, reused, held, borrowed>>
  BY <1>2, <1>3 DEF DeleteTls, Restored
<1>5. r \in AllRings
  OBVIOUS
<1>6. unread' \in [AllRings -> BOOLEAN]
  <2>1. current'[t] = c
    BY <1>0, <1>4 DEF TypeInv
  <2>2. Logged(c, [refs EXCEPT ![c] = @ - 1])
    BY <1>2, <1>3, <2>1 DEF DeleteTls
  <2> QED
    BY <1>0, <2>2, LoggedFacts
<1>7. \A q \in AllRings :
        /\ IsFiniteSet(Owners(q)')
        /\ Cardinality(Owners(q)') = Cardinality(Owners(q))
             - (IF q = r THEN 1 ELSE 0) - (IF q = c THEN 1 ELSE 0)
        /\ Owners(q)' # {} => Owners(q) # {}
  <2> SUFFICES ASSUME NEW q \in AllRings
               PROVE  /\ IsFiniteSet(Owners(q)')
                      /\ Cardinality(Owners(q)') = Cardinality(Owners(q))
                           - (IF q = r THEN 1 ELSE 0)
                           - (IF q = c THEN 1 ELSE 0)
                      /\ Owners(q)' # {} => Owners(q) # {}
    OBVIOUS
  <2>1. IsFiniteSet(Owners(q))
    BY <1>0 DEF FiniteInv
  <2>2. /\ IsFiniteSet(Owners(q)')
        /\ Cardinality(Owners(q)') = Cardinality(Owners(q))
             - (IF objs[t][i].ring = q THEN 1 ELSE 0)
             - (IF objs[t][i].previous = q THEN 1 ELSE 0)
        /\ Owners(q)' # {} => Owners(q) # {}
    BY <1>0, <1>4, <2>1, PopOwners
  <2> QED
    BY <1>2, <1>3, <2>2
<1>8. \A q \in AllRings :
        /\ Cardinality(Owners(q)) \in Nat /\ Cardinality(Holders(q)) \in Nat
        /\ refs[q] \in Int /\ borrowed[q] \in Nat
  BY OwnedRefs
<1>9. /\ refs' \in [AllRings -> Int]
      /\ \A q \in AllRings :
           refs'[q] = refs[q] - (IF q = r THEN 1 ELSE 0)
                              - (IF q = c THEN 1 ELSE 0)
  <2>1. refs \in [AllRings -> Int]
    BY <1>0 DEF TypeInv
  <2>2. refs' \in [AllRings -> Int]
    BY <1>4, <1>5, <2>1
  <2>3. ASSUME NEW q \in AllRings
        PROVE  refs'[q] = refs[q] - (IF q = r THEN 1 ELSE 0)
                                  - (IF q = c THEN 1 ELSE 0)
    <3>1. CASE q = r /\ q = c
      BY <1>4, <1>5, <1>8, <2>1, <3>1
    <3>2. CASE q = r /\ q # c
      BY <1>4, <1>5, <1>8, <2>1, <3>2
    <3>3. CASE q # r /\ q = c
      BY <1>4, <1>5, <1>8, <2>1, <3>3
    <3>4. CASE q # r /\ q # c
      BY <1>4, <1>5, <1>8, <2>1, <3>4
    <3> QED
      BY <3>1, <3>2, <3>3, <3>4
  <2> QED
    BY <2>2, <2>3
<1>10. TypeInv'
  <2>1. objs' \in [Threads -> Seq(Object)]
    <3>1. objs[t] \in Seq(Object) /\ i \in 1 .. Len(objs[t])
      BY <1>0 DEF TypeInv
    <3>2. RemoveAt(objs[t], i) \in Seq(Object)
      BY <3>1, RemoveAtFacts
    <3> QED
      BY <1>0, <1>4, <3>2 DEF TypeInv
  <2>2. current' \in [Threads -> AllRings]
    BY <1>0, <1>4 DEF TypeInv
  <2> QED
    BY <1>0, <1>4, <1>6, <1>9, <2>1, <2>2 DEF TypeInv
<1>11. /\ FiniteInv'
       /\ \A q \in AllRings : Holders(q)' = Holders(q) /\ (Used(q)' => Used(q))
  BY <1>0, <1>4, <1>7 DEF FiniteInv, Holders, Used
<1>12. RefsOwned'
  <2> SUFFICES ASSUME NEW q \in AllRings
               PROVE  refs'[q] = (IF q \in inMap THEN 1 ELSE 0)
                        + (IF q = DefaultRing /\ active THEN 1 ELSE 0)
                        + Cardinality(Owners(q)') + Cardinality(Holders(q))
                        - borrowed[q]
    BY <1>4, <1>11 DEF RefsOwned
  <2>1. refs[q] = (IF q \in inMap THEN 1 ELSE 0)
                  + (IF q = DefaultRing /\ active THEN 1 ELSE 0)
                  + Cardinality(Owners(q)) + Cardinality(Holders(q))
                  - borrowed[q]
    BY <1>0 DEF RefsOwned
  <2> QED
    BY <1>7, <1>8, <1>9, <2>1
<1>13. MapInv'
  <2>1. ASSUME dying # Null, dying \notin reused, borrowed[dying] = 0
        PROVE  refs'[dying] = 1
    <3>1. PICK d \in AllRings : d = dying
      BY <2>1, DyingUnowned
    <3>2. Owners(d) = {}
      BY <2>1, <3>1, DyingUnowned DEF Used
    <3>3. d # r /\ d # c
      <4>1. <<t, i, "ring">> \in Owners(r) /\ <<t, i, "previous">> \in Owners(c)
        BY <1>2, <1>3, OwnersMeaning
      <4> QED
        BY <3>2, <4>1
    <3>4. refs[d] = 1
      BY <1>0, <2>1, <3>1 DEF MapInv
    <3> QED
      BY <1>9, <3>1, <3>3, <3>4
  <2> QED
    BY <1>0, <1>4, <1>11, <2>1 DEF MapInv
<1> QED
  BY <1>10, <1>11, <1>12, <1>13 DEF IInv

(* A tls object is given a ring, with the caller's reference or without.   *)
LEMMA RingObjectStep ==
  ASSUME IInv, NEW t \in Threads, NEW r \in AllRings, NewTlsRing(t, r)
  PROVE  IInv'
<1>0. TypeInv /\ FiniteInv /\ RefsOwned /\ MapInv
  BY DEF IInv
<1>1. PICK c \in AllRings : c = current[t]
  BY <1>0 DEF TypeInv
<1>2. /\ active /\ Exists(c) /\ r \in held[t] \cup {c}
      /\ refs' = [refs EXCEPT ![c] = @ + 1]
      /\ current' = [current EXCEPT ![t] = r]
      /\ held' = [held EXCEPT ![t] = @ \ {r}]
      /\ borrowed' = [borrowed EXCEPT
                        ![r] = @ + IF r \in held[t] THEN 0 ELSE 1]
      /\ reused' = reused \cup ({c} \cap {dying})
      /\ Logged(c, refs)
      /\ UNCHANGED <<active, inMap, dying>>
  BY <1>1 DEF NewTlsRing, Update
<1>3. PICK o \in Object : o = [ring |-> r, previous |-> c]
  BY DEF Object
<1>4. objs' = [objs EXCEPT ![t] = Append(@, o)] /\ o.ring = r /\ o.previous = c
  BY <1>1, <1>3 DEF NewTlsRing, Update
<1>5. ASSUME NEW q \in AllRings
      PROVE  /\ IsFiniteSet(Owners(q)') /\ IsFiniteSet(Holders(q)')
             /\ Cardinality(Owners(q)') = Cardinality(Owners(q))
                  + (IF q = r THEN 1 ELSE 0) + (IF q = c THEN 1 ELSE 0)
             /\ Cardinality(Holders(q)') = Cardinality(Holders(q))
                  - (IF q = r /\ r \in held[t] THEN 1 ELSE 0)
             /\ Used(q)' => Used(q) \/ q = r \/ q = c
  <2>1. IsFiniteSet(Owners(q)) /\ IsFiniteSet(Holders(q))
    BY <1>0 DEF FiniteInv
  <2>2. /\ IsFiniteSet(Owners(q)')
        /\ Cardinality(Owners(q)') = Cardinality(Owners(q))
             + (IF o.ring = q THEN 1 ELSE 0)
             + (IF o.previous = q THEN 1 ELSE 0)
        /\ Owners(q)' # {} => Owners(q) # {} \/ o.ring = q \/ o.previous = q
    BY <1>0, <1>4, <2>1, PushOwners
  <2>3. /\ IsFiniteSet(Holders(q)')
        /\ Cardinality(Holders(q)') = Cardinality(Holders(q))
             - (IF q = r /\ r \in held[t] THEN 1 ELSE 0)
        /\ Holders(q)' # {} => Holders(q) # {}
    BY <1>0, <1>2, <2>1, DropHolders
  <2> QED
    BY <1>4, <2>2, <2>3 DEF Used
<1>6. \A q \in AllRings :
        /\ Cardinality(Owners(q)) \in Nat /\ Cardinality(Holders(q)) \in Nat
        /\ refs[q] \in Int /\ borrowed[q] \in Nat
        /\ borrowed[q] = 0 /\ refs[q] > 0 => q \in inMap \cup reused
  BY OwnedRefs
<1>7. /\ refs' \in [AllRings -> Int]
      /\ \A q \in AllRings : refs'[q] = refs[q] + (IF q = c THEN 1 ELSE 0)
  <2>1. refs \in [AllRings -> Int]
    BY <1>0 DEF TypeInv
  <2>2. refs' \in [AllRings -> Int]
    BY <1>2, <2>1
  <2>3. \A q \in AllRings : refs'[q] = IF q = c THEN refs[q] + 1 ELSE refs[q]
    BY <1>2, <2>1
  <2> QED
    BY <1>6, <2>2, <2>3
<1>8. /\ borrowed' \in [AllRings -> Nat]
      /\ \A q \in AllRings : borrowed'[q] = borrowed[q]
           + (IF q = r /\ r \notin held[t] THEN 1 ELSE 0)
  <2>0. borrowed \in [AllRings -> Nat]
    BY <1>0 DEF TypeInv
  <2>1. CASE r \in held[t]
    <3>1. \A q \in AllRings : borrowed[q] + 0 = borrowed[q]
      BY <1>6
    <3>2. borrowed' = [borrowed EXCEPT ![r] = borrowed[r]]
      BY <1>2, <2>0, <2>1, <3>1
    <3> QED
      BY <2>0, <2>1, <3>1, <3>2
  <2>2. CASE r \notin held[t]
    <3>1. borrowed' = [borrowed EXCEPT ![r] = @ + 1]
      BY <1>2, <2>2
    <3>2. \A q \in AllRings : borrowed[q] + 1 \in Nat /\ borrowed[q] \in Int
      BY <1>6
    <3>3. borrowed' \in [AllRings -> Nat]
      BY <2>0, <3>1, <3>2
    <3>4. borrowed \in [AllRings -> Int]
      BY <2>0, <3>2
    <3> QED
      BY <2>2, <3>1, <3>3, <3>4, AddedAt
  <2> QED
    BY <2>1, <2>2
<1>9. TypeInv'
  <2>1. objs' \in [Threads -> Seq(Object)]
    <3>1. objs[t] \in Seq(Object)
      BY <1>0 DEF TypeInv
    <3>2. Append(objs[t], o) \in Seq(Object)
      BY <3>1
    <3> QED
      BY <1>0, <1>4, <3>2 DEF TypeInv
  <2>2. unread' \in [AllRings -> BOOLEAN]
    BY <1>0, <1>2, LoggedFacts
  <2>3. /\ current' \in [Threads -> AllRings] /\ reused' \subseteq AllRings
        /\ held' \in [Threads -> SUBSET AllRings]
    BY <1>0, <1>2 DEF TypeInv
  <2> QED
    BY <1>0, <1>2, <1>7, <1>8, <2>1, <2>2, <2>3 DEF TypeInv
<1>10. FiniteInv'
  BY <1>5 DEF FiniteInv
<1>11. RefsOwned'
  <2> SUFFICES ASSUME NEW q \in AllRings
               PROVE  refs'[q] = (IF q \in inMap THEN 1 ELSE 0)
                        + (IF q = DefaultRing /\ active THEN 1 ELSE 0)
                        + Cardinality(Owners(q)') + Cardinality(Holders(q)')
                        - borrowed'[q]
    BY <1>2 DEF RefsOwned
  <2>1. refs[q] = (IF q \in inMap THEN 1 ELSE 0)
                  + (IF q = DefaultRing /\ active THEN 1 ELSE 0)
                  + Cardinality(Owners(q)) + Cardinality(Holders(q))
                  - borrowed[q]
    BY <1>0 DEF RefsOwned
  <2> QED
    BY <1>5, <1>6, <1>7, <1>8, <2>1
<1>12. c \in inMap \cup reused \/ borrowed[c] > 0
  <2>1. c = DefaultRing \/ refs[c] > 0
    BY <1>2 DEF Exists, Usable
  <2> QED
    BY <1>0, <1>2, <1>6, <2>1 DEF MapInv
<1>13. r \in inMap \cup reused \/ borrowed[r] > 0
  <2>1. r \in held[t] => Used(r)
    BY DEF Used, Holders
  <2> QED
    BY <1>0, <1>2, <1>6, <1>12, <2>1 DEF MapInv
<1>14. MapInv'
  <2>1. \A q \in AllRings : /\ borrowed'[q] = 0 => borrowed[q] = 0
                            /\ borrowed[q] > 0 => borrowed'[q] > 0
    BY <1>6, <1>8
  <2>2. DefaultRing \in AllRings
    BY DEF AllRings
  <2>3. ASSUME dying # Null, dying \notin reused', borrowed'[dying] = 0
        PROVE  refs'[dying] = 1
    <3>1. dying \in AllRings /\ dying # c /\ dying \notin reused
      BY <1>0, <1>2, <2>3 DEF TypeInv
    <3>2. refs[dying] = 1
      BY <1>0, <2>1, <2>3, <3>1 DEF MapInv
    <3> QED
      BY <1>7, <3>1, <3>2
  <2>4. \A x \in reused' \cap inMap : x = dying \/ borrowed'[x] > 0
    <3> TAKE x \in reused' \cap inMap
    <3>1. x \in AllRings
      BY <1>0 DEF TypeInv
    <3> QED
      BY <1>0, <1>2, <2>1, <3>1 DEF MapInv
  <2>5. \A q \in AllRings :
          Used(q)' => q \in inMap \cup reused' \/ borrowed'[q] > 0
    <3> TAKE q \in AllRings
    <3>1. Used(q)' => Used(q) \/ q = r \/ q = c
      BY <1>5
    <3>2. Used(q) => q \in inMap \cup reused \/ borrowed[q] > 0
      BY <1>0 DEF MapInv
    <3>3. reused \subseteq reused'
      BY <1>2
    <3> QED
      BY <1>12, <1>13, <2>1, <3>1, <3>2, <3>3
  <2>6. DefaultRing \in reused' \cup {dying} => borrowed'[DefaultRing] > 0
    BY <1>0, <1>2, <2>1, <2>2 DEF MapInv
  <2>7. borrowed'[DefaultRing] = 0 => DefaultRing \in inMap
    BY <1>0, <1>2, <2>1, <2>2 DEF MapInv
  <2> QED
    BY <1>0, <1>2, <2>3, <2>4, <2>5, <2>6, <2>7 DEF MapInv
<1> QED
  BY <1>9, <1>10, <1>11, <1>14 DEF IInv

(* A caller gets a reference.                                              *)
LEMMA GetRingStep ==
  ASSUME IInv, NEW t \in Threads, NEW r \in AllRings, GetRing(t, r)
  PROVE  IInv'
<1>0. TypeInv /\ FiniteInv /\ RefsOwned /\ MapInv
  BY DEF IInv
<1>1. /\ active /\ r \notin held[t] /\ inMap' = inMap \cup {r}
      /\ reused' = reused \cup ({r} \cap {dying})
      /\ held' = [held EXCEPT ![t] = @ \cup {r}]
      /\ UNCHANGED <<active, dying, current, objs, borrowed>>
  BY DEF GetRing
<1>2. \A q \in AllRings :
        /\ Cardinality(Owners(q)) \in Nat /\ Cardinality(Holders(q)) \in Nat
        /\ refs[q] \in Int /\ borrowed[q] \in Nat
        /\ borrowed[q] = 0 /\ q \notin inMap \cup reused => refs[q] = 0
  BY OwnedRefs
<1>3. /\ refs' = [refs EXCEPT
                    ![r] = @ + 1 + (IF r \in inMap THEN 0 ELSE 1)]
      /\ unread' \in [AllRings -> BOOLEAN]
      /\ r \in inMap \/ (r \in Rings /\ r \notin reused /\ borrowed[r] = 0)
  <2>1. CASE r \in inMap /\ refs' = [refs EXCEPT ![r] = @ + 1]
                         /\ UNCHANGED unread
    <3>1. refs[r] + 1 = refs[r] + 1 + 0
      BY <1>2
    <3> QED
      BY <1>0, <2>1, <3>1 DEF TypeInv
  <2>2. CASE /\ r \in Rings /\ NameFree(r) /\ AddRing(r) # Null
             /\ refs' = [refs EXCEPT ![r] = AddRing(r)]
             /\ Logged(current[t], refs)
    <3>1. AddRing(r) = refs[r] + 1 + (IF r \in inMap THEN 0 ELSE 1)
      <4>1. CASE r \in inMap
        BY <1>2, <2>2, <4>1 DEF AddRing
      <4>2. CASE r \notin inMap
        <5>1. refs[r] = 0
          BY <1>2, <2>2, <4>2 DEF NameFree
        <5> QED
          BY <4>2, <5>1 DEF AddRing
      <4> QED
        BY <4>1, <4>2
    <3>2. PICK c \in AllRings : c = current[t]
      BY <1>0 DEF TypeInv
    <3>3. unread' \in [AllRings -> BOOLEAN]
      BY <1>0, <2>2, <3>2, LoggedFacts
    <3> QED
      BY <2>2, <3>1, <3>3 DEF NameFree
  <2> QED
    BY <2>1, <2>2 DEF GetRing
<1>4. /\ refs' \in [AllRings -> Int]
      /\ \A q \in AllRings : refs'[q] = refs[q]
           + (IF q = r THEN 1 + (IF r \in inMap THEN 0 ELSE 1) ELSE 0)
  <2> DEFINE d == 1 + (IF r \in inMap THEN 0 ELSE 1)
  <2>1. refs \in [AllRings -> Int] /\ d \in Int
    BY <1>0 DEF TypeInv
  <2>2. refs' = [refs EXCEPT ![r] = @ + d]
    <3>1. refs[r] \in Int
      BY <2>1
    <3>2. refs[r] + 1 + (IF r \in inMap THEN 0 ELSE 1) = refs[r] + d
      BY <3>1
    <3> HIDE DEF d
    <3> QED
      BY <1>3, <3>2
  <2> HIDE DEF d
  <2>3. /\ refs' \in [AllRings -> Int]
        /\ \A q \in AllRings : refs'[q] = refs[q] + (IF q = r THEN d ELSE 0)
    BY <2>1, <2>2, AddedAt
  <2> QED
    BY <2>3 DEF d
<1>5. \A q \in AllRings :
        /\ Owners(q)' = Owners(q) /\ IsFiniteSet(Holders(q)')
        /\ Cardinality(Holders(q)') = Cardinality(Holders(q))
             + (IF q = r THEN 1 ELSE 0)
        /\ Used(q)' => Used(q) \/ q = r
  <2> TAKE q \in AllRings
  <2>1. IsFiniteSet(Holders(q))
    BY <1>0 DEF FiniteInv
  <2>2. /\ IsFiniteSet(Holders(q)')
        /\ Cardinality(Holders(q)') = Cardinality(Holders(q))
              + (IF q = r THEN 1 ELSE 0)
        /\ Holders(q)' # {} => Holders(q) # {} \/ q = r
    BY <1>0, <1>1, <2>1, TakeHolders
  <2>3. Owners(q)' = Owners(q)
    BY <1>1 DEF Owners
  <2> QED
    BY <2>2, <2>3 DEF Used
<1>6. TypeInv'
  <2>1. held' \in [Threads -> SUBSET AllRings] /\ reused' \subseteq AllRings
    BY <1>0, <1>1 DEF TypeInv
  <2> QED
    BY <1>0, <1>1, <1>3, <1>4, <2>1 DEF TypeInv
<1>7. FiniteInv'
  BY <1>0, <1>5 DEF FiniteInv
<1>8. RefsOwned'
  <2> SUFFICES ASSUME NEW q \in AllRings
               PROVE  refs'[q] = (IF q \in inMap' THEN 1 ELSE 0)
                        + (IF q = DefaultRing /\ active THEN 1 ELSE 0)
                        + Cardinality(Owners(q)) + Cardinality(Holders(q)')
                        - borrowed[q]
    BY <1>1, <1>5 DEF RefsOwned
  <2>1. refs[q] = (IF q \in inMap THEN 1 ELSE 0)
                  + (IF q = DefaultRing /\ active THEN 1 ELSE 0)
                  + Cardinality(Owners(q)) + Cardinality(Holders(q))
                  - borrowed[q]
    BY <1>0 DEF RefsOwned
  <2>2. q \in inMap' <=> q \in inMap \/ q = r
    BY <1>1
  <2> QED
    BY <1>2, <1>4, <1>5, <2>1, <2>2
<1>9. MapInv'
  <2>1. ASSUME dying # Null, dying \notin reused', borrowed[dying] = 0
        PROVE  refs'[dying] = 1
    <3>1. dying \in AllRings /\ dying # r /\ refs[dying] = 1
      BY <1>0, <1>1, <2>1 DEF MapInv, TypeInv
    <3> QED
      BY <1>4, <3>1
  <2>2. \A x \in reused' \cap inMap' : x = dying \/ borrowed[x] > 0
    BY <1>0, <1>1, <1>3 DEF MapInv
  <2>3. \A q \in AllRings :
          Used(q)' => q \in inMap' \cup reused' \/ borrowed[q] > 0
    BY <1>0, <1>1, <1>5 DEF MapInv
  <2>4. DefaultRing \in reused' \cup {dying} => borrowed[DefaultRing] > 0
    BY <1>0, <1>1 DEF MapInv
  <2>5. /\ borrowed[DefaultRing] = 0 => DefaultRing \in inMap'
        /\ active' /\ (dying # Null => dying \in inMap')
    BY <1>0, <1>1 DEF MapInv
  <2> QED
    BY <1>1, <2>1, <2>2, <2>3, <2>4, <2>5 DEF MapInv
<1> QED
  BY <1>6, <1>7, <1>8, <1>9 DEF IInv

(* A caller drops it.                                                      *)
LEMMA ReleaseRingStep ==
  ASSUME IInv, NEW t \in Threads, NEW r \in AllRings, ReleaseRing(t, r)
  PROVE  IInv'
<1>0. TypeInv /\ FiniteInv /\ RefsOwned /\ MapInv
  BY DEF IInv
<1>1. /\ r \in held[t] /\ refs' = [refs EXCEPT ![r] = @ - 1]
      /\ held' = [held EXCEPT ![t] = @ \ {r}]
      /\ UNCHANGED <<active, inMap, unread, dying, reused, current, objs,
                     borrowed>>
  BY DEF ReleaseRing
<1>2. \A q \in AllRings :
        /\ Cardinality(Owners(q)) \in Nat /\ Cardinality(Holders(q)) \in Nat
        /\ refs[q] \in Int /\ borrowed[q] \in Nat
  BY OwnedRefs
<1>3. /\ refs' \in [AllRings -> Int]
      /\ \A q \in AllRings : refs'[q] = refs[q] - (IF q = r THEN 1 ELSE 0)
  <2>1. refs \in [AllRings -> Int] /\ -1 \in Int
    BY <1>0 DEF TypeInv
  <2>2. refs' = [refs EXCEPT ![r] = @ + (-1)]
    BY <1>1, <1>2, <2>1
  <2>3. /\ refs' \in [AllRings -> Int]
        /\ \A q \in AllRings : refs'[q] = refs[q] + (IF q = r THEN -1 ELSE 0)
    BY <2>1, <2>2, AddedAt
  <2> QED
    BY <1>2, <2>3
<1>4. \A q \in AllRings :
        /\ Owners(q)' = Owners(q) /\ IsFiniteSet(Holders(q)')
        /\ Cardinality(Holders(q)') = Cardinality(Holders(q))
             - (IF q = r THEN 1 ELSE 0)
        /\ Used(q)' => Used(q)
  <2> TAKE q \in AllRings
  <2>1. IsFiniteSet(Holders(q))
    BY <1>0 DEF FiniteInv
  <2>2. /\ IsFiniteSet(Holders(q)')
        /\ Cardinality(Holders(q)') = Cardinality(Holders(q))
              - (IF q = r /\ r \in held[t] THEN 1 ELSE 0)
        /\ Holders(q)' # {} => Holders(q) # {}
    BY <1>0, <1>1, <2>1, DropHolders
  <2>3. Owners(q)' = Owners(q)
    BY <1>1 DEF Owners
  <2> QED
    BY <1>1, <2>2, <2>3 DEF Used
<1>5. TypeInv'
  <2>1. held' \in [Threads -> SUBSET AllRings]
    BY <1>0, <1>1 DEF TypeInv
  <2> QED
    BY <1>0, <1>1, <1>3, <2>1 DEF TypeInv
<1>6. FiniteInv'
  BY <1>0, <1>4 DEF FiniteInv
<1>7. RefsOwned'
  <2> SUFFICES ASSUME NEW q \in AllRings
               PROVE  refs'[q] = (IF q \in inMap THEN 1 ELSE 0)
                        + (IF q = DefaultRing /\ active THEN 1 ELSE 0)
                        + Cardinality(Owners(q)) + Cardinality(Holders(q)')
                        - borrowed[q]
    BY <1>1, <1>4 DEF RefsOwned
  <2>1. refs[q] = (IF q \in inMap THEN 1 ELSE 0)
                  + (IF q = DefaultRing /\ active THEN 1 ELSE 0)
                  + Cardinality(Owners(q)) + Cardinality(Holders(q))
                  - borrowed[q]
    BY <1>0 DEF RefsOwned
  <2> QED
    BY <1>2, <1>3, <1>4, <2>1
<1>8. MapInv'
  <2>1. ASSUME dying # Null, dying \notin reused, borrowed[dying] = 0
        PROVE  refs'[dying] = 1
    <3>1. dying \in AllRings /\ ~Used(dying) /\ refs[dying] = 1
      BY <1>0, <2>1, DyingUnowned DEF MapInv
    <3>2. t \in Holders(r)
      BY <1>1 DEF Holders
    <3>3. dying # r
      BY <3>1, <3>2 DEF Used
    <3> QED
      BY <1>3, <3>1, <3>3
  <2> QED
    BY <1>0, <1>1, <1>4, <2>1 DEF MapInv
<1> QED
  BY <1>5, <1>6, <1>7, <1>8 DEF IInv

(* The engine finds an orphan, and kills it or leaves it alone.            *)
LEMMA OrphanStep ==
  ASSUME IInv, KillOrphan \/ \E r \in AllRings : FindOrphan(r)
  PROVE  IInv'
<1> USE DEF threadVars
<1>0. TypeInv /\ FiniteInv /\ RefsOwned /\ MapInv
  BY DEF IInv
<1>1. UNCHANGED <<active, unread, current, objs, held, borrowed>>
  BY DEF KillOrphan, FindOrphan
<1>2. \A q \in AllRings : /\ Owners(q)' = Owners(q)
                          /\ Holders(q)' = Holders(q)
                          /\ Used(q)' = Used(q)
  BY <1>1 DEF Owners, Holders, Used
<1>3. FiniteInv'
  BY <1>0, <1>2 DEF FiniteInv
<1>4. ASSUME NEW r \in AllRings, FindOrphan(r)
      PROVE  IInv'
  <2>1. /\ active /\ dying = Null /\ r \in inMap /\ refs[r] = 1 /\ dying' = r
        /\ UNCHANGED <<inMap, refs, reused>>
    BY <1>4 DEF FindOrphan, Orphan
  <2>2. r = DefaultRing => borrowed[r] > 0
    <3>1. ASSUME r = DefaultRing PROVE borrowed[r] > 0
      <4>1. refs[r] = 1 + 1 + Cardinality(Owners(r)) + Cardinality(Holders(r))
                      - borrowed[r]
        BY <1>0, <2>1, <3>1 DEF RefsOwned
      <4>2. /\ Cardinality(Owners(r)) \in Nat /\ Cardinality(Holders(r)) \in Nat
            /\ borrowed[r] \in Nat
        BY OwnedRefs
      <4> QED
        BY <2>1, <4>1, <4>2
    <3> QED
      BY <3>1
  <2>3. TypeInv'
    BY <1>0, <1>1, <2>1 DEF TypeInv
  <2>4. RefsOwned'
    BY <1>0, <1>1, <1>2, <2>1 DEF RefsOwned
  <2>5. \A x \in reused \cap inMap : borrowed[x] > 0
    <3>1. Null \notin inMap
      BY <1>0, RingsAssumption DEF TypeInv
    <3> QED
      BY <1>0, <2>1, <3>1 DEF MapInv
  <2>6. MapInv'
    BY <1>0, <1>1, <1>2, <2>1, <2>2, <2>5 DEF MapInv
  <2> QED
    BY <1>3, <2>3, <2>4, <2>6 DEF IInv
<1>5. CASE /\ KillOrphan /\ reused' = reused \ {dying}
           /\ UNCHANGED <<inMap, refs, lost>>
  <2>1. dying # Null /\ dying' = Null
    BY <1>5 DEF KillOrphan
  <2>2. dying \in inMap
    BY <1>0, <2>1 DEF MapInv
  <2>3. TypeInv'
    BY <1>0, <1>1, <1>5, <2>1 DEF TypeInv
  <2>4. RefsOwned'
    BY <1>0, <1>1, <1>2, <1>5 DEF RefsOwned
  <2>5. DefaultRing # Null
    BY RingsAssumption DEF AllRings
  <2>6. MapInv'
    BY <1>0, <1>1, <1>2, <1>5, <2>1, <2>2, <2>5 DEF MapInv
  <2> QED
    BY <1>3, <2>3, <2>4, <2>6 DEF IInv
<1>6. CASE /\ KillOrphan /\ inMap' = inMap \ {dying}
           /\ refs' = [refs EXCEPT ![dying] = @ - 1] /\ reused' = reused
  <2>1. dying # Null /\ dying' = Null
    BY <1>6 DEF KillOrphan
  <2>2. PICK d \in AllRings : d = dying
    BY <1>0, <2>1 DEF TypeInv
  <2>3. d \in inMap /\ (d = DefaultRing => borrowed[DefaultRing] > 0)
    BY <1>0, <2>1, <2>2 DEF MapInv
  <2>4. /\ refs' \in [AllRings -> Int]
        /\ \A q \in AllRings :
             refs'[q] = refs[q] - (IF q = d THEN 1 ELSE 0)
    <3>1. refs \in [AllRings -> Int]
      BY <1>0 DEF TypeInv
    <3>2. refs' = [refs EXCEPT ![d] = @ - 1]
      BY <1>6, <2>2
    <3> QED
      BY <3>1, <3>2
  <2>5. TypeInv'
    BY <1>0, <1>1, <1>6, <2>1, <2>4 DEF TypeInv
  <2>6. RefsOwned'
    <3> SUFFICES ASSUME NEW q \in AllRings
                 PROVE  refs'[q] = (IF q \in inMap' THEN 1 ELSE 0)
                          + (IF q = DefaultRing /\ active THEN 1 ELSE 0)
                          + Cardinality(Owners(q)) + Cardinality(Holders(q))
                          - borrowed[q]
      BY <1>1, <1>2 DEF RefsOwned
    <3>1. refs[q] = (IF q \in inMap THEN 1 ELSE 0)
                    + (IF q = DefaultRing /\ active THEN 1 ELSE 0)
                    + Cardinality(Owners(q)) + Cardinality(Holders(q))
                    - borrowed[q]
      BY <1>0 DEF RefsOwned
    <3>2. /\ Cardinality(Owners(q)) \in Nat /\ Cardinality(Holders(q)) \in Nat
          /\ refs[q] \in Int /\ borrowed[q] \in Nat
      BY OwnedRefs
    <3>3. q \in inMap' <=> q \in inMap /\ q # d
      BY <1>6, <2>2
    <3> QED
      BY <2>3, <2>4, <3>1, <3>2, <3>3
  <2>7. d \notin reused /\ borrowed[d] = 0 => ~Used(d)
    BY <2>1, <2>2, DyingUnowned
  <2>8. MapInv'
    <3>1. \A x \in reused' \cap inMap' : borrowed[x] > 0
      BY <1>0, <1>6 DEF MapInv
    <3>2. \A q \in AllRings :
            Used(q)' => q \in inMap' \cup reused' \/ borrowed[q] > 0
      <4> TAKE q \in AllRings
      <4>1. borrowed[q] \in Nat
        BY OwnedRefs
      <4> QED
        BY <1>0, <1>2, <1>6, <2>2, <2>7, <4>1 DEF MapInv
    <3>3. active
      BY <1>0, <2>1 DEF MapInv, TypeInv
    <3>4. DefaultRing # Null /\ borrowed[DefaultRing] \in Nat
      BY OwnedRefs, RingsAssumption DEF AllRings
    <3> QED
      BY <1>0, <1>1, <1>6, <2>1, <2>2, <2>3, <3>1, <3>2, <3>3, <3>4 DEF MapInv
  <2> QED
    BY <1>3, <2>5, <2>6, <2>8 DEF IInv
<1> QED
  BY <1>4, <1>5, <1>6 DEF KillOrphan

(* The default engine comes and goes.                                      *)
LEMMA ActivationStep ==
  ASSUME IInv, Activate \/ Deactivate
  PROVE  IInv'
<1> USE DEF threadVars
<1>0. TypeInv /\ FiniteInv /\ RefsOwned /\ MapInv
  BY DEF IInv
<1>1. UNCHANGED <<dying, reused, current, objs, held, borrowed>> /\ dying = Null
  BY <1>0 DEF Activate, Deactivate, MapInv
<1>2. \A q \in AllRings : /\ Owners(q)' = Owners(q) /\ Owners(q) = {}
                          /\ Holders(q)' = Holders(q)
                          /\ Used(q)' = Used(q)
  <2>1. \A t \in Threads : objs[t] = <<>>
    BY <1>0 DEF Activate, Deactivate, MapInv
  <2>2. \A t \in Threads : DOMAIN objs[t] = {}
    BY <2>1, EmptyDomain
  <2> QED
    BY <1>1, <2>2, OwnersMeaning DEF Owners, Holders, Used
<1>3. FiniteInv'
  BY <1>0, <1>2 DEF FiniteInv
<1>4. \A q \in AllRings :
        /\ Cardinality(Owners(q)) \in Nat /\ Cardinality(Holders(q)) \in Nat
        /\ refs[q] \in Int /\ borrowed[q] \in Nat
        /\ refs[q] = (IF q \in inMap THEN 1 ELSE 0)
                     + (IF q = DefaultRing /\ active THEN 1 ELSE 0)
                     + Cardinality(Owners(q)) + Cardinality(Holders(q))
                     - borrowed[q]
  BY <1>0, OwnedRefs DEF RefsOwned
<1>5. CASE Activate
  <2>1. /\ ~active /\ active' = TRUE /\ inMap' = {DefaultRing}
        /\ refs' = [refs EXCEPT ![DefaultRing] = @ + 2]
        /\ inMap = {}
    BY <1>0, <1>5 DEF Activate, MapInv
  <2>2. DefaultRing \in AllRings
    BY DEF AllRings
  <2>3. unread' \in [AllRings -> BOOLEAN]
    <3>1. Logged(DefaultRing, refs')
      BY <1>5 DEF Activate
    <3> QED
      BY <1>0, <2>2, <3>1, LoggedFacts
  <2>4. /\ refs' \in [AllRings -> Int]
        /\ \A q \in AllRings :
             refs'[q] = IF q = DefaultRing THEN refs[q] + 2 ELSE refs[q]
    <3>1. refs \in [AllRings -> Int]
      BY <1>0 DEF TypeInv
    <3> QED
      BY <2>1, <2>2, <3>1
  <2>5. TypeInv'
    BY <1>0, <1>1, <2>1, <2>2, <2>3, <2>4 DEF TypeInv
  <2>6. RefsOwned'
    <3> SUFFICES ASSUME NEW q \in AllRings
                 PROVE  refs'[q] = (IF q \in inMap' THEN 1 ELSE 0)
                          + (IF q = DefaultRing /\ active' THEN 1 ELSE 0)
                          + Cardinality(Owners(q)) + Cardinality(Holders(q))
                          - borrowed[q]
      BY <1>1, <1>2 DEF RefsOwned
    <3> QED
      BY <1>4, <2>1, <2>4
  <2>7. MapInv'
    BY <1>0, <1>1, <1>2, <2>1 DEF MapInv
  <2> QED
    BY <1>3, <2>5, <2>6, <2>7 DEF IInv
<1>6. CASE Deactivate
  <2>1. /\ active /\ active' = FALSE /\ inMap' = {}
        /\ refs' = [r \in AllRings |->
                      refs[r] - (IF r = DefaultRing THEN 1 ELSE 0)
                              - (IF r \in inMap THEN 1 ELSE 0)]
        /\ unread' = [r \in AllRings |-> unread[r] /\ r \notin inMap]
        /\ \A t \in Threads : objs[t] = <<>> /\ held[t] \cap inMap = {}
    BY <1>6 DEF Deactivate
  <2>2. /\ refs' \in [AllRings -> Int]
        /\ \A q \in AllRings :
             refs'[q] = refs[q] - (IF q = DefaultRing THEN 1 ELSE 0)
                                - (IF q \in inMap THEN 1 ELSE 0)
    BY <1>4, <2>1
  <2>3. TypeInv'
    BY <1>0, <1>1, <2>1, <2>2 DEF TypeInv
  <2>4. RefsOwned'
    <3> SUFFICES ASSUME NEW q \in AllRings
                 PROVE  refs'[q] = (IF q \in inMap' THEN 1 ELSE 0)
                          + (IF q = DefaultRing /\ active' THEN 1 ELSE 0)
                          + Cardinality(Owners(q)) + Cardinality(Holders(q))
                          - borrowed[q]
      BY <1>1, <1>2 DEF RefsOwned
    <3> QED
      BY <1>4, <2>1, <2>2
  <2>5. \A q \in AllRings : Used(q) => q \notin inMap
    BY <1>2, <2>1 DEF Used, Holders
  <2>6. MapInv'
    BY <1>0, <1>1, <1>2, <2>1, <2>5 DEF MapInv
  <2> QED
    BY <1>3, <2>3, <2>4, <2>6 DEF IInv
<1> QED
  BY <1>5, <1>6

(* The invariant holds initially.                                          *)
LEMMA IInvInit == Init => IInv
<1> SUFFICES ASSUME Init PROVE IInv
  OBVIOUS
<1> USE DEF Init, TlsInit
<1>1. \A q \in AllRings : Owners(q) = {} /\ Holders(q) = {} /\ ~Used(q)
  <2>1. \A t \in Threads : DOMAIN objs[t] = {} /\ held[t] = {}
    BY EmptyDomain
  <2> QED
    BY <2>1, OwnersMeaning DEF Holders, Used
<1>2. TypeInv
  <2>1. objs \in [Threads -> Seq(Object)]
    <3>1. <<>> \in Seq(Object)
      OBVIOUS
    <3> QED
      BY <3>1
  <2>2. refs \in [AllRings -> Int] /\ unread \in [AllRings -> BOOLEAN]
    OBVIOUS
  <2>3. /\ current \in [Threads -> AllRings]
        /\ held \in [Threads -> SUBSET AllRings]
        /\ borrowed \in [AllRings -> Nat]
    BY DEF AllRings
  <2> QED
    BY <2>1, <2>2, <2>3 DEF TypeInv
<1>3. FiniteInv /\ RefsOwned
  <2>1. \A q \in AllRings :
          /\ IsFiniteSet(Owners(q)) /\ Cardinality(Owners(q)) = 0
          /\ IsFiniteSet(Holders(q)) /\ Cardinality(Holders(q)) = 0
    BY <1>1, FS_EmptySet
  <2>2. \A q \in AllRings : refs[q] = 0 /\ borrowed[q] = 0
    OBVIOUS
  <2>3. ~active /\ inMap = {}
    OBVIOUS
  <2>4. \A q \in AllRings :
          refs[q] = 0 + 0 + Cardinality(Owners(q)) + Cardinality(Holders(q))
                    - borrowed[q]
    BY <2>1, <2>2
  <2>5. RefsOwned
    BY <2>3, <2>4 DEF RefsOwned
  <2> QED
    BY <2>1, <2>5 DEF FiniteInv
<1>4. MapInv
  <2>1. DefaultRing # Null
    BY RingsAssumption DEF AllRings
  <2> QED
    BY <1>1, <2>1 DEF MapInv
<1> QED
  BY <1>2, <1>3, <1>4 DEF IInv

-----------------------------------------------------------------------------
(* The steps of FrontEnd, as far as they concern the thread local state    *)

(* A thread posts, or the library does on its behalf.                      *)
Posted(t) ==
  /\ unread' \in [AllRings -> BOOLEAN]
  /\ \A q \in AllRings :
       unread'[q] => unread[q] \/ q \in held[t] \cup {current[t]}
  /\ UNCHANGED <<active, inMap, refs, lost, dying, reused, threadVars>>

TlsStep ==
  \/ UNCHANGED tlsVars
  \/ \E t \in Threads : Posted(t) \/ TlsCall(t)
  \/ TlsEngineStep
  \/ Activate
  \/ Deactivate

(* Every step of FrontEnd is one of these.                                 *)
LEMMA TlsSteps ==
  ASSUME TypeInv, [Next]_vars
  PROVE  TlsStep
<1>1. ASSUME NEW t \in Threads,
             Logged(current[t], refs) \/ UNCHANGED unread,
             UNCHANGED <<active, inMap, refs, lost, dying, reused, threadVars>>
      PROVE  Posted(t)
  <2>1. PICK c \in AllRings : c = current[t]
    BY DEF TypeInv
  <2>2. CASE UNCHANGED unread
    BY <1>1, <2>2 DEF Posted, TypeInv
  <2>3. CASE Logged(current[t], refs)
    <3>1. Logged(c, refs)
      BY <2>1, <2>3
    <3>2. /\ unread' \in [AllRings -> BOOLEAN]
          /\ \A q \in AllRings : unread'[q] => unread[q] \/ q = c
      BY <3>1, LoggedFacts
    <3> QED
      BY <1>1, <2>1, <3>2 DEF Posted
  <2> QED
    BY <1>1, <2>2, <2>3
<1>2. CASE UNCHANGED vars
  BY <1>2 DEF vars, TlsStep
<1>3. ASSUME NEW t \in Threads, Call(t) PROVE TlsStep
  <2>1. CASE UNCHANGED tlsVars \/ TlsCall(t)
    BY <2>1 DEF TlsStep
  <2>2. CASE RefuseArea(t)
    BY <1>1, <2>2 DEF RefuseArea, TlsStep
  <2> QED
    BY <1>3, <2>1, <2>2 DEF Call
<1>4. ASSUME NEW t \in Threads, Post(t) PROVE TlsStep
  <2>1. PICK r \in AllRings : PostToRing(t, r)
    BY <1>4 DEF Post
  <2>2. /\ unread' = [unread EXCEPT ![r] = TRUE]
        /\ r \in held[t] \cup {current[t]}
        /\ UNCHANGED <<active, inMap, refs, lost, dying, reused, threadVars>>
    BY <2>1 DEF PostToRing
  <2>3. Posted(t)
    BY <2>2 DEF Posted, TypeInv
  <2> QED
    BY <2>3 DEF TlsStep
<1>5. ASSUME NEW t \in Threads, AreaLog(t) PROVE TlsStep
  <2>1. Logged(current[t], refs) \/ UNCHANGED unread
    BY <1>5 DEF AreaLog
  <2>2. UNCHANGED <<active, inMap, refs, lost, dying, reused, threadVars>>
    BY <1>5 DEF AreaLog
  <2> QED
    BY <1>1, <2>1, <2>2 DEF TlsStep
<1>6. CASE Startup \/ Shutdown \/ TlsEngineStep
  BY <1>6 DEF Startup, Shutdown, TlsStep
<1> QED
  BY <1>2, <1>3, <1>4, <1>5, <1>6 DEF Next

(* The invariant is kept by every step.                                    *)
LEMMA IInvStep == IInv /\ [Next]_vars => IInv'
<1> SUFFICES ASSUME IInv, [Next]_vars PROVE IInv'
  OBVIOUS
<1>0. TypeInv /\ TlsStep
  BY TlsSteps DEF IInv
<1>1. CASE UNCHANGED tlsVars
  <2>1. unread' \in [AllRings -> BOOLEAN]
    BY <1>0, <1>1 DEF tlsVars, TypeInv
  <2> QED
    BY <1>1, <2>1, UnreadStep DEF tlsVars
<1>2. ASSUME NEW t \in Threads, Posted(t) PROVE IInv'
  BY <1>2, UnreadStep DEF Posted
<1>3. ASSUME NEW t \in Threads, NEW r \in Rings, NewTls(t, r) PROVE IInv'
  <2>1. unread' \in [AllRings -> BOOLEAN]
    <3>1. PICK c \in AllRings : c = current[t]
      BY <1>0 DEF TypeInv
    <3>2. Logged(c, refs)
      BY <1>3, <3>1 DEF NewTls
    <3> QED
      BY <1>0, <3>2, LoggedFacts
  <2>2. CASE AddRing(r) = Null
    <3>1. /\ active
          /\ UNCHANGED <<active, inMap, refs, dying, reused, current, held,
                         borrowed>>
          /\ objs' = [objs EXCEPT ![t] =
                        Append(@, [ring |-> Null, previous |-> Null])]
      BY <1>3, <2>2 DEF NewTls
    <3> QED
      BY <2>1, <3>1, NullObjectStep
  <2>3. CASE AddRing(r) # Null
    <3>1. /\ active /\ Exists(current[t]) /\ NameFree(r)
          /\ Update(t, r, [refs EXCEPT ![r] = AddRing(r)])
          /\ inMap' = inMap \cup {r}
          /\ reused' = reused \cup ({r, current[t]} \cap {dying})
          /\ UNCHANGED <<active, dying, held, borrowed>>
      BY <1>3, <2>3 DEF NewTls
    <3> QED
      BY <2>1, <2>3, <3>1, NewObjectStep
  <2> QED
    BY <2>2, <2>3
<1>4. ASSUME NEW t \in Threads, NEW i \in DOMAIN objs[t], DeleteTls(t, i)
      PROVE  IInv'
  <2>1. CASE objs[t][i].ring = Null
    <3>1. /\ active /\ Logged(current[t], refs)
          /\ UNCHANGED <<active, inMap, refs, dying, reused, current, held,
                         borrowed>>
          /\ objs' = [objs EXCEPT ![t] = RemoveAt(@, i)]
      BY <1>4, <2>1 DEF DeleteTls
    <3>2. unread' \in [AllRings -> BOOLEAN]
      <4>1. PICK c \in AllRings : c = current[t]
        BY <1>0 DEF TypeInv
      <4> QED
        BY <1>0, <3>1, <4>1, LoggedFacts
    <3> QED
      BY <2>1, <3>1, <3>2, NullObjectStep
  <2>2. CASE objs[t][i].ring # Null
    BY <1>4, <2>2, DeleteObjectStep
  <2> QED
    BY <2>1, <2>2
<1>5. ASSUME NEW r \in AllRings, Drain(r) PROVE IInv'
  <2>1. /\ unread' \in [AllRings -> BOOLEAN]
        /\ UNCHANGED <<active, inMap, refs, lost, dying, reused, threadVars>>
    BY <1>0, <1>5 DEF Drain, TypeInv
  <2> QED
    BY <2>1, UnreadStep
<1> QED
  BY <1>0, <1>1, <1>2, <1>3, <1>4, <1>5, OrphanStep, ActivationStep,
     GetRingStep, ReleaseRingStep, RingObjectStep
  DEF TlsStep, TlsCall, TlsEngineStep

(* Every reference of a ring has one owner, whatever threads do with tls   *)
(* objects and with references that they got themselves, in whatever order *)
(* they destroy and drop them, and also when a ring is taken up while the  *)
(* engine is about to kill it. Only a tls object that was given a ring     *)
(* without a reference leaves the count one short.                         *)
THEOREM RefsOwnedHolds == Spec => []RefsOwned
<1>1. IInv => RefsOwned
  BY DEF IInv
<1> QED
  BY <1>1, IInvInit, IInvStep, PTL DEF Spec

-----------------------------------------------------------------------------
(* The second layer: threads that destroy their objects in reverse order   *)

(* The ring r was current before the n-th object of a thread was made: it  *)
(* is the ring of the last valid object in front of that one.              *)
IsBefore(q, n, r) ==
  \/ r = DefaultRing /\ \A i \in 1 .. n - 1 : q[i].ring = Null
  \/ \E j \in 1 .. n - 1 :
       /\ q[j].ring = r /\ r # Null
       /\ \A i \in j + 1 .. n - 1 : q[i].ring = Null

(* Every valid object holds what was current before it.                    *)
Chain(q, c) ==
  /\ IsBefore(q, Len(q) + 1, c)
  /\ \A n \in 1 .. Len(q) :
       q[n].ring # Null => IsBefore(q, n, q[n].previous)

ChainInv == \A t \in Threads \ unordered : Chain(objs[t], current[t])

(* A ring that is going to be killed is empty, and those that were deleted *)
(* with records in them do not come back.                                  *)
LostInv ==
  /\ lost \subseteq AllRings
  /\ unordered = {} =>
       /\ dying # Null /\ dying \notin reused /\ borrowed[dying] = 0
            => ~unread[dying]
       /\ \A x \in lost : (x \in reused /\ x \notin inMap) \/ borrowed[x] > 0

OrderInv == ChainInv /\ LostInv

-----------------------------------------------------------------------------
(* Chains                                                                  *)

(* A thread without objects has the default ring.                          *)
LEMMA ChainEmpty == Chain(<<>>, DefaultRing)
<1>1. Len(<<>>) = 0
  OBVIOUS
<1>2. \A i \in Int : i \notin 1 .. 0
  OBVIOUS
<1> QED
  BY <1>1, <1>2 DEF Chain, IsBefore

(* What is in front of the n-th object depends on nothing else.            *)
LEMMA SameBefore ==
  ASSUME NEW q, NEW p, NEW n \in Int, NEW r,
         \A i \in 1 .. n - 1 : p[i] = q[i], IsBefore(q, n, r)
  PROVE  IsBefore(p, n, r)
<1>1. CASE r = DefaultRing /\ \A i \in 1 .. n - 1 : q[i].ring = Null
  BY <1>1 DEF IsBefore
<1>2. CASE \E j \in 1 .. n - 1 :
             /\ q[j].ring = r /\ r # Null
             /\ \A i \in j + 1 .. n - 1 : q[i].ring = Null
  <2>1. PICK j \in 1 .. n - 1 :
             /\ q[j].ring = r /\ r # Null
             /\ \A i \in j + 1 .. n - 1 : q[i].ring = Null
    BY <1>2
  <2>2. \A i \in j + 1 .. n - 1 : i \in 1 .. n - 1
    OBVIOUS
  <2>3. p[j].ring = r /\ \A i \in j + 1 .. n - 1 : p[i].ring = Null
    BY <2>1, <2>2
  <2> QED
    BY <2>1, <2>3 DEF IsBefore
<1> QED
  BY <1>1, <1>2 DEF IsBefore

(* Objects without a ring make no difference.                              *)
LEMMA NullsBefore ==
  ASSUME NEW q, NEW m \in Nat, NEW n \in Nat, m <= n, NEW r,
         \A i \in m .. n - 1 : q[i].ring = Null, IsBefore(q, m, r)
  PROVE  IsBefore(q, n, r)
<1>1. CASE r = DefaultRing /\ \A i \in 1 .. m - 1 : q[i].ring = Null
  <2>1. \A i \in 1 .. n - 1 : i \in 1 .. m - 1 \/ i \in m .. n - 1
    OBVIOUS
  <2> QED
    BY <1>1, <2>1 DEF IsBefore
<1>2. CASE \E j \in 1 .. m - 1 :
             /\ q[j].ring = r /\ r # Null
             /\ \A i \in j + 1 .. m - 1 : q[i].ring = Null
  <2>1. PICK j \in 1 .. m - 1 :
             /\ q[j].ring = r /\ r # Null
             /\ \A i \in j + 1 .. m - 1 : q[i].ring = Null
    BY <1>2
  <2>2. j \in 1 .. n - 1
    OBVIOUS
  <2>3. \A i \in j + 1 .. n - 1 : i \in j + 1 .. m - 1 \/ i \in m .. n - 1
    OBVIOUS
  <2> QED
    BY <2>1, <2>2, <2>3 DEF IsBefore
<1> QED
  BY <1>1, <1>2 DEF IsBefore

(* A new object at the end.                                                *)
LEMMA ChainAppend ==
  ASSUME NEW q \in Seq(Object), NEW o \in Object, NEW c, Chain(q, c),
         NEW d, IsBefore(Append(q, o), Len(q) + 2, d),
         o.ring # Null => o.previous = c
  PROVE  Chain(Append(q, o), d)
<1>1. PICK p \in Seq(Object) : p = Append(q, o)
  BY AppendProperties
<1>2. PICK n \in Nat : n = Len(q)
  OBVIOUS
<1>3. Len(p) = n + 1 /\ p[n + 1] = o /\ \A i \in 1 .. n : p[i] = q[i]
  BY <1>1, <1>2
<1>4. IsBefore(p, Len(p) + 1, d)
  <2>1. Len(p) + 1 = n + 2
    BY <1>3
  <2> QED
    BY <1>1, <1>2, <2>1
<1>5. ASSUME NEW k \in 1 .. n + 1, p[k].ring # Null
      PROVE  IsBefore(p, k, p[k].previous)
  <2>1. \A i \in 1 .. k - 1 : i \in 1 .. n
    OBVIOUS
  <2>2. \A i \in 1 .. k - 1 : p[i] = q[i]
    BY <1>3, <2>1
  <2>3. CASE k = n + 1
    <3>1. IsBefore(q, k, c)
      BY <1>2, <2>3 DEF Chain
    <3>2. p[k].previous = c
      BY <1>3, <1>5, <2>3
    <3> QED
      BY <2>2, <3>1, <3>2, SameBefore
  <2>4. CASE k # n + 1
    <3>1. k \in 1 .. n
      BY <2>4
    <3>2. p[k] = q[k]
      BY <1>3, <3>1
    <3>3. IsBefore(q, k, q[k].previous)
      BY <1>2, <1>5, <3>1, <3>2 DEF Chain
    <3> QED
      BY <2>2, <3>2, <3>3, SameBefore
  <2> QED
    BY <2>3, <2>4
<1> QED
  BY <1>1, <1>3, <1>4, <1>5 DEF Chain

(* The new object is valid: its ring is current, and it holds what was.    *)
LEMMA ChainPush ==
  ASSUME NEW q \in Seq(Object), NEW o \in Object, NEW c, Chain(q, c),
         o.ring # Null, o.previous = c
  PROVE  Chain(Append(q, o), o.ring)
<1>1. PICK n \in Nat : n = Len(q)
  OBVIOUS
<1>2. Append(q, o)[n + 1] = o
  BY <1>1
<1>3. n + 1 \in 1 .. (n + 2) - 1 /\ \A i \in Int : i \notin n + 2 .. (n + 2) - 1
  OBVIOUS
<1>4. (n + 1) + 1 = n + 2
  OBVIOUS
<1>5. \A i \in (n + 1) + 1 .. (n + 2) - 1 : Append(q, o)[i].ring = Null
  BY <1>3, <1>4
<1>6. IsBefore(Append(q, o), n + 2, o.ring)
  BY <1>2, <1>3, <1>5 DEF IsBefore
<1> QED
  BY <1>1, <1>6, ChainAppend

(* The new object is not valid.                                            *)
LEMMA ChainNull ==
  ASSUME NEW q \in Seq(Object), NEW o \in Object, NEW c, Chain(q, c),
         o.ring = Null
  PROVE  Chain(Append(q, o), c)
<1>1. PICK p \in Seq(Object) : p = Append(q, o)
  BY AppendProperties
<1>2. PICK n \in Nat : n = Len(q)
  OBVIOUS
<1>3. p[n + 1] = o /\ \A i \in 1 .. n : p[i] = q[i]
  BY <1>1, <1>2
<1>4. IsBefore(p, n + 1, c)
  <2>1. IsBefore(q, n + 1, c)
    BY <1>2 DEF Chain
  <2>2. \A i \in 1 .. (n + 1) - 1 : p[i] = q[i]
    BY <1>3
  <2> QED
    BY <2>1, <2>2, SameBefore
<1>5. \A i \in n + 1 .. (n + 2) - 1 : p[i].ring = Null
  <2>1. \A i \in n + 1 .. (n + 2) - 1 : i = n + 1
    OBVIOUS
  <2> QED
    BY <1>3, <2>1
<1>6. IsBefore(p, n + 2, c)
  <2>1. n + 1 <= n + 2 /\ n + 1 \in Nat /\ n + 2 \in Nat
    OBVIOUS
  <2> QED
    BY <1>4, <1>5, <2>1, NullsBefore
<1> QED
  BY <1>1, <1>2, <1>6, ChainAppend

(* What is in front of the n-th object when an object without a ring is    *)
(* deleted there.                                                          *)
LEMMA DropBefore ==
  ASSUME NEW q \in Seq(Object), NEW i \in 1 .. Len(q), q[i].ring = Null,
         NEW n \in i + 1 .. Len(q) + 1, NEW r, IsBefore(q, n, r)
  PROVE  IsBefore(RemoveAt(q, i), n - 1, r)
<1>1. PICK p \in Seq(Object) : p = RemoveAt(q, i)
  BY RemoveAtFacts
<1>2. PICK m \in Nat : m = Len(q)
  OBVIOUS
<1>3. \A k \in 1 .. m - 1 : p[k] = IF k < i THEN q[k] ELSE q[k + 1]
  BY <1>1, <1>2, RemoveAtFacts
<1>4. i \in 1 .. m /\ n \in i + 1 .. m + 1
  BY <1>2
<1>5. CASE r = DefaultRing /\ \A k \in 1 .. n - 1 : q[k].ring = Null
  <2>1. ASSUME NEW k \in 1 .. (n - 1) - 1 PROVE p[k].ring = Null
    <3>1. k \in 1 .. m - 1 /\ k \in 1 .. n - 1 /\ k + 1 \in 1 .. n - 1
      BY <1>4
    <3> QED
      BY <1>3, <1>5, <3>1
  <2> QED
    BY <1>1, <1>5, <2>1 DEF IsBefore
<1>6. CASE \E j \in 1 .. n - 1 :
             /\ q[j].ring = r /\ r # Null
             /\ \A k \in j + 1 .. n - 1 : q[k].ring = Null
  <2>1. PICK j \in 1 .. n - 1 :
             /\ q[j].ring = r /\ r # Null
             /\ \A k \in j + 1 .. n - 1 : q[k].ring = Null
    BY <1>6
  <2>2. j # i
    BY <2>1
  <2>3. PICK l \in 1 .. (n - 1) - 1 : l = IF j < i THEN j ELSE j - 1
    BY <1>4, <2>2
  <2>4. p[l] = q[j]
    <3>1. l \in 1 .. m - 1
      BY <1>4
    <3>2. CASE j < i
      BY <1>3, <2>3, <3>1, <3>2
    <3>3. CASE ~(j < i)
      <4>1. ~(l < i) /\ l + 1 = j
        BY <1>4, <2>2, <2>3, <3>3
      <4> QED
        BY <1>3, <3>1, <4>1
    <3> QED
      BY <3>2, <3>3
  <2>5. ASSUME NEW k \in l + 1 .. (n - 1) - 1 PROVE p[k].ring = Null
    <3>1. k \in 1 .. m - 1
      BY <1>4
    <3>2. CASE k < i
      <4>1. k \in j + 1 .. n - 1
        BY <1>4, <2>2, <2>3, <3>2
      <4> QED
        BY <1>3, <2>1, <3>1, <3>2, <4>1
    <3>3. CASE ~(k < i)
      <4>1. k + 1 \in j + 1 .. n - 1
        BY <1>4, <2>2, <2>3, <3>3
      <4> QED
        BY <1>3, <2>1, <3>1, <3>3, <4>1
    <3> QED
      BY <3>2, <3>3
  <2> QED
    BY <1>1, <2>1, <2>4, <2>5 DEF IsBefore
<1> QED
  BY <1>5, <1>6 DEF IsBefore

(* An object without a ring is destroyed.                                  *)
LEMMA ChainDropNull ==
  ASSUME NEW q \in Seq(Object), NEW i \in 1 .. Len(q), NEW c, Chain(q, c),
         q[i].ring = Null
  PROVE  Chain(RemoveAt(q, i), c)
<1>1. PICK p \in Seq(Object) : p = RemoveAt(q, i)
  BY RemoveAtFacts
<1>2. PICK m \in Nat : m = Len(q)
  OBVIOUS
<1>3. /\ Len(p) = m - 1
      /\ \A k \in 1 .. m - 1 : p[k] = IF k < i THEN q[k] ELSE q[k + 1]
  BY <1>1, <1>2, RemoveAtFacts
<1>4. i \in 1 .. m
  BY <1>2
<1>5. \A n \in i + 1 .. m + 1 : \A r : IsBefore(q, n, r) =>
        IsBefore(p, n - 1, r)
  BY <1>1, <1>2, DropBefore
<1>6. IsBefore(p, Len(p) + 1, c)
  <2>1. IsBefore(q, m + 1, c) /\ m + 1 \in i + 1 .. m + 1
    BY <1>2, <1>4 DEF Chain
  <2>2. (m + 1) - 1 = Len(p) + 1
    BY <1>3
  <2> QED
    BY <1>5, <2>1, <2>2
<1>7. ASSUME NEW k \in 1 .. Len(p), p[k].ring # Null
      PROVE  IsBefore(p, k, p[k].previous)
  <2>0. k \in 1 .. m - 1
    BY <1>3
  <2>1. CASE k < i
    <3>1. p[k] = q[k] /\ k \in 1 .. m
      BY <1>3, <2>0, <2>1
    <3>2. IsBefore(q, k, q[k].previous)
      BY <1>2, <1>7, <3>1 DEF Chain
    <3>3. \A l \in 1 .. k - 1 : p[l] = q[l]
      <4>1. \A l \in 1 .. k - 1 : l \in 1 .. m - 1 /\ l < i
        BY <1>4, <2>0, <2>1
      <4> QED
        BY <1>3, <4>1
    <3> QED
      BY <3>1, <3>2, <3>3, SameBefore
  <2>2. CASE ~(k < i)
    <3>1. p[k] = q[k + 1] /\ k + 1 \in 1 .. m
      BY <1>3, <2>0, <2>2
    <3>2. IsBefore(q, k + 1, q[k + 1].previous)
      BY <1>2, <1>7, <3>1 DEF Chain
    <3>3. k + 1 \in i + 1 .. m + 1 /\ (k + 1) - 1 = k
      BY <1>4, <2>0, <2>2
    <3> QED
      BY <1>5, <3>1, <3>2, <3>3
  <2> QED
    BY <2>1, <2>2
<1> QED
  BY <1>1, <1>6, <1>7 DEF Chain

(* The last valid object is destroyed.                                     *)
LEMMA ChainDrop ==
  ASSUME NEW q \in Seq(Object), NEW i \in 1 .. Len(q), NEW c, Chain(q, c),
         q[i].ring # Null, \A j \in i + 1 .. Len(q) : q[j].ring = Null
  PROVE  Chain(RemoveAt(q, i), q[i].previous)
<1>1. PICK p \in Seq(Object) : p = RemoveAt(q, i)
  BY RemoveAtFacts
<1>2. PICK m \in Nat : m = Len(q)
  OBVIOUS
<1>3. /\ Len(p) = m - 1
      /\ \A k \in 1 .. m - 1 : p[k] = IF k < i THEN q[k] ELSE q[k + 1]
  BY <1>1, <1>2, RemoveAtFacts
<1>4. i \in 1 .. m
  BY <1>2
<1>5. \A l \in 1 .. i - 1 : p[l] = q[l]
  <2>1. \A l \in 1 .. i - 1 : l \in 1 .. m - 1 /\ l < i
    BY <1>4
  <2> QED
    BY <1>3, <2>1
<1>6. \A k \in i .. m - 1 : p[k].ring = Null
  <2>1. \A k \in i .. m - 1 :
          k \in 1 .. m - 1 /\ ~(k < i) /\ k + 1 \in i + 1 .. m
    BY <1>4
  <2> QED
    BY <1>2, <1>3, <2>1
<1>7. IsBefore(p, Len(p) + 1, q[i].previous)
  <2>1. IsBefore(q, i, q[i].previous)
    BY DEF Chain
  <2>2. IsBefore(p, i, q[i].previous)
    BY <1>5, <2>1, SameBefore
  <2>3. Len(p) + 1 = m /\ i <= m /\ i \in Nat
    BY <1>3, <1>4
  <2> QED
    BY <1>6, <2>2, <2>3, NullsBefore
<1>8. ASSUME NEW k \in 1 .. Len(p), p[k].ring # Null
      PROVE  IsBefore(p, k, p[k].previous)
  <2>1. k \in 1 .. m - 1 /\ k < i
    BY <1>3, <1>4, <1>6, <1>8
  <2>2. p[k] = q[k] /\ k \in 1 .. m
    BY <1>3, <2>1
  <2>3. IsBefore(q, k, q[k].previous)
    BY <1>2, <1>8, <2>2 DEF Chain
  <2>4. \A l \in 1 .. k - 1 : p[l] = q[l]
    <3>1. \A l \in 1 .. k - 1 : l \in 1 .. i - 1
      BY <1>4, <2>1
    <3> QED
      BY <1>5, <3>1
  <2> QED
    BY <2>2, <2>3, <2>4, SameBefore
<1> QED
  BY <1>1, <1>7, <1>8 DEF Chain

-----------------------------------------------------------------------------
(* The second layer is invariant                                           *)

(* The current ring of a thread that keeps to the order.                   *)
LEMMA CurrentServed ==
  ASSUME IInv, ChainInv, NEW t \in Threads \ unordered
  PROVE  /\ current[t] = DefaultRing \/ Owners(current[t]) # {}
         /\ borrowed[current[t]] = 0 =>
              /\ Exists(current[t])
              /\ active => current[t] \in inMap \cup reused
         /\ dying # Null /\ dying \notin reused /\ borrowed[dying] = 0
              => current[t] # dying
<1>1. TypeInv /\ MapInv
  BY DEF IInv
<1>2. PICK c \in AllRings : c = current[t]
  BY <1>1 DEF TypeInv
<1>3. PICK q \in Seq(Object) : q = objs[t]
  BY <1>1 DEF TypeInv
<1>4. c = DefaultRing \/ Owners(c) # {}
  <2>1. IsBefore(q, Len(q) + 1, c)
    BY <1>2, <1>3 DEF ChainInv, Chain
  <2>2. CASE c # DefaultRing
    <3>1. PICK j \in 1 .. (Len(q) + 1) - 1 : q[j].ring = c
      BY <2>1, <2>2 DEF IsBefore
    <3>2. j \in DOMAIN objs[t] /\ objs[t][j].ring = c
      BY <1>3, <3>1
    <3>3. <<t, j, "ring">> \in Owners(c)
      BY <3>2, OwnersMeaning
    <3> QED
      BY <3>3
  <2> QED
    BY <2>2
<1>5. borrowed[c] = 0 => Exists(c)
  BY <1>4, OwnedRefs DEF Exists, Usable, Used
<1>6. borrowed[c] = 0 => (active => c \in inMap \cup reused)
  BY <1>1, <1>4 DEF MapInv, Used
<1>7. ASSUME dying # Null, dying \notin reused, borrowed[dying] = 0
      PROVE  c # dying
  <2>1. Owners(dying) = {} /\ dying # DefaultRing
    BY <1>7, DyingUnowned DEF Used
  <2> QED
    BY <1>4, <2>1
<1> QED
  BY <1>2, <1>4, <1>5, <1>6, <1>7

(* Nobody posts to a ring that is going to be killed.                      *)
LEMMA NoPostToDying ==
  ASSUME IInv, ChainInv, unordered = {}, NEW t \in Threads,
         dying # Null, dying \notin reused, borrowed[dying] = 0
  PROVE  dying \in AllRings /\ dying \notin held[t] \cup {current[t]}
<1>1. dying \in AllRings /\ ~Used(dying)
  BY DyingUnowned
<1>2. dying \notin held[t]
  BY <1>1 DEF Used, Holders
<1>3. current[t] # dying
  BY CurrentServed
<1> QED
  BY <1>1, <1>2, <1>3

(* What the last owner releases is not in the map.                         *)
LEMMA LastRelease ==
  ASSUME IInv, IInv', NEW x \in AllRings, Used(x), refs'[x] = 0,
         UNCHANGED <<inMap, reused, borrowed>>
  PROVE  (x \in reused /\ x \notin inMap) \/ borrowed[x] > 0
<1>1. x \in inMap \cup reused \/ borrowed[x] > 0
  BY DEF IInv, MapInv
<1>2. refs'[x] = (IF x \in inMap' THEN 1 ELSE 0)
                 + (IF x = DefaultRing /\ active' THEN 1 ELSE 0)
                 + Cardinality(Owners(x)') + Cardinality(Holders(x)')
                 - borrowed'[x]
  BY DEF IInv, RefsOwned
<1>3. /\ Cardinality(Owners(x)') \in Nat /\ Cardinality(Holders(x)') \in Nat
      /\ borrowed[x] \in Nat
  BY FS_CardinalityType DEF IInv, FiniteInv, TypeInv
<1>4. x \in inMap => borrowed[x] > 0
  BY <1>2, <1>3
<1> QED
  BY <1>1, <1>4

(* Threads keep their chains as long as they keep to the order.            *)
LEMMA ChainStep ==
  ASSUME TypeInv, ChainInv, NEW t \in Threads, unordered \subseteq unordered',
         \A u \in Threads :
           u # t => objs'[u] = objs[u] /\ current'[u] = current[u],
         t \notin unordered' =>
           (Chain(objs[t], current[t]) => Chain(objs'[t], current'[t]))
  PROVE  ChainInv'
<1> SUFFICES ASSUME NEW u \in Threads, u \notin unordered'
             PROVE  Chain(objs'[u], current'[u])
  BY DEF ChainInv
<1>1. Chain(objs[u], current[u])
  BY DEF ChainInv
<1> QED
  BY <1>1

(* A thread creates a tls object.                                          *)
LEMMA NewOrder ==
  ASSUME IInv, OrderInv, NEW t \in Threads, NEW r \in Rings, NewTls(t, r)
  PROVE  OrderInv'
<1>0. TypeInv /\ MapInv /\ ChainInv /\ LostInv
  BY DEF IInv, OrderInv
<1>1. PICK q \in Seq(Object) : q = objs[t]
  BY <1>0 DEF TypeInv
<1>2. PICK c \in AllRings : c = current[t]
  BY <1>0 DEF TypeInv
<1>3. /\ r \in inMap \/ r \notin reused
      /\ Logged(c, refs) /\ UNCHANGED <<lost, dying, unordered, borrowed>>
  BY <1>2 DEF NewTls, NameFree
<1>4. \/ /\ objs' = [objs EXCEPT ![t] =
                       Append(@, [ring |-> Null, previous |-> Null])]
         /\ UNCHANGED <<inMap, reused, current>>
      \/ /\ objs' = [objs EXCEPT ![t] =
                       Append(@, [ring |-> r, previous |-> c])]
         /\ current' = [current EXCEPT ![t] = r]
         /\ inMap' = inMap \cup {r} /\ reused \subseteq reused'
  BY <1>2 DEF NewTls, Update
<1>5. ChainInv'
  <2>1. /\ DOMAIN objs = Threads /\ DOMAIN current = Threads
    BY <1>0 DEF TypeInv
  <2>2. CASE /\ objs' = [objs EXCEPT ![t] =
                           Append(@, [ring |-> Null, previous |-> Null])]
             /\ UNCHANGED current
    <3>1. PICK o \in Object : o = [ring |-> Null, previous |-> Null]
      BY DEF Object
    <3>2. objs'[t] = Append(q, o) /\ current'[t] = c /\ o.ring = Null
      BY <1>1, <1>2, <2>1, <2>2, <3>1
    <3>3. Chain(q, c) => Chain(objs'[t], current'[t])
      BY <3>2, ChainNull
    <3>4. \A u \in Threads :
            u # t => objs'[u] = objs[u] /\ current'[u] = current[u]
      BY <2>1, <2>2
    <3> QED
      BY <1>0, <1>1, <1>2, <1>3, <3>3, <3>4, ChainStep
  <2>3. CASE /\ objs' = [objs EXCEPT ![t] =
                           Append(@, [ring |-> r, previous |-> c])]
             /\ current' = [current EXCEPT ![t] = r]
    <3>1. PICK o \in Object : o = [ring |-> r, previous |-> c]
      BY DEF Object, AllRings
    <3>2. o.ring = r /\ o.previous = c /\ r # Null
      BY <3>1, RingsAssumption DEF AllRings
    <3>3. objs'[t] = Append(q, o) /\ current'[t] = r
      BY <1>1, <2>1, <2>3, <3>1
    <3>4. Chain(q, c) => Chain(objs'[t], current'[t])
      BY <3>2, <3>3, ChainPush
    <3>5. \A u \in Threads :
            u # t => objs'[u] = objs[u] /\ current'[u] = current[u]
      BY <2>1, <2>3
    <3> QED
      BY <1>0, <1>1, <1>2, <1>3, <3>4, <3>5, ChainStep
  <2> QED
    BY <1>4, <2>2, <2>3
<1>6. LostInv'
  <2> SUFFICES ASSUME unordered = {}
               PROVE  /\ dying # Null /\ dying \notin reused'
                           /\ borrowed[dying] = 0 => ~unread'[dying]
                      /\ \A x \in lost : \/ x \in reused' /\ x \notin inMap'
                                         \/ borrowed[x] > 0
    BY <1>0, <1>3 DEF LostInv
  <2>1. /\ dying # Null /\ dying \notin reused /\ borrowed[dying] = 0
             => ~unread[dying]
        /\ \A x \in lost : (x \in reused /\ x \notin inMap) \/ borrowed[x] > 0
        /\ lost \subseteq AllRings
    BY <1>0 DEF LostInv
  <2>2. reused \subseteq reused' /\ inMap' \subseteq inMap \cup {r}
    BY <1>4
  <2>3. ASSUME dying # Null, dying \notin reused', borrowed[dying] = 0
        PROVE  ~unread'[dying]
    <3>1. /\ dying \in AllRings /\ dying \notin held[t] \cup {current[t]}
          /\ dying \notin reused /\ borrowed[dying] = 0
      BY <1>0, <2>2, <2>3, NoPostToDying
    <3>2. \A x \in AllRings : unread'[x] => unread[x] \/ x = c
      BY <1>0, <1>3, LoggedFacts
    <3> QED
      BY <1>2, <2>1, <2>3, <3>1, <3>2
  <2> QED
    BY <1>3, <2>1, <2>2, <2>3
<1> QED
  BY <1>5, <1>6 DEF OrderInv

(* A thread creates a tls object for a ring that it has.                   *)
LEMMA RingOrder ==
  ASSUME IInv, OrderInv, NEW t \in Threads, NEW r \in AllRings,
         NewTlsRing(t, r)
  PROVE  OrderInv'
<1>0. TypeInv /\ MapInv /\ ChainInv /\ LostInv
  BY DEF IInv, OrderInv
<1>1. PICK q \in Seq(Object) : q = objs[t]
  BY <1>0 DEF TypeInv
<1>2. PICK c \in AllRings : c = current[t]
  BY <1>0 DEF TypeInv
<1>3. /\ Logged(c, refs) /\ UNCHANGED <<lost, dying, unordered>>
      /\ borrowed' = [borrowed EXCEPT
                        ![r] = @ + IF r \in held[t] THEN 0 ELSE 1]
  BY <1>2 DEF NewTlsRing
<1>4. /\ objs' = [objs EXCEPT ![t] = Append(@, [ring |-> r, previous |-> c])]
      /\ current' = [current EXCEPT ![t] = r]
      /\ inMap' = inMap /\ reused \subseteq reused'
  BY <1>2 DEF NewTlsRing, Update
<1>5. ChainInv'
  <2>1. DOMAIN objs = Threads /\ DOMAIN current = Threads
    BY <1>0 DEF TypeInv
  <2>2. PICK o \in Object : o = [ring |-> r, previous |-> c]
    BY DEF Object
  <2>3. o.ring = r /\ o.previous = c /\ r # Null
    BY <2>2, RingsAssumption
  <2>4. objs'[t] = Append(q, o) /\ current'[t] = r
    BY <1>1, <1>4, <2>1, <2>2
  <2>5. Chain(q, c) => Chain(objs'[t], current'[t])
    BY <2>3, <2>4, ChainPush
  <2>6. \A u \in Threads :
          u # t => objs'[u] = objs[u] /\ current'[u] = current[u]
    BY <1>4, <2>1
  <2> QED
    BY <1>0, <1>1, <1>2, <1>3, <2>5, <2>6, ChainStep
<1>7. \A x \in AllRings : /\ borrowed'[x] = 0 => borrowed[x] = 0
                          /\ borrowed[x] > 0 => borrowed'[x] > 0
  <2>1. borrowed \in [AllRings -> Nat]
    BY <1>0 DEF TypeInv
  <2>2. CASE r \in held[t]
    BY <1>3, <2>1, <2>2
  <2>3. CASE r \notin held[t]
    BY <1>3, <2>1, <2>3
  <2> QED
    BY <2>2, <2>3
<1>6. LostInv'
  <2> SUFFICES ASSUME unordered = {}
               PROVE  /\ dying # Null /\ dying \notin reused'
                           /\ borrowed'[dying] = 0 => ~unread'[dying]
                      /\ \A x \in lost : \/ x \in reused' /\ x \notin inMap'
                                         \/ borrowed'[x] > 0
    BY <1>0, <1>3 DEF LostInv
  <2>1. /\ dying # Null /\ dying \notin reused /\ borrowed[dying] = 0
             => ~unread[dying]
        /\ \A x \in lost : (x \in reused /\ x \notin inMap) \/ borrowed[x] > 0
        /\ lost \subseteq AllRings
    BY <1>0 DEF LostInv
  <2>2. reused \subseteq reused' /\ inMap' \subseteq inMap \cup {r}
    BY <1>4
  <2>3. ASSUME dying # Null, dying \notin reused', borrowed'[dying] = 0
        PROVE  ~unread'[dying]
    <3>1. /\ dying \in AllRings /\ dying \notin held[t] \cup {current[t]}
          /\ dying \notin reused /\ borrowed[dying] = 0
      BY <1>0, <1>7, <2>2, <2>3, NoPostToDying DEF TypeInv
    <3>2. \A x \in AllRings : unread'[x] => unread[x] \/ x = c
      BY <1>0, <1>3, LoggedFacts
    <3> QED
      BY <1>2, <2>1, <2>3, <3>1, <3>2
  <2> QED
    BY <1>3, <1>4, <1>7, <2>1, <2>2, <2>3
<1> QED
  BY <1>5, <1>6 DEF OrderInv

(* A caller gets a reference.                                              *)
LEMMA GetOrder ==
  ASSUME IInv, OrderInv, NEW t \in Threads, NEW r \in AllRings, GetRing(t, r)
  PROVE  OrderInv'
<1>0. TypeInv /\ MapInv /\ ChainInv /\ LostInv
  BY DEF IInv, OrderInv
<1>2. PICK c \in AllRings : c = current[t]
  BY <1>0 DEF TypeInv
<1>3. /\ UNCHANGED <<lost, dying, current, objs, unordered, borrowed>>
      /\ Logged(c, refs)
      /\ r \in inMap \/ r \notin reused
  BY <1>2 DEF GetRing, NameFree, Logged
<1>4. inMap' = inMap \cup {r} /\ reused \subseteq reused'
  BY DEF GetRing
<1>5. ChainInv'
  BY <1>0, <1>3 DEF ChainInv
<1>6. LostInv'
  <2> SUFFICES ASSUME unordered = {}
               PROVE  /\ dying # Null /\ dying \notin reused'
                           /\ borrowed[dying] = 0 => ~unread'[dying]
                      /\ \A x \in lost : \/ x \in reused' /\ x \notin inMap'
                                         \/ borrowed[x] > 0
    BY <1>0, <1>3 DEF LostInv
  <2>1. /\ dying # Null /\ dying \notin reused /\ borrowed[dying] = 0
             => ~unread[dying]
        /\ \A x \in lost : (x \in reused /\ x \notin inMap) \/ borrowed[x] > 0
        /\ lost \subseteq AllRings
    BY <1>0 DEF LostInv
  <2>2. reused \subseteq reused' /\ inMap' \subseteq inMap \cup {r}
    BY <1>4
  <2>3. ASSUME dying # Null, dying \notin reused', borrowed[dying] = 0
        PROVE  ~unread'[dying]
    <3>1. /\ dying \in AllRings /\ dying \notin held[t] \cup {current[t]}
          /\ dying \notin reused /\ borrowed[dying] = 0
      BY <1>0, <2>2, <2>3, NoPostToDying
    <3>2. \A x \in AllRings : unread'[x] => unread[x] \/ x = c
      BY <1>0, <1>3, LoggedFacts
    <3> QED
      BY <1>2, <2>1, <2>3, <3>1, <3>2
  <2> QED
    BY <1>3, <2>1, <2>2, <2>3
<1> QED
  BY <1>5, <1>6 DEF OrderInv

(* A caller drops it.                                                      *)
LEMMA ReleaseOrder ==
  ASSUME IInv, IInv', OrderInv, NEW t \in Threads, NEW r \in AllRings,
         ReleaseRing(t, r)
  PROVE  OrderInv'
<1>0. TypeInv /\ MapInv /\ ChainInv /\ LostInv
  BY DEF IInv, OrderInv
<1>1. /\ UNCHANGED <<inMap, unread, dying, reused, current, objs, unordered,
                     borrowed>>
      /\ lost' = lost \cup {q \in {r} \cap Rings : refs'[q] = 0 /\ unread[q]}
      /\ r \in held[t]
  BY DEF ReleaseRing
<1>2. ChainInv'
  BY <1>0, <1>1 DEF ChainInv
<1>3. Used(r)
  BY <1>1 DEF Used, Holders
<1>4. refs'[r] = 0 => (r \in reused /\ r \notin inMap) \/ borrowed[r] > 0
  BY <1>1, <1>3, LastRelease
<1>5. LostInv'
  BY <1>0, <1>1, <1>4 DEF LostInv
<1> QED
  BY <1>2, <1>5 DEF OrderInv

(* A thread destroys one.                                                  *)
LEMMA DeleteOrder ==
  ASSUME IInv, IInv', OrderInv, NEW t \in Threads, NEW i \in DOMAIN objs[t],
         DeleteTls(t, i)
  PROVE  OrderInv'
<1>0. TypeInv /\ MapInv /\ ChainInv /\ LostInv
  BY DEF IInv, OrderInv
<1>1. PICK q \in Seq(Object) : q = objs[t]
  BY <1>0 DEF TypeInv
<1>2. PICK c \in AllRings : c = current[t]
  BY <1>0 DEF TypeInv
<1>3. i \in 1 .. Len(q) /\ q[i] \in Object
  BY <1>1
<1>4. /\ objs' = [objs EXCEPT ![t] = RemoveAt(@, i)]
      /\ UNCHANGED <<inMap, dying, reused, held, borrowed>>
  BY DEF DeleteTls
<1>5. /\ objs'[t] = RemoveAt(q, i)
      /\ \A u \in Threads : u # t => objs'[u] = objs[u]
  BY <1>0, <1>1, <1>4 DEF TypeInv
<1>6. CASE q[i].ring = Null
  <2>1. Logged(c, refs) /\ UNCHANGED <<current, lost, unordered>>
    BY <1>1, <1>2, <1>6 DEF DeleteTls
  <2>2. Chain(q, c) => Chain(objs'[t], current'[t])
    BY <1>2, <1>3, <1>5, <1>6, <2>1, ChainDropNull
  <2>3. ChainInv'
    BY <1>0, <1>1, <1>2, <1>5, <2>1, <2>2, ChainStep
  <2>4. LostInv'
    <3>1. \A x \in AllRings : unread'[x] => unread[x] \/ x = c
      BY <1>0, <2>1, LoggedFacts
    <3>2. ASSUME unordered = {}, dying # Null, dying \notin reused,
                 borrowed[dying] = 0
          PROVE  ~unread'[dying]
      <4>1. c # dying /\ dying \in AllRings
        BY <1>0, <1>2, <3>2, NoPostToDying
      <4> QED
        BY <1>0, <3>1, <3>2, <4>1 DEF LostInv
    <3> QED
      BY <1>0, <1>4, <2>1, <3>2 DEF LostInv
  <2> QED
    BY <2>3, <2>4 DEF OrderInv
<1>7. CASE q[i].ring # Null
  <2>1. PICK r \in AllRings : r = q[i].ring
    BY <1>3, <1>7 DEF Object
  <2>2. PICK d \in AllRings : d = q[i].previous
    BY <1>3, <1>7 DEF Object
  <2>3. /\ current' = [current EXCEPT ![t] = d]
        /\ Logged(current'[t], [refs EXCEPT ![d] = @ - 1])
        /\ lost' = lost \cup {x \in {r, d} \cap Rings :
                                 refs'[x] = 0 /\ unread'[x]}
        /\ unordered' = IF \E j \in i + 1 .. Len(q) : q[j].ring # Null
                        THEN unordered \cup {t} ELSE unordered
    BY <1>1, <1>7, <2>1, <2>2 DEF DeleteTls, Restored
  <2>4. /\ current'[t] = d
        /\ \A u \in Threads : u # t => current'[u] = current[u]
    BY <1>0, <2>3 DEF TypeInv
  <2>5. unordered \subseteq unordered'
    BY <2>3
  <2>6. ASSUME t \notin unordered', Chain(q, c)
        PROVE  Chain(objs'[t], current'[t])
    <3>1. \A j \in i + 1 .. Len(q) : q[j].ring = Null
      BY <2>3, <2>6
    <3> QED
      BY <1>3, <1>5, <1>7, <2>2, <2>4, <2>6, <3>1, ChainDrop
  <2>7. ChainInv'
    BY <1>0, <1>1, <1>2, <1>5, <2>4, <2>5, <2>6, ChainStep
  <2>8. /\ <<t, i, "ring">> \in Owners(r)
        /\ <<t, i, "previous">> \in Owners(d)
    BY <1>1, <2>1, <2>2, OwnersMeaning
  <2>9. LostInv'
    <3>0. lost' \subseteq AllRings
      BY <1>0, <2>3 DEF LostInv
    <3> SUFFICES ASSUME unordered = {}
                 PROVE  /\ dying # Null /\ dying \notin reused
                             /\ borrowed[dying] = 0 => ~unread'[dying]
                        /\ \A x \in lost' : \/ x \in reused /\ x \notin inMap
                                            \/ borrowed[x] > 0
      BY <1>4, <2>5, <3>0 DEF LostInv
    <3>1. ASSUME dying # Null, dying \notin reused, borrowed[dying] = 0
          PROVE  ~unread'[dying]
      <4>1. dying \in AllRings /\ Owners(dying) = {}
        BY <3>1, DyingUnowned DEF Used
      <4>2. d # dying
        BY <2>8, <4>1
      <4>3. Logged(d, [refs EXCEPT ![d] = @ - 1])
        BY <2>3, <2>4
      <4>4. \A x \in AllRings : unread'[x] => unread[x] \/ x = d
        BY <1>0, <4>3, LoggedFacts
      <4> QED
        BY <1>0, <3>1, <4>1, <4>2, <4>4 DEF LostInv
    <3>2. ASSUME NEW x \in {r, d}, refs'[x] = 0
          PROVE  (x \in reused /\ x \notin inMap) \/ borrowed[x] > 0
      <4>1. x \in AllRings /\ Used(x)
        BY <2>8 DEF Used
      <4> QED
        BY <1>4, <3>2, <4>1, LastRelease
    <3>3. \A x \in lost : (x \in reused /\ x \notin inMap) \/ borrowed[x] > 0
      BY <1>0 DEF LostInv
    <3> QED
      BY <2>3, <3>1, <3>2, <3>3
  <2> QED
    BY <2>7, <2>9 DEF OrderInv
<1> QED
  BY <1>6, <1>7

(* The engine and the default engine's lifetime do not touch the threads.  *)
LEMMA EngineOrder ==
  ASSUME IInv, OrderInv,
         TlsEngineStep \/ Activate \/ Deactivate
  PROVE  OrderInv'
<1>0. TypeInv /\ MapInv /\ ChainInv /\ LostInv
  BY DEF IInv, OrderInv
<1>1. UNCHANGED threadVars
  BY DEF TlsEngineStep, KillOrphan, Drain, FindOrphan, Activate, Deactivate
<1>2. ChainInv'
  BY <1>0, <1>1 DEF ChainInv, threadVars
<1>3. UNCHANGED <<unordered, borrowed>>
  BY <1>1 DEF threadVars
<1>4. Null \notin AllRings
  BY RingsAssumption
<1>5. ASSUME NEW r \in AllRings, Drain(r) PROVE LostInv'
  <2>1. dying = Null /\ UNCHANGED <<inMap, lost, dying, reused>>
    BY <1>5 DEF Drain
  <2> QED
    BY <1>0, <1>3, <2>1 DEF LostInv
<1>6. ASSUME NEW r \in AllRings, FindOrphan(r) PROVE LostInv'
  <2>1. dying' = r /\ ~unread[r] /\ UNCHANGED <<inMap, unread, lost, reused>>
    BY <1>6 DEF FindOrphan, Orphan
  <2> QED
    BY <1>0, <1>3, <2>1 DEF LostInv
<1>7. ASSUME KillOrphan PROVE LostInv'
  <2>1. /\ dying # Null /\ dying' = Null
        /\ \/ reused' = reused \ {dying} /\ UNCHANGED <<inMap, lost>>
           \/ /\ inMap' = inMap \ {dying} /\ UNCHANGED reused
              /\ \/ lost' = lost
                 \/ unread[dying] /\ lost' = lost \cup {dying}
    BY <1>7 DEF KillOrphan
  <2>2. dying \in inMap /\ dying \in AllRings /\ borrowed[dying] \in Nat
    BY <1>0, <2>1 DEF MapInv, TypeInv
  <2>3. lost' \subseteq AllRings
    BY <1>0, <2>1, <2>2 DEF LostInv
  <2>4. ASSUME unordered = {}, NEW x \in lost'
        PROVE  (x \in reused' /\ x \notin inMap') \/ borrowed[x] > 0
    <3>1. /\ dying \notin reused /\ borrowed[dying] = 0 => ~unread[dying]
          /\ \A y \in lost : (y \in reused /\ y \notin inMap) \/ borrowed[y] > 0
      BY <1>0, <2>1, <2>4 DEF LostInv
    <3> QED
      BY <2>1, <2>2, <2>4, <3>1
  <2> QED
    BY <1>3, <2>1, <2>3, <2>4 DEF LostInv
<1>8. ASSUME Activate \/ Deactivate PROVE LostInv'
  <2>1. dying = Null /\ UNCHANGED <<lost, dying, reused>>
    BY <1>0, <1>8 DEF Activate, Deactivate, MapInv
  <2>2. inMap' = {DefaultRing} \/ inMap' = {}
    BY <1>8 DEF Activate, Deactivate
  <2>3. DefaultRing \in reused => borrowed[DefaultRing] > 0
    BY <1>0 DEF MapInv
  <2> QED
    BY <1>0, <1>3, <2>1, <2>2, <2>3 DEF LostInv
<1> QED
  BY <1>2, <1>5, <1>6, <1>7, <1>8 DEF OrderInv, TlsEngineStep

(* A post goes to a ring that is not going to be killed.                   *)
LEMMA PostOrder ==
  ASSUME IInv, OrderInv, NEW t \in Threads, Posted(t)
  PROVE  OrderInv'
<1>0. TypeInv /\ MapInv /\ ChainInv /\ LostInv
  BY DEF IInv, OrderInv
<1>1. /\ UNCHANGED <<inMap, lost, dying, reused, current, objs, unordered,
                     borrowed>>
      /\ \A q \in AllRings :
           unread'[q] => unread[q] \/ q \in held[t] \cup {current[t]}
  BY DEF Posted, threadVars
<1>2. ChainInv'
  BY <1>0, <1>1 DEF ChainInv
<1>3. ASSUME unordered = {}, dying # Null, dying \notin reused,
             borrowed[dying] = 0
      PROVE  ~unread'[dying]
  <2>1. dying \in AllRings /\ dying \notin held[t] \cup {current[t]}
    BY <1>0, <1>3, NoPostToDying
  <2> QED
    BY <1>0, <1>1, <1>3, <2>1 DEF LostInv
<1>4. LostInv'
  BY <1>0, <1>1, <1>3 DEF LostInv
<1> QED
  BY <1>2, <1>4 DEF OrderInv

(* Both layers hold initially and are kept by every step.                  *)
LEMMA OrderInvariant == Spec => [](IInv /\ OrderInv)
<1>1. ASSUME Init PROVE OrderInv
  <2>1. /\ \A t \in Threads : objs[t] = <<>> /\ current[t] = DefaultRing
        /\ dying = Null /\ lost = {}
    BY <1>1 DEF Init, TlsInit
  <2>2. ChainInv
    BY <2>1, ChainEmpty DEF ChainInv
  <2>3. LostInv
    BY <2>1 DEF LostInv
  <2> QED
    BY <2>2, <2>3 DEF OrderInv
<1>2. ASSUME IInv, OrderInv, [Next]_vars PROVE OrderInv'
  <2>0. TlsStep
    BY <1>2, TlsSteps DEF IInv
  <2>1. CASE UNCHANGED tlsVars
    BY <1>2, <2>1
    DEF OrderInv, ChainInv, LostInv, tlsVars, threadVars
  <2>2. ASSUME NEW t \in Threads, Posted(t) PROVE OrderInv'
    BY <1>2, <2>2, PostOrder
  <2>3. ASSUME NEW t \in Threads, TlsCall(t) PROVE OrderInv'
    BY <1>2, <2>3, IInvStep, NewOrder, DeleteOrder, RingOrder, GetOrder,
       ReleaseOrder DEF TlsCall
  <2> QED
    BY <1>2, <2>0, <2>1, <2>2, <2>3, EngineOrder DEF TlsStep
<1> QED
  BY <1>1, <1>2, IInvInit, IInvStep, PTL DEF Spec

-----------------------------------------------------------------------------
(* No ring is deleted with records in it, unless a thread took it up, or   *)
(* held it, while the engine was about to kill it, or threads destroy      *)
(* their tls objects in another order, or a tls object was given the ring  *)
(* without a reference.                                                    *)
THEOREM NoRecordLostHolds == Spec => []NoRecordLost
<1>1. OrderInv => NoRecordLost
  BY DEF OrderInv, LostInv, NoRecordLost
<1> QED
  BY <1>1, OrderInvariant, PTL

(* The ring that chains of objects lead to is that of the innermost one.   *)
LEMMA InnermostCurrent ==
  ASSUME TypeInv, NEW t \in Threads, Chain(objs[t], current[t])
  PROVE  current[t] = Innermost(t)
<1>1. PICK q \in Seq(Object) : q = objs[t]
  BY DEF TypeInv
<1>2. PICK n \in Nat : n = Len(q)
  BY <1>1
<1>3. Valid(t) = {i \in 1 .. n : q[i].ring # Null}
  BY <1>1, <1>2 DEF Valid
<1>4. \/ current[t] = DefaultRing /\ \A i \in 1 .. n : q[i].ring = Null
      \/ \E j \in 1 .. n :
           /\ q[j].ring = current[t] /\ current[t] # Null
           /\ \A i \in j + 1 .. n : q[i].ring = Null
  <2>1. IsBefore(q, n + 1, current[t])
    BY <1>1, <1>2 DEF Chain
  <2>2. (n + 1) - 1 = n
    OBVIOUS
  <2> QED
    BY <2>1, <2>2 DEF IsBefore
<1>5. CASE current[t] = DefaultRing /\ \A i \in 1 .. n : q[i].ring = Null
  BY <1>3, <1>5 DEF Innermost
<1>6. CASE \E j \in 1 .. n :
             /\ q[j].ring = current[t] /\ current[t] # Null
             /\ \A i \in j + 1 .. n : q[i].ring = Null
  <2>1. PICK j \in 1 .. n :
             /\ q[j].ring = current[t] /\ current[t] # Null
             /\ \A i \in j + 1 .. n : q[i].ring = Null
    BY <1>6
  <2>2. PICK V : V = Valid(t)
    OBVIOUS
  <2>3. j \in V /\ V \subseteq Nat /\ \A i \in V : j >= i
    <3>1. \A i \in 1 .. n : i > j => i \in j + 1 .. n
      OBVIOUS
    <3> QED
      BY <1>3, <2>1, <2>2, <3>1
  <2>4. Max(V) \in V /\ \A i \in V : Max(V) >= i
    BY <2>3 DEF Max
  <2>5. Max(V) = j
    <3>1. PICK m \in Nat : m = Max(V)
      BY <2>3, <2>4
    <3>2. m >= j /\ j >= m
      BY <2>3, <2>4, <3>1
    <3> QED
      BY <3>1, <3>2
  <2> QED
    BY <1>1, <2>1, <2>2, <2>3, <2>5 DEF Innermost
<1> QED
  BY <1>4, <1>5, <1>6

(* A thread that destroys its tls objects in reverse order posts to the    *)
(* ring of its innermost one, which exists and is served by the engine, or *)
(* was taken up or held while it was dying, whatever other threads do,     *)
(* unless a tls object was given that ring without a reference.            *)
THEOREM RingInServiceHolds == Spec => []RingInService
<1>1. ASSUME IInv, OrderInv PROVE RingInService
  <2>1. ASSUME NEW t \in Threads \ unordered
        PROVE  /\ current[t] = Innermost(t)
               /\ borrowed[current[t]] = 0 =>
                    /\ Exists(current[t])
                    /\ active => current[t] \in inMap \cup reused
    BY <1>1, CurrentServed, InnermostCurrent DEF IInv, OrderInv, ChainInv
  <2> QED
    BY <2>1 DEF RingInService
<1> QED
  BY <1>1, OrderInvariant, PTL
=============================================================================
