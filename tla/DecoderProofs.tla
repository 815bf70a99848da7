----------------------------- MODULE DecoderProofs -----------------------------
(***************************************************************************)
(* decode_track and classify_missing return what stands on the track, for  *)
(* any headers, fields and damage, and captures of any length.             *)
(***************************************************************************)
EXTENDS Decoder, FiniteSetTheorems, SequenceTheorems, TLAPS

Field == [kind : Kinds, flips : SUBSET Nat]

-----------------------------------------------------------------------------
(* The search after a header.                                              *)

\* The bits of a field are at positions that are natural numbers.
LEMMA OnesAreNat == \A f \in Field : Ones(f) \subseteq Nat
<1> SUFFICES ASSUME NEW f \in Field PROVE Ones(f) \subseteq Nat
  OBVIOUS
<1>1. f.flips \subseteq Nat /\ f.kind \in {"data", "ff", "blank"}
  BY DEF Field, Kinds
<1>2. \A n \in Nat : Sync(n) \subseteq Nat
  BY DEF Sync, SyncOnes
<1>3. Written(f.kind) \subseteq Nat
  <2>1. {START + b : b \in {9, 12, 13, 30}} \subseteq Nat /\ START + 8 .. START + 40 \subseteq Nat
        /\ Sync(START) \subseteq Nat
    BY <1>2 DEF START
  <2> QED BY <1>1, <2>1 DEF Written
<1>4. Splice \subseteq Nat /\ Sync(PITCH + START) \subseteq Nat
  BY <1>2 DEF Splice, PITCH, START
<1> QED BY <1>1, <1>3, <1>4 DEF Ones

\* A field is tried from a one in the window after its header.
LEMMA TriesNear ==
  ASSUME NEW f \in Field, NEW a \in Tries(Ones(f))
  PROVE  a[1] \in 91 .. 771 /\ a[2] \in {3, 4, 7}
<1>1. a[1] \in Anchors(Ones(f), 19) /\ a[2] \in Offsets
  BY DEF Tries, PREAMBLE_BITS
<1>2. a[1] \in Nat /\ 72 <= a[1] - 19 /\ a[1] < 72 + 700
  BY <1>1, OnesAreNat DEF Anchors, AnchorsIn, HDR_BITS, DATA_SEARCH_BITS
<1> QED BY <1>1, <1>2 DEF Offsets

\* Of the members of a set of numbers that is bounded there is a least: were there
\* none, adding one to the numbers below all of them would put 0 .. n into 1 .. n.
LEMMA LeastOf ==
  ASSUME NEW n \in Nat, NEW I, I \subseteq 1 .. n, I # {}
  PROVE  \E i \in I : \A j \in I : i <= j
<1> SUFFICES ASSUME \A i \in I : \E j \in I : j < i PROVE FALSE
  OBVIOUS
<1> DEFINE Below == {q \in 0 .. n : \A i \in I : q < i}
           g == [q \in 0 .. n |-> IF q \in Below THEN q + 1 ELSE q]
           S == 0 .. n
           T == 1 .. n
<1>1. 0 \in Below /\ n \notin Below
  <2>1. \A i \in I : i \in 1 .. n
    OBVIOUS
  <2>2. PICK i \in I : TRUE
    OBVIOUS
  <2> QED BY <2>1, <2>2
<1>2. ASSUME NEW q \in Below PROVE q + 1 \in Below
  <2>1. q \in 0 .. n /\ q # n
    BY <1>1
  <2>2. ASSUME NEW i \in I PROVE q + 1 < i
    <3>1. PICK j \in I : j < i
      OBVIOUS
    <3>2. q < j
      OBVIOUS
    <3> QED BY <3>1, <3>2, <2>1
  <2> QED BY <2>1, <2>2
<1>3. g \in [S -> T]
  BY <1>1, <1>2
<1>4. /\ IsFiniteSet(S) /\ Cardinality(S) = n + 1
      /\ IsFiniteSet(T) /\ Cardinality(T) = n
  BY FS_Interval
<1>5. PICK x \in S, y \in S : x # y /\ g[x] = g[y]
  <2> HIDE DEF g, S, T
  <2> QED BY <1>3, <1>4, FS_PigeonHole
<1> QED BY <1>2, <1>5

\* The tries that check, and the first of them.
Good(f)  == {a \in Tries(Ones(f)) : Checks(f, a[1] - a[2])}
First(f) == CHOOSE a \in Good(f) : \A b \in Good(f) : a[1] < b[1] \/ (a[1] = b[1] /\ a[2] <= b[2])

\* There is a first among the tries that check: by its position, then by its length.
LEMMA FirstIsGood == ASSUME NEW f \in Field, Good(f) # {} PROVE First(f) \in Good(f)
<1> DEFINE key(a) == 8 * a[1] + a[2]
           I == {key(a) : a \in Good(f)}
           Most == 10000
           first(a) == \A b \in Good(f) : a[1] < b[1] \/ (a[1] = b[1] /\ a[2] <= b[2])
<1>1. \A a \in Good(f) : a[1] \in 91 .. 771 /\ a[2] \in {3, 4, 7}
  BY TriesNear DEF Good
<1>2. I \subseteq 1 .. Most /\ I # {}
  <2>1. ASSUME NEW a \in Good(f) PROVE key(a) \in 1 .. Most
    <3> DEFINE x == a[1]
               y == a[2]
    <3>1. x \in 91 .. 771 /\ y \in {3, 4, 7} /\ key(a) = 8 * x + y
      BY <1>1
    <3> HIDE DEF x, y, key
    <3>2. 8 * x + y \in 1 .. Most
      BY <3>1
    <3> HIDE DEF Most
    <3> QED BY <3>1, <3>2
  <2> HIDE DEF key, Most
  <2> QED BY <2>1
<1>3. PICK a \in Good(f) : \A b \in Good(f) : key(a) <= key(b)
  <2>1. PICK i \in I : \A j \in I : i <= j
    <3>1. Most \in Nat
      OBVIOUS
    <3> HIDE DEF I, Most
    <3> QED BY <1>2, <3>1, LeastOf, Zenon
  <2> QED BY <2>1
<1>4. a \in Good(f) /\ first(a)
  <2>1. ASSUME NEW b \in Good(f)
        PROVE  a[1] < b[1] \/ (a[1] = b[1] /\ a[2] <= b[2])
    <3>1. 8 * a[1] + a[2] <= 8 * b[1] + b[2]
      BY <1>3
    <3>2. a[1] \in 91 .. 771 /\ a[2] \in {3, 4, 7}
      BY <1>1, <1>3
    <3>3. b[1] \in 91 .. 771 /\ b[2] \in {3, 4, 7}
      BY <1>1
    <3> DEFINE x == a[1]
               y == a[2]
               u == b[1]
               v == b[2]
    <3>4. x \in 91 .. 771 /\ y \in {3, 4, 7} /\ u \in 91 .. 771 /\ v \in {3, 4, 7}
      BY <3>2, <3>3
    <3>5. 8 * x + y <= 8 * u + v
      BY <3>1
    <3> HIDE DEF x, y, u, v
    <3>6. x < u \/ (x = u /\ y <= v)
      BY <3>4, <3>5
    <3> QED BY <3>6 DEF x, y, u, v
  <2> QED BY <1>3, <2>1
<1>5. First(f) = CHOOSE x : x \in Good(f) /\ first(x)
  BY Zenon DEF First
<1> QED BY <1>4, <1>5, Zenon

\* The window ends before the next sector's field, so that what checks is the field
\* that was looked for.
LEMMA FoundIsOwn ==
  ASSUME NEW f \in Field
  PROVE  /\ find_data(f) = IF Good(f) = {} THEN {}
                           ELSE {[own |-> TRUE, corrected |-> Damage(f) # {}]}
         /\ Good(f) # {} => f.kind = "data"
<1>1. \A a \in Good(f) : a[1] - a[2] = START /\ f.kind = "data"
  BY TriesNear DEF Good, Checks, START, PITCH
<1>2. find_data(f) = IF Good(f) = {} THEN {}
                     ELSE {[own |-> First(f)[1] - First(f)[2] = START,
                            corrected |-> First(f)[1] - First(f)[2] = START /\ Damage(f) # {}]}
  BY Zenon DEF find_data, Good, First
<1>3. Good(f) # {} => First(f)[1] - First(f)[2] = START
  BY <1>1, FirstIsGood
<1> QED BY <1>1, <1>2, <1>3

\* At most two of three.
LEMMA NotThree ==
  ASSUME NEW S, IsFiniteSet(S), Cardinality(S) <= 2, NEW a \in S, NEW b \in S, NEW c \in S,
         a # b, b # c, a # c
  PROVE  FALSE
<1>1. IsFiniteSet({a}) /\ Cardinality({a}) = 1
  BY FS_Singleton
<1>2. b \notin {a} /\ c \notin {a} \cup {b}
  OBVIOUS
<1> DEFINE one == {a}
           two == one \cup {b}
<1>3. IsFiniteSet(two) /\ Cardinality(two) = 2
  <2>1. b \notin one /\ IsFiniteSet(one) /\ Cardinality(one) = 1
    BY <1>1, <1>2
  <2> HIDE DEF one
  <2> QED BY <2>1, FS_AddElement
<1>4. IsFiniteSet(two \cup {c}) /\ Cardinality(two \cup {c}) = 3
  <2> HIDE DEF two
  <2>1. c \notin two
    BY <1>2 DEF two
  <2> QED BY <1>3, <2>1, FS_AddElement
<1>5. two \cup {c} \in SUBSET S
  OBVIOUS
<1> HIDE DEF two
<1>6. Cardinality(two \cup {c}) <= Cardinality(S) /\ Cardinality(S) \in Nat
  BY <1>5, FS_Subset, FS_CardinalityType
<1> QED BY <1>4, <1>6

\* Whatever two bits of its sync are damaged, one of the three ones that may anchor a
\* field is the first after the preamble.
LEMMA ReadableIsTried ==
  ASSUME NEW f \in Field, f.kind = "data", Anchored(f), Faint(f)
  PROVE  \E a \in Tries(Ones(f)) : a[1] - a[2] = START
<1> DEFINE D == {b \in 0 .. 7 : START + b \in f.flips}
<1>1. f.flips \subseteq Nat /\ \A b \in f.flips : b < 282 \/ b >= 301
  BY DEF Field, Anchored, START, PREAMBLE_BITS
<1>2. \A b \in 282 .. 305 : b \in Ones(f) <=>
        IF b \in f.flips THEN b \notin {301, 302, 305} ELSE b \in {301, 302, 305}
  BY <1>1 DEF Ones, Written, Sync, SyncOnes, Splice, START, PITCH
<1>3. NearSync(Ones(f), START)
  <2>1. ASSUME NEW b \in 0 .. 7
        PROVE  (START + b \in Ones(f)) # (b \in SyncOnes) <=> START + b \in f.flips
    <3>1. START + b \in 282 .. 305 /\ (b \in SyncOnes <=> START + b \in {301, 302, 305})
      BY DEF SyncOnes, START
    <3> QED BY <1>2, <3>1
  <2>2. {b \in 0 .. 7 : (START + b \in Ones(f)) # (b \in SyncOnes)} = D
    BY <2>1
  <2> QED BY <2>2 DEF NearSync, SyncErrors, Faint
<1>4. IsFiniteSet(D) /\ Cardinality(D) <= 2
  <2>1. IsFiniteSet(0 .. 7) /\ D \in SUBSET (0 .. 7)
    <3>1. \A m, n \in Int : IsFiniteSet(m .. n)
      BY FS_Interval
    <3>2. 0 \in Int /\ 7 \in Int
      OBVIOUS
    <3>3. IsFiniteSet(0 .. 7)
      BY <3>1, <3>2, Zenon
    <3> QED BY <3>3, Zenon
  <2>2. IsFiniteSet(D)
    BY <2>1, FS_Subset, Zenon
  <2> QED BY <2>2 DEF Faint
<1>5. \A i \in {301, 302, 305} :
        /\ i \in Ones(f) /\ (\A b \in 282 .. i - 1 : b \notin Ones(f))
        => \E a \in Tries(Ones(f)) : a[1] - a[2] = START
  <2> SUFFICES ASSUME NEW i \in {301, 302, 305}, i \in Ones(f),
                      \A b \in 282 .. i - 1 : b \notin Ones(f)
               PROVE  \E a \in Tries(Ones(f)) : a[1] - a[2] = START
    OBVIOUS
  <2>1. i \in Anchors(Ones(f), PREAMBLE_BITS + 3)
    <3>1. \A b \in Ones(f) : ~(i - 19 <= b /\ b < i)
      BY OnesAreNat
    <3> QED BY <3>1 DEF Anchors, AnchorsIn, PREAMBLE_BITS, HDR_BITS, DATA_SEARCH_BITS
  <2>2. i - START \in Offsets /\ i - (i - START) = START
    BY DEF Offsets, START
  <2>3. <<i, i - START>> \in Tries(Ones(f))
    BY <1>3, <2>1, <2>2 DEF Tries
  <2> QED BY <2>2, <2>3
<1>6. CASE 301 \notin f.flips
  BY <1>1, <1>2, <1>5, <1>6
<1>7. CASE 301 \in f.flips /\ 302 \notin f.flips
  BY <1>1, <1>2, <1>5, <1>7
<1>8. CASE 301 \in f.flips /\ 302 \in f.flips
  <2>1. 3 \in D /\ 4 \in D
    BY <1>8 DEF START
  <2>2. 5 \notin D /\ 6 \notin D /\ 7 \notin D
    <3> HIDE DEF D
    <3> QED BY <1>4, <2>1, NotThree
  <2>3. 303 \notin f.flips /\ 304 \notin f.flips /\ 305 \notin f.flips
    BY <2>2 DEF START
  <2> QED BY <1>1, <1>2, <1>5, <1>8, <2>3
<1> QED BY <1>6, <1>7, <1>8

\* The fill behind a damaged sync, or a damaged bit of it, is within the tolerance.
LEMMA FillIsFilled ==
  ASSUME NEW f \in Field, f.kind = "ff", \A b \in f.flips : b >= START /\ b < START + 8
  PROVE  Filled(f)
<1> DEFINE Here == Ones(f) \cap 298 .. 338
           A == Anchors(Ones(f), 22)
<1>1. f.flips \subseteq 298 .. 305
  BY DEF Field, START
<1>2. /\ 306 \in Ones(f)
      /\ \A b \in Ones(f) : b \in {75, 77, 90} \/ b \in 298 .. 338 \/ b >= 4954
  BY <1>1 DEF Ones, Written, Sync, SyncOnes, Splice, START, PITCH
<1>3. PICK i \in Here : \A j \in Here : i <= j
  <2>1. Here \subseteq 1 .. 338 /\ Here # {}
    BY <1>2
  <2>2. 338 \in Nat
    OBVIOUS
  <2> HIDE DEF Here
  <2> QED BY <2>1, <2>2, LeastOf, Zenon
<1>4. i \in 298 .. 306
  BY <1>2, <1>3
<1>5. i \in A
  <2>1. \A b \in Ones(f) : ~(i - 22 <= b /\ b < i)
    BY <1>2, <1>3, <1>4, OnesAreNat
  <2> QED BY <1>3, <1>4, <2>1 DEF Anchors, AnchorsIn, HDR_BITS, DATA_SEARCH_BITS
<1>6. \A a \in A : i <= a
  <2>1. ASSUME NEW a \in A PROVE a \in Here
    <3>1. a \in Ones(f) /\ 72 <= a - 22 /\ a < 772
      BY DEF Anchors, AnchorsIn, HDR_BITS, DATA_SEARCH_BITS
    <3>2. a \in 298 .. 338
      BY <1>2, <3>1, OnesAreNat
    <3> QED BY <3>1, <3>2
  <2> QED BY <1>3, <2>1
<1>7. i - 3 \in FieldStart(f)
  BY <1>5, <1>6 DEF FieldStart
<1> QED BY <1>4, <1>7 DEF Filled, START

-----------------------------------------------------------------------------
(* The tools' dicts.                                                       *)

Readable(f) == f.kind = "data" /\ Anchored(f) /\ Faint(f) /\ Mended(f)

\* A field that can be read is found.
LEMMA ReadableIsFound ==
  ASSUME NEW f \in Field, Readable(f) PROVE Good(f) # {}
<1>1. PICK a \in Tries(Ones(f)) : a[1] - a[2] = START
  BY ReadableIsTried DEF Readable
<1> QED BY <1>1 DEF Readable, Good, Checks

\* What decode_track has is from a field of the sector, and what it has passed and
\* could read it has.
Origin == \A s \in Sectors : \A d \in got[s] :
  d.own /\ \E n \in Rightful(s) : cap[n][1] = d.header /\ cap[n][2].kind = "data"
Caught == \A s \in Sectors : \A n \in Rightful(s) :
  n < k /\ Readable(cap[n][2]) => \E d \in got[s] : d.corrected => Damage(cap[n][2]) # {}
Order == /\ pc = "find" => k = 1 /\ \A s \in Sectors : got[s] = {}
         /\ pc \in {"classify", "done"} => k = Len(cap) + 1
IInv == /\ TypeOK /\ got \in [Sectors -> SUBSET Read]
        /\ Order /\ Origin /\ Caught /\ FillSeen

\* The captures.
LEMMA CapFacts ==
  ASSUME TypeOK, NEW n \in DOMAIN cap
  PROVE  n \in 1 .. Len(cap) /\ Len(cap) \in Nat /\ cap[n][1] \in Headers /\ cap[n][2] \in Field
  BY LenProperties, ElementOfSeq DEF TypeOK, Field

\* What the header that is being decoded yields.
Now == [header |-> cap[k][1], own |-> TRUE, corrected |-> Damage(cap[k][2]) # {}]

\* One header: its field is kept, or there is no field, or a better one is there.
LEMMA OneHeader ==
  ASSUME TypeOK, DecodeHeader, NEW s \in Sectors
  PROVE  \/ /\ got'[s] = got[s]
            /\ s = cap[k][1].sec /\ Expected(cap[k][1]) /\ Readable(cap[k][2])
               => HasClean(s) \/ (got[s] # {} /\ Damage(cap[k][2]) # {})
         \/ /\ got'[s] = {Now} /\ s = cap[k][1].sec /\ Expected(cap[k][1])
            /\ cap[k][2].kind = "data" /\ (got[s] = {} \/ Damage(cap[k][2]) = {})
<1> DEFINE h == cap[k][1]
           f == cap[k][2]
           found == IF h.sec \in Sectors /\ Expected(h) /\ ~HasClean(h.sec)
                    THEN find_data(f) ELSE {}
           d == [own |-> TRUE, corrected |-> Damage(f) # {}]
           Kept(S) == {[header |-> h, own |-> x.own, corrected |-> x.corrected] : x \in S}
<1>1. f \in Field
  <2>1. k \in DOMAIN cap
    BY LenProperties DEF TypeOK, DecodeHeader
  <2> QED BY <2>1, CapFacts
<1>2. got'[s] = IF s = h.sec /\ \E x \in found : Replaces(s, x) THEN Kept(found) ELSE got[s]
  BY DEF DecodeHeader
<1>3. find_data(f) = IF Good(f) = {} THEN {} ELSE {d}
  BY <1>1, FoundIsOwn
<1>4. Kept({d}) = {Now}
  <2>1. Kept({d}) = {[header |-> h, own |-> d.own, corrected |-> d.corrected]}
    BY Zenon
  <2>2. d.own = TRUE /\ d.corrected = (Damage(f) # {})
    BY Zenon
  <2> QED BY <2>1, <2>2 DEF Now
<1>5. Replaces(s, d) <=> got[s] = {} \/ Damage(f) = {}
  BY DEF Replaces
<1> HIDE DEF d, Kept, f, h
<1>6. CASE s = h.sec /\ Expected(h) /\ ~HasClean(s) /\ Good(f) # {}
  <2>1. found = {d}
    BY <1>3, <1>6
  <2>2. f.kind = "data"
    BY <1>1, <1>6, FoundIsOwn
  <2>3. CASE Replaces(s, d)
    <3>1. got'[s] = {Now}
      BY <1>2, <1>4, <1>6, <2>1, <2>3
    <3> QED BY <1>5, <1>6, <2>2, <2>3, <3>1 DEF f, h
  <2>4. CASE ~Replaces(s, d)
    <3>1. got'[s] = got[s]
      BY <1>2, <2>1, <2>4
    <3> QED BY <1>5, <2>4, <3>1 DEF f, h
  <2> QED BY <2>3, <2>4
<1>7. CASE ~(s = h.sec /\ Expected(h) /\ ~HasClean(s) /\ Good(f) # {})
  <2>1. got'[s] = got[s]
    BY <1>2, <1>3, <1>7
  <2>2. Readable(f) => Good(f) # {}
    BY <1>1, ReadableIsFound
  <2> QED BY <1>7, <2>1, <2>2 DEF f, h
<1> QED BY <1>6, <1>7

\* A reading gets better: its sector is the header's, and nothing caught is lost.
LEMMA DecodeStep == ASSUME IInv, DecodeHeader PROVE IInv'
<1>0. /\ pc = "decode" /\ k \in 1 .. Len(cap) /\ Len(cap) \in Nat /\ k' = k + 1
      /\ UNCHANGED <<pc, cap, verdict>>
  BY LenProperties DEF IInv, TypeOK, DecodeHeader
<1>1. k \in DOMAIN cap /\ cap[k][1] \in Headers /\ cap[k][2] \in Field
  BY <1>0, LenProperties, CapFacts DEF IInv, TypeOK
<1>2. \A s \in Sectors : Rightful(s)' = Rightful(s) /\ Rightful(s) \subseteq DOMAIN cap
  BY <1>0 DEF Rightful
<1>3. Now \in Read
  BY <1>1 DEF Now, Read
<1>4. ASSUME NEW s \in Sectors
      PROVE  got'[s] \in SUBSET Read /\ Cardinality(got'[s]) <= 1
  <2>1. Cardinality({Now}) <= 1
    BY FS_Singleton
  <2>2. got[s] \in SUBSET Read /\ Cardinality(got[s]) <= 1
    BY DEF IInv, TypeOK
  <2>3. got'[s] \in {got[s], {Now}}
    BY OneHeader DEF IInv
  <2> QED BY <1>3, <2>1, <2>2, <2>3
<1>5. got' \in [Sectors -> SUBSET Read]
  <2>1. DOMAIN got' = Sectors /\ got' = [s \in Sectors |-> got'[s]]
    BY DEF DecodeHeader
  <2> QED BY <1>4, <2>1
<1>6. TypeOK'
  <2>1. DOMAIN got' = Sectors /\ Sectors \subseteq 0 .. SECTORS_PER_TRACK - 1
    BY <1>5 DEF Sectors
  <2>2. \A s \in DOMAIN got' : got'[s] \subseteq Read /\ Cardinality(got'[s]) <= 1
    BY <1>4, <2>1
  <2>3. k' \in 1 .. Len(cap') + 1
    BY <1>0
  <2> QED BY <1>0, <2>1, <2>2, <2>3 DEF IInv, TypeOK
<1>7. Origin'
  <2> SUFFICES ASSUME NEW s \in Sectors, NEW d \in got'[s]
               PROVE  d.own /\ \E n \in Rightful(s) : cap[n][1] = d.header /\ cap[n][2].kind = "data"
    BY <1>0, <1>2 DEF Origin
  <2>1. CASE got'[s] = got[s]
    BY <2>1 DEF IInv, Origin
  <2>2. CASE /\ got'[s] = {Now} /\ s = cap[k][1].sec /\ Expected(cap[k][1])
             /\ cap[k][2].kind = "data"
    <3>1. k \in Rightful(s)
      BY <1>1, <2>2 DEF Rightful, Expected
    <3>2. d = Now
      BY <2>2
    <3> QED BY <2>2, <3>1, <3>2 DEF Now
  <2> QED BY <2>1, <2>2, OneHeader DEF IInv
<1>8. Caught'
  <2> SUFFICES ASSUME NEW s \in Sectors, NEW n \in Rightful(s), n < k + 1, Readable(cap[n][2])
               PROVE  \E d \in got'[s] : d.corrected => Damage(cap[n][2]) # {}
    BY <1>0, <1>2 DEF Caught
  <2>1. n \in 1 .. k
    <3>1. n \in 1 .. Len(cap)
      BY <1>2, CapFacts DEF IInv
    <3> QED BY <1>0, <3>1
  <2>2. n < k => \E d \in got[s] : d.corrected => Damage(cap[n][2]) # {}
    BY DEF IInv, Caught
  <2>3. n = k => s = cap[k][1].sec /\ Expected(cap[k][1])
    BY DEF Rightful, Expected
  <2>4. CASE got'[s] = {Now} /\ (got[s] = {} \/ Damage(cap[k][2]) = {})
    <3>1. Now.corrected <=> Damage(cap[k][2]) # {}
      BY Zenon DEF Now
    <3>2. n < k => got[s] # {}
      BY <2>2
    <3>3. Now.corrected => Damage(cap[n][2]) # {}
      <4>1. CASE n = k
        BY <3>1, <4>1, Zenon
      <4>2. CASE n < k
        <5>1. ~Now.corrected
          BY <2>4, <3>1, <3>2, <4>2
        <5> QED BY <5>1, Zenon
      <4> QED BY <1>0, <2>1, <4>1, <4>2
    <3> QED BY <2>4, <3>3
  <2>5. CASE /\ got'[s] = got[s]
             /\ s = cap[k][1].sec /\ Expected(cap[k][1]) /\ Readable(cap[k][2])
                => HasClean(s) \/ (got[s] # {} /\ Damage(cap[k][2]) # {})
    <3>1. CASE n < k
      BY <2>2, <2>5, <3>1
    <3>2. CASE n = k
      BY <2>3, <2>5, <3>2 DEF HasClean
    <3> QED BY <1>0, <2>1, <3>1, <3>2
  <2> QED BY <2>4, <2>5, OneHeader DEF IInv
<1>9. Order' /\ FillSeen'
  BY <1>0 DEF Order, FillSeen
<1> QED BY <1>5, <1>6, <1>7, <1>8, <1>9 DEF IInv

\* classify_missing asks the first header of a sector that has no field but fill.
LEMMA ClassifyStep == ASSUME IInv, Classify PROVE IInv'
<1>1. /\ pc' = "done" /\ UNCHANGED <<cap, k, got>>
      /\ \A s \in Sectors : Rightful(s)' = Rightful(s) /\ Claims(s)' = Claims(s)
  BY DEF Classify, Rightful, Claims
<1>2. verdict' \in [Sectors -> {"none", "no-header", "erased-ff", "failed"}]
  BY DEF Classify
<1>3. TypeOK' /\ Order'
  BY <1>1, <1>2 DEF IInv, TypeOK, Order, Classify
<1>4. Origin' /\ Caught'
  BY <1>1 DEF IInv, Origin, Caught
<1>5. FillSeen'
  <2> SUFFICES ASSUME NEW s \in Sectors, Claims(s) # {},
                      \A n \in Claims(s) : /\ cap[n][2].kind = "ff"
                                           /\ \A b \in cap[n][2].flips : b >= START /\ b < START + 8
               PROVE  verdict'[s] = "erased-ff"
    BY <1>1 DEF FillSeen
  <2>1. got[s] = {}
    <3>1. Rightful(s) \subseteq Claims(s)
      BY DEF Rightful, Claims
    <3> QED BY <3>1 DEF IInv, Origin
  <2> DEFINE first(n) == \A m \in Claims(s) : n <= m
             at == CHOOSE n \in Claims(s) : first(n)
  <2>2. at \in Claims(s)
    <3>1. Claims(s) \subseteq 1 .. Len(cap) /\ Len(cap) \in Nat
      BY CapFacts, LenProperties DEF IInv, TypeOK, Claims
    <3>2. \E n : n \in Claims(s) /\ first(n)
      BY <3>1, LeastOf
    <3>3. at = CHOOSE n : n \in Claims(s) /\ first(n)
      BY Zenon
    <3> QED BY <3>2, <3>3, Zenon
  <2>3. cap[at][2] \in Field
    BY <2>2, CapFacts DEF IInv, Claims
  <2>4. Filled(cap[at][2])
    BY <2>2, <2>3, FillIsFilled
  <2>5. verdict'[s] = IF Filled(cap[at][2]) THEN "erased-ff" ELSE "failed"
    BY <2>1 DEF Classify
  <2> QED BY <2>4, <2>5
<1> QED BY <1>1, <1>3, <1>4, <1>5 DEF IInv

\* Whatever the captures show, in whatever order.
THEOREM Inductive == Spec => []IInv
<1>1. Init => IInv
  <2> SUFFICES ASSUME Init PROVE IInv
    OBVIOUS
  <2>1. cap = <<>> /\ Len(cap) = 0 /\ k = 1 /\ pc = "find" /\ DOMAIN cap = {}
    BY DEF Init
  <2>2. got = [s \in Sectors |-> {}] /\ verdict = [s \in Sectors |-> "none"]
    BY DEF Init
  <2>3. TypeOK
    <3>1. Cardinality({}) <= 1
      BY FS_EmptySet
    <3>2. cap \in Seq(Headers \X [kind : Kinds, flips : SUBSET Nat])
      BY <2>1, EmptySeq
    <3> QED BY <2>1, <2>2, <3>1, <3>2 DEF TypeOK, Sectors
  <2>4. \A s \in Sectors : got[s] = {} /\ Rightful(s) = {}
    BY <2>1, <2>2 DEF Rightful
  <2>5. Order /\ FillSeen
    BY <2>1, <2>4 DEF Order, FillSeen
  <2>6. Origin /\ Caught
    BY <2>4 DEF Origin, Caught
  <2>7. got \in [Sectors -> SUBSET Read]
    BY <2>2
  <2> QED BY <2>3, <2>5, <2>6, <2>7 DEF IInv
<1>2. IInv /\ [Next]_vars => IInv'
  <2> SUFFICES ASSUME IInv, [Next]_vars PROVE IInv'
    OBVIOUS
  <2>1. CASE FindHeader
    <3>1. PICK h \in Headers, f \in Fields : cap' = Append(cap, <<h, f>>)
      BY <2>1 DEF FindHeader
    <3>2. cap' \in Seq(Headers \X [kind : Kinds, flips : SUBSET Nat]) /\ Len(cap') = Len(cap) + 1
      <4>1. <<h, f>> \in Headers \X [kind : Kinds, flips : SUBSET Nat]
        BY DecoderAssumption
      <4> QED BY <3>1, <4>1, AppendProperties DEF IInv, TypeOK
    <3>3. pc = "find" /\ k = 1 /\ UNCHANGED <<pc, k, got, verdict>> /\ Len(cap) \in Nat
      BY <2>1, LenProperties DEF FindHeader, IInv, Order, TypeOK
    <3>4. TypeOK'
      BY <3>2, <3>3 DEF IInv, TypeOK
    <3>5. \A s \in Sectors : got[s] = {} /\ Rightful(s)' \subseteq 1 .. Len(cap')
      BY <3>2, <3>3, LenProperties DEF IInv, Order, Rightful
    <3>6. Origin' /\ Caught'
      BY <3>3, <3>5 DEF Origin, Caught
    <3> QED BY <3>3, <3>4, <3>6 DEF IInv, Order, FillSeen
  <2>2. CASE Found \/ Decoded
    <3>1. /\ UNCHANGED <<cap, k, got, verdict>> /\ pc' \in {"decode", "classify"}
          /\ pc' = "classify" => k > Len(cap)
      BY <2>2 DEF Found, Decoded
    <3>2. k \in 1 .. Len(cap) + 1 /\ Len(cap) \in Nat
      BY LenProperties DEF IInv, TypeOK
    <3>3. \A s \in Sectors : Rightful(s)' = Rightful(s)
      BY <3>1 DEF Rightful
    <3>4. TypeOK' /\ Order' /\ FillSeen'
      BY <3>1, <3>2 DEF IInv, TypeOK, Order, FillSeen
    <3>5. Origin' /\ Caught'
      BY <3>1, <3>3 DEF IInv, Origin, Caught
    <3> QED BY <3>1, <3>4, <3>5 DEF IInv
  <2>3. CASE DecodeHeader
    BY <2>3, DecodeStep
  <2>4. CASE Classify
    BY <2>4, ClassifyStep
  <2>5. CASE UNCHANGED vars
    <3>1. UNCHANGED <<pc, cap, k, got, verdict>>
          /\ \A s \in Sectors : Rightful(s)' = Rightful(s) /\ Claims(s)' = Claims(s)
      BY <2>5 DEF vars, Rightful, Claims
    <3> QED BY <3>1 DEF IInv, TypeOK, Order, Origin, Caught, FillSeen
  <2> QED BY <2>1, <2>2, <2>3, <2>4, <2>5 DEF Next
<1> QED BY <1>1, <1>2, PTL DEF Spec

\* decode_track returns for a sector nothing but a field behind a header of that
\* sector of that track.
THEOREM NoNeighbour == Spec => []OwnField
<1>1. IInv => OwnField
  BY DEF IInv, Origin, OwnField
<1> QED BY <1>1, Inductive, PTL

\* A field that is damaged no more than the near-sync test and the corrector allow, by
\* a burst that begins before the last three bits of its data, is returned, and from two
\* passes the clean one.
THEOREM BurstsRecovered == Spec => []Recovered
<1>1. IInv => Recovered
  <2> SUFFICES ASSUME IInv, pc = "done", NEW s \in Sectors, NEW n \in Rightful(s),
                      Readable(cap[n][2])
               PROVE  \E d \in got[s] : d.corrected => Damage(cap[n][2]) # {}
    BY DEF Recovered, Readable
  <2>1. n < k
    BY CapFacts DEF IInv, Order, Rightful
  <2> QED BY <2>1 DEF IInv, Caught
<1> QED BY <1>1, Inductive, PTL

\* classify_missing tells a sector filled with FF from a damaged one.
THEOREM FillTold == Spec => []FillSeen
<1>1. IInv => FillSeen
  BY DEF IInv
<1> QED BY <1>1, Inductive, PTL
=============================================================================
