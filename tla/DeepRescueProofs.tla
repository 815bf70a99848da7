---------------------------- MODULE DeepRescueProofs ----------------------------
(***************************************************************************)
(* deep_rescue.py: that identity comes from position, that a field one     *)
(* capture holds is found, and that captures make up for each other, for   *)
(* any number of captures, any bits read wrong and any shift of less than  *)
(* half a slot.                                                            *)
(***************************************************************************)
EXTENDS DeepRescue, FiniteSetTheorems, SequenceTheorems, TLAPS

\* Of two numbers that may be in a set there is a least.
LEMMA MinOfTwo ==
  ASSUME NEW a \in Int, NEW b \in Int, NEW S, S \subseteq {a, b}, S # {}
  PROVE  Min(S) \in S /\ \A y \in S : Min(S) <= y
<1>1. \E x \in S : \A y \in S : x <= y
  <2>1. CASE S = {a} \/ S = {b}
    BY <2>1
  <2>2. CASE S = {a, b}
    BY <2>2
  <2> QED BY <2>1, <2>2
<1> QED BY <1>1, Zenon DEF Min

\* What a capture of the survey may be.
LEMMA CaptureIs ==
  ASSUME DeepAssumption, raws \in Seq(Captures), NEW c \in DOMAIN raws
  PROVE  /\ raws[c].heard \subseteq Slots /\ raws[c].shift \in Int
         /\ raws[c].kind \in {"own", "cylinder"} /\ raws[c].wrong \subseteq Sector
         /\ Leftover \in Nat /\ Leftover <= 3756
         /\ 437 + raws[c].shift > -2328 /\ 437 + Leftover + raws[c].shift < 2328
<1>1. raws[c] \in Captures
  BY LenProperties, ElementOfSeq
<1>2. raws[c] \in [kind : {"own", "cylinder"}, shift : Int,
                  heard : SUBSET Slots, wrong : SUBSET Sector]
  BY <1>1 DEF DeepAssumption
<1>3. Leftover \in Nat /\ Leftover <= 3756
  BY DEF DeepAssumption, PITCH, WIN_AFTER
<1>4. 437 + raws[c].shift > -2328 /\ 437 + Leftover + raws[c].shift < 2328
  BY <1>1 DEF DeepAssumption
<1> QED BY <1>2, <1>3, <1>4

\* A place well inside a slot is nearest to the start of that slot.
LEMMA RoundIs ==
  ASSUME NEW k \in Nat, NEW z \in Int, z > -2328, z < 2328
  PROVE  Round(z + k * 4656, 4656) = k
<1> DEFINE m == 2 * z + 4656
           n == 2 * (z + k * 4656) + 4656
<1>1. m \in Int /\ 0 < m /\ m < 9312 /\ n = k * 9312 + m
  OBVIOUS
<1>2. n \div 9312 = k /\ n % 9312 = m
  <2> HIDE DEF m, n
  <2> QED BY <1>1
<1>3. n % 9312 # 0
  BY <1>1, <1>2
<1>4. n = 2 * (z + k * 4656) + 4656 /\ 2 * 4656 = 9312
  OBVIOUS
<1> HIDE DEF m, n
<1> QED BY <1>2, <1>3, <1>4 DEF Round

\* Where a header of a capture is, modulo slots.
LEMMA OffIs ==
  ASSUME DeepAssumption, raws \in Seq(Captures), NEW c \in DOMAIN raws, NEW k \in Slots
  PROVE  Off(c, k) = 437 + raws[c].shift + (IF k < 23 THEN 0 ELSE Leftover)
<1> DEFINE x == raws[c].shift
           y == IF k < 23 THEN 0 ELSE Leftover
           z == 437 + x + y
<1>2. x \in Int /\ Leftover \in Nat /\ 437 + x > -2328 /\ 437 + Leftover + x < 2328
  BY CaptureIs
<1>3. k \in 0 .. 25 /\ y = (k \div 23) * Leftover
  <2>1. k \in 0 .. 25 /\ k \div 23 = IF k < 23 THEN 0 ELSE 1
    BY DEF Slots
  <2> QED BY <1>2, <2>1
<1>4. HeaderAt(c, k) = z + k * 4656
  <2>1. HeaderAt(c, k) = 437 + k * 4656 + y + x
    BY <1>3 DEF HeaderAt, PITCH
  <2> HIDE DEF x, y
  <2>2. x \in Int /\ y \in Int
    BY <1>2 DEF x, y
  <2> QED BY <1>3, <2>1, <2>2
<1>5. z \in Int /\ z > -2328 /\ z < 2328 /\ k \in Nat
  BY <1>2, <1>3
<1> HIDE DEF z
<1>6. Round(HeaderAt(c, k), 4656) = k
  BY <1>4, <1>5, RoundIs
<1>7. Off(c, k) = z
  BY <1>3, <1>4, <1>5, <1>6 DEF Off, PITCH
<1> QED BY <1>7 DEF z

\* The slot base of a capture that shows headers is where one of them says; of one
\* most of whose headers are of the first revolution, it is where those say.
LEMMA BaseIs ==
  ASSUME DeepAssumption, raws \in Seq(Captures), NEW c \in DOMAIN raws
  PROVE  /\ raws[c].heard = {} => Base(c) = 437
         /\ raws[c].heard # {} =>
              Base(c) \in {437 + raws[c].shift, 437 + raws[c].shift + Leftover}
         /\ raws[c].heard # {} /\ FirstRev(c) => Base(c) = 437 + raws[c].shift
<1> DEFINE H == raws[c].heard
           a == 437 + raws[c].shift
           b == a + Leftover
           offs == {Off(c, k) : k \in H}
           Below(v) == Cardinality({k \in H : Off(c, k) <= v})
           S == {v \in offs : Below(v) > Cardinality(H) \div 2}
<1>2. H \subseteq Slots /\ raws[c].shift \in Int /\ Leftover \in Nat
  BY CaptureIs
<1>3. \A k \in H : Off(c, k) = IF k < 23 THEN a ELSE b
  <2>1. \A k \in H : Off(c, k) = 437 + raws[c].shift + (IF k < 23 THEN 0 ELSE Leftover)
    BY <1>2, OffIs
  <2> QED BY <1>2, <2>1
<1>4. H = {} => Base(c) = 437
  BY DEF Base
<1>5. H # {} => Base(c) = Min(S)
  BY DEF Base
<1>6. ASSUME H # {}
      PROVE  /\ Min(S) \in {a, b}
             /\ 2 * Cardinality({k \in H : k < 23}) > Cardinality(H) => Min(S) = a
  <2>1. a \in Int /\ b \in Int /\ a <= b
    BY <1>2
  <2>2. offs \subseteq {a, b}
    BY <1>3
  <2>3. IsFiniteSet(H) /\ Cardinality(H) \in Nat \ {0}
    <3>1. IsFiniteSet(Slots)
      <4> DEFINE m == 0
                 n == 25
      <4>1. m \in Int /\ n \in Int /\ Slots = m .. n
        BY DEF Slots
      <4> HIDE DEF m, n
      <4> QED BY <4>1, FS_Interval
    <3>2. IsFiniteSet(H)
      BY <1>2, <3>1, FS_Subset
    <3> HIDE DEF H
    <3> QED BY <1>6, <3>2, FS_CardinalityType, FS_EmptySet
  <2>4. \A v : Below(v) \in Nat
    <3>1. \A v : IsFiniteSet({k \in H : Off(c, k) <= v})
      BY <2>3, FS_Subset
    <3> QED BY <3>1, FS_CardinalityType
  <2>5. Below(b) = Cardinality(H)
    <3>1. {k \in H : Off(c, k) <= b} = H
      BY <1>3, <2>1
    <3> QED BY <3>1
  <2>6. Cardinality(H) > Cardinality(H) \div 2
    <3> HIDE DEF H
    <3> QED BY <2>3
  <2>7. S # {}
    <3>1. CASE b \in offs
      BY <2>5, <2>6, <3>1
    <3>2. CASE b \notin offs
      <4>1. \A k \in H : Off(c, k) = a
        BY <1>3, <3>2
      <4>2. a \in offs /\ {k \in H : Off(c, k) <= a} = H
        BY <1>6, <2>1, <4>1
      <4> QED BY <2>6, <4>2
    <3> QED BY <3>1, <3>2
  <2>8. Min(S) \in S /\ \A y \in S : Min(S) <= y
    <3>1. S \subseteq {a, b}
      BY <2>2
    <3> HIDE DEF S, a, b
    <3> QED BY <2>1, <2>7, <3>1, MinOfTwo
  <2>9. ASSUME 2 * Cardinality({k \in H : k < 23}) > Cardinality(H) PROVE a \in S
    <3> DEFINE F == {k \in H : k < 23}
               G == {k \in H : Off(c, k) <= a}
    <3>1. F \subseteq G /\ IsFiniteSet(G) /\ IsFiniteSet(F)
      <4>1. \A k \in F : Off(c, k) <= a
        BY <1>3, <2>1
      <4> QED BY <2>3, <4>1, FS_Subset
    <3>2. Cardinality(F) <= Cardinality(G) /\ Cardinality(F) \in Nat /\ Cardinality(G) \in Nat
      <4> HIDE DEF F, G
      <4> QED BY <3>1, FS_Subset, FS_CardinalityType
    <3>3. Cardinality(F) > 0
      <4> HIDE DEF H, F
      <4> QED BY <2>3, <2>9, <3>2 DEF F
    <3>4. F # {}
      <4>1. Cardinality({}) = 0
        BY FS_EmptySet
      <4> HIDE DEF F
      <4> QED BY <3>3, <4>1
    <3>5. a \in offs
      BY <1>3, <3>4
    <3>6. Below(a) > Cardinality(H) \div 2
      <4> HIDE DEF H
      <4> QED BY <2>3, <2>9, <3>2
    <3> QED BY <3>5, <3>6
  <2>10. Min(S) \in {a, b} /\ (a \in S => Min(S) <= a)
    BY <2>2, <2>8
  <2> HIDE DEF S
  <2> QED BY <2>1, <2>9, <2>10
<1> HIDE DEF S
<1> QED BY <1>4, <1>5, <1>6 DEF FirstRev
-----------------------------------------------------------------------------
(* The windows and the fields in them.                                     *)

\* Interleave 8 and its inverse.
LEMMA SlotOfSector ==
  ASSUME NEW x \in 0 .. 22
  PROVE  LET y == (x * 3) % 23
         IN  y \in 0 .. 22 /\ SectorIn(y) = x /\ SectorIn(y + 23) = x
BY DEF SectorIn

\* What starts in a window of the sector's slot is in that slot.
LEMMA SlotIsOwn ==
  ASSUME DeepAssumption, raws \in Seq(Captures), sec \in 0 .. 22,
         reads = [c \in {d \in DOMAIN raws : Qualified(d)} |-> Base(c)],
         NEW c \in DOMAIN reads, NEW s \in {slot0, slot0 + 23}, NEW slot \in Slots,
         FieldAt(c, slot) - Lo(c, s) \in 0 .. Reach - 1
  PROVE  slot = s
<1>5. slot0 \in 0 .. 22
  BY SlotOfSector DEF slot0
<1>6. c \in DOMAIN raws /\ Qualified(c) /\ reads[c] = Base(c)
  OBVIOUS
<1> DEFINE x == raws[c].shift
           e == (slot \div 23) * Leftover
           b == reads[c]
<1>7. /\ x \in Int /\ Leftover \in Nat /\ Leftover <= 3756
      /\ 437 + x > -2328 /\ 437 + Leftover + x < 2328
  BY <1>6, CaptureIs
<1>8. b \in Int /\ (b = 437 \/ b = 437 + x \/ b = 437 + x + Leftover)
  BY <1>6, <1>7, BaseIs
<1>9. slot \in 0 .. 25 /\ e \in Int /\ (e = 0 \/ e = Leftover) /\ s \in 0 .. 45
  <2>1. slot \in 0 .. 25 /\ slot \div 23 \in {0, 1}
    BY DEF Slots
  <2>2. slot \div 23 = 0 => e = 0
    BY <1>7
  <2>3. slot \div 23 = 1 => e = Leftover
    BY <1>7
  <2>4. s \in 0 .. 45
    BY <1>5
  <2> QED BY <1>7, <2>1, <2>2, <2>3, <2>4
<1>10. (437 + slot * 4656 + e + x + 298) - (b + s * 4656 + 298 - 400) \in 0 .. 1299
  <2>1. FieldAt(c, slot) - Lo(c, s) \in 0 .. 1299
    BY DEF Reach, WIN_BEFORE, WIN_AFTER
  <2>2. FieldAt(c, slot) = 437 + slot * 4656 + e + x + 298
    BY DEF FieldAt, HeaderAt, PITCH, HDR_TO_SYNC
  <2>3. Lo(c, s) = b + s * 4656 + 298 - 400
    BY DEF Lo, PITCH, HDR_TO_SYNC, WIN_BEFORE
  <2> HIDE DEF x, e, b
  <2> QED BY <2>1, <2>2, <2>3
<1> HIDE DEF x, e, b
<1>11. slot * 4656 - s * 4656 + (e + x + 437 - b) + 400 \in 0 .. 1299
  BY <1>7, <1>8, <1>9, <1>10
<1>12. e + x + 437 - b <= 3756 /\ e + x + 437 - b >= -3756
  BY <1>7, <1>8, <1>9
<1> DEFINE y == e + x + 437 - b
<1>13. y \in Int /\ y <= 3756 /\ y >= -3756 /\ slot * 4656 - s * 4656 + y + 400 \in 0 .. 1299
  BY <1>7, <1>8, <1>9, <1>11, <1>12
<1> HIDE DEF y
<1> QED BY <1>9, <1>13

\* So the fields there are of the dead sector, read by a capture that qualifies.
LEMMA FieldIsOwn ==
  ASSUME DeepAssumption, raws \in Seq(Captures), sec \in 0 .. 22, wins = Windows,
         reads = [c \in {d \in DOMAIN raws : Qualified(d)} |-> Base(c)],
         NEW p \in Fields
  PROVE  \E c \in DOMAIN raws : Qualified(c) /\ p = <<raws[c].kind, sec>>
<1>1. PICK w \in wins : p \in w.fields
  BY DEF Fields
<1>2. PICK v \in (DOMAIN reads) \X {slot0, slot0 + 23} : w = Window(v[1], v[2])
  BY DEF Windows
<1> DEFINE c == v[1]
           s == v[2]
<1>3. c \in DOMAIN reads /\ s \in {slot0, slot0 + 23} /\ w = Window(c, s)
  BY <1>2
<1> HIDE DEF c, s
<1>4. PICK f \in Slots : /\ p = <<raws[c].kind, SectorIn(f)>>
                         /\ FieldAt(c, f) - Lo(c, s) \in 0 .. Reach - 1
  BY <1>1, <1>3 DEF Window
<1>5. f = s
  BY <1>3, <1>4, SlotIsOwn
<1>6. SectorIn(s) = sec
  <2>1. SectorIn(slot0) = sec /\ SectorIn(slot0 + 23) = sec
    BY SlotOfSector DEF slot0
  <2> QED BY <1>3, <2>1
<1>7. c \in DOMAIN raws /\ Qualified(c)
  BY <1>3
<1> QED BY <1>4, <1>5, <1>6, <1>7

\* Of the members of a set of numbers that is bounded there is a least.
LEMMA LeastOf ==
  ASSUME NEW n \in Nat, NEW I, I \subseteq 1 .. n, I # {}
  PROVE  \E i \in I : \A j \in I : i <= j
<1> DEFINE S == 1 .. n
           D == {1 .. i : i \in I}
<1>1. D \subseteq SUBSET S /\ D # {}
  <2>1. \A i \in I : 1 .. i \subseteq S
    OBVIOUS
  <2> HIDE DEF S
  <2> QED BY <2>1
<1>2. IsFiniteSet(S)
  BY FS_Interval
<1>3. \E x \in D : \A y \in D : <<y, x>> \notin StrictSubsetOrdering(S)
  <2> HIDE DEF S, D
  <2>1. IsWellFoundedOn(StrictSubsetOrdering(S), SUBSET S)
    BY <1>2, FS_FiniteSubsetsOfFinite, FS_StrictSubsetOrderingWellFounded
  <2> QED BY <1>1, <2>1, WFMin
<1>4. PICK i \in I : \A j \in I : <<1 .. j, 1 .. i>> \notin StrictSubsetOrdering(S)
  BY <1>3
<1>5. ASSUME NEW j \in I, j < i PROVE FALSE
  <2>1. 1 .. j \subseteq 1 .. i /\ i \in 1 .. i /\ i \notin 1 .. j /\ 1 .. i \subseteq S
    BY <1>5
  <2>2. <<1 .. j, 1 .. i>> \in StrictSubsetOrdering(S)
    BY <2>1 DEF StrictSubsetOrdering
  <2> QED BY <1>4, <2>2
<1> QED BY <1>5

\* Of the windows there is a first.
LEMMA FirstIs ==
  ASSUME raws \in Seq(Captures), sec \in 0 .. 22, wins = Windows, wins # {},
         reads = [c \in {d \in DOMAIN raws : Qualified(d)} |-> Base(c)]
  PROVE  First \in wins /\ \A v \in wins : Earlier(First, v)
<1> DEFINE rank(w) == 2 * w.read + (IF w.slot = slot0 THEN 0 ELSE 1)
           n == 2 * Len(raws) + 1
           I == {rank(w) : w \in wins}
<1>1. \A w \in wins : w.read \in 1 .. Len(raws) /\ w.slot \in {slot0, slot0 + 23}
  <2>1. SUFFICES ASSUME NEW w \in wins
                 PROVE  w.read \in 1 .. Len(raws) /\ w.slot \in {slot0, slot0 + 23}
    OBVIOUS
  <2>2. PICK v \in (DOMAIN reads) \X {slot0, slot0 + 23} : w = Window(v[1], v[2])
    BY DEF Windows
  <2>3. w.read = v[1] /\ w.slot = v[2]
    BY <2>2 DEF Window
  <2> QED BY <2>2, <2>3, LenProperties
<1>2. slot0 \in Int
  BY DEF slot0
<1>3. n \in Nat /\ I \subseteq 1 .. n /\ I # {}
  <2>1. Len(raws) \in Nat
    BY LenProperties
  <2>2. \A w \in wins : rank(w) \in 1 .. n
    BY <1>1, <2>1
  <2> QED BY <2>1, <2>2
<1>4. PICK i \in I : \A j \in I : i <= j
  <2> HIDE DEF n, I
  <2> QED BY <1>3, LeastOf
<1>5. PICK w \in wins : i = rank(w)
  BY <1>4
<1>6. \A v \in wins : rank(w) <= rank(v)
  BY <1>4, <1>5
<1>7. \A v \in wins : Earlier(w, v)
  <2>1. \A v \in wins : v.read \in Int /\ (v.slot = slot0 \/ v.slot = slot0 + 23)
    BY <1>1
  <2> QED BY <1>2, <1>6, <2>1 DEF Earlier
<1>8. \E u \in wins : \A v \in wins : Earlier(u, v)
  BY <1>7
<1> QED BY <1>8, Zenon DEF First
-----------------------------------------------------------------------------
(* What rescue_sector knows at each of its stages.                         *)

Hows == {"slide-exact", "nearsync-burst", "vote-exact", "vote-slip"}

CutInv ==
  /\ pc \in {"survey", "cut", "slide", "nearsync", "align", "vote", "search", "done"}
  /\ raws \in Seq(Captures) /\ Len(raws) <= NR /\ sec \in DeadSectors
  /\ pc = "survey" => reads = <<>>
  /\ pc # "survey" => reads = [c \in {d \in DOMAIN raws : Qualified(d)} |-> Base(c)]
  /\ pc \in {"survey", "cut"} => wins = {}
  /\ pc \notin {"survey", "cut"} => wins = Windows

VoteInv ==
  /\ laid # {} => laid = Laid /\ wins # {} /\ pc \in {"vote", "search", "done"}
  /\ pc = "vote" => laid = Laid
  /\ pc = "search" => laid = Laid /\ cons = Consensus

OutInv ==
  /\ pc # "done" => out = None
  /\ pc \in {"align", "vote", "search", "done"} /\ out = None => Near = {}
  /\ out # None => \E p \in Fields, how \in Hows : out = Append(p, how)

DeepInv == CutInv /\ VoteInv /\ OutInv

\* What is read out of the captures stays while they do, and what is read out of the
\* windows while those do.
LEMMA Stays ==
  ASSUME UNCHANGED <<raws, sec, reads>>
  PROVE  /\ Windows' = Windows
         /\ \A c : Base(c)' = Base(c) /\ Qualified(c)' = Qualified(c)
BY DEF Windows, Window, Over, Read, Base, Qualified, Off, HeaderAt, FieldAt, Lo, slot0

LEMMA FieldsStay ==
  ASSUME UNCHANGED wins
  PROVE  Fields' = Fields /\ Near' = Near /\ Laid' = Laid
<1>1. Fields' = Fields /\ Near' = Near
  BY DEF Fields, Near, Offered
<1>2. First' = First
  BY DEF First
<1>3. Laid' = Laid
  BY <1>2 DEF Laid, Lags
<1> QED BY <1>1, <1>3

LEMMA AppendToTwo ==
  ASSUME NEW a, NEW b, NEW h PROVE Append(<<a, b>>, h) = <<a, b, h>>
<1> DEFINE p == <<a, b>>
           q == <<a, b, h>>
           S == {a, b, h}
<1>1. p \in Seq(S) /\ Len(p) = 2 /\ h \in S /\ p[1] = a /\ p[2] = b
  OBVIOUS
<1>2. q \in Seq(S) /\ Len(q) = 3 /\ q[1] = a /\ q[2] = b /\ q[3] = h
  OBVIOUS
<1> HIDE DEF p, q, S
<1>3. /\ Append(p, h) \in Seq(S) /\ Len(Append(p, h)) = 3
      /\ Append(p, h)[1] = a /\ Append(p, h)[2] = b /\ Append(p, h)[3] = h
  <2>1. /\ Append(p, h) \in Seq(S) /\ Len(Append(p, h)) = Len(p) + 1
        /\ \A i \in 1 .. Len(p) : Append(p, h)[i] = p[i]
        /\ Append(p, h)[Len(p) + 1] = h
    <3>1. p \in Seq(S) /\ h \in S
      BY <1>1
    <3> QED BY <3>1, AppendProperties
  <2> DEFINE r == Append(p, h)
  <2> HIDE DEF r
  <2>2. /\ r \in Seq(S) /\ Len(r) = Len(p) + 1 /\ \A i \in 1 .. Len(p) : r[i] = p[i]
        /\ r[Len(p) + 1] = h
    BY <2>1 DEF r
  <2>3. r \in Seq(S) /\ Len(r) = 3 /\ r[1] = a /\ r[2] = b /\ r[3] = h
    BY <1>1, <2>2
  <2> QED BY <2>3 DEF r
<1>4. Append(p, h) = q
  <2> DEFINE r == Append(p, h)
  <2> HIDE DEF r
  <2>1. r \in Seq(S) /\ Len(r) = 3 /\ \A i \in 1 .. 3 : r[i] = q[i]
    BY <1>2, <1>3 DEF r
  <2>2. r = q
    BY <1>2, <2>1, SeqEqual
  <2> QED BY <2>2 DEF r
<1> QED BY <1>4 DEF p, q

\* No field is none, and with a word of how it was found it is not.
LEMMA FoundIsSome ==
  ASSUME DeepAssumption, CutInv, pc \notin {"survey", "cut"}, NEW p \in Fields, NEW how
  PROVE  Append(p, how) # None /\ Append(p, how) = <<p[1], p[2], how>>
<1>1. PICK c \in DOMAIN raws : p = <<raws[c].kind, sec>>
  BY FieldIsOwn DEF CutInv, DeepAssumption
<1>2. Append(p, how) = <<raws[c].kind, sec, how>>
  BY <1>1, AppendToTwo
<1>3. \A a, b, d : <<a, b, d>> # <<>>
  OBVIOUS
<1> QED BY <1>1, <1>2, <1>3 DEF None

LEMMA InitDeep == ASSUME DeepAssumption, Init PROVE DeepInv
<1>1. raws \in Seq(Captures) /\ Len(raws) <= NR
  BY EmptySeq DEF Init, DeepAssumption
<1> QED BY <1>1 DEF Init, DeepInv, CutInv, VoteInv, OutInv

LEMMA SurveyDeep == ASSUME DeepAssumption, DeepInv, Survey PROVE DeepInv'
<1>1. PICK c \in Captures : raws' = Append(raws, c)
  BY DEF Survey
<1>2. raws \in Seq(Captures) /\ Len(raws) < NR /\ Len(raws) \in Nat /\ NR \in Nat
  BY LenProperties DEF Survey, DeepInv, CutInv, DeepAssumption
<1>3. raws' \in Seq(Captures) /\ Len(raws') <= NR
  BY <1>1, <1>2, AppendProperties
<1>4. Fields' = Fields
  BY FieldsStay DEF Survey
<1> QED BY <1>3, <1>4 DEF Survey, DeepInv, CutInv, VoteInv, OutInv

LEMMA QualifyDeep == ASSUME DeepInv, Qualify PROVE DeepInv'
<1>1. \A c : Base(c)' = Base(c) /\ Qualified(c)' = Qualified(c)
  BY DEF Qualify, Base, Qualified, Off, HeaderAt
<1>2. reads' = [c \in {d \in DOMAIN raws' : Qualified(d)'} |-> Base(c)']
  BY <1>1, Zenon DEF Qualify
<1>3. CutInv'
  BY <1>2 DEF Qualify, DeepInv, CutInv
<1> QED BY <1>3 DEF Qualify, DeepInv, VoteInv, OutInv

LEMMA CutStays ==
  ASSUME CutInv, UNCHANGED <<raws, sec, reads>>, pc # "survey",
         pc' \in {"slide", "nearsync", "align", "vote", "search", "done"}, wins' = Windows
  PROVE  CutInv'
<1>1. Windows' = Windows /\ \A c : Base(c)' = Base(c) /\ Qualified(c)' = Qualified(c)
  BY Stays
<1>2. reads' = [c \in {d \in DOMAIN raws' : Qualified(d)'} |-> Base(c)']
  BY <1>1, Zenon DEF CutInv
<1> QED BY <1>1, <1>2 DEF CutInv

LEMMA CutDeep == ASSUME DeepInv, Cut PROVE DeepInv'
<1>1. CutInv'
  BY CutStays DEF DeepInv, Cut
<1> QED BY <1>1 DEF Cut, DeepInv, CutInv, VoteInv, OutInv

LEMMA TakeDeep ==
  ASSUME DeepAssumption, DeepInv, NEW H, H \subseteq Offered, NEW how \in Hows,
         NEW next \in {"nearsync", "align"}, pc \in {"slide", "nearsync"},
         TakeFirst(H, how, next), next = "align" => H = Near
  PROVE  DeepInv'
<1>1. UNCHANGED <<raws, sec, reads, wins, laid, cons>> /\ out = None /\ laid = {}
  BY DEF TakeFirst, DeepInv, OutInv, VoteInv
<1>2. Fields' = Fields /\ Near' = Near
  BY <1>1, FieldsStay
<1>3. pc' \in {"nearsync", "align", "done"}
  BY DEF TakeFirst
<1>4. CutInv'
  BY <1>1, <1>3, CutStays DEF DeepInv, CutInv
<1>5. VoteInv'
  BY <1>1, <1>3 DEF VoteInv
<1>6. CASE H = {}
  <2>1. pc' = next /\ UNCHANGED out
    BY <1>6 DEF TakeFirst
  <2> QED BY <1>1, <1>2, <1>4, <1>5, <1>6, <2>1 DEF DeepInv, OutInv
<1>7. CASE H # {}
  <2>1. PICK h \in H : pc' = "done" /\ out' = Append(h[3], how)
    BY <1>7 DEF TakeFirst
  <2>2. h[3] \in Fields
    BY DEF Offered, Fields
  <2>3. out' # None
    BY <2>1, <2>2, FoundIsSome DEF DeepInv
  <2>4. \E p \in Fields', x \in Hows : out' = Append(p, x)
    BY <1>2, <2>1, <2>2
  <2>5. OutInv'
    BY <2>1, <2>3, <2>4 DEF OutInv, None
  <2> QED BY <1>4, <1>5, <2>5 DEF DeepInv
<1> QED BY <1>6, <1>7

LEMMA AlignDeep == ASSUME DeepInv, Align PROVE DeepInv'
<1>1. /\ UNCHANGED <<raws, sec, reads, wins, cons, out>> /\ pc = "align"
      /\ pc' \in {"vote", "done"} /\ out = None /\ Near = {} /\ laid = {}
  BY DEF Align, DeepInv, OutInv, VoteInv
<1>2. Fields' = Fields /\ Near' = Near /\ Laid' = Laid
  BY <1>1, FieldsStay
<1>3. CutInv'
  BY <1>1, CutStays DEF DeepInv, CutInv
<1>4. VoteInv'
  <2>1. CASE Cardinality(wins) >= 3
    <3>1. wins # {}
      <4>1. Cardinality({}) = 0
        BY FS_EmptySet
      <4> QED BY <2>1, <4>1
    <3> QED BY <1>1, <1>2, <2>1, <3>1 DEF Align, VoteInv
  <2>2. CASE ~(Cardinality(wins) >= 3)
    BY <1>1, <2>2 DEF Align, VoteInv
  <2> QED BY <2>1, <2>2
<1>5. OutInv'
  BY <1>1, <1>2 DEF OutInv
<1> QED BY <1>3, <1>4, <1>5 DEF DeepInv

LEMMA VoteDeep == ASSUME DeepInv, Vote PROVE DeepInv'
<1>1. /\ UNCHANGED <<raws, sec, reads, wins, laid, out>> /\ pc = "vote"
      /\ pc' \in {"search", "done"} /\ out = None /\ Near = {} /\ laid = Laid
  BY DEF Vote, DeepInv, OutInv, VoteInv
<1>2. Fields' = Fields /\ Near' = Near /\ Laid' = Laid
  BY <1>1, FieldsStay
<1>3. CutInv'
  BY <1>1, CutStays DEF DeepInv, CutInv
<1>4. VoteInv'
  <2>1. pc' = "search" => cons' = Consensus
    BY DEF Vote
  <2>2. Consensus' = Consensus
    BY <1>1 DEF Consensus, Agreed, Length
  <2> QED BY <1>1, <1>2, <2>1, <2>2 DEF DeepInv, VoteInv
<1>5. OutInv'
  BY <1>1, <1>2 DEF OutInv
<1> QED BY <1>3, <1>4, <1>5 DEF DeepInv

LEMMA SearchDeep == ASSUME DeepAssumption, DeepInv, Search PROVE DeepInv'
<1>1. /\ UNCHANGED <<raws, sec, reads, wins, laid, cons>> /\ pc = "search"
      /\ pc' = "done" /\ out = None /\ Near = {} /\ laid = Laid
  BY DEF Search, DeepInv, OutInv, VoteInv
<1>2. Fields' = Fields /\ Near' = Near /\ Laid' = Laid
  BY <1>1, FieldsStay
<1>3. CutInv'
  BY <1>1, CutStays DEF DeepInv, CutInv
<1>4. VoteInv'
  BY <1>1, <1>2 DEF DeepInv, VoteInv
<1>5. CASE UNCHANGED out
  BY <1>1, <1>2, <1>3, <1>4, <1>5 DEF DeepInv, OutInv
<1>6. CASE \E p \in Fields, how \in Hows : out' = Append(p, how)
  <2>1. out' # None
    BY <1>1, <1>6, FoundIsSome DEF DeepInv
  <2>2. OutInv'
    BY <1>1, <1>2, <1>6, <2>1 DEF OutInv, None
  <2> QED BY <1>3, <1>4, <2>2 DEF DeepInv
<1> QED BY <1>5, <1>6 DEF Search, VoteExact, VoteSlip, Hows

LEMMA StutterDeep == ASSUME DeepInv, UNCHANGED vars PROVE DeepInv'
<1>1. UNCHANGED <<pc, raws, sec, reads, wins, laid, cons, out>>
  BY DEF vars
<1>2. Windows' = Windows /\ \A c : Base(c)' = Base(c) /\ Qualified(c)' = Qualified(c)
  BY <1>1, Stays
<1>3. Fields' = Fields /\ Near' = Near /\ Laid' = Laid
  BY <1>1, FieldsStay
<1>4. Consensus' = Consensus
  BY <1>1 DEF Consensus, Agreed, Length
<1>5. CutInv'
  BY <1>1, <1>2 DEF DeepInv, CutInv
<1> QED BY <1>1, <1>3, <1>4, <1>5 DEF DeepInv, VoteInv, OutInv

\* At every stage the reads and windows are those of the captures, the vote is reached
\* only when no field is whole or but for a burst, it is on the bits of the windows laid
\* over each other, and the result is a field's.
THEOREM Inductive == ASSUME DeepAssumption PROVE Spec => []DeepInv
<1>1. ASSUME DeepInv, Next PROVE DeepInv'
  <2>1. CASE Slide
    <3>1. Slid \subseteq Offered /\ TakeFirst(Slid, "slide-exact", "nearsync") /\ pc = "slide"
      BY <2>1 DEF Slide, Slid
    <3> QED BY <1>1, <3>1, TakeDeep DEF Hows
  <2>2. CASE NearSyncs
    <3>1. Near \subseteq Offered /\ TakeFirst(Near, "nearsync-burst", "align") /\ pc = "nearsync"
      BY <2>2 DEF NearSyncs, Near
    <3> QED BY <1>1, <3>1, TakeDeep DEF Hows
  <2> QED BY <1>1, <2>1, <2>2, SurveyDeep, QualifyDeep, CutDeep, AlignDeep, VoteDeep,
             SearchDeep DEF Next
<1> QED BY <1>1, InitDeep, StutterDeep, PTL DEF Spec
-----------------------------------------------------------------------------
(* The properties.                                                         *)

\* Slot bases are near INDEX, windows are laid no farther than is looked, and results
\* are of the track's sectors.
THEOREM TypeCorrect == ASSUME DeepAssumption PROVE Spec => []TypeOK
<1>1. ASSUME DeepInv PROVE TypeOK
  <2>1. \A c \in DOMAIN reads : reads[c] \in -2328 .. 2328
    <3>1. CASE pc = "survey"
      <4>1. DOMAIN reads = 1 .. 0
        BY <1>1, <3>1 DEF DeepInv, CutInv
      <4> QED BY <4>1
    <3>2. CASE pc # "survey"
      <4> SUFFICES ASSUME NEW c \in DOMAIN reads PROVE reads[c] \in -2328 .. 2328
        OBVIOUS
      <4>1. c \in DOMAIN raws /\ reads[c] = Base(c) /\ raws \in Seq(Captures)
        BY <1>1, <3>2 DEF DeepInv, CutInv
      <4>2. \/ Base(c) = 437 \/ Base(c) = 437 + raws[c].shift
            \/ Base(c) = 437 + raws[c].shift + Leftover
        BY <4>1, BaseIs
      <4>3. /\ raws[c].shift \in Int /\ Leftover \in Nat
            /\ 437 + raws[c].shift > -2328 /\ 437 + Leftover + raws[c].shift < 2328
        BY <4>1, CaptureIs
      <4> DEFINE x == raws[c].shift
                 b == Base(c)
      <4>4. b \in -2328 .. 2328
        <5>1. /\ x \in Int /\ Leftover \in Nat /\ (b = 437 \/ b = 437 + x \/ b = 437 + x + Leftover)
              /\ 437 + x > -2328 /\ 437 + Leftover + x < 2328
          BY <4>2, <4>3
        <5> HIDE DEF x, b
        <5>2. b \in Int /\ b >= -2328 /\ b <= 2328
          BY <5>1
        <5> QED BY <5>2
      <4> QED BY <4>1, <4>4
    <3> QED BY <3>1, <3>2
  <2>2. \A v \in laid : v[1] \in wins /\ v[2] \in Span
    <3> SUFFICES ASSUME laid # {} PROVE \A v \in laid : v[1] \in wins /\ v[2] \in Span
      OBVIOUS
    <3>1. /\ laid = Laid /\ wins # {} /\ wins = Windows /\ raws \in Seq(Captures)
          /\ sec \in 0 .. 22
          /\ reads = [c \in {d \in DOMAIN raws : Qualified(d)} |-> Base(c)]
      BY <1>1 DEF DeepInv, CutInv, VoteInv, DeepAssumption
    <3>2. First \in wins
      BY <3>1, FirstIs
    <3>3. \A w : Lags(w) \subseteq Span
      BY DEF Lags
    <3>4. 0 \in Span
      BY DEF Span
    <3> QED BY <3>1, <3>2, <3>3, <3>4 DEF Laid
  <2>3. ASSUME out # None
        PROVE  out \in {"own", "cylinder"} \X (0 .. 22) \X
                 {"slide-exact", "nearsync-burst", "vote-exact", "vote-slip"}
    <3>1. pc = "done" /\ CutInv
      BY <1>1, <2>3 DEF DeepInv, OutInv
    <3>2. PICK p \in Fields, how \in Hows : out = Append(p, how)
      BY <1>1, <2>3 DEF DeepInv, OutInv
    <3>3. PICK c \in DOMAIN raws : p = <<raws[c].kind, sec>>
      BY <3>1, FieldIsOwn DEF CutInv, DeepAssumption
    <3>4. out = <<p[1], p[2], how>>
      BY <3>1, <3>2, FoundIsSome
    <3>5. raws \in Seq(Captures) /\ sec \in 0 .. 22
      BY <3>1 DEF CutInv, DeepAssumption
    <3>6. raws[c].kind \in {"own", "cylinder"}
      BY <3>3, <3>5, CaptureIs
    <3> QED BY <3>3, <3>4, <3>5, <3>6 DEF Hows
  <2> QED BY <1>1, <2>1, <2>2, <2>3 DEF DeepInv, CutInv, TypeOK
<1> QED BY <1>1, Inductive, PTL

\* "Identity comes from position": whatever deep_rescue.py puts in place of a sector
\* was written for it, on this track unless a capture shows no header at all.
THEOREM IdentityFromPosition == ASSUME DeepAssumption PROVE Spec => []OwnField
<1>1. ASSUME DeepInv, out # None
      PROVE  /\ out[2] = sec
             /\ (\A c \in DOMAIN raws : raws[c].kind = "own" \/ raws[c].heard # {})
                  => out[1] = "own"
  <2>1. pc = "done" /\ CutInv
    BY <1>1 DEF DeepInv, OutInv
  <2>2. PICK p \in Fields, how \in Hows : out = Append(p, how)
    BY <1>1 DEF DeepInv, OutInv
  <2>3. PICK c \in DOMAIN raws : Qualified(c) /\ p = <<raws[c].kind, sec>>
    BY <2>1, FieldIsOwn DEF CutInv, DeepAssumption
  <2>4. out = <<p[1], p[2], how>>
    BY <2>1, <2>2, FoundIsSome
  <2> QED BY <2>3, <2>4 DEF Qualified
<1> QED BY <1>1, Inductive, PTL DEF OwnField
-----------------------------------------------------------------------------
(* The sector's own field, in the window of its first slot.                *)

Own(c) == Window(c, slot0)
Place(c) == FieldAt(c, slot0) - Lo(c, slot0)
Truth == Written[<<"own", sec>>]
Shows(ones, at, bits) ==
  \A r \in Sector : at + r \in 0 .. 5435 => (at + r \in ones <=> r \in bits)
ShowsField(ones, at, bits) ==
  \A r \in Int : 0 <= r /\ r <= 4135 => (at + r \in ones <=> r \in bits)
Room(c) == raws[c].shift \in -335 .. 899
OwnShown(c) ==
  /\ Own(c) \in wins /\ Own(c).read = c /\ Own(c).slot = slot0
  /\ <<"own", sec>> \in Own(c).fields
  /\ Place(c) \in 0 .. 1299 /\ (raws[c].heard # {} => Place(c) = 400)
  /\ Shows(Own(c).ones, Place(c), SymDiff(Truth, raws[c].wrong))

\* What is written in a slot, and how it is read, is of the bits of a sector.
LEMMA ReadIs ==
  ASSUME DeepAssumption, raws \in Seq(Captures), NEW c \in DOMAIN raws, NEW f \in Slots
  PROVE  Read(c, f) \subseteq Sector
<1>1. raws[c].kind \in {"own", "cylinder"} /\ raws[c].wrong \subseteq Sector
  BY CaptureIs
<1>2. SectorIn(f) \in 0 .. 22
  BY DEF SectorIn, Slots
<1>3. Written[<<raws[c].kind, SectorIn(f)>>] \subseteq Sector
  BY <1>1, <1>2 DEF DeepAssumption
<1> QED BY <1>1, <1>3 DEF Read, SymDiff

\* The sync is written in front of every sector.
LEMMA TruthIs ==
  ASSUME DeepAssumption, sec \in 0 .. 22
  PROVE  Truth \subseteq Sector /\ Truth \cap (0 .. 7) = SyncOnes
BY DEF DeepAssumption, Truth

\* Fields lie farther apart than they are long, with all that belongs to one.
LEMMA Apart ==
  ASSUME NEW c, raws[c].shift \in Int, Leftover \in Nat,
         NEW f \in Slots, NEW g \in 0 .. 22, NEW r \in Sector, NEW b \in Sector,
         FieldAt(c, g) + r = FieldAt(c, f) + b
  PROVE  f = g /\ b = r
<1> DEFINE x == raws[c].shift
           e == (f \div 23) * Leftover
<1>1. x \in Int /\ Leftover \in Nat
  OBVIOUS
<1>2. f \in 0 .. 25 /\ e \in Int /\ e >= 0 /\ (f < 23 => e = 0)
  <2>1. f \in 0 .. 25 /\ f \div 23 \in {0, 1} /\ (f < 23 => f \div 23 = 0)
    BY DEF Slots
  <2>2. f \div 23 = 0 => e = 0
    BY <1>1
  <2>3. f \div 23 = 1 => e = Leftover
    BY <1>1
  <2> QED BY <1>1, <2>1, <2>2, <2>3
<1>3. FieldAt(c, f) = 437 + f * 4656 + e + x + 298
  BY DEF FieldAt, HeaderAt, PITCH, HDR_TO_SYNC
<1>4. FieldAt(c, g) = 437 + g * 4656 + x + 298
  <2>1. g \div 23 = 0
    OBVIOUS
  <2>2. (g \div 23) * Leftover = 0
    BY <1>1, <2>1
  <2> QED BY <1>1, <2>2 DEF FieldAt, HeaderAt, PITCH, HDR_TO_SYNC
<1>5. r \in -298 .. 4135 /\ b \in -298 .. 4135
  BY DEF Sector, HDR_TO_SYNC, FIELD_BITS
<1> HIDE DEF x, e
<1>6. g * 4656 + r = f * 4656 + e + b
  BY <1>1, <1>2, <1>3, <1>4, <1>5
<1>7. f = g
  <2> DEFINE k == f - g
  <2>1. k \in Int /\ k * 4656 = r - b - e /\ r - b <= 4433 /\ r - b >= -4433
    BY <1>2, <1>5, <1>6
  <2>2. k < 0 => e = 0
    BY <1>2
  <2>3. k = 0
    <3> HIDE DEF k
    <3> QED BY <1>2, <1>5, <2>1, <2>2
  <2> QED BY <1>2, <2>3
<1> QED BY <1>2, <1>5, <1>6, <1>7

LEMMA Moved ==
  ASSUME NEW a0 \in Int, NEW a1 \in Int, NEW lo \in Int, NEW r \in Int, NEW b \in Int,
         (a0 - lo) + r = (a1 - lo) + b
  PROVE  a0 + r = a1 + b
OBVIOUS

\* So that the window shows at the field's place what is read there, and nothing else.
LEMMA ReadBack ==
  ASSUME sec \in 0 .. 22, NEW c, raws[c].shift \in Int, Leftover \in Nat,
         \A f \in Slots : Read(c, f) \subseteq Sector,
         Lo(c, slot0) \in Int, FieldAt(c, slot0) \in Int, Place(c) \in 0 .. 1299
  PROVE  \A r \in Sector : Place(c) + r \in 0 .. 5435 =>
           (Place(c) + r \in Own(c).ones <=> r \in Read(c, slot0))
<1> PICK lo \in Int : lo = Lo(c, slot0)
  OBVIOUS
<1> PICK at \in 0 .. 1299 : at = Place(c)
  OBVIOUS
<1> FieldAt(c, slot0) - lo = at
  BY DEF Place
<1> SUFFICES ASSUME NEW r \in Sector, at + r \in 0 .. 5435
             PROVE  at + r \in Own(c).ones <=> r \in Read(c, slot0)
  OBVIOUS
<1> DEFINE U == UNION {Placed(Read(c, f), FieldAt(c, f) - lo) : f \in Over(c, slot0)}
<1>1. slot0 \in 0 .. 22 /\ slot0 \in Slots
  BY SlotOfSector DEF slot0, Slots
<1>2. Own(c).ones = (0 .. 5435) \cap U
  <2>1. 0 .. Reach + FIELD_BITS - 1 = 0 .. 5435
    BY DEF Reach, WIN_BEFORE, WIN_AFTER, FIELD_BITS
  <2>2. Own(c).ones = U \cap (0 .. Reach + FIELD_BITS - 1)
    BY DEF Own, Window
  <2> HIDE DEF U
  <2> QED BY <2>1, <2>2
<1>3. \A f \in Slots : FieldAt(c, f) \in Int
  <2>1. raws[c].shift \in Int /\ Leftover \in Nat
    OBVIOUS
  <2> SUFFICES ASSUME NEW f \in Slots PROVE FieldAt(c, f) \in Int
    OBVIOUS
  <2> DEFINE e == (f \div 23) * Leftover
  <2>2. f \in Int /\ f \div 23 \in Int
    BY DEF Slots
  <2>3. e \in Int
    BY <2>1, <2>2
  <2>4. FieldAt(c, f) = 437 + f * 4656 + e + raws[c].shift + 298
    BY DEF FieldAt, HeaderAt, PITCH, HDR_TO_SYNC
  <2> HIDE DEF e
  <2> QED BY <2>1, <2>2, <2>3, <2>4
<1>4. r \in Int
  <2>1. r \in -298 .. 4135
    BY DEF Sector, HDR_TO_SYNC, FIELD_BITS
  <2> QED BY <2>1
<1>5. ASSUME r \in Read(c, slot0) PROVE at + r \in U
  <2>1. slot0 \in Over(c, slot0)
    <3>1. FieldAt(c, slot0) - Lo(c, slot0) \in -4136 .. 5734
      <4>1. at \in -4136 .. 5734
        OBVIOUS
      <4>2. FieldAt(c, slot0) - Lo(c, slot0) = at
        BY ONLY FieldAt(c, slot0) - lo = at, lo = Lo(c, slot0), Zenon
      <4> DEFINE d == FieldAt(c, slot0) - Lo(c, slot0)
      <4>3. d = at
        BY <4>2
      <4> HIDE DEF d
      <4>4. d \in -4136 .. 5734
        BY <4>1, <4>3
      <4> QED BY <4>4 DEF d
    <3>2. -4136 .. 5734 = -FIELD_BITS .. Reach + FIELD_BITS + HDR_TO_SYNC
      BY DEF Reach, WIN_BEFORE, WIN_AFTER, FIELD_BITS, HDR_TO_SYNC
    <3> QED BY <1>1, <3>1, <3>2 DEF Over
  <2>2. at + r \in Placed(Read(c, slot0), FieldAt(c, slot0) - lo)
    BY <1>5 DEF Placed
  <2> QED BY <2>1, <2>2
<1>6. ASSUME at + r \in U PROVE r \in Read(c, slot0)
  <2>1. PICK f \in Over(c, slot0) : at + r \in Placed(Read(c, f), FieldAt(c, f) - lo)
    BY <1>6
  <2>2. PICK b \in Read(c, f) : at + r = FieldAt(c, f) - lo + b
    BY <2>1 DEF Placed
  <2>3. f \in Slots
    BY DEF Over
  <2>4. b \in Sector
    BY <2>3
  <2>5. b \in Int
    <3>1. b \in -298 .. 4135
      BY <2>4 DEF Sector, HDR_TO_SYNC, FIELD_BITS
    <3> QED BY <3>1
  <2>6. FieldAt(c, slot0) + r = FieldAt(c, f) + b
    <3> DEFINE a0 == FieldAt(c, slot0)
               a1 == FieldAt(c, f)
    <3>1. a0 - lo = at /\ at + r = a1 - lo + b /\ a0 \in Int /\ a1 \in Int
      BY <1>3, <2>2, <2>3
    <3>2. (a0 - lo) + r = (a1 - lo) + b
      BY <3>1
    <3> HIDE DEF a0, a1
    <3>3. a0 + r = a1 + b
      BY ONLY <1>4, <2>5, <3>1, <3>2, lo \in Int, Moved
    <3> QED BY <3>3 DEF a0, a1
  <2>7. f = slot0 /\ b = r
    <3> DEFINE g == slot0
    <3>1. g \in 0 .. 22 /\ FieldAt(c, g) + r = FieldAt(c, f) + b
      BY <1>1, <2>6
    <3> HIDE DEF g
    <3>2. f = g /\ b = r
      BY <2>3, <2>4, <3>1, Apart
    <3> QED BY <3>2 DEF g
  <2> QED BY <2>2, <2>7
<1> HIDE DEF U
<1> QED BY <1>2, <1>5, <1>6

\* The window of a capture of the first revolution holds the sector's own field, at the
\* middle of the window if a header tells the base.
LEMMA HeldInWindow ==
  ASSUME DeepAssumption, CutInv, pc # "survey", wins = Windows,
         NEW c \in DOMAIN raws, FirstRev(c), Room(c)
  PROVE  OwnShown(c)
<1> DEFINE x == raws[c].shift
           b == reads[c]
           w == Window(c, slot0)
<1>1. raws \in Seq(Captures) /\ sec \in 0 .. 22 /\ wins = Windows
  BY DEF CutInv, DeepAssumption
<1>2. c \in DOMAIN reads /\ b = Base(c)
  BY DEF CutInv, FirstRev, Qualified
<1>3. (b = 437 \/ b = 437 + x) /\ (raws[c].heard # {} => b = 437 + x)
  BY <1>1, <1>2, BaseIs
<1>4. slot0 \in 0 .. 22 /\ SectorIn(slot0) = sec
  BY <1>1, SlotOfSector DEF slot0
<1>5. Lo(c, slot0) = b + slot0 * 4656 - 102
  <2>1. x \in Int
    BY DEF Room
  <2>2. b \in Int
    BY <1>3, <2>1
  <2> QED BY <1>4, <2>2 DEF Lo, PITCH, HDR_TO_SYNC, WIN_BEFORE
<1>6. FieldAt(c, slot0) = 437 + slot0 * 4656 + x + 298
  <2>1. slot0 \div 23 = 0 /\ Leftover \in Nat
    BY <1>4 DEF DeepAssumption
  <2>2. (slot0 \div 23) * Leftover = 0
    BY <2>1
  <2> QED BY <1>4, <2>2 DEF FieldAt, HeaderAt, PITCH, HDR_TO_SYNC
<1> DEFINE lo == Lo(c, slot0)
           at == FieldAt(c, slot0)
<1>7. /\ 0 <= lo /\ lo + 1300 + 4136 <= 120960 /\ at - lo \in 0 .. 1299
      /\ b = 437 + x => at - lo = 400
      /\ lo \in Int /\ at \in Int
  <2>1. x \in -335 .. 899 /\ slot0 \in 0 .. 22 /\ (b = 437 \/ b = 437 + x)
        /\ lo = b + slot0 * 4656 - 102 /\ at = 437 + slot0 * 4656 + x + 298
    BY <1>3, <1>4, <1>5, <1>6 DEF Room
  <2> HIDE DEF x, b, lo, at
  <2> QED BY <2>1
<1>8. /\ 0 <= Lo(c, slot0) /\ Lo(c, slot0) + Reach + FIELD_BITS <= RAW_BITS
      /\ FieldAt(c, slot0) - Lo(c, slot0) \in 0 .. Reach - 1
  <2>1. Reach = 1300 /\ FIELD_BITS = 4136 /\ RAW_BITS = 120960
    BY DEF Reach, WIN_BEFORE, WIN_AFTER, FIELD_BITS, RAW_BITS
  <2> QED BY <1>7, <2>1
<1>9. w \in wins
  <2>1. <<c, slot0>> \in {v \in (DOMAIN reads) \X {slot0, slot0 + 23} :
              0 <= Lo(v[1], v[2]) /\ Lo(v[1], v[2]) + Reach + FIELD_BITS <= RAW_BITS}
    BY <1>2, <1>8
  <2> QED BY <1>1, <2>1 DEF Windows
<1>10. <<"own", sec>> \in w.fields /\ w.read = c /\ w.slot = slot0
  <2>1. slot0 \in {g \in Slots : FieldAt(c, g) - Lo(c, slot0) \in 0 .. Reach - 1}
    BY <1>4, <1>8 DEF Slots
  <2>2. <<raws[c].kind, SectorIn(slot0)>> \in w.fields
    BY <2>1 DEF Window
  <2> QED BY <1>4, <2>2 DEF FirstRev, Window
<1>11. Read(c, slot0) = SymDiff(Truth, raws[c].wrong)
  BY <1>4 DEF Read, Truth, FirstRev
<1>12. Place(c) \in 0 .. 1299 /\ (raws[c].heard # {} => Place(c) = 400)
  BY <1>3, <1>7 DEF Place
<1>13. \A r \in Sector : Place(c) + r \in 0 .. 5435 =>
         (Place(c) + r \in Own(c).ones <=> r \in Read(c, slot0))
  <2>1. Lo(c, slot0) \in Int /\ FieldAt(c, slot0) \in Int
    BY <1>7
  <2>2. raws[c].shift \in Int /\ Leftover \in Nat /\ \A f \in Slots : Read(c, f) \subseteq Sector
    BY <1>1, CaptureIs, ReadIs
  <2>3. sec \in 0 .. 22 /\ Place(c) \in 0 .. 1299
    BY <1>1, <1>12
  <2> QED BY ONLY <2>1, <2>2, <2>3, ReadBack
<1>14. Shows(Own(c).ones, Place(c), SymDiff(Truth, raws[c].wrong))
  BY ONLY <1>11, <1>13 DEF Shows
<1> QED BY <1>9, <1>10, <1>12, <1>14 DEF Own, OwnShown

\* As the bits of a field show in a window.
LEMMA ShownAt ==
  ASSUME NEW ones, NEW bits, NEW at \in Int, Shows(ones, at, bits),
         NEW r \in Int, -298 <= r, r <= 4135, 0 <= at + r, at + r <= 5435
  PROVE  at + r \in ones <=> r \in bits
<1>1. r \in Sector
  <2>1. r \in -298 .. 4135
    OBVIOUS
  <2> QED BY ONLY <2>1 DEF Sector, HDR_TO_SYNC, FIELD_BITS
<1>2. at + r \in 0 .. 5435
  OBVIOUS
<1>3. \A x \in Sector : at + x \in 0 .. 5435 => (at + x \in ones <=> x \in bits)
  BY DEF Shows
<1> QED BY ONLY <1>1, <1>2, <1>3

LEMMA AtIs ==
  ASSUME NEW ones, NEW at \in Int
  PROVE  At(ones, at) = {r \in 0 .. 4135 : at + r \in ones}
<1>1. At(ones, at) = {b - at : b \in ones \cap (at .. at + 4135)}
  BY DEF At, FIELD_BITS
<1>2. ASSUME NEW b \in ones \cap (at .. at + 4135)
      PROVE  b - at \in 0 .. 4135 /\ at + (b - at) = b
  OBVIOUS
<1>3. ASSUME NEW r \in 0 .. 4135
      PROVE  at + r \in at .. at + 4135 /\ r = (at + r) - at
  OBVIOUS
<1> DEFINE A == {b - at : b \in ones \cap (at .. at + 4135)}
           R == {r \in 0 .. 4135 : at + r \in ones}
<1>4. ASSUME NEW x \in A PROVE x \in R
  <2>1. PICK b \in ones \cap (at .. at + 4135) : x = b - at
    OBVIOUS
  <2> QED BY <1>2, <2>1
<1>5. ASSUME NEW x \in R PROVE x \in A
  <2>1. at + x \in ones \cap (at .. at + 4135) /\ x = (at + x) - at
    BY <1>3
  <2> QED BY ONLY <2>1
<1>6. A = R
  <2> HIDE DEF A, R
  <2> QED BY ONLY <1>4, <1>5
<1> QED BY ONLY <1>1, <1>6

LEMMA BitShown ==
  ASSUME NEW ones, NEW bits, NEW at \in Int, 0 <= at, at <= 1299, Shows(ones, at, bits)
  PROVE  ShowsField(ones, at, bits)
<1>1. ASSUME NEW r \in Int, 0 <= r, r <= 4135 PROVE at + r \in ones <=> r \in bits
  <2>1. -298 <= r /\ r <= 4135 /\ 0 <= at + r /\ at + r <= 5435
    BY <1>1
  <2> QED BY ONLY at \in Int, r \in Int, <2>1, Shows(ones, at, bits), ShownAt
<1> QED BY ONLY <1>1 DEF ShowsField

LEMMA FieldBit ==
  ASSUME NEW ones, NEW bits, NEW at \in Int, ShowsField(ones, at, bits),
         NEW r \in Int, 0 <= r, r <= 4135
  PROVE  at + r \in ones <=> r \in bits
BY DEF ShowsField

\* What is read from the data sync on, and how many bits of the sync are wrong.
LEMMA FieldShown ==
  ASSUME NEW ones, NEW bits, NEW at \in Int, ShowsField(ones, at, bits)
  PROVE  At(ones, at) = bits \cap (0 .. 4135)
<1>1. At(ones, at) = {r \in 0 .. 4135 : at + r \in ones}
  BY AtIs
<1>2. ASSUME NEW r \in 0 .. 4135 PROVE at + r \in ones <=> r \in bits
  <2>1. r \in Int /\ 0 <= r /\ r <= 4135
    OBVIOUS
  <2> QED BY <2>1, FieldBit
<1> DEFINE B == 0 .. 4135
<1>3. At(ones, at) = {r \in B : at + r \in ones} /\ \A r \in B : at + r \in ones <=> r \in bits
  BY ONLY <1>1, <1>2
<1> HIDE DEF B
<1>4. At(ones, at) = bits \cap B
  BY ONLY <1>3, Zenon
<1> QED BY <1>4 DEF B

LEMMA SyncShown ==
  ASSUME NEW ones, NEW bits, NEW at \in Int, ShowsField(ones, at, bits)
  PROVE  SyncErrors(ones, at) = Cardinality(SymDiff(bits \cap (0 .. 7), SyncOnes))
<1>1. ASSUME NEW r \in 0 .. 7 PROVE at + r \in ones <=> r \in bits
  <2>1. r \in Int /\ 0 <= r /\ r <= 4135
    OBVIOUS
  <2> QED BY <2>1, FieldBit
<1>2. SyncOnes \subseteq 0 .. 7
  BY DEF SyncOnes
<1> DEFINE B == 0 .. 7
           X == {b \in B : (at + b \in ones) # (b \in SyncOnes)}
           Y == SymDiff(bits \cap B, SyncOnes)
<1>3. ASSUME NEW b PROVE b \in X <=> b \in Y
  <2>1. /\ b \in B => (at + b \in ones <=> b \in bits)
        /\ SyncOnes \subseteq B
    BY <1>1, <1>2
  <2> HIDE DEF B
  <2>2. b \in Y <=> b \in B /\ ~(b \in bits <=> b \in SyncOnes)
    BY ONLY <2>1, Zenon DEF SymDiff
  <2>3. b \in X <=> b \in B /\ ~(at + b \in ones <=> b \in SyncOnes)
    BY ONLY TRUE
  <2> HIDE DEF X, Y
  <2> QED BY ONLY <2>1, <2>2, <2>3
<1>4. X = Y
  <2> HIDE DEF X, Y
  <2> QED BY ONLY <1>3
<1>5. SyncErrors(ones, at) = Cardinality(X)
  BY DEF SyncErrors
<1> HIDE DEF X, Y
<1>6. SyncErrors(ones, at) = Cardinality(Y)
  BY ONLY <1>4, <1>5
<1> QED BY ONLY <1>6 DEF Y, B

\* A field that a capture holds is one of those that are corrected.
LEMMA HeldIsNear ==
  ASSUME DeepAssumption, sec \in 0 .. 22, NEW wrong \in SUBSET Sector, Held(wrong),
         NEW w \in wins, <<"own", sec>> \in w.fields, NEW at \in Int, 0 <= at, at <= 1299,
         Shows(w.ones, at, SymDiff(Truth, wrong))
  PROVE  <<w, at, <<"own", sec>>>> \in Near
<1> DEFINE p == <<"own", sec>>
           bits == SymDiff(Truth, wrong)
<1>1. Truth \subseteq Sector /\ Truth \cap (0 .. 7) = SyncOnes /\ Word(p) = Truth \cap (0 .. 4135)
  BY TruthIs DEF Word, Truth, FIELD_BITS
<1>0. ShowsField(w.ones, at, bits)
  <2> HIDE DEF bits
  <2> QED BY BitShown DEF bits
<1>2. At(w.ones, at) = bits \cap (0 .. 4135)
  <2> HIDE DEF bits
  <2> QED BY <1>0, FieldShown
<1>3. SyncErrors(w.ones, at) <= 1
  <2>1. SymDiff(bits \cap (0 .. 7), SyncOnes) = wrong \cap (0 .. 7)
    BY ONLY <1>1 DEF SymDiff
  <2>2. SyncErrors(w.ones, at) = Cardinality(SymDiff(bits \cap (0 .. 7), SyncOnes))
    <3> HIDE DEF bits
    <3> QED BY <1>0, SyncShown
  <2>3. SyncErrors(w.ones, at) = Cardinality(wrong \cap (0 .. 7))
    BY ONLY <2>1, <2>2
  <2>4. Cardinality(wrong \cap (0 .. 7)) <= 1
    BY DEF Held
  <2> QED BY ONLY <2>3, <2>4
<1>4. SymDiff(At(w.ones, at), Word(p)) = wrong \cap (0 .. 4135)
  BY ONLY <1>1, <1>2 DEF SymDiff
<1>5. Burst(w.ones, at, p)
  <2>1. Undone(wrong \cap (0 .. 4135), BURST_BITS, BODY_BITS - BURST_BITS)
    BY DEF Held, FIELD_BITS
  <2> HIDE DEF p
  <2> QED BY <1>3, <1>4, <2>1 DEF Burst
<1>6. at \in Tried(w)
  <2>1. ~(3 \in wrong /\ 4 \in wrong)
    <3> SUFFICES ASSUME 3 \in wrong, 4 \in wrong PROVE FALSE
      OBVIOUS
    <3> DEFINE S == wrong \cap (0 .. 7)
    <3>1. IsFiniteSet(S)
      <4>1. IsFiniteSet(0 .. 7)
        <5> DEFINE m == 0
                   n == 7
        <5>1. m \in Int /\ n \in Int
          OBVIOUS
        <5> HIDE DEF m, n
        <5>2. IsFiniteSet(m .. n)
          BY ONLY <5>1, FS_Interval
        <5> QED BY <5>2 DEF m, n
      <4> QED BY ONLY <4>1, FS_Subset
    <3>2. {3, 4} \subseteq S
      OBVIOUS
    <3>3. Cardinality({3, 4}) = 2
      <4>1. IsFiniteSet({3}) /\ Cardinality({3}) = 1
        BY FS_Singleton
      <4>2. Cardinality({3} \cup {4}) = 2
        BY ONLY <4>1, FS_AddElement
      <4>3. {3} \cup {4} = {3, 4}
        OBVIOUS
      <4> QED BY <4>2, <4>3
    <3>4. Cardinality({3, 4}) <= Cardinality(S)
      <4> HIDE DEF S
      <4> QED BY <3>1, <3>2, FS_Subset
    <3>5. Cardinality(S) <= 1 /\ Cardinality(S) \in Nat
      BY <3>1, FS_CardinalityType DEF Held
    <3> HIDE DEF S
    <3> QED BY <3>3, <3>4, <3>5
  <2>2. 3 \in Truth /\ 4 \in Truth
    BY <1>1 DEF SyncOnes
  <2>3. at + 3 \in w.ones \/ at + 4 \in w.ones
    <3>1. 3 \in bits \/ 4 \in bits
      BY ONLY <2>1, <2>2 DEF SymDiff
    <3> HIDE DEF bits
    <3>2. (3 \in bits => at + 3 \in w.ones) /\ (4 \in bits => at + 4 \in w.ones)
      BY <1>0, FieldBit
    <3> QED BY ONLY <3>1, <3>2
  <2>4. at = (at + 3) - 3 /\ at = (at + 4) - 4 /\ at \in 0 .. Reach - 1
    BY DEF Reach, WIN_BEFORE, WIN_AFTER
  <2> QED BY <2>3, <2>4 DEF Tried
<1>7. <<w, at, p>> \in Offered
  <2> HIDE DEF p
  <2>1. <<w, at, p>> \in {w} \X Tried(w) \X w.fields
    BY <1>6 DEF p
  <2> QED BY <2>1 DEF Offered
<1> HIDE DEF p
<1>8. <<w, at, p>> \in Near
  BY <1>5, <1>7 DEF Near
<1> QED BY <1>8 DEF p

\* A field that one capture holds, whole or but for a burst that correct_burst undoes, is
\* found, if the capture is off INDEX by what the window leaves room for.
THEOREM HeldFound ==
  ASSUME DeepAssumption, InReach
  PROVE  Spec => []HeldIsFound
<1>1. ASSUME DeepInv PROVE HeldIsFound
  <2> SUFFICES ASSUME pc = "done", out = None, NEW c \in DOMAIN raws, FirstRev(c),
                      Held(raws[c].wrong)
               PROVE  FALSE
    BY DEF HeldIsFound
  <2>1. CutInv /\ Near = {} /\ raws \in Seq(Captures) /\ wins = Windows /\ sec \in 0 .. 22
    BY <1>1 DEF DeepInv, CutInv, OutInv, DeepAssumption
  <2>0. pc # "survey"
    OBVIOUS
  <2>2. Room(c)
    <3>1. raws[c] \in Captures
      BY <2>1, ElementOfSeq, LenProperties
    <3> QED BY <3>1 DEF InReach, Room
  <2>3. OwnShown(c)
    BY ONLY <2>0, <2>1, <2>2, c \in DOMAIN raws, FirstRev(c), DeepAssumption, HeldInWindow
  <2>4. raws[c].wrong \in SUBSET Sector
    BY <2>1, CaptureIs
  <2>5. <<Own(c), Place(c), <<"own", sec>>>> \in Near
    <3> DEFINE x == raws[c].wrong
               at == Place(c)
    <3>1. x \in SUBSET Sector /\ Held(x) /\ at \in Int /\ 0 <= at /\ at <= 1299
      BY <2>3, <2>4 DEF OwnShown
    <3>2. /\ Own(c) \in wins /\ <<"own", sec>> \in Own(c).fields
          /\ Shows(Own(c).ones, at, SymDiff(Truth, x))
      BY <2>3 DEF OwnShown
    <3> HIDE DEF x, at
    <3> QED BY <2>1, <3>1, <3>2, HeldIsNear DEF x, at
  <2> QED BY <2>1, <2>5
<1> QED BY <1>1, Inductive, PTL
-----------------------------------------------------------------------------
(* The vote: the state it runs in when captures make up for each other.    *)

Wrong(c) == raws[c].wrong
Reading(c) == SymDiff(Truth, Wrong(c))

Alike ==
  /\ DeepAssumption /\ Unlike /\ CutInv /\ pc # "survey" /\ wins = Windows
  /\ Cardinality(DOMAIN reads) >= 3
  /\ \A c \in DOMAIN reads : FirstRev(c) /\ raws[c].heard # {} /\ Room(c)
  /\ \A c, d \in DOMAIN reads : c # d =>
       /\ Wrong(c) \cap Wrong(d) \cap (0 .. FIELD_BITS - 1) = {}
       /\ Looked(c) + Looked(d) <= 32
  /\ \A w \in wins : w.slot > 22 => Lags(w) = {}

\* Each of them has its window, with the sector's own field in the middle.
LEMMA AlikeIs ==
  ASSUME Alike
  PROVE  /\ raws \in Seq(Captures) /\ sec \in 0 .. 22 /\ sec \in DeadSectors /\ wins = Windows
         /\ reads = [c \in {d \in DOMAIN raws : Qualified(d)} |-> Base(c)]
         /\ IsFiniteSet(DOMAIN reads) /\ slot0 \in 0 .. 22
         /\ DeepAssumption /\ Unlike
<1>1. CutInv /\ DeepAssumption /\ pc # "survey" /\ Unlike /\ wins = Windows
  BY DEF Alike
<1>2. sec \in 0 .. 22 /\ sec \in DeadSectors
  BY <1>1 DEF CutInv, DeepAssumption
<1> HIDE DEF DeepAssumption
<1>3. raws \in Seq(Captures)
  BY <1>1 DEF CutInv
<1>4. reads = [c \in {d \in DOMAIN raws : Qualified(d)} |-> Base(c)]
  BY <1>1, Zenon DEF CutInv
<1>5. IsFiniteSet(DOMAIN raws)
  <2> DEFINE m == 1
             n == Len(raws)
  <2>1. m \in Int /\ n \in Int /\ DOMAIN raws = m .. n
    BY <1>3, LenProperties
  <2> HIDE DEF m, n
  <2> QED BY <2>1, FS_Interval
<1>6. DOMAIN reads \subseteq DOMAIN raws
  BY <1>4
<1>7. IsFiniteSet(DOMAIN reads)
  BY <1>5, <1>6, FS_Subset
<1>8. slot0 \in 0 .. 22
  BY <1>2, SlotOfSector DEF slot0
<1> QED BY <1>1, <1>2, <1>3, <1>4, <1>7, <1>8

LEMMA ReadIsOwn ==
  ASSUME Alike, NEW c \in DOMAIN reads
  PROVE  /\ c \in DOMAIN raws /\ c \in Nat /\ OwnShown(c) /\ Place(c) = 400
         /\ Wrong(c) \subseteq Sector
<1>1. /\ raws \in Seq(Captures) /\ CutInv /\ DeepAssumption /\ pc # "survey" /\ wins = Windows
      /\ reads = [d \in {e \in DOMAIN raws : Qualified(e)} |-> Base(d)]
  BY AlikeIs DEF Alike
<1>2. c \in DOMAIN raws
  BY <1>1
<1>3. c \in Nat
  BY <1>1, <1>2, LenProperties
<1>4. FirstRev(c) /\ Room(c) /\ raws[c].heard # {}
  BY DEF Alike
<1>5. OwnShown(c)
  BY ONLY <1>1, <1>2, <1>4, HeldInWindow
<1>6. Wrong(c) \subseteq Sector
  BY <1>1, <1>2, CaptureIs DEF Wrong
<1> QED BY <1>2, <1>3, <1>4, <1>5, <1>6 DEF OwnShown

\* What its window has at a bit of the sector.
LEMMA OwnBit ==
  ASSUME Alike, NEW c \in DOMAIN reads, NEW r \in Int, -298 <= r, r <= 4135
  PROVE  400 + r \in Own(c).ones <=> r \in Reading(c)
<1> DEFINE at == Place(c)
<1>1. at = 400 /\ OwnShown(c)
  BY ReadIsOwn
<1>2. Shows(Own(c).ones, at, Reading(c))
  BY <1>1 DEF OwnShown, Reading, Wrong
<1> HIDE DEF at
<1>3. at \in Int /\ 0 <= at + r /\ at + r <= 5435
  BY <1>1
<1>4. at + r \in Own(c).ones <=> r \in Reading(c)
  BY ONLY <1>2, <1>3, r \in Int, -298 <= r, r <= 4135, ShownAt
<1> QED BY <1>1, <1>4

\* A slice is what lies behind a place, counted from there.
LEMMA SliceIs ==
  ASSUME NEW ones, NEW at \in Int
  PROVE  Slice(ones, at) = {r \in 0 .. 255 : at + r \in ones}
<1> DEFINE A == {b - at : b \in ones \cap (at .. at + 255)}
           R == {r \in 0 .. 255 : at + r \in ones}
<1>1. ASSUME NEW b \in ones \cap (at .. at + 255)
      PROVE  b - at \in 0 .. 255 /\ at + (b - at) = b
  OBVIOUS
<1>2. ASSUME NEW r \in 0 .. 255
      PROVE  at + r \in at .. at + 255 /\ r = (at + r) - at
  OBVIOUS
<1>3. ASSUME NEW x \in A PROVE x \in R
  <2>1. PICK b \in ones \cap (at .. at + 255) : x = b - at
    OBVIOUS
  <2> QED BY <1>1, <2>1
<1>4. ASSUME NEW x \in R PROVE x \in A
  <2>1. at + x \in ones \cap (at .. at + 255) /\ x = (at + x) - at
    BY <1>2
  <2> QED BY ONLY <2>1
<1>5. A = R
  <2> HIDE DEF A, R
  <2> QED BY ONLY <1>3, <1>4
<1> QED BY ONLY <1>5 DEF Slice

\* Bits where a window is compared, at a shift.
LEMMA SliceShown ==
  ASSUME Alike, NEW c \in DOMAIN reads, NEW sh \in Int, -200 <= sh, sh <= 200
  PROVE  Slice(Own(c).ones, 400 + sh) = Slice(Reading(c), sh)
<1>1. ASSUME NEW k \in Int, 0 <= k, k <= 255
      PROVE  (400 + sh) + k \in Own(c).ones <=> sh + k \in Reading(c)
  <2> DEFINE r == sh + k
  <2>1. r \in Int /\ -298 <= r /\ r <= 4135 /\ (400 + sh) + k = 400 + r
    BY <1>1
  <2> HIDE DEF r
  <2>2. 400 + r \in Own(c).ones <=> r \in Reading(c)
    BY <2>1, OwnBit
  <2> QED BY ONLY <2>1, <2>2 DEF r
<1> DEFINE A == {k \in 0 .. 255 : (400 + sh) + k \in Own(c).ones}
           R == {k \in 0 .. 255 : sh + k \in Reading(c)}
<1>2. Slice(Own(c).ones, 400 + sh) = A
  <2> DEFINE at == 400 + sh
             ones == Own(c).ones
  <2>1. at \in Int
    OBVIOUS
  <2>2. A = {k \in 0 .. 255 : at + k \in ones}
    OBVIOUS
  <2> HIDE DEF at, ones, A
  <2>3. Slice(ones, at) = {k \in 0 .. 255 : at + k \in ones}
    BY ONLY <2>1, SliceIs
  <2>4. Slice(ones, at) = A
    BY ONLY <2>2, <2>3, Zenon
  <2> QED BY ONLY <2>4 DEF at, ones
<1>3. Slice(Reading(c), sh) = R
  <2> DEFINE ones == Reading(c)
  <2>2. R = {k \in 0 .. 255 : sh + k \in ones}
    OBVIOUS
  <2> HIDE DEF ones, R
  <2>3. Slice(ones, sh) = {k \in 0 .. 255 : sh + k \in ones}
    BY ONLY sh \in Int, SliceIs
  <2>4. Slice(ones, sh) = R
    BY ONLY <2>2, <2>3, Zenon
  <2> QED BY ONLY <2>4 DEF ones
<1>4. ASSUME NEW k PROVE k \in A <=> k \in R
  <2>1. CASE k \in 0 .. 255
    <3>1. k \in Int /\ 0 <= k /\ k <= 255
      BY <2>1
    <3>2. (400 + sh) + k \in Own(c).ones <=> sh + k \in Reading(c)
      BY ONLY <1>1, <3>1
    <3> QED BY ONLY <2>1, <3>2
  <2>2. CASE k \notin 0 .. 255
    BY ONLY <2>2
  <2> QED BY ONLY <2>1, <2>2
<1>5. A = R
  <2> HIDE DEF A, R
  <2> QED BY ONLY <1>4
<1> HIDE DEF A, R
<1> QED BY ONLY <1>2, <1>3, <1>5

\* The first of the windows is one of them.
LEMMA FirstIsOwn ==
  ASSUME Alike, wins # {}
  PROVE  \E r \in DOMAIN reads : First = Own(r)
<1>1. /\ raws \in Seq(Captures) /\ sec \in 0 .. 22 /\ wins = Windows /\ slot0 \in 0 .. 22
      /\ reads = [d \in {e \in DOMAIN raws : Qualified(e)} |-> Base(d)]
  BY AlikeIs
<1>2. First \in wins /\ \A v \in wins : Earlier(First, v)
  BY ONLY <1>1, wins # {}, FirstIs
<1>3. PICK v \in (DOMAIN reads) \X {slot0, slot0 + 23} : First = Window(v[1], v[2])
  BY <1>1, <1>2 DEF Windows
<1> DEFINE c == v[1]
           w == Own(c)
<1>4. c \in DOMAIN reads /\ First.read = c /\ First.slot = v[2]
  BY <1>3 DEF Window
<1>5. w \in wins /\ w.read = c /\ w.slot = slot0 /\ c \in Nat
  BY <1>4, ReadIsOwn DEF OwnShown
<1>6. v[2] = slot0
  <2>1. Earlier(First, w) /\ v[2] \in {slot0, slot0 + 23}
    BY <1>2, <1>3, <1>5
  <2>3. v[2] <= slot0
    <3> HIDE DEF c, w
    <3> QED BY <1>1, <1>4, <1>5, <2>1 DEF Earlier
  <2> QED BY <1>1, <2>1, <2>3
<1>7. First = Own(c)
  BY <1>3, <1>6 DEF Own
<1> QED BY <1>4, <1>7

\* The bits of a slice, as far as what is wrong in a reading is concerned.
LEMMA SliceBit ==
  ASSUME NEW ones, NEW at \in Int, NEW k
  PROVE  k \in Slice(ones, at) <=> k \in 0 .. 255 /\ at + k \in ones
<1>1. Slice(ones, at) = {r \in 0 .. 255 : at + r \in ones}
  BY SliceIs
<1> DEFINE B == 0 .. 255
<1>2. Slice(ones, at) = {r \in B : at + r \in ones}
  BY ONLY <1>1
<1> HIDE DEF B
<1>3. k \in Slice(ones, at) <=> k \in B /\ at + k \in ones
  BY ONLY <1>2
<1> QED BY ONLY <1>3 DEF B

LEMMA SliceOfReading ==
  ASSUME NEW c, NEW at \in Int
  PROVE  Slice(Reading(c), at) = SymDiff(Slice(Truth, at), Slice(Wrong(c), at))
<1>1. ASSUME NEW k
      PROVE  k \in Slice(Reading(c), at) <=> k \in SymDiff(Slice(Truth, at), Slice(Wrong(c), at))
  <2>1. /\ k \in Slice(Reading(c), at) <=> k \in 0 .. 255 /\ at + k \in Reading(c)
        /\ k \in Slice(Truth, at) <=> k \in 0 .. 255 /\ at + k \in Truth
        /\ k \in Slice(Wrong(c), at) <=> k \in 0 .. 255 /\ at + k \in Wrong(c)
    BY SliceBit
  <2> DEFINE b == at + k
             A == Slice(Truth, at)
             X == Slice(Wrong(c), at)
             R == Slice(Reading(c), at)
             B == 0 .. 255
  <2>2. /\ k \in R <=> k \in B /\ b \in Reading(c)
        /\ k \in A <=> k \in B /\ b \in Truth
        /\ k \in X <=> k \in B /\ b \in Wrong(c)
    BY ONLY <2>1
  <2> HIDE DEF b, A, X, R, B
  <2>3. k \in R <=> k \in SymDiff(A, X)
    BY ONLY <2>2 DEF Reading, SymDiff
  <2> QED BY ONLY <2>3 DEF A, X, R
<1> QED BY ONLY <1>1

LEMMA SliceFinite ==
  ASSUME NEW ones, NEW at \in Int
  PROVE  IsFiniteSet(Slice(ones, at))
<1> DEFINE m == 0
           n == 255
<1>1. Slice(ones, at) \subseteq m .. n
  BY SliceBit
<1>2. m \in Int /\ n \in Int
  OBVIOUS
<1> HIDE DEF m, n
<1>3. IsFiniteSet(m .. n)
  BY ONLY <1>2, FS_Interval
<1> QED BY ONLY <1>1, <1>3, FS_Subset

\* No more of the bits that are wrong show in a slice than are where it looks.
LEMMA SliceWrong ==
  ASSUME NEW E, NEW sh \in Int, -200 <= sh, sh <= 200
  PROVE  /\ Cardinality(Slice(E, sh)) \in Nat /\ Cardinality(E \cap (-200 .. 455)) \in Nat
         /\ Cardinality(Slice(E, sh)) <= Cardinality(E \cap (-200 .. 455))
<1> DEFINE m == -200
           n == 455
           L == E \cap (m .. n)
           S == Slice(E, sh)
           g == [k \in S |-> sh + k]
<1>1. IsFiniteSet(S)
  BY SliceFinite
<1>2. IsFiniteSet(L)
  <2>1. m \in Int /\ n \in Int
    OBVIOUS
  <2> HIDE DEF m, n
  <2>2. IsFiniteSet(m .. n)
    BY ONLY <2>1, FS_Interval
  <2>3. L \subseteq m .. n
    OBVIOUS
  <2> HIDE DEF L
  <2> QED BY ONLY <2>2, <2>3, FS_Subset
<1>3. ASSUME NEW k \in S PROVE sh + k \in L /\ k \in Int
  <2>1. k \in 0 .. 255 /\ sh + k \in E
    BY SliceBit
  <2>2. k \in Int /\ sh + k >= -200 /\ sh + k <= 455 /\ sh + k \in Int
    BY <2>1
  <2>3. sh + k \in m .. n
    BY <2>2
  <2> QED BY ONLY <2>1, <2>2, <2>3
<1>4. g \in Injection(S, L)
  <2> HIDE DEF S, L
  <2>1. g \in [S -> L]
    BY <1>3
  <2>2. ASSUME NEW j \in S, NEW k \in S, g[j] = g[k] PROVE j = k
    <3>1. sh + j = sh + k /\ j \in Int /\ k \in Int
      BY <1>3, <2>2
    <3> QED BY ONLY <3>1, sh \in Int
  <2> HIDE DEF g
  <2> QED BY ONLY <2>1, <2>2 DEF Injection, IsInjective
<1> HIDE DEF S, L, g
<1>5. Cardinality(S) <= Cardinality(L)
  BY ONLY <1>2, <1>4, FS_Injection
<1>6. Cardinality(S) \in Nat /\ Cardinality(L) \in Nat
  BY ONLY <1>1, <1>2, FS_CardinalityType
<1> QED BY ONLY <1>5, <1>6 DEF S, L, m, n

LEMMA UnionSize ==
  ASSUME NEW S, NEW T, IsFiniteSet(S), IsFiniteSet(T), NEW U, U \subseteq S \cup T
  PROVE  IsFiniteSet(U) /\ Cardinality(U) <= Cardinality(S) + Cardinality(T)
<1>1. /\ IsFiniteSet(S \cup T) /\ IsFiniteSet(S \cap T)
      /\ Cardinality(S \cup T) = Cardinality(S) + Cardinality(T) - Cardinality(S \cap T)
  BY FS_Union, FS_Subset
<1>2. /\ Cardinality(S) \in Nat /\ Cardinality(T) \in Nat /\ Cardinality(S \cap T) \in Nat
      /\ Cardinality(S \cup T) \in Nat
  BY <1>1, FS_CardinalityType
<1>3. IsFiniteSet(U) /\ Cardinality(U) <= Cardinality(S \cup T)
  BY <1>1, FS_Subset
<1>4. Cardinality(U) \in Nat
  BY <1>3, FS_CardinalityType
<1> QED BY <1>1, <1>2, <1>3, <1>4

\* How much a window differs from the first: little where they lie alike, and much at any
\* other shift.
Differing(r, c, sh) == SymDiff(Slice(Own(r).ones, 400), Slice(Own(c).ones, 400 + sh))

LEMMA Differs ==
  ASSUME Alike, NEW r \in DOMAIN reads, NEW c \in DOMAIN reads, r # c,
         NEW sh \in Int, -200 <= sh, sh <= 200
  PROVE  /\ Cardinality(Differing(r, c, sh)) \in Nat
         /\ sh = 0 => Cardinality(Differing(r, c, sh)) <= 32
         /\ sh # 0 => Cardinality(Differing(r, c, sh)) > 32
<1> DEFINE T0 == Slice(Truth, 0)
           T1 == Slice(Truth, sh)
           X0 == Slice(Wrong(r), 0)
           X1 == Slice(Wrong(c), sh)
           D == Differing(r, c, sh)
<1>1. D = SymDiff(SymDiff(T0, X0), SymDiff(T1, X1))
  <2>1. Slice(Own(r).ones, 400) = SymDiff(T0, X0)
    <3> DEFINE z == 0
    <3>1. z \in Int /\ -200 <= z /\ z <= 200 /\ 400 + z = 400
      OBVIOUS
    <3> HIDE DEF z
    <3>2. Slice(Own(r).ones, 400 + z) = SymDiff(Slice(Truth, z), Slice(Wrong(r), z))
      BY <3>1, SliceShown, SliceOfReading
    <3>3. Slice(Own(r).ones, 400) = SymDiff(Slice(Truth, z), Slice(Wrong(r), z))
      BY ONLY <3>1, <3>2
    <3> QED BY ONLY <3>3 DEF z
  <2>2. Slice(Own(c).ones, 400 + sh) = SymDiff(T1, X1)
    BY SliceShown, SliceOfReading
  <2> QED BY ONLY <2>1, <2>2 DEF Differing
<1>2. IsFiniteSet(T0) /\ IsFiniteSet(T1) /\ IsFiniteSet(X0) /\ IsFiniteSet(X1)
  <2>1. 0 \in Int
    OBVIOUS
  <2> QED BY ONLY <2>1, sh \in Int, SliceFinite
<1>3. /\ Cardinality(X0) \in Nat /\ Cardinality(X1) \in Nat
      /\ Cardinality(X0) + Cardinality(X1) <= 32
  <2>1. Looked(r) + Looked(c) <= 32
    BY DEF Alike
  <2>2. /\ Cardinality(X1) \in Nat /\ Looked(c) \in Nat /\ Cardinality(X1) <= Looked(c)
    BY SliceWrong DEF Looked, Wrong
  <2>3. /\ Cardinality(X0) \in Nat /\ Looked(r) \in Nat /\ Cardinality(X0) <= Looked(r)
    <3>1. 0 \in Int /\ -200 <= 0 /\ 0 <= 200
      OBVIOUS
    <3> QED BY <3>1, SliceWrong DEF Looked, Wrong
  <2> HIDE DEF X0, X1
  <2> QED BY ONLY <2>1, <2>2, <2>3
<1>4. IsFiniteSet(D) /\ Cardinality(D) \in Nat
  <2>1. D \subseteq (T0 \cup T1) \cup (X0 \cup X1)
    <3> HIDE DEF D, T0, T1, X0, X1
    <3> QED BY ONLY <1>1 DEF SymDiff
  <2> HIDE DEF D, T0, T1, X0, X1
  <2>2. IsFiniteSet((T0 \cup T1) \cup (X0 \cup X1))
    BY <1>2, FS_Union
  <2> QED BY <2>1, <2>2, FS_Subset, FS_CardinalityType
<1>5. ASSUME sh = 0 PROVE Cardinality(D) <= 32
  <2>1. T0 = T1
    BY <1>5
  <2> HIDE DEF D, T0, T1, X0, X1
  <2>2. D \subseteq X0 \cup X1
    BY ONLY <1>1, <2>1 DEF SymDiff
  <2>3. Cardinality(D) <= Cardinality(X0) + Cardinality(X1)
    BY ONLY <1>2, <2>2, UnionSize
  <2> QED BY ONLY <1>3, <1>4, <2>3
<1>6. ASSUME sh # 0 PROVE Cardinality(D) > 32
  <2>1. Cardinality(SymDiff(T0, T1)) > 64
    <3>1. sec \in DeadSectors /\ sh \in Span \ {0} /\ Unlike
      <4>1. sh \in Span
        BY DEF Span
      <4> QED BY <1>6, <4>1, AlikeIs
    <3> QED BY ONLY <3>1, Zenon DEF Unlike, Truth
  <2> HIDE DEF D, T0, T1, X0, X1
  <2>2. SymDiff(T0, T1) \subseteq D \cup (X0 \cup X1)
    BY ONLY <1>1 DEF SymDiff
  <2>3. IsFiniteSet(X0 \cup X1) /\ Cardinality(X0 \cup X1) <= Cardinality(X0) + Cardinality(X1)
    BY ONLY <1>2, UnionSize
  <2>4. /\ Cardinality(SymDiff(T0, T1)) <= Cardinality(D) + Cardinality(X0 \cup X1)
        /\ Cardinality(SymDiff(T0, T1)) \in Nat /\ Cardinality(X0 \cup X1) \in Nat
    BY ONLY <1>4, <2>2, <2>3, UnionSize, FS_CardinalityType
  <2> QED BY ONLY <1>3, <1>4, <2>1, <2>3, <2>4
<1> HIDE DEF D
<1> QED BY ONLY <1>4, <1>5, <1>6 DEF D

\* So that a window of this revolution is laid where it is, and one of the next nowhere.
LEMMA LagsAre ==
  ASSUME Alike, NEW r \in DOMAIN reads, First = Own(r), NEW c \in DOMAIN reads, r # c
  PROVE  Lags(Own(c)) = {0}
<1> DEFINE probe == Slice(First.ones, WIN_BEFORE)
           n(sh) == Cardinality(SymDiff(probe, Slice(Own(c).ones, WIN_BEFORE + sh)))
           Best(sh) == n(sh) <= 32 /\ \A t \in Span : IF t < sh THEN n(sh) < n(t) ELSE n(sh) <= n(t)
<1>1. Lags(Own(c)) = {sh \in Span : Best(sh)}
  BY Zenon DEF Lags
<1>2. ASSUME NEW sh \in Span
      PROVE  n(sh) \in Nat /\ (sh = 0 => n(sh) <= 32) /\ (sh # 0 => n(sh) > 32)
  <2>1. sh \in Int /\ -200 <= sh /\ sh <= 200
    BY DEF Span
  <2>2. n(sh) = Cardinality(Differing(r, c, sh))
    BY Zenon DEF WIN_BEFORE, Differing
  <2> QED BY <2>1, <2>2, Differs
<1>3. 0 \in Span /\ \A sh \in Span : sh \in Int
  BY DEF Span
<1> HIDE DEF n
<1>4. \A sh \in Span : Best(sh) <=> sh = 0
  BY ONLY <1>2, <1>3
<1> HIDE DEF Best
<1>5. {sh \in Span : Best(sh)} = {0}
  BY ONLY <1>3, <1>4
<1> QED BY ONLY <1>1, <1>5

\* As many windows are laid over each other as there are reads, each where it is.
Vote1(c) == <<Own(c), 0>>

LEMMA ReadsAre ==
  ASSUME Alike
  PROVE  /\ IsFiniteSet(DOMAIN reads) /\ Cardinality(DOMAIN reads) \in Nat
         /\ Cardinality(DOMAIN reads) >= 3 /\ wins # {}
<1>1. IsFiniteSet(DOMAIN reads) /\ Cardinality(DOMAIN reads) \in Nat
  BY AlikeIs, FS_CardinalityType
<1>2. Cardinality(DOMAIN reads) >= 3
  BY DEF Alike
<1>3. DOMAIN reads # {}
  <2> DEFINE D == DOMAIN reads
  <2>1. Cardinality(D) >= 3
    BY <1>2
  <2> HIDE DEF D
  <2>2. ASSUME D = {} PROVE FALSE
    <3>1. Cardinality(D) = 0
      BY <2>2, FS_EmptySet
    <3> QED BY <2>1, <3>1
  <2> QED BY <2>2 DEF D
<1>4. wins # {}
  <2>1. PICK c \in DOMAIN reads : TRUE
    BY <1>3
  <2> QED BY <2>1, ReadIsOwn DEF OwnShown
<1> QED BY <1>1, <1>2, <1>4

LEMMA LaidAre ==
  ASSUME Alike
  PROVE  Laid = {Vote1(c) : c \in DOMAIN reads}
<1>1. PICK r \in DOMAIN reads : First = Own(r)
  BY ReadsAre, FirstIsOwn
<1> DEFINE V == {Vote1(c) : c \in DOMAIN reads}
           U == UNION {{<<w, sh>> : sh \in Lags(w)} : w \in wins \ {First}}
<1>2. Laid = {<<First, 0>>} \cup U
  BY Zenon DEF Laid
<1>3. ASSUME NEW c \in DOMAIN reads PROVE Vote1(c) \in Laid
  <2>1. CASE c = r
    BY <1>1, <1>2, <2>1 DEF Vote1
  <2>2. CASE c # r
    <3>1. Own(c) \in wins /\ Own(c).read = c /\ Own(r).read = r
      BY <1>1, ReadIsOwn DEF OwnShown
    <3>2. Own(c) \in wins \ {First}
      BY <1>1, <2>2, <3>1
    <3>3. 0 \in Lags(Own(c))
      BY <1>1, <2>2, LagsAre
    <3>4. Vote1(c) \in U
      BY ONLY <3>2, <3>3 DEF Vote1
    <3> QED BY ONLY <1>2, <3>4
  <2> QED BY <2>1, <2>2
<1>4. ASSUME NEW v \in U PROVE v \in V
  <2>1. PICK w \in wins \ {First} : v \in {<<w, sh>> : sh \in Lags(w)}
    OBVIOUS
  <2>2. PICK sh \in Lags(w) : v = <<w, sh>>
    BY <2>1
  <2>3. PICK x \in (DOMAIN reads) \X {slot0, slot0 + 23} : w = Window(x[1], x[2])
    <3>1. w \in Windows
      BY AlikeIs
    <3> QED BY ONLY <3>1 DEF Windows
  <2>4. w.slot = x[2] /\ slot0 \in 0 .. 22
    BY <2>3, AlikeIs DEF Window
  <2>5. x[2] = slot0
    <3>1. ASSUME x[2] = slot0 + 23 PROVE FALSE
      <4>1. w.slot > 22
        BY <2>4, <3>1
      <4>2. Lags(w) = {}
        BY <2>1, <4>1 DEF Alike
      <4> QED BY <2>2, <4>2
    <3> QED BY <2>3, <3>1
  <2>6. PICK c \in DOMAIN reads : c = x[1]
    BY <2>3
  <2>7. w = Own(c)
    BY <2>3, <2>5, <2>6, Zenon DEF Own
  <2>8. r # c
    BY <1>1, <2>1, <2>7
  <2>9. sh = 0
    <3>1. Lags(w) = {0}
      BY <1>1, <2>7, <2>8, LagsAre
    <3> QED BY ONLY <2>2, <3>1
  <2>10. v = Vote1(c)
    BY ONLY <2>2, <2>7, <2>9 DEF Vote1
  <2> QED BY ONLY <2>10, <2>6
<1>5. <<First, 0>> \in V
  BY <1>1 DEF Vote1
<1> HIDE DEF U
<1>6. Laid = V
  BY ONLY <1>2, <1>3, <1>4, <1>5
<1> QED BY ONLY <1>6

\* One for each read, so that there are three at least.
LEMMA VoteOfRead ==
  ASSUME Alike
  PROVE  \A c, d \in DOMAIN reads : Vote1(c) = Vote1(d) => c = d
<1>1. \A c \in DOMAIN reads : Own(c).read = c
  BY ReadIsOwn DEF OwnShown
<1>2. \A c \in DOMAIN reads : Vote1(c)[1] = Own(c)
  BY DEF Vote1
<1> QED BY ONLY <1>1, <1>2

LEMMA Voters ==
  ASSUME Alike, NEW D, D \subseteq DOMAIN reads
  PROVE  /\ IsFiniteSet({Vote1(c) : c \in D})
         /\ Cardinality({Vote1(c) : c \in D}) = Cardinality(D)
<1> DEFINE A == {Vote1(c) : c \in D}
           g == [c \in D |-> Vote1(c)]
<1>1. IsFiniteSet(D)
  BY ReadsAre, FS_Subset
<1>2. g \in [D -> A] /\ \A a \in A : \E c \in D : g[c] = a
  OBVIOUS
<1>3. \A c, d \in D : g[c] = g[d] => c = d
  <2>1. \A c \in D : g[c] = Vote1(c)
    OBVIOUS
  <2>2. \A c, d \in D : Vote1(c) = Vote1(d) => c = d
    BY VoteOfRead
  <2> QED BY ONLY <2>1, <2>2
<1> HIDE DEF A, g
<1>4. g \in Bijection(D, A)
  BY <1>2, <1>3 DEF Bijection, Injection, IsInjective, Surjection
<1>5. ExistsBijection(D, A)
  BY <1>4 DEF ExistsBijection
<1>6. IsFiniteSet(A) /\ Cardinality(A) = Cardinality(D)
  BY <1>1, <1>5, FS_Bijection
<1> QED BY <1>6 DEF A

\* There are no fewer windows, all of them in the data of a capture.
LEMMA WinsAre ==
  ASSUME Alike
  PROVE  Cardinality(wins) \in Nat /\ Cardinality(wins) >= 3
<1> DEFINE D == DOMAIN reads
           h == [c \in D |-> Own(c)]
           P == D \X {slot0, slot0 + 23}
           Q == {v \in P : 0 <= Lo(v[1], v[2]) /\ Lo(v[1], v[2]) + Reach + FIELD_BITS <= RAW_BITS}
           k == [v \in Q |-> Window(v[1], v[2])]
<1>1. IsFiniteSet(D) /\ Cardinality(D) \in Nat /\ Cardinality(D) >= 3
  BY ReadsAre
<1>2. IsFiniteSet(wins)
  <2>1. IsFiniteSet({slot0, slot0 + 23})
    <3>1. IsFiniteSet({slot0} \cup {slot0 + 23})
      BY FS_Singleton, FS_AddElement
    <3>2. {slot0} \cup {slot0 + 23} = {slot0, slot0 + 23}
      OBVIOUS
    <3> QED BY <3>1, <3>2
  <2>2. IsFiniteSet(P)
    <3> HIDE DEF D
    <3> QED BY <1>1, <2>1, FS_Product
  <2>3. IsFiniteSet(Q)
    <3> HIDE DEF P
    <3> QED BY <2>2, FS_Subset
  <2>4. wins = {Window(v[1], v[2]) : v \in Q}
    BY AlikeIs DEF Windows
  <2>5. k \in [Q -> wins] /\ \A a \in wins : \E v \in Q : k[v] = a
    <3> HIDE DEF Q
    <3> QED BY <2>4
  <2> HIDE DEF Q, k
  <2>6. k \in Surjection(Q, wins)
    BY <2>5, Zenon DEF Surjection
  <2> QED BY <2>3, <2>6, FS_Surjection
<1>3. h \in Injection(D, wins)
  <2>1. \A c \in D : Own(c) \in wins /\ Own(c).read = c
    BY ReadIsOwn DEF OwnShown
  <2> HIDE DEF D
  <2>2. h \in [D -> wins]
    BY ONLY <2>1
  <2>3. \A c, d \in D : h[c] = h[d] => c = d
    BY ONLY <2>1
  <2> HIDE DEF h
  <2> QED BY ONLY <2>2, <2>3 DEF Injection, IsInjective
<1> HIDE DEF D, h
<1>4. Cardinality(D) <= Cardinality(wins) /\ Cardinality(wins) \in Nat
  BY ONLY <1>2, <1>3, FS_Injection, FS_CardinalityType
<1> QED BY ONLY <1>1, <1>4

\* At most one of them is wrong of a bit of the field, which the others outvote.
LEMMA BitAgreed ==
  ASSUME Alike, laid = Laid, NEW b \in Int, 0 <= b, b <= 4135
  PROVE  Agreed(400 + b) <=> b \in Truth
<1> DEFINE D == DOMAIN reads
           One == {c \in D : b \in Reading(c)}
           Not == {c \in D : b \in Wrong(c)}
<1>1. {v \in laid : 400 + b + v[2] \in v[1].ones} = {Vote1(c) : c \in One}
  <2>1. ASSUME NEW c \in D
        PROVE  400 + b + Vote1(c)[2] \in Vote1(c)[1].ones <=> c \in One
    <3>1. Vote1(c)[2] = 0 /\ Vote1(c)[1] = Own(c)
      BY DEF Vote1
    <3>2. 400 + b \in Own(c).ones <=> b \in Reading(c)
      BY OwnBit
    <3>3. 400 + b + 0 = 400 + b
      OBVIOUS
    <3> QED BY <3>1, <3>2, <3>3
  <2>2. laid = {Vote1(c) : c \in D}
    BY LaidAre
  <2>3. One \subseteq D
    OBVIOUS
  <2> HIDE DEF D, One
  <2> QED BY ONLY <2>1, <2>2, <2>3
<1>2. IsFiniteSet(D) /\ Cardinality(D) \in Nat /\ Cardinality(D) >= 3
  BY ReadsAre
<1>3. Cardinality(laid) = Cardinality(D)
  BY LaidAre, Voters
<1>4. Cardinality({v \in laid : 400 + b + v[2] \in v[1].ones}) = Cardinality(One)
  <2>1. One \subseteq DOMAIN reads
    OBVIOUS
  <2> HIDE DEF One, D
  <2>2. Cardinality({Vote1(c) : c \in One}) = Cardinality(One)
    BY ONLY Alike, <2>1, Voters
  <2> QED BY ONLY <1>1, <2>2
<1>5. IsFiniteSet(Not) /\ Cardinality(Not) \in 0 .. 1
  <2>1. ASSUME NEW c \in Not, NEW d \in Not PROVE c = d
    <3>1. ASSUME c # d PROVE FALSE
      <4>1. Wrong(c) \cap Wrong(d) \cap (0 .. FIELD_BITS - 1) = {}
        BY <3>1 DEF Alike
      <4>2. b \in 0 .. FIELD_BITS - 1
        BY DEF FIELD_BITS
      <4> QED BY <4>1, <4>2
    <3> QED BY <3>1
  <2> HIDE DEF Not
  <2>2. CASE Not = {}
    BY <2>2, FS_EmptySet
  <2>3. CASE Not # {}
    <3>1. PICK c \in Not : Not = {c}
      BY <2>1, <2>3
    <3>2. IsFiniteSet({c}) /\ Cardinality({c}) = 1
      BY ONLY FS_Singleton, Zenon
    <3> QED BY <3>1, <3>2
  <2> QED BY <2>2, <2>3
<1>6. CASE b \in Truth
  <2>1. One = D \ Not
    BY <1>6 DEF Reading, SymDiff
  <2>2. Not \subseteq D
    OBVIOUS
  <2> HIDE DEF One, Not, D
  <2>3. Cardinality(One) = Cardinality(D) - Cardinality(D \cap Not)
    BY ONLY <1>2, <2>1, FS_Difference
  <2>4. D \cap Not = Not
    BY <2>2
  <2>5. 2 * Cardinality(One) > Cardinality(D)
    <3>1. Cardinality(One) = Cardinality(D) - Cardinality(Not)
      BY <2>3, <2>4
    <3> QED BY <1>2, <1>5, <3>1
  <2> QED BY <1>3, <1>4, <1>6, <2>5 DEF Agreed
<1>7. CASE b \notin Truth
  <2>1. One = Not
    BY <1>7 DEF Reading, SymDiff
  <2> HIDE DEF One, Not, D
  <2>2. ~(2 * Cardinality(One) > Cardinality(D))
    BY <1>2, <1>5, <2>1
  <2> QED BY <1>3, <1>4, <1>7, <2>2 DEF Agreed
<1> QED BY <1>6, <1>7

\* The consensus has no end before theirs, and the field in it as it was written.
LEMMA LengthIs == ASSUME Alike, laid = Laid PROVE Length = 5436
<1>1. laid # {}
  BY ReadsAre, LaidAre, FirstIsOwn
<1> DEFINE S == {v[2] : v \in laid}
<1>2. S = {0}
  <2>1. \A v \in laid : v[2] = 0
    <3>1. \A c \in DOMAIN reads : Vote1(c)[2] = 0
      BY DEF Vote1
    <3> QED BY <3>1, LaidAre
  <2> QED BY <1>1, <2>1
<1>3. Max({0}) = 0
  <2>1. 0 >= 0
    OBVIOUS
  <2> DEFINE z == 0
  <2> HIDE DEF z
  <2>2. z >= z => Max({z}) = z
    BY Zenon DEF Max
  <2> QED BY <2>1, <2>2 DEF z
<1>4. Max(S) = 0
  BY <1>2, <1>3
<1> HIDE DEF S
<1>5. Length = Reach + FIELD_BITS - Max(S)
  BY Zenon DEF Length, S
<1> QED BY <1>4, <1>5 DEF Reach, WIN_BEFORE, WIN_AFTER, FIELD_BITS

LEMMA ConsensusShows ==
  ASSUME Alike, laid = Laid, cons = Consensus
  PROVE  ShowsField(cons, 400, Truth)
<1>1. ASSUME NEW b \in Int, 0 <= b, b <= 4135 PROVE 400 + b \in cons <=> b \in Truth
  <2> DEFINE j == 400 + b
  <2>1. j \in 0 .. Length - 1
    BY <1>1, LengthIs
  <2>2. Agreed(j) <=> b \in Truth
    BY <1>1, BitAgreed
  <2> HIDE DEF j
  <2>3. j \in cons <=> Agreed(j)
    BY <2>1 DEF Consensus
  <2> QED BY <2>2, <2>3 DEF j
<1> QED BY ONLY <1>1 DEF ShowsField

LEMMA VoteFinds ==
  ASSUME Alike, laid = Laid, cons = Consensus
  PROVE  VoteExact # {}
<1> DEFINE p == <<"own", sec>>
           at == 400
<1>1. at \in Int /\ ShowsField(cons, at, Truth)
  BY ConsensusShows
<1>2. Truth \cap (0 .. 7) = SyncOnes /\ Word(p) = Truth \cap (0 .. 4135)
  BY AlikeIs, TruthIs DEF Word, Truth, FIELD_BITS
<1>3. p \in Fields
  <2>1. PICK r \in DOMAIN reads : First = Own(r)
    BY ReadsAre, FirstIsOwn
  <2> QED BY <2>1, ReadIsOwn DEF OwnShown, Fields
<1>4. at \in 0 .. Length - FIELD_BITS - 1
  BY LengthIs DEF FIELD_BITS
<1> HIDE DEF at
<1>5. At(cons, at) = Word(p)
  <2>1. At(cons, at) = Truth \cap (0 .. 4135)
    BY ONLY <1>1, FieldShown
  <2> QED BY ONLY <1>2, <2>1
<1>6. SyncErrors(cons, at) = 0
  <2>1. SyncErrors(cons, at) = Cardinality(SymDiff(Truth \cap (0 .. 7), SyncOnes))
    BY ONLY <1>1, SyncShown
  <2>2. SymDiff(Truth \cap (0 .. 7), SyncOnes) = {}
    BY ONLY <1>2 DEF SymDiff
  <2> QED BY ONLY <2>1, <2>2, FS_EmptySet
<1> HIDE DEF p
<1>7. Exact(cons, at, p)
  BY ONLY <1>5, <1>6 DEF Exact
<1> QED BY ONLY <1>3, <1>4, <1>7 DEF VoteExact

\* What Outvoted asks of the captures, as they are when the windows are cut.
LEMMA AskedIsAlike ==
  ASSUME DeepAssumption, InReach, Unlike, CutInv, pc # "survey", wins = Windows,
         Cardinality(DOMAIN reads) >= 3,
         \A c \in DOMAIN reads : FirstRev(c) /\ raws[c].heard # {},
         \A c, d \in DOMAIN reads : c # d =>
           /\ raws[c].wrong \cap raws[d].wrong \cap (0 .. FIELD_BITS - 1) = {}
           /\ Looked(c) + Looked(d) <= 32,
         \A w \in wins : w.slot > 22 => Lags(w) = {}
  PROVE  Alike
<1>1. ASSUME NEW c \in DOMAIN reads PROVE Room(c)
  <2>1. raws \in Seq(Captures) /\ c \in DOMAIN raws
    BY DEF CutInv
  <2>2. raws[c] \in Captures
    BY ONLY <2>1, ElementOfSeq, LenProperties
  <2> QED BY <2>2 DEF InReach, Room
<1> QED BY <1>1 DEF Alike, Wrong

\* Outvoted only looks at captures, reads and windows.
LEMMA OutvotedStays ==
  ASSUME UNCHANGED <<raws, reads, wins>>, pc' = "done" => pc = "done", out' = out, Outvoted
  PROVE  Outvoted'
<1>1. \A w : Lags(w)' = Lags(w)
  BY DEF Lags, First
<1>2. \A c : FirstRev(c)' = FirstRev(c) /\ Looked(c)' = Looked(c)
  BY DEF FirstRev, Looked
<1> QED BY <1>1, <1>2 DEF Outvoted

\* A step that ends without a result while the captures make up for each other is none of
\* the three the vote takes.
LEMMA VoteGoesOn ==
  ASSUME DeepAssumption, DeepInv, Alike, Align \/ Vote \/ Search, pc' = "done", out' = None
  PROVE  FALSE
<1>1. CASE Align
  BY <1>1, WinsAre DEF Align
<1>2. CASE Vote
  <2>1. laid = Laid /\ ~(Cardinality(laid) >= 3)
    BY <1>2 DEF Vote, DeepInv, VoteInv
  <2>2. Cardinality(laid) = Cardinality(DOMAIN reads)
    <3>1. Cardinality({Vote1(c) : c \in DOMAIN reads}) = Cardinality(DOMAIN reads)
      BY Voters
    <3> QED BY <2>1, <3>1, LaidAre
  <2> QED BY <2>1, <2>2, ReadsAre
<1>3. CASE Search
  <2>1. laid = Laid /\ cons = Consensus
    BY <1>3 DEF Search, DeepInv, VoteInv
  <2>2. VoteExact # {}
    BY <2>1, VoteFinds
  <2>3. PICK p \in VoteExact : out' = Append(p, "vote-exact")
    BY <1>3, <2>2 DEF Search
  <2>4. p \in Fields
    BY DEF VoteExact
  <2>5. CutInv /\ pc \notin {"survey", "cut"}
    BY <1>3 DEF Search, DeepInv
  <2>6. Append(p, "vote-exact") # None
    BY ONLY DeepAssumption, <2>4, <2>5, FoundIsSome
  <2> QED BY ONLY <2>3, <2>6, out' = None
<1> QED BY <1>1, <1>2, <1>3

\* Captures that read no bit of the field both wrong make up for each other, if there are
\* three and they lie as xcorr_align wants them.
THEOREM ThreeMakeUp ==
  ASSUME DeepAssumption, InReach, Unlike
  PROVE  Spec => []Outvoted
<1>1. Init => Outvoted
  BY DEF Init, Outvoted
<1>2. ASSUME DeepInv, Outvoted, Align \/ Vote \/ Search PROVE Outvoted'
  <2>1. /\ pc \in {"align", "vote", "search"} /\ UNCHANGED <<raws, sec, reads, wins>>
        /\ CutInv
    BY <1>2 DEF Align, Vote, Search, DeepInv
  <2>2. wins = Windows /\ pc # "survey"
    BY <2>1 DEF CutInv
  <2>3. \A w : Lags(w)' = Lags(w)
    BY <2>1 DEF Lags, First
  <2>4. \A c : FirstRev(c)' = FirstRev(c) /\ Looked(c)' = Looked(c)
    BY <2>1 DEF FirstRev, Looked
  <2> SUFFICES ASSUME pc' = "done", out' = None, Cardinality(DOMAIN reads) >= 3,
                      \A c \in DOMAIN reads : FirstRev(c) /\ raws[c].heard # {},
                      \A c, d \in DOMAIN reads : c # d =>
                        /\ raws[c].wrong \cap raws[d].wrong \cap (0 .. FIELD_BITS - 1) = {}
                        /\ Looked(c) + Looked(d) <= 32,
                      \A w \in wins : w.slot > 22 => Lags(w) = {}
               PROVE  FALSE
    BY <2>1, <2>3, <2>4 DEF Outvoted
  <2>5. Alike
    BY <2>1, <2>2, AskedIsAlike
  <2> QED BY <1>2, <2>5, VoteGoesOn
<1>3. ASSUME DeepInv, Outvoted, Slide \/ NearSyncs PROVE Outvoted'
  <2>1. CASE pc' = "done"
    <3>1. \E h \in Slid \cup Near : \E how : out' = Append(h[3], how)
      BY <1>3, <2>1 DEF Slide, NearSyncs, TakeFirst
    <3>2. \A h \in Slid \cup Near : h[3] \in Fields
      BY DEF Slid, Near, Offered, Fields
    <3>3. CutInv /\ pc \notin {"survey", "cut"}
      BY <1>3 DEF Slide, NearSyncs, DeepInv
    <3>4. \A p \in Fields : \A how : Append(p, how) # None
      BY ONLY DeepAssumption, <3>3, FoundIsSome
    <3>5. out' # None
      BY ONLY <3>1, <3>2, <3>4
    <3> QED BY <3>5 DEF Outvoted
  <2>2. CASE pc' # "done"
    BY <2>2 DEF Outvoted
  <2> QED BY <2>1, <2>2
<1>4. ASSUME DeepInv, Outvoted, [Next]_vars PROVE Outvoted'
  <2>1. CASE Survey \/ Qualify \/ Cut
    BY <2>1 DEF Survey, Qualify, Cut, Outvoted
  <2>2. CASE UNCHANGED vars
    BY <1>4, <2>2, OutvotedStays DEF vars
  <2> QED BY <1>2, <1>3, <1>4, <2>1, <2>2 DEF Next
<1> QED BY <1>1, <1>4, Inductive, PTL DEF Spec
=============================================================================
