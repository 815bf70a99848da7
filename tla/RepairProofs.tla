---------------------------- MODULE RepairProofs ----------------------------
(***************************************************************************)
(* The tools that repair dead sectors, for any number of captures and any  *)
(* headers and fields that are read: rescue.py, whose map of a track is    *)
(* true if its captures are of the track and lie alike; vote_repair.py,    *)
(* whose vote is right if the good reads prevail; and, with what is proved *)
(* of deep_rescue.py, whichever of the three is run.                       *)
(***************************************************************************)
EXTENDS Repair, FiniteSetTheorems, FunctionTheorems, TLAPS

-----------------------------------------------------------------------------
(* rescue.py: what is found is of one datum.                               *)

\* Adding one modulo 23 stays a sector number.
LEMMA FoldInSectors == \A n \in Int : Fold(n) \in Sectors
  BY DEF Fold, Sectors, SECTORS_PER_TRACK

\* Every slot of a capture holds a sector.
LEMMA SectorThere == ASSUME NEW k \in Kinds, NEW slot \in Slots PROVE SectorIn(k, slot) \in Sectors
<1>1. slot \in Int BY DEF Slots
<1>2. 8 * (IF k = "head" THEN slot + 3 ELSE slot) \in Int BY <1>1
<1> QED BY <1>2, FoldInSectors DEF SectorIn

\* The dictionary never holds an empty pair.
LEMMA FieldsArePairs == ASSUME NEW d, NEW corr PROVE <<d, corr>> # NoField
  BY DEF NoField

\* What one field does to the dictionaries keeps their types.
LEMMA TakeTyped ==
  ASSUME TypeOK, NEW s \in Dead, NEW d \in Data, NEW corr \in BOOLEAN, Take(s, d, corr)
  PROVE  /\ rescued' \in [Dead -> (Data \X BOOLEAN) \cup {NoField}]
         /\ conflict' \subseteq Dead
         /\ shown' \in [Dead -> SUBSET Data]
<1>1. <<d, corr>> \in (Data \X BOOLEAN) \cup {NoField} OBVIOUS
<1>2. rescued' \in [Dead -> (Data \X BOOLEAN) \cup {NoField}] BY <1>1 DEF TypeOK, Take
<1>3. conflict' \subseteq Dead BY DEF TypeOK, Take
<1>4. shown' \in [Dead -> SUBSET Data] BY DEF TypeOK, Take
<1> QED BY <1>2, <1>3, <1>4

\* The case of ScanField in which a field is read.
Field ==
  \E v \in 0 .. 2, corr \in BOOLEAN :
    LET raw == raws[r]
        own == SectorIn(raw.kind, Places[i])
        at  == HeaderAt(raw.shift, Places[i]) + HDR_TO_SYNC
    IN  /\ passed' = IF raw.kind = "own" THEN passed \cup {own} ELSE passed
        /\ IF Claimants(at) = {} THEN UNCHANGED <<rescued, conflict, shown>>
           ELSE \E s \in Claimants(at) : Take(s, <<raw.kind, own, v>>, corr)

\* A field that has no claimant is answered with no sector, any other with one of its claimants.
LEMMA FieldOrNot ==
  ASSUME ScanField PROVE UNCHANGED <<rescued, conflict, shown, passed>> \/ (r \in usable /\ Field)
  BY DEF ScanField, Field

\* A field is taken for one dead sector or for none.
LEMMA FieldTaken ==
  ASSUME TypeOK, ScanField, r \in usable, Field
  PROVE  /\ passed' \subseteq Sectors
         /\ \/ UNCHANGED <<rescued, conflict, shown>>
            \/ \E s \in Dead, d \in Data, corr \in BOOLEAN : Take(s, d, corr)
<1> DEFINE own == SectorIn(raws[r].kind, Places[i])
           at  == HeaderAt(raws[r].shift, Places[i]) + HDR_TO_SYNC
<1>1. raws[r].kind \in Kinds /\ Places[i] \in Slots
  <2> DEFINE Raw == [kind : Kinds, shift : Shifts, heard : Heard]
  <2>1. r \in DOMAIN raws /\ raws \in Seq(Raw) BY DEF usable, TypeOK
  <2>2. raws[r] \in Raw
    <3> HIDE DEF Raw
    <3> QED BY <2>1
  <2>3. i \in 1 .. Len(Places) BY RescueAssumption DEF ScanField, TypeOK
  <2>4. raws[r].kind \in Kinds BY <2>2
  <2>5. Places[i] \in Slots BY <2>3, RescueAssumption
  <2> QED BY <2>4, <2>5
<1>2. own \in Sectors BY <1>1, SectorThere
<1>3. PICK v \in 0 .. 2, corr \in BOOLEAN :
        /\ passed' = IF raws[r].kind = "own" THEN passed \cup {own} ELSE passed
        /\ IF Claimants(at) = {} THEN UNCHANGED <<rescued, conflict, shown>>
           ELSE \E s \in Claimants(at) : Take(s, <<raws[r].kind, own, v>>, corr)
  BY Zenon DEF Field
<1>4. passed' \subseteq Sectors BY <1>2, <1>3 DEF TypeOK
<1>5. CASE Claimants(at) = {} BY <1>3, <1>4, <1>5
<1>6. CASE Claimants(at) # {}
  <2>1. PICK s \in Claimants(at) : Take(s, <<raws[r].kind, own, v>>, corr) BY <1>3, <1>6
  <2>2. s \in Dead BY <2>1 DEF Claimants
  <2>3. <<raws[r].kind, own, v>> \in Data BY <1>1, <1>2 DEF Data
  <2> HIDE DEF own, at
  <2> QED BY <1>4, <2>1, <2>2, <2>3
<1> QED BY <1>5, <1>6

-----------------------------------------------------------------------------
\* A pass begins with well-typed variables.
LEMMA TypeInit == Init => TypeOK
  BY RescueAssumption DEF Init, TypeOK, Sectors

\* No step of a pass leaves the types.
LEMMA TypeStep == TypeOK /\ [Next]_vars => TypeOK'
<1> SUFFICES ASSUME TypeOK, [Next]_vars PROVE TypeOK' OBVIOUS
<1>1. CASE Survey
  <2>1. PICK k \in Kinds, s \in Shifts, H \in Heard :
          raws' = Append(raws, [kind |-> k, shift |-> s, heard |-> H]) BY <1>1 DEF Survey
  <2>2. raws' \in Seq([kind : Kinds, shift : Shifts, heard : Heard]) BY <2>1 DEF TypeOK
  <2> QED BY <1>1, <2>2 DEF Survey, scanned, TypeOK
<1>2. CASE GiveUp BY <1>2 DEF GiveUp, scanned, TypeOK
<1>3. CASE Locate BY <1>3 DEF Locate, scanned, TypeOK
<1>4. CASE ScanField
  <2>1. i' \in 1 .. Len(Places) + 1 BY <1>4, RescueAssumption DEF ScanField, TypeOK
  <2>2. UNCHANGED <<pc, raws, r>> BY <1>4 DEF ScanField
  <2>3. CASE UNCHANGED <<rescued, conflict, shown, passed>> BY <2>1, <2>2, <2>3 DEF TypeOK
  <2>4. CASE r \in usable /\ Field
    <3>1. passed' \subseteq Sectors BY <1>4, <2>4, FieldTaken
    <3>2. CASE UNCHANGED <<rescued, conflict, shown>> BY <2>1, <2>2, <3>1, <3>2 DEF TypeOK
    <3>3. CASE \E s \in Dead, d \in Data, corr \in BOOLEAN : Take(s, d, corr)
      BY <2>1, <2>2, <3>1, <3>3, TakeTyped DEF TypeOK
    <3> QED BY <1>4, <2>4, <3>2, <3>3, FieldTaken
  <2> QED BY <1>4, <2>3, <2>4, FieldOrNot
<1>5. CASE NextRaw BY <1>5, RescueAssumption DEF NextRaw, TypeOK
<1>6. CASE Finish BY <1>6 DEF Finish, TypeOK
<1>7. CASE UNCHANGED vars BY <1>7 DEF vars, TypeOK
<1> QED BY <1>1, <1>2, <1>3, <1>4, <1>5, <1>6, <1>7 DEF Next

\* The dictionaries keep their types.
THEOREM TypeCorrect == Spec => []TypeOK
  BY TypeInit, TypeStep, PTL DEF Spec

-----------------------------------------------------------------------------
\* While the scan runs, a sector without conflict has been shown with one value
\* only, the one the dictionary holds; one that is not there was never shown.
OneValue(s) ==
  /\ pc # "done" /\ rescued[s] = NoField => shown[s] = {}
  /\ s \notin conflict /\ rescued[s] # NoField => shown[s] = {rescued[s][1]}
  /\ pc = "done" /\ s \in conflict => rescued[s] = NoField
OneInv == (pc = "survey" => conflict = {}) /\ \A s \in Dead : OneValue(s)

\* A field keeps this: equal data leave the set as it is, other data are a
\* conflict even if the dictionary's value is replaced.
LEMMA TakeKeepsOne ==
  ASSUME TypeOK, OneInv, pc = "scan", pc' = "scan",
         NEW s \in Dead, NEW d \in Data, NEW corr \in BOOLEAN, Take(s, d, corr)
  PROVE  OneInv'
<1> SUFFICES ASSUME NEW u \in Dead PROVE OneValue(u)' BY DEF OneInv
<1>0. OneValue(u) BY DEF OneInv
<1>1. CASE u # s
  <2>1. rescued'[u] = rescued[u] /\ shown'[u] = shown[u] BY <1>1 DEF Take, TypeOK
  <2>2. u \in conflict' <=> u \in conflict BY <1>1 DEF Take
  <2> QED BY <1>0, <2>1, <2>2 DEF OneValue
<1>2. CASE u = s
  <2>1. shown'[s] = shown[s] \cup {d} BY DEF Take, TypeOK
  <2>2. CASE rescued[s] = NoField
    <3>1. rescued'[s] = <<d, corr>> BY <2>2 DEF Take, TypeOK
    <3>2. shown'[s] = {d} BY <1>0, <1>2, <2>1, <2>2 DEF OneValue
    <3> QED BY <1>2, <3>1, <3>2, FieldsArePairs DEF OneValue
  <2>3. CASE rescued[s] # NoField /\ rescued[s][1] # d
    <3>1. s \in conflict' BY <2>3 DEF Take, Clash
    <3>2. rescued'[s] \in {rescued[s], <<d, corr>>} BY DEF Take, TypeOK
    <3>3. rescued'[s] # NoField BY <2>3, <3>2, FieldsArePairs
    <3> QED BY <1>2, <3>1, <3>3 DEF OneValue
  <2>4. CASE rescued[s] # NoField /\ rescued[s][1] = d
    <3>1. conflict' = conflict BY <2>4 DEF Take, Clash
    <3>2. rescued'[s] \in {rescued[s], <<d, corr>>} BY DEF Take, TypeOK
    <3>3. rescued'[s] # NoField /\ rescued'[s][1] = d BY <2>4, <3>2, FieldsArePairs
    <3>4. s \notin conflict => shown'[s] = {d} BY <1>0, <1>2, <2>1, <2>4 DEF OneValue
    <3> QED BY <1>2, <3>1, <3>3, <3>4 DEF OneValue
  <2> QED BY <2>2, <2>3, <2>4
<1> QED BY <1>1, <1>2

\* Before the first read no sector is rescued.
LEMMA OneInit == Init => OneInv
  BY DEF Init, OneInv, OneValue

\* No step rescues a sector from two places.
LEMMA OneStep == TypeOK /\ OneInv /\ [Next]_vars => OneInv'
<1> SUFFICES ASSUME TypeOK, OneInv, [Next]_vars PROVE OneInv' OBVIOUS
<1>1. CASE Survey BY <1>1 DEF Survey, scanned, OneInv, OneValue
<1>2. CASE GiveUp
  BY <1>2 DEF GiveUp, scanned, OneInv, OneValue
<1>3. CASE Locate BY <1>3 DEF Locate, scanned, OneInv, OneValue
<1>4. CASE ScanField
  <2>1. pc = "scan" /\ pc' = "scan" BY <1>4 DEF ScanField
  <2>2. CASE UNCHANGED <<rescued, conflict, shown>> BY <2>1, <2>2 DEF OneInv, OneValue
  <2>3. CASE r \in usable /\ Field BY <1>4, <2>1, <2>2, <2>3, FieldTaken, TakeKeepsOne
  <2> QED BY <1>4, <2>2, <2>3, FieldOrNot
<1>5. CASE NextRaw BY <1>5 DEF NextRaw, OneInv, OneValue
<1>6. CASE Finish
  <2> SUFFICES ASSUME NEW s \in Dead PROVE OneValue(s)' BY <1>6 DEF OneInv, Finish
  <2>1. rescued'[s] = IF s \in conflict THEN NoField ELSE rescued[s] BY <1>6 DEF Finish
  <2>2. OneValue(s) BY DEF OneInv
  <2> QED BY <1>6, <2>1, <2>2 DEF Finish, OneValue
<1>7. CASE UNCHANGED vars BY <1>7 DEF vars, OneInv, OneValue
<1> QED BY <1>1, <1>2, <1>3, <1>4, <1>5, <1>6, <1>7 DEF Next

\* What rescue_track returns for a sector is all any capture showed for it.
THEOREM NoConflictReturned == Spec => []Unanimous
<1>1. Init => TypeOK /\ OneInv BY TypeInit, OneInit
<1>2. TypeOK /\ OneInv /\ [Next]_vars => (TypeOK /\ OneInv)' BY TypeStep, OneStep
<1>3. OneInv => Unanimous BY DEF OneInv, OneValue, Unanimous
<1> QED BY <1>1, <1>2, <1>3, PTL DEF Spec

-----------------------------------------------------------------------------
(* Medians.                                                                *)

\* Among finitely many places there is one with the least value, one with the greatest.
LEMMA LeastIn ==
  ASSUME NEW v, NEW X, IsFiniteSet(X), X # {}, \A x \in X : v[x] \in Int
  PROVE  \E x \in X : \A y \in X : v[x] <= v[y]
<1> DEFINE down(x) == {y \in X : v[y] <= v[x]}
           D == {down(x) : x \in X}
<1>1. PICK d \in D : \A e \in D : <<e, d>> \notin StrictSubsetOrdering(X)
  <2>1. D \subseteq SUBSET X /\ D # {} OBVIOUS
  <2> HIDE DEF D
  <2>2. IsWellFoundedOn(StrictSubsetOrdering(X), SUBSET X)
    BY FS_FiniteSubsetsOfFinite, FS_StrictSubsetOrderingWellFounded
  <2> QED BY <2>1, <2>2, WFMin
<1>2. PICK x \in X : d = down(x) OBVIOUS
<1>3. ASSUME NEW y \in X, v[y] < v[x] PROVE FALSE
  <2>1. down(y) \subseteq down(x) /\ x \in down(x) /\ x \notin down(y) BY <1>3
  <2>2. <<down(y), down(x)>> \in StrictSubsetOrdering(X) BY <2>1 DEF StrictSubsetOrdering
  <2> QED BY <1>1, <1>2, <2>2
<1> QED BY <1>3

LEMMA GreatestIn ==
  ASSUME NEW v, NEW X, IsFiniteSet(X), X # {}, \A x \in X : v[x] \in Int
  PROVE  \E x \in X : \A y \in X : v[y] <= v[x]
<1> DEFINE w == [x \in X |-> 0 - v[x]]
<1>1. \A x \in X : w[x] \in Int OBVIOUS
<1> HIDE DEF w
<1>2. PICK x \in X : \A y \in X : w[x] <= w[y] BY <1>1, LeastIn
<1> QED BY <1>2 DEF w

\* The median of finitely many numbers is one of them, and no more than half are less.
LEMMA MedianIs ==
  ASSUME NEW v, IsFiniteSet(DOMAIN v), DOMAIN v # {}, \A x \in DOMAIN v : v[x] \in Int
  PROVE  \E x \in DOMAIN v :
           /\ Median(v) = v[x]
           /\ Cardinality({y \in DOMAIN v : v[y] < v[x]}) <= Cardinality(DOMAIN v) \div 2
<1> DEFINE X == DOMAIN v
           n == Cardinality(X)
           Upto(x) == {y \in X : v[y] <= v[x]}
           Less(x) == {y \in X : v[y] < v[x]}
           T == {x \in X : Cardinality(Upto(x)) > n \div 2}
<1>1. n \in Nat /\ n > 0
  <2>1. n \in Nat /\ n # 0 BY FS_CardinalityType, FS_EmptySet
  <2> QED BY <2>1
<1>2. \A x \in X : Cardinality(Upto(x)) \in Nat
  <2>1. \A x \in X : IsFiniteSet(Upto(x)) BY FS_Subset
  <2> QED BY <2>1, FS_CardinalityType
<1>3. T # {} /\ IsFiniteSet(T)
  <2>1. PICK x \in X : \A y \in X : v[y] <= v[x] BY GreatestIn
  <2>2. Upto(x) = X BY <2>1
  <2>3. n > n \div 2
    <3> HIDE DEF n
    <3> QED BY <1>1
  <2>4. x \in T BY <2>2, <2>3
  <2> QED BY <2>4, FS_Subset
<1>4. PICK x \in T : \A y \in T : v[x] <= v[y]
  <2>1. \A y \in T : v[y] \in Int OBVIOUS
  <2> HIDE DEF T
  <2> QED BY <1>3, <2>1, LeastIn
<1>5. Cardinality(Less(x)) <= n \div 2
  <2>1. CASE Less(x) = {}
    <3>1. Cardinality({}) = 0 BY FS_EmptySet
    <3>2. 0 <= n \div 2
      <4> HIDE DEF n
      <4> QED BY <1>1
    <3> QED BY <2>1, <3>1, <3>2
  <2>2. CASE Less(x) # {}
    <3>1. IsFiniteSet(Less(x)) /\ \A y \in Less(x) : v[y] \in Int BY FS_Subset
    <3>2. PICK z \in Less(x) : \A y \in Less(x) : v[y] <= v[z]
      <4> DEFINE L == Less(x)
      <4>1. IsFiniteSet(L) /\ L # {} /\ \A y \in L : v[y] \in Int BY <2>2, <3>1
      <4> HIDE DEF L
      <4>2. \E z \in L : \A y \in L : v[y] <= v[z] BY <4>1, GreatestIn
      <4> QED BY <4>2 DEF L
    <3>3. z \in X /\ v[z] < v[x] OBVIOUS
    <3>4. Less(x) = Upto(z)
      <4>1. \A y \in X : v[y] < v[x] => v[y] <= v[z] BY <3>2
      <4>2. \A y \in X : v[y] <= v[z] => v[y] < v[x] BY <3>3
      <4> QED BY <4>1, <4>2
    <3>5. z \notin T BY <1>4, <3>3
    <3>6. ~(Cardinality(Upto(z)) > n \div 2) BY <3>3, <3>5
    <3>7. Cardinality(Upto(z)) \in Nat /\ n \div 2 \in Int
      <4>1. n \div 2 \in Int
        <5> HIDE DEF n
        <5> QED BY <1>1
      <4> QED BY <1>2, <3>3, <4>1
    <3> QED BY <3>4, <3>6, <3>7
  <2> QED BY <2>1, <2>2
<1>6. \E a \in X : /\ Cardinality({y \in X : v[y] < v[a]}) <= Cardinality(X) \div 2
                   /\ Cardinality({y \in X : v[y] <= v[a]}) > Cardinality(X) \div 2
  BY <1>4, <1>5
<1> HIDE DEF T
<1> QED BY <1>6, Zenon DEF Median

LEMMA MedianIn ==
  ASSUME NEW v, IsFiniteSet(DOMAIN v), DOMAIN v # {}, \A x \in DOMAIN v : v[x] \in Int
  PROVE  \E x \in DOMAIN v : Median(v) = v[x]
BY MedianIs

-----------------------------------------------------------------------------
(* Slots and the interleave.                                               *)

\* The quotient is decided by its bounds.
LEMMA QuotientIs ==
  ASSUME NEW a \in Int, NEW b \in Int, NEW k \in Int, b > 0, k * b <= a, a < k * b + b
  PROVE  a \div b = k
<1> DEFINE q == a \div b
<1>1. q \in Int /\ q * b <= a /\ a < q * b + b OBVIOUS
<1> HIDE DEF q
<1>2. (q - k) * b < b /\ (k - q) * b < b BY <1>1
<1>3. q - k < 1 /\ k - q < 1
  <2>1. \A m \in Int : m >= 1 => m * b >= b OBVIOUS
  <2> QED BY <1>1, <1>2, <2>1
<1> QED BY <1>1, <1>3 DEF q

\* A position that is less than half a pitch off a multiple of it is of that slot.
LEMMA RoundIs ==
  ASSUME NEW p \in Int, p > 0, NEW k \in Int, NEW d \in Int, -p < 2 * d, 2 * d < p
  PROVE  Round(k * p + d, p) = k
<1>1. k * (2 * p) = 2 * (k * p) /\ k * p \in Int OBVIOUS
<1> DEFINE a == 2 * (k * p + d) + p
           b == 2 * p
<1>2. a \in Int /\ b \in Int /\ b > 0 /\ k * b < a /\ a < k * b + b BY <1>1
<1> HIDE DEF a, b
<1>3. a \div b = k BY <1>2, QuotientIs
<1> DEFINE m == a - k * b
<1>4. a % b = m /\ m # 0
  <2>1. m \in Int /\ a = k * b + m /\ 0 < m /\ m < b BY <1>2
  <2> HIDE DEF m
  <2> QED BY <1>2, <2>1
<1> HIDE DEF m
<1> QED BY <1>3, <1>4 DEF Round, a, b

\* 23 is prime.
LEMMA Prime ==
  ASSUME NEW m \in 1 .. 22, NEW d \in 1 .. 22 PROVE (m * d) % 23 # 0
<1>1. /\ (1 * d) % 23 # 0 /\ (2 * d) % 23 # 0 /\ (3 * d) % 23 # 0 /\ (4 * d) % 23 # 0
      /\ (5 * d) % 23 # 0 /\ (6 * d) % 23 # 0 /\ (7 * d) % 23 # 0 /\ (8 * d) % 23 # 0
      /\ (9 * d) % 23 # 0 /\ (10 * d) % 23 # 0 /\ (11 * d) % 23 # 0 /\ (12 * d) % 23 # 0
      /\ (13 * d) % 23 # 0 /\ (14 * d) % 23 # 0 /\ (15 * d) % 23 # 0 /\ (16 * d) % 23 # 0
      /\ (17 * d) % 23 # 0 /\ (18 * d) % 23 # 0 /\ (19 * d) % 23 # 0 /\ (20 * d) % 23 # 0
      /\ (21 * d) % 23 # 0 /\ (22 * d) % 23 # 0
  OBVIOUS
<1> QED BY <1>1

\* Terms that are congruent to each other cancel.
LEMMA CancelSlot ==
  ASSUME NEW a \in Int, NEW v \in Int, NEW z \in Int, (a + v + 8 * z) % 23 = (8 * z) % 23
  PROVE  (a + v) % 23 = 0
OBVIOUS

LEMMA CancelBase ==
  ASSUME NEW a \in Int, NEW v \in Int, NEW z \in Int, (a + v) % 23 = 0, (a + z) % 23 = 0
  PROVE  (z - v) % 23 = 0
OBVIOUS

\* A line through two slots of the interleave is the interleave.
LEMMA LineIs ==
  ASSUME NEW a \in 0 .. 22, NEW b \in 0 .. 22, NEW x \in 0 .. 25, NEW y \in 0 .. 25,
         x < y, y # x + 23,
         (a + b * x) % 23 = (8 * x) % 23, (a + b * y) % 23 = (8 * y) % 23
  PROVE  a = 0 /\ b = 8
<1> DEFINE m == b - 8
           u == m * x
           w == m * y
<1>1. m \in -8 .. 14 /\ u \in Int /\ w \in Int OBVIOUS
<1>2. (a + u) % 23 = 0 /\ (a + w) % 23 = 0
  <2>1. a + b * x = a + u + 8 * x /\ a + b * y = a + w + 8 * y OBVIOUS
  <2>2. x \in Int /\ y \in Int /\ a \in Int OBVIOUS
  <2> HIDE DEF u, w, m
  <2>3. (a + u + 8 * x) % 23 = (8 * x) % 23 BY <2>1
  <2>4. (a + w + 8 * y) % 23 = (8 * y) % 23 BY <2>1
  <2>5. (a + u) % 23 = 0 BY <1>1, <2>2, <2>3, CancelSlot
  <2>6. (a + w) % 23 = 0 BY <1>1, <2>2, <2>4, CancelSlot
  <2> QED BY <2>5, <2>6
<1>3. (m * (y - x)) % 23 = 0
  <2>1. m * (y - x) = w - u OBVIOUS
  <2>2. a \in Int OBVIOUS
  <2> HIDE DEF u, w, m
  <2>3. (w - u) % 23 = 0 BY <1>1, <1>2, <2>2, CancelBase
  <2> QED BY <2>1, <2>3
<1>4. m = 0
  <2> DEFINE d == IF y - x > 23 THEN y - x - 23 ELSE y - x
             e == IF m < 0 THEN -m ELSE m
  <2>1. d \in 1 .. 22 OBVIOUS
  <2>2. (m * d) % 23 = 0
    <3>1. CASE y - x > 23
      <4>1. m * (y - x) = m * d + 23 * m /\ m * d \in Int BY <3>1
      <4> DEFINE md == m * d
                 z == m * (y - x)
      <4>2. z = md + 23 * m /\ z % 23 = 0 /\ md \in Int BY <1>3, <4>1
      <4> HIDE DEF md, m, z
      <4>3. md % 23 = 0 BY <1>1, <4>2
      <4> QED BY <4>3 DEF md
    <3> QED BY <1>3, <3>1
  <2>3. (e * d) % 23 = 0
    <3>1. e * d = m * d \/ e * d = 0 - m * d OBVIOUS
    <3> DEFINE z == m * d
    <3>2. z \in Int /\ z % 23 = 0 BY <2>1, <2>2
    <3> HIDE DEF z
    <3>3. (0 - z) % 23 = 0 BY <3>2
    <3> QED BY <2>2, <3>1, <3>3 DEF z
  <2>4. e \in 0 .. 22 /\ (e = 0 => m = 0) BY <1>1
  <2> HIDE DEF d, e, m
  <2> QED BY <2>1, <2>3, <2>4, Prime
<1>5. b = 8 BY <1>4
<1>6. a % 23 = 0 BY <1>2, <1>4
<1> QED BY <1>5, <1>6

-----------------------------------------------------------------------------
(* The slot map.                                                           *)

\* How the captures that are used are shifted.
Used == {raws[c].shift : c \in usable}
\* What the map has to be, whatever the headers: pitch, nominal places and base are
\* those of captures, and the sector of a slot is the one that is there.
MapTrue ==
  /\ \E s \in Used : map.pitch = 4656 + s[2]
  /\ DOMAIN map.sec \subseteq Slots /\ DOMAIN map.nominal = DOMAIN map.sec
  /\ \A k \in DOMAIN map.sec : /\ map.sec[k] = Fold(8 * k)
                               /\ \E s \in Used : map.nominal[k] = HeaderAt(s, k)
  /\ \E k \in DOMAIN map.sec : map.base = map.nominal[k] - k * map.pitch

\* What two shifts may be.
LEMMA ShiftIs ==
  ASSUME Aligned, NEW s \in Shifts, NEW t \in Shifts
  PROVE  /\ s[1] \in Int /\ -600 <= s[1] /\ s[1] <= 600
         /\ s[2] \in Int /\ -100 <= s[2] /\ s[2] <= 100
         /\ t[2] \in Int /\ -10 <= s[2] - t[2] /\ s[2] - t[2] <= 10
<1>1. s[1] \in OffIndex /\ s[2] \in Slower /\ t[2] \in Slower
  BY Zenon DEF Aligned
<1>2. s[2] - t[2] <= 10 /\ t[2] - s[2] <= 10
  BY Zenon DEF Aligned
<1> DEFINE x == s[1]
           y == s[2]
           z == t[2]
<1>3. x \in -600 .. 600 /\ y \in -100 .. 100 /\ z \in -100 .. 100 /\ y - z <= 10 /\ z - y <= 10
  BY <1>1, <1>2 DEF OffIndex, Slower
<1> HIDE DEF x, y, z
<1>4. /\ x \in Int /\ -600 <= x /\ x <= 600 /\ y \in Int /\ -100 <= y /\ y <= 100
      /\ z \in Int /\ -10 <= y - z /\ y - z <= 10
  BY <1>3
<1> QED BY <1>4 DEF x, y, z

LEMMA UsedIs == ASSUME TypeOK PROVE Used \subseteq Shifts
<1> DEFINE Raw == [kind : Kinds, shift : Shifts, heard : Heard]
<1>1. raws \in Seq(Raw) BY DEF TypeOK
<1>2. \A c \in DOMAIN raws : raws[c].shift \in Shifts
  <2>1. \A c \in DOMAIN raws : raws[c] \in Raw
    <3> HIDE DEF Raw
    <3> QED BY <1>1
  <2> QED BY <2>1
<1> QED BY <1>2 DEF Used, usable

\* A slot of the next revolution is late by what is left over, and by no more.
LEMMA LateIs ==
  /\ \A k \in Slots : Late(k) = IF k >= 23 THEN Leftover ELSE 0
  /\ Leftover \in Nat
<1>1. \A k \in Slots : k \div 23 = IF k >= 23 THEN 1 ELSE 0 BY DEF Slots
<1>2. Leftover \in Nat BY RescueAssumption
<1> QED BY <1>1, <1>2 DEF Late, SECTORS_PER_TRACK

\* A header that is used is of the track, in its slot.
LEMMA HeaderIs ==
  ASSUME TypeOK, Aligned, NEW h \in Headers
  PROVE  /\ h[1] \in DOMAIN raws /\ h[2] \in Slots /\ h = <<h[1], h[2]>>
         /\ raws[h[1]].kind = "own" /\ raws[h[1]].shift \in Shifts \cap Used
         /\ Pos(h) = HeaderAt(raws[h[1]].shift, h[2]) /\ Sec(h) = Fold(8 * h[2])
<1> DEFINE Raw == [kind : Kinds, shift : Shifts, heard : Heard]
<1>1. /\ h[1] \in DOMAIN raws /\ h[2] \in Slots /\ Usable(h[1]) /\ h = <<h[1], h[2]>>
      /\ h[1] \in usable
  BY DEF Headers, usable
<1>2. raws[h[1]] \in Raw
  <2>1. raws \in Seq(Raw) BY DEF TypeOK
  <2> HIDE DEF Raw
  <2> QED BY <1>1, <2>1
<1>3. raws[h[1]].kind = "own" /\ raws[h[1]].shift \in Shifts
  BY <1>1, <1>2, RescueAssumption DEF Usable, Aligned
<1> QED BY <1>1, <1>3 DEF Pos, Sec, SectorIn, Used

\* The slots, and the headers, are finitely many.
LEMMA SlotsFinite == IsFiniteSet(Slots)
<1> DEFINE m == 0
           n == 25
<1>1. m \in Int /\ n \in Int /\ Slots = m .. n BY DEF Slots
<1> HIDE DEF m, n
<1> QED BY <1>1, FS_Interval

LEMMA HeadersFinite == ASSUME TypeOK PROVE IsFiniteSet(Headers)
<1>1. IsFiniteSet(Slots) BY SlotsFinite
<1>2. IsFiniteSet(DOMAIN raws)
  <2> DEFINE n == Len(raws)
             m == 1
  <2>1. m \in Int /\ n \in Int /\ DOMAIN raws = m .. n BY DEF TypeOK
  <2> HIDE DEF m, n
  <2> QED BY <2>1, FS_Interval
<1>3. IsFiniteSet((DOMAIN raws) \X Slots) BY <1>1, <1>2, FS_Product
<1>4. Headers \subseteq (DOMAIN raws) \X Slots BY DEF Headers, usable
<1> QED BY <1>3, <1>4, FS_Subset

\* Where a header is, seen with the pitch of another capture.
LEMMA PlaceSeen ==
  ASSUME Aligned, NEW s \in Shifts, NEW t \in Shifts, NEW k \in Slots
  PROVE  \E d \in -250 .. 250 :
           /\ HeaderAt(s, k) = k * (4656 + t[2]) + (437 + s[1] + d + Late(k))
           /\ -1 <= s[2] - t[2] /\ s[2] - t[2] <= 1 => d \in -25 .. 25
<1> DEFINE d == k * (s[2] - t[2])
           x == s[1]
           y == s[2]
           z == t[2]
           l == Late(k)
<1>1. x \in Int /\ y \in Int /\ z \in Int /\ -10 <= y - z /\ y - z <= 10 /\ k \in 0 .. 25
  BY ShiftIs DEF Slots
<1>2. HeaderAt(s, k) = 437 + k * (4656 + y) + l + x BY DEF HeaderAt
<1>8. l \in Int BY LateIs
<1> HIDE DEF x, y, z, l
<1>3. d = k * (y - z) BY DEF y, z
<1> HIDE DEF d
<1>4. d \in -250 .. 250
  <2>1. \A j \in 0 .. 25, e \in -10 .. 10 : j * e \in -250 .. 250 OBVIOUS
  <2> QED BY <1>1, <1>3, <2>1
<1>7. (-1 <= y - z /\ y - z <= 1) => d \in -25 .. 25
  <2>1. \A j \in 0 .. 25, e \in -1 .. 1 : j * e \in -25 .. 25 OBVIOUS
  <2> QED BY <1>1, <1>3, <2>1
<1>5. k * (4656 + y) = k * (4656 + z) + d /\ k * (4656 + z) \in Int BY <1>1, <1>3
<1>6. HeaderAt(s, k) = k * (4656 + z) + (437 + x + d + l)
  BY <1>1, <1>2, <1>4, <1>5, <1>8
<1> QED BY <1>4, <1>6, <1>7 DEF x, y, z, l

LEMMA PlaceWide ==
  ASSUME Aligned, NEW s \in Shifts, NEW t \in Shifts, NEW k \in Slots
  PROVE  \E d \in -250 .. 250 : HeaderAt(s, k) = k * (4656 + t[2]) + (437 + s[1] + d + Late(k))
BY PlaceSeen

LEMMA PlaceTight ==
  ASSUME Aligned, NEW s \in Shifts, NEW t \in Shifts, NEW k \in Slots,
         -1 <= s[2] - t[2], s[2] - t[2] <= 1
  PROVE  \E d \in -25 .. 25 : HeaderAt(s, k) = k * (4656 + t[2]) + (437 + s[1] + d + Late(k))
BY PlaceSeen

\* Less than half a slot, whatever the revolution.
LEMMA LateBound == ASSUME Aligned, NEW k \in Slots PROVE Late(k) \in 0 .. 450
<1>1. Leftover \in 11 .. 450 BY DEF Aligned
<1> QED BY <1>1, LateIs

LEMMA PlaceInt == ASSUME Aligned, NEW s \in Shifts, NEW k \in Slots PROVE HeaderAt(s, k) \in Int
<1>1. s[1] \in Int /\ s[2] \in Int /\ k \in Int /\ Late(k) \in Int BY ShiftIs, LateIs DEF Slots
<1> DEFINE x == s[1]
           y == s[2]
           l == Late(k)
<1>2. HeaderAt(s, k) = 437 + k * (4656 + y) + l + x /\ x \in Int /\ y \in Int /\ l \in Int
  BY <1>1 DEF HeaderAt
<1> HIDE DEF x, y, l
<1> QED BY <1>1, <1>2

\* Two headers about a slot apart are those of neighbours, what is left over between
\* those over the end of the revolution.
LEMMA GapIs ==
  ASSUME TypeOK, Aligned, NEW g \in Gaps
  PROVE  /\ raws[g[1][1]].shift \in Used \cap Shifts
         /\ Gap(g) = 4656 + raws[g[1][1]].shift[2] + (IF g \in OverEnd THEN Leftover ELSE 0)
<1>1. /\ g[1] \in Headers /\ g[2] \in Headers /\ g[1][1] = g[2][1] /\ g[1][2] < g[2][2]
      /\ Gap(g) < 5400 /\ (g \in OverEnd <=> g[1][2] = 22)
  BY DEF Gaps, OverEnd, SECTORS_PER_TRACK
<1> DEFINE s == raws[g[1][1]].shift
           x == g[1][2]
           y == g[2][2]
           q == 4656 + s[2]
           v == Late(y)
           u == Late(x)
<1>2. /\ s \in Shifts \cap Used /\ x \in 0 .. 25 /\ y \in 0 .. 25 /\ x < y
      /\ Gap(g) = HeaderAt(s, y) - HeaderAt(s, x)
  BY <1>1, HeaderIs DEF Gap, Slots
<1> DEFINE p == s[1]
<1>3. p \in Int /\ q \in 4556 .. 4756
  <2> DEFINE z == s[2]
  <2>1. p \in Int /\ z \in Int /\ -100 <= z /\ z <= 100 BY <1>2, ShiftIs
  <2>2. q = 4656 + z OBVIOUS
  <2> HIDE DEF z, p, q
  <2> QED BY <2>1, <2>2
<1>7. /\ u = (IF x >= 23 THEN Leftover ELSE 0) /\ v = (IF y >= 23 THEN Leftover ELSE 0)
      /\ Leftover \in Nat
  BY <1>2, LateIs DEF Slots
<1>4. Gap(g) = (y * q - x * q) + (v - u)
  <2>1. HeaderAt(s, y) = 437 + y * q + v + p /\ HeaderAt(s, x) = 437 + x * q + u + p
    BY DEF HeaderAt
  <2> HIDE DEF x, y, p, q, u, v
  <2>2. y * q \in Int /\ x * q \in Int /\ u \in Int /\ v \in Int BY <1>2, <1>3, <1>7
  <2> QED BY <1>2, <1>3, <2>1, <2>2
<1>5. y = x + 1
  <2> HIDE DEF q, x, y, u, v
  <2>1. y * q - x * q = (y - x) * q BY <1>2, <1>3
  <2>2. \A n \in 2 .. 25 : n * q >= 2 * q /\ n * q \in Int BY <1>3
  <2>3. v - u >= 0 /\ v - u \in Int BY <1>2, <1>7
  <2>4. y - x \in 2 .. 25 => FALSE
    <3> DEFINE z == (y - x) * q
    <3>1. y - x \in 2 .. 25 => z >= 9112 /\ z \in Int BY <1>3, <2>2
    <3>2. Gap(g) = z + (v - u) BY <1>4, <2>1
    <3> HIDE DEF z
    <3> QED BY <1>1, <2>3, <3>1, <3>2
  <2> QED BY <1>2, <2>4
<1>6. Gap(g) = q + (v - u) /\ v - u = IF x = 22 THEN Leftover ELSE 0
  <2> HIDE DEF q, x, y, u, v
  <2>1. y * q - x * q = q BY <1>2, <1>3, <1>5
  <2>2. v - u = IF x = 22 THEN Leftover ELSE 0 BY <1>2, <1>5, <1>7
  <2> QED BY <1>4, <2>1, <2>2
<1> QED BY <1>1, <1>2, <1>6

LEMMA GapsFinite == ASSUME TypeOK PROVE IsFiniteSet(Gaps)
<1>1. IsFiniteSet(Headers \X Headers) BY HeadersFinite, FS_Product
<1> QED BY <1>1, FS_Subset DEF Gaps

\* So the pitch is that of one of the captures, if most gaps are of one revolution: those
\* over its end are the longest, and the middle one is not among them.
LEMMA PitchIs ==
  ASSUME TypeOK, Aligned, PitchSeen
  PROVE  Gaps # {} /\ \E s \in Used : Median([g \in Gaps |-> Gap(g)]) = 4656 + s[2]
<1> DEFINE v == [g \in Gaps |-> Gap(g)]
           n == Cardinality(Gaps)
<1>0. IsFiniteSet(Gaps) /\ OverEnd \subseteq Gaps BY GapsFinite DEF OverEnd
<1>1. n \in Nat /\ Cardinality(OverEnd) \in Nat /\ IsFiniteSet(OverEnd)
  BY <1>0, FS_Subset, FS_CardinalityType
<1>2. Gaps # {}
  <2>1. CASE Gaps = {}
    <3>1. n = 0 BY <2>1, FS_EmptySet
    <3> QED BY <1>1, <3>1 DEF PitchSeen
  <2> QED BY <2>1
<1>3. \A g \in Gaps : v[g] = Gap(g) /\ v[g] \in Int
  <2> SUFFICES ASSUME NEW g \in Gaps PROVE Gap(g) \in Int OBVIOUS
  <2> DEFINE s == raws[g[1][1]].shift
  <2>1. s \in Shifts /\ Gap(g) = 4656 + s[2] + (IF g \in OverEnd THEN Leftover ELSE 0)
    BY GapIs
  <2> HIDE DEF s
  <2>2. s[2] \in Int /\ Leftover \in Int BY <2>1, ShiftIs, LateIs
  <2> QED BY <2>1, <2>2
<1>4. DOMAIN v = Gaps OBVIOUS
<1> HIDE DEF v
<1>5. PICK g \in Gaps : /\ Median(v) = v[g]
                        /\ Cardinality({h \in Gaps : v[h] < v[g]}) <= n \div 2
  BY <1>0, <1>2, <1>3, <1>4, MedianIs
<1>6. g \notin OverEnd
  <2> SUFFICES ASSUME g \in OverEnd PROVE FALSE OBVIOUS
  <2> DEFINE Less == {h \in Gaps : v[h] < v[g]}
  <2>1. Gaps \ OverEnd \subseteq Less
    <3> SUFFICES ASSUME NEW h \in Gaps, h \notin OverEnd PROVE v[h] < v[g] OBVIOUS
    <3> DEFINE s == raws[g[1][1]].shift
               t == raws[h[1][1]].shift
               x == s[2]
               y == t[2]
    <3>1. /\ s \in Shifts /\ t \in Shifts /\ v[g] = 4656 + s[2] + Leftover
          /\ v[h] = 4656 + t[2] + 0
      BY <1>3, GapIs
    <3> HIDE DEF s, t
    <3>2. /\ x \in Int /\ y \in Int /\ y - x <= 10 /\ Leftover \in 11 .. 450
          /\ v[g] = 4656 + x + Leftover /\ v[h] = 4656 + y + 0
      BY <3>1, ShiftIs DEF Aligned
    <3> HIDE DEF x, y
    <3> QED BY <3>2
  <2>2. Cardinality(Gaps \ OverEnd) = n - Cardinality(OverEnd)
    <3>1. Cardinality(Gaps \ OverEnd) = n - Cardinality(Gaps \cap OverEnd) BY <1>0, FS_Difference
    <3>2. Gaps \cap OverEnd = OverEnd BY <1>0
    <3> QED BY <3>1, <3>2
  <2>3. IsFiniteSet(Less) BY <1>0, FS_Subset
  <2>4. Cardinality(Gaps \ OverEnd) <= Cardinality(Less) /\ Cardinality(Less) \in Nat
    <3> HIDE DEF Less
    <3> QED BY <2>1, <2>3, FS_Subset, FS_CardinalityType
  <2>5. 2 * Cardinality(OverEnd) < n BY DEF PitchSeen
  <2>6. Cardinality(Less) <= n \div 2 BY <1>5
  <2> HIDE DEF Less, n
  <2> QED BY <1>1, <2>2, <2>4, <2>5, <2>6
<1>7. /\ raws[g[1][1]].shift \in Used
      /\ Median(v) = 4656 + raws[g[1][1]].shift[2] + 0
  BY <1>3, <1>5, <1>6, GapIs
<1>8. raws[g[1][1]].shift[2] \in Int BY GapIs, ShiftIs
<1> QED BY <1>2, <1>7, <1>8 DEF v

\* And a header is counted in the slot it is in.
LEMMA SlotIs ==
  ASSUME TypeOK, Aligned, NEW h \in Headers, NEW t \in Shifts
  PROVE  Round(Pos(h), 4656 + t[2]) = h[2]
<1> DEFINE s == raws[h[1]].shift
           p == 4656 + t[2]
<1>1. s \in Shifts /\ h[2] \in Slots /\ Pos(h) = HeaderAt(s, h[2]) BY HeaderIs
<1> HIDE DEF s
<1>2. PICK d \in -250 .. 250 : HeaderAt(s, h[2]) = h[2] * p + (437 + s[1] + d + Late(h[2]))
  BY <1>1, PlaceWide
<1> DEFINE l == Late(h[2])
           e == 437 + s[1] + d + l
<1>3. p \in 4556 .. 4756 /\ e \in Int /\ -413 <= e /\ e <= 1737
  <2> DEFINE x == s[1]
             z == t[2]
  <2>1. x \in Int /\ -600 <= x /\ x <= 600 /\ z \in Int /\ -100 <= z /\ z <= 100
    BY <1>1, ShiftIs
  <2>2. p = 4656 + z /\ e = 437 + x + d + l OBVIOUS
  <2>3. l \in 0 .. 450 BY <1>1, LateBound
  <2> HIDE DEF x, z, p, e, l
  <2> QED BY <2>1, <2>2, <2>3
<1>4. e \in Int /\ -p < 2 * e /\ 2 * e < p
  <2> HIDE DEF p, e
  <2> QED BY <1>3
<1>5. h[2] \in Int BY <1>1 DEF Slots
<1> HIDE DEF p, e
<1>6. Round(h[2] * p + e, p) = h[2]
  <2>1. p \in Int /\ p > 0 BY <1>3
  <2> QED BY <1>4, <1>5, <2>1, RoundIs
<1> QED BY <1>1, <1>2, <1>6 DEF p, e

\* The map that is made of them.
LEMMA MapIs ==
  ASSUME TypeOK, Aligned, Headers # {}, NEW t \in Shifts \cap Used,
         map' \in Map(4656 + t[2]), raws' = raws
  PROVE  MapTrue'
<1> DEFINE p == 4656 + t[2]
           SlotOf(h) == Round(Pos(h), p)
           In(slot) == {h \in Headers : SlotOf(h) = slot}
           Seen == {SlotOf(h) : h \in Headers}
           Votes(slot, s) == Cardinality({h \in In(slot) : Sec(h) = s})
           nominal == [slot \in Seen |-> Median([h \in In(slot) |-> Pos(h)])]
           offset == [slot \in Seen |-> nominal[slot] - slot * p]
<1>1. PICK tops \in [Seen -> {Sec(h) : h \in Headers}] :
        /\ map' = [pitch |-> p, nominal |-> nominal, base |-> Median(offset), sec |-> tops]
        /\ \A slot \in Seen : \A h \in In(slot) : Votes(slot, tops[slot]) >= Votes(slot, Sec(h))
  <2> DEFINE Tops == {f \in [Seen -> {Sec(h) : h \in Headers}] :
                       \A slot \in Seen : \A h \in In(slot) : Votes(slot, f[slot]) >= Votes(slot, Sec(h))}
             Of(tops) == [pitch |-> p, nominal |-> nominal, base |-> Median(offset), sec |-> tops]
  <2>1. Map(p) = {Of(tops) : tops \in Tops} BY DEF Map
  <2>2. PICK tops \in Tops : map' = Of(tops)
    <3> HIDE DEF Tops, Of
    <3> QED BY <2>1
  <2>3. /\ tops \in [Seen -> {Sec(h) : h \in Headers}]
        /\ \A slot \in Seen : \A h \in In(slot) : Votes(slot, tops[slot]) >= Votes(slot, Sec(h))
    <3> HIDE DEF Votes, Seen, In
    <3> QED BY <2>2
  <2>4. map' = [pitch |-> p, nominal |-> nominal, base |-> Median(offset), sec |-> tops]
    BY <2>2
  <2> HIDE DEF Votes, Seen, In, nominal, offset, p
  <2> QED BY <2>3, <2>4
<1>2. map'.pitch = p /\ map'.nominal = nominal /\ map'.base = Median(offset) /\ map'.sec = tops
  BY <1>1
<1>3. \A h \in Headers : SlotOf(h) = h[2] /\ h[2] \in Slots /\ Sec(h) = Fold(8 * h[2])
  BY SlotIs, HeaderIs
<1>4. Seen \subseteq Slots /\ Seen # {} /\ IsFiniteSet(Seen)
  <2>1. Seen \subseteq Slots /\ Seen # {} BY <1>3
  <2> HIDE DEF Seen
  <2> QED BY <2>1, SlotsFinite, FS_Subset
<1>5. ASSUME NEW k \in Seen
      PROVE  /\ tops[k] = Fold(8 * k)
             /\ \E s \in Shifts \cap Used : nominal[k] = HeaderAt(s, k)
  <2>1. In(k) # {} /\ IsFiniteSet(In(k)) BY HeadersFinite, FS_Subset
  <2>2. \A h \in In(k) : h \in Headers /\ h[2] = k /\ Sec(h) = Fold(8 * k) BY <1>3
  <2>3. tops[k] = Fold(8 * k)
    <3>1. PICK g \in In(k) : Sec(g) = Fold(8 * k) BY <2>1, <2>2
    <3>2. Votes(k, tops[k]) >= Votes(k, Fold(8 * k)) BY <1>1, <3>1
    <3>3. {h \in In(k) : Sec(h) = Fold(8 * k)} = In(k) BY <2>2
    <3>4. Cardinality(In(k)) \in Nat \ {0}
      <4> DEFINE I == In(k)
      <4>1. IsFiniteSet(I) /\ I # {} BY <2>1
      <4> HIDE DEF I
      <4>2. Cardinality(I) \in Nat \ {0} BY <4>1, FS_CardinalityType, FS_EmptySet
      <4> QED BY <4>2 DEF I
    <3>5. ASSUME tops[k] # Fold(8 * k) PROVE FALSE
      <4>1. {h \in In(k) : Sec(h) = tops[k]} = {} BY <2>2, <3>5
      <4>2. Cardinality({}) = 0 BY FS_EmptySet
      <4>3. Votes(k, tops[k]) = 0 BY <4>1, <4>2
      <4>4. Votes(k, Fold(8 * k)) = Cardinality(In(k)) BY <3>3
      <4> HIDE DEF Votes, In
      <4> QED BY <3>2, <3>4, <4>3, <4>4
    <3> QED BY <3>5
  <2>4. \E s \in Shifts \cap Used : nominal[k] = HeaderAt(s, k)
    <3> DEFINE v == [h \in In(k) |-> Pos(h)]
    <3>1. DOMAIN v = In(k) OBVIOUS
    <3>2. \A h \in In(k) : \E s \in Shifts \cap Used : v[h] = HeaderAt(s, k) BY <2>2, HeaderIs
    <3>3. \A h \in In(k) : v[h] \in Int BY <1>4, <3>2, PlaceInt
    <3>4. nominal[k] = Median(v) OBVIOUS
    <3> HIDE DEF v, In
    <3>5. \E h \in In(k) : Median(v) = v[h] BY <2>1, <3>1, <3>3, MedianIn
    <3> QED BY <3>2, <3>4, <3>5
  <2> QED BY <2>3, <2>4
<1>6. \E k \in Seen : Median(offset) = nominal[k] - k * p
  <2> HIDE DEF Seen, nominal
  <2>1. DOMAIN offset = Seen /\ \A k \in Seen : offset[k] = nominal[k] - k * p OBVIOUS
  <2>2. \A k \in Seen : nominal[k] - k * p \in Int
    <3>1. ASSUME NEW k \in Seen PROVE nominal[k] \in Int
      <4>1. PICK s \in Shifts : nominal[k] = HeaderAt(s, k) BY <1>5
      <4>2. HeaderAt(s, k) \in Int BY <1>4, PlaceInt
      <4> QED BY <4>1, <4>2
    <3>2. p \in Int BY ShiftIs
    <3>3. \A k \in Seen : k \in Int BY <1>4 DEF Slots
    <3> HIDE DEF p
    <3> QED BY <3>1, <3>2, <3>3
  <2> HIDE DEF offset, p
  <2>3. \A k \in Seen : offset[k] \in Int BY <2>1, <2>2
  <2>4. PICK k \in Seen : Median(offset) = offset[k] BY <1>4, <2>1, <2>3, MedianIn
  <2> QED BY <2>1, <2>4
<1>7. DOMAIN tops = Seen /\ DOMAIN nominal = Seen BY <1>1
<1> HIDE DEF Seen, nominal, offset
<1>8. \A k \in Seen : /\ tops[k] = Fold(8 * k)
                      /\ \E s \in Used : nominal[k] = HeaderAt(s, k)
  BY <1>5
<1>9. Used' = Used BY DEF Used, usable, Usable
<1>10. /\ DOMAIN map'.sec = Seen /\ DOMAIN map'.nominal = Seen
       /\ \A k \in Seen : map'.sec[k] = Fold(8 * k) /\ \E s \in Used' : map'.nominal[k] = HeaderAt(s, k)
       /\ \E k \in Seen : map'.base = map'.nominal[k] - k * map'.pitch
       /\ \E s \in Used' : map'.pitch = 4656 + s[2]
  BY <1>2, <1>6, <1>7, <1>8, <1>9
<1> QED BY <1>4, <1>10 DEF MapTrue

-----------------------------------------------------------------------------
(* What the scan makes of a field.                                         *)

\* The slot of a field is known from its place.
LEMMA PlaceIs ==
  ASSUME TypeOK, Aligned, MapTrue, NEW s \in Shifts, NEW k \in Slots
  PROVE  Place(HeaderAt(s, k) + HDR_TO_SYNC) = k
<1>1. PICK t \in Shifts : map.pitch = 4656 + t[2] BY UsedIs DEF MapTrue
<1>2. PICK a \in DOMAIN map.sec : map.base = map.nominal[a] - a * map.pitch BY DEF MapTrue
<1>3. PICK u \in Shifts : map.nominal[a] = HeaderAt(u, a) BY UsedIs DEF MapTrue
<1>4. a \in Slots BY DEF MapTrue
<1> DEFINE p == 4656 + t[2]
           x == s[1]
           y == u[1]
<1> DEFINE m == Late(k)
           n == Late(a)
<1>5. PICK d \in -250 .. 250 : HeaderAt(s, k) = k * p + (437 + x + d + m) BY PlaceWide
<1>6. PICK e \in -250 .. 250 : HeaderAt(u, a) = a * p + (437 + y + e + n) BY <1>4, PlaceWide
<1>13. m \in 0 .. 450 /\ n \in 0 .. 450 BY <1>4, LateBound
<1>7. /\ x \in Int /\ -600 <= x /\ x <= 600 /\ y \in Int /\ -600 <= y /\ y <= 600
      /\ p \in 4556 .. 4756
  <2> DEFINE z == t[2]
  <2>1. /\ x \in Int /\ -600 <= x /\ x <= 600 /\ y \in Int /\ -600 <= y /\ y <= 600
        /\ z \in Int /\ -100 <= z /\ z <= 100
    BY ShiftIs
  <2>2. p = 4656 + z OBVIOUS
  <2> HIDE DEF x, y, z, p
  <2> QED BY <2>1, <2>2
<1>8. map.pitch = p /\ map.base = HeaderAt(u, a) - a * p BY <1>1, <1>2, <1>3
<1>9. k \in Int /\ a \in Int BY <1>4 DEF Slots
<1> HIDE DEF x, y, p, m, n
<1> DEFINE f == (x + d + m) - (y + e + n)
<1>10. (HeaderAt(s, k) + HDR_TO_SYNC) - HDR_TO_SYNC - map.base = k * p + f
  <2>1. k * p \in Int /\ a * p \in Int BY <1>7, <1>9
  <2> QED BY <1>5, <1>6, <1>7, <1>8, <1>13, <2>1 DEF HDR_TO_SYNC
<1>11. Round(k * p + f, p) = k
  <2>1. p \in Int /\ p > 0 /\ f \in Int /\ -p < 2 * f /\ 2 * f < p BY <1>5, <1>6, <1>7, <1>13
  <2> HIDE DEF f
  <2>2. Round(k * p + f, p) = k BY <1>9, <2>1, RoundIs
  <2> QED BY <2>2 DEF f
<1>12. Place(HeaderAt(s, k) + HDR_TO_SYNC)
         = Round((HeaderAt(s, k) + HDR_TO_SYNC) - HDR_TO_SYNC - map.base, map.pitch)
  BY DEF Place
<1> QED BY <1>8, <1>10, <1>11, <1>12

\* Slots a revolution apart are the same.
LEMMA AroundIs ==
  ASSUME MapTrue, NEW k \in Slots, NEW a \in Around(k)
  PROVE  a \in DOMAIN map.sec /\ Fold(8 * a) = Fold(8 * k) /\ a \in {k, k - 23, k + 23}
<1>1. a \in DOMAIN map.sec /\ (a = k \/ a = k - 23 \/ a = k + 23)
  BY DEF Around, SECTORS_PER_TRACK
<1>2. k \in Int BY DEF Slots
<1>3. Fold(8 * a) = Fold(8 * k) BY <1>1, <1>2 DEF Fold, SECTORS_PER_TRACK
<1> QED BY <1>1, <1>3

\* Two slots that are not a revolution apart, which all there are fold to.
LEMMA TwoFolded ==
  ASSUME MapTrue, Cardinality(Folded) >= 2
  PROVE  \E x, y \in Folded : x < y /\ y # x + 23
<1>1. Folded \subseteq Slots BY DEF Folded, MapTrue
<1>2. \A x, y \in Folded : y # x + 23 BY DEF Folded, SECTORS_PER_TRACK
<1>3. \E x, y \in Folded : x # y
  <2>1. SUFFICES ASSUME \A x, y \in Folded : x = y PROVE FALSE OBVIOUS
  <2>2. CASE Folded = {}
    <3>1. Cardinality({}) = 0 BY FS_EmptySet
    <3>2. Cardinality(Folded) = 0 BY <2>2, <3>1
    <3> QED BY <3>2
  <2>3. CASE Folded # {}
    <3>1. PICK x \in Folded : Folded = {x} BY <2>1, <2>3
    <3>2. Cardinality({x}) = 1 BY FS_Singleton
    <3>3. Cardinality(Folded) = 1 BY <3>1, <3>2
    <3> QED BY <3>3
  <2> QED BY <2>2, <2>3
<1>4. \A x, y \in Folded : x # y => x < y \/ y < x BY <1>1 DEF Slots
<1> QED BY <1>2, <1>3, <1>4

\* And the only sector a slot may be given is the one that is there, whether its header
\* was read in some capture or the interleave is fitted to others.
LEMMA SecIs ==
  ASSUME MapTrue, NEW k \in Slots
  PROVE  SecOf(k) \subseteq {Fold(8 * k)}
<1>1. CASE Around(k) # {}
  <2>1. \A a \in Around(k) : map.sec[a] = Fold(8 * k) BY AroundIs DEF MapTrue
  <2> QED BY <1>1, <2>1 DEF SecOf
<1>2. CASE Around(k) = {}
  <2>1. SecOf(k) = Fit(k) BY <1>2 DEF SecOf
  <2>2. CASE Cardinality(Folded) >= 2
    <3>1. PICK x, y \in Folded : x < y /\ y # x + 23 BY <2>2, TwoFolded
    <3>2. /\ x \in DOMAIN map.sec /\ y \in DOMAIN map.sec /\ x \in 0 .. 25 /\ y \in 0 .. 25
      BY <3>1 DEF Folded, MapTrue, Slots
    <3>3. ASSUME NEW l \in Fits PROVE Fold(l[1] + l[2] * k) = Fold(8 * k)
      <4>1. l[1] \in 0 .. 22 /\ l[2] \in 0 .. 22 BY DEF Fits, Sectors, SECTORS_PER_TRACK
      <4>2. /\ Fold(l[1] + l[2] * x) = Fold(8 * x)
            /\ Fold(l[1] + l[2] * y) = Fold(8 * y)
        BY <3>1, <3>2 DEF Fits, MapTrue
      <4>3. l[1] = 0 /\ l[2] = 8
        BY <3>1, <3>2, <4>1, <4>2, LineIs DEF Fold, SECTORS_PER_TRACK
      <4>4. k \in Int BY DEF Slots
      <4> QED BY <4>3, <4>4
    <3> QED BY <2>1, <3>3 DEF Fit
  <2>3. CASE ~(Cardinality(Folded) >= 2)
    BY <2>1, <2>3 DEF Fit
  <2> QED BY <2>2, <2>3
<1> QED BY <1>1, <1>2

\* So a field is claimed for no sector but its own.
LEMMA ClaimIs ==
  ASSUME TypeOK, Aligned, MapTrue, r \in usable, i \in 1 .. Len(Places)
  PROVE  LET own == SectorIn(raws[r].kind, Places[i])
             at  == HeaderAt(raws[r].shift, Places[i]) + HDR_TO_SYNC
         IN  raws[r].kind = "own" /\ Claimants(at) \subseteq {own}
<1> DEFINE Raw == [kind : Kinds, shift : Shifts, heard : Heard]
           s == raws[r].shift
           k == Places[i]
<1>1. raws[r] \in Raw
  <2>1. raws \in Seq(Raw) /\ r \in DOMAIN raws BY DEF TypeOK, usable
  <2> HIDE DEF Raw
  <2> QED BY <2>1
<1>2. raws[r].kind = "own" /\ s \in Shifts
  BY <1>1, RescueAssumption DEF usable, Usable, Aligned
<1>3. k \in Slots BY RescueAssumption
<1>5. SectorIn("own", k) = Fold(8 * k) BY DEF SectorIn
<1> HIDE DEF s, k
<1>6. Place(HeaderAt(s, k) + HDR_TO_SYNC) = k BY <1>2, <1>3, PlaceIs
<1>7. Claimants(HeaderAt(s, k) + HDR_TO_SYNC) \subseteq {Fold(8 * k)}
  <2>1. SecOf(k) \subseteq {Fold(8 * k)} BY <1>3, SecIs
  <2> QED BY <1>6, <2>1 DEF Claimants
<1> QED BY <1>2, <1>5, <1>7 DEF s, k

-----------------------------------------------------------------------------
(* Whose data are returned.                                                *)

\* While fields are scanned the map is true, and after it, if one was made, and what is
\* returned is right, as far as the pitch is a slot's.
MapInv ==
  /\ pc = "survey" => map = NoMap
  /\ PitchSeen /\ (pc = "scan" \/ (pc = "done" /\ map # NoMap)) => MapTrue
RightInv == pc = "survey" \/ PitchSeen =>
  \A s \in Dead : rescued[s] # NoField => rescued[s][1][1] = "own" /\ rescued[s][1][2] = s

\* What is said of the captures stays as long as they do.
LEMMA SameRaws ==
  ASSUME raws' = raws PROVE PitchSeen' = PitchSeen /\ Used' = Used /\ Tight' = Tight
<1>1. usable' = usable BY DEF usable, Usable
<1>2. Headers' = Headers BY <1>1 DEF Headers
<1>3. Gaps' = Gaps BY <1>2 DEF Gaps, Gap, Pos
<1>4. OverEnd' = OverEnd BY <1>3 DEF OverEnd
<1> QED BY <1>1, <1>3, <1>4 DEF PitchSeen, Used, Tight

LEMMA MapStep == ASSUME Aligned, TypeOK, MapInv, [Next]_vars PROVE MapInv'
<1>1. map' = map /\ raws' = raws => MapTrue' = MapTrue BY SameRaws DEF MapTrue
<1>2. CASE Locate
  <2> DEFINE P == Median([g \in Gaps |-> Gap(g)])
  <2>1. map' \in Map(P) /\ Gaps # {} /\ pc' = "scan" /\ raws' = raws BY <1>2 DEF Locate
  <2>6. ASSUME PitchSeen PROVE MapTrue'
    <3>2. PICK t \in Used : P = 4656 + t[2] BY <2>6, PitchIs
    <3> HIDE DEF P
    <3>3. Headers # {} BY <2>1 DEF Gaps
    <3>4. map' \in Map(4656 + t[2]) /\ t \in Shifts \cap Used BY <2>1, <3>2, UsedIs
    <3> QED BY <2>1, <3>3, <3>4, MapIs
  <2>7. PitchSeen' = PitchSeen BY <2>1, SameRaws
  <2> QED BY <2>1, <2>6, <2>7 DEF MapInv
<1>3. CASE Survey BY <1>3 DEF Survey, MapInv
<1>5. CASE GiveUp \/ UNCHANGED vars
  BY <1>1, <1>5, SameRaws DEF GiveUp, vars, MapInv
<1>4. CASE ScanField \/ NextRaw \/ Finish
  BY <1>1, <1>4, SameRaws DEF ScanField, NextRaw, Finish, MapInv
<1> QED BY <1>2, <1>3, <1>4, <1>5 DEF Next

\* What a field that is read does.
LEMMA FieldIs ==
  ASSUME Aligned, TypeOK, MapInv, PitchSeen, ScanField, r \in usable, Field
  PROVE  LET own == SectorIn("own", Places[i])
             at  == HeaderAt(raws[r].shift, Places[i]) + HDR_TO_SYNC
         IN  /\ passed' = passed \cup {own}
             /\ \/ UNCHANGED <<rescued, conflict, shown>> /\ Claimants(at) = {}
                \/ /\ own \in Dead /\ own \in Claimants(at)
                   /\ \E v \in 0 .. 2, corr \in BOOLEAN : Take(own, <<"own", own, v>>, corr)
<1> DEFINE own == SectorIn(raws[r].kind, Places[i])
           at  == HeaderAt(raws[r].shift, Places[i]) + HDR_TO_SYNC
<1>1. MapTrue /\ i \in 1 .. Len(Places) BY RescueAssumption DEF ScanField, MapInv, TypeOK
<1>2. raws[r].kind = "own" /\ Claimants(at) \subseteq {own} BY <1>1, ClaimIs
<1>3. PICK v \in 0 .. 2, corr \in BOOLEAN :
        /\ passed' = IF raws[r].kind = "own" THEN passed \cup {own} ELSE passed
        /\ IF Claimants(at) = {} THEN UNCHANGED <<rescued, conflict, shown>>
           ELSE \E s \in Claimants(at) : Take(s, <<raws[r].kind, own, v>>, corr)
  BY Zenon DEF Field
<1>4. own = SectorIn("own", Places[i]) BY <1>2
<1>5. Claimants(at) \subseteq Dead BY DEF Claimants
<1> HIDE DEF own, at
<1>6. passed' = passed \cup {own} BY <1>2, <1>3
<1>7. CASE Claimants(at) = {} BY <1>3, <1>4, <1>6, <1>7 DEF at
<1>8. CASE Claimants(at) # {}
  <2>1. PICK s \in Claimants(at) : Take(s, <<raws[r].kind, own, v>>, corr) BY <1>3, <1>8
  <2>2. s = own /\ own \in Dead /\ own \in Claimants(at) BY <1>2, <1>5, <2>1
  <2>3. Take(own, <<"own", own, v>>, corr) BY <1>2, <2>1, <2>2
  <2> QED BY <1>4, <1>6, <2>2, <2>3 DEF at
<1> QED BY <1>7, <1>8

LEMMA TakeKeepsRight ==
  ASSUME TypeOK, PitchSeen, RightInv,
         NEW s \in Dead, NEW v, NEW corr, Take(s, <<"own", s, v>>, corr)
  PROVE  RightInv'
<1> SUFFICES ASSUME NEW u \in Dead, rescued'[u] # NoField
             PROVE  rescued'[u][1][1] = "own" /\ rescued'[u][1][2] = u
  BY DEF RightInv
<1>1. \/ rescued'[u] = rescued[u]
      \/ u = s /\ rescued'[u] = << <<"own", s, v>>, corr>>
  BY DEF Take, TypeOK
<1> QED BY <1>1 DEF RightInv

LEMMA RightStep == ASSUME Aligned, TypeOK, MapInv, RightInv, [Next]_vars PROVE RightInv'
<1>1. CASE UNCHANGED rescued /\ (pc = "survey" \/ (UNCHANGED raws /\ pc' # "survey"))
  BY <1>1, SameRaws DEF RightInv
<1>2. CASE ScanField
  <2> SUFFICES ASSUME PitchSeen PROVE RightInv'
    BY <1>2, SameRaws DEF ScanField, RightInv
  <2>1. CASE r \in usable /\ Field
    <3>1. \/ UNCHANGED rescued
          \/ \E s \in Dead, v \in 0 .. 2, corr \in BOOLEAN : Take(s, <<"own", s, v>>, corr)
      BY <1>2, <2>1, FieldIs
    <3> QED BY <1>1, <1>2, <3>1, TakeKeepsRight DEF ScanField
  <2> QED BY <1>1, <1>2, <2>1, FieldOrNot DEF ScanField
<1>3. CASE Finish
  <2>1. raws' = raws /\ pc = "scan" /\ pc' = "done" BY <1>3 DEF Finish
  <2> SUFFICES ASSUME PitchSeen, NEW u \in Dead, rescued'[u] # NoField
               PROVE  rescued'[u][1][1] = "own" /\ rescued'[u][1][2] = u
    BY <2>1, SameRaws DEF RightInv
  <2>2. rescued'[u] = rescued[u] BY <1>3 DEF Finish
  <2> QED BY <2>2 DEF RightInv
<1>4. CASE NextRaw BY <1>1, <1>4 DEF NextRaw
<1>5. CASE UNCHANGED vars BY <1>5, SameRaws DEF vars, RightInv
<1> QED BY <1>1, <1>2, <1>3, <1>4, <1>5 DEF Next, Survey, GiveUp, Locate, scanned

\* What rescue_track returns for a sector is data of that sector of this very track, if most
\* neighbouring headers are of one revolution: the captures that are used are of the track,
\* the pitch is one of theirs, and a field is in the slot its place says.
THEOREM PositionTells == ASSUME Aligned PROVE Spec => []Rightful
<1>1. Init => TypeOK /\ MapInv /\ RightInv
  <2>1. Init => MapInv /\ RightInv BY DEF Init, MapInv, RightInv
  <2> QED BY <2>1, TypeInit
<1>2. TypeOK /\ MapInv /\ RightInv /\ [Next]_vars => (TypeOK /\ MapInv /\ RightInv)'
  BY TypeStep, MapStep, RightStep
<1>3. RightInv => Rightful BY DEF RightInv, Rightful, SectorRecovered
<1> QED BY <1>1, <1>2, <1>3, PTL DEF Spec

-----------------------------------------------------------------------------
(* Whether a field is missed.                                              *)

LEMMA NearEnough ==
  ASSUME TypeOK, Aligned, Tight, MapTrue, NEW s \in Used, NEW k \in Slots
  PROVE  ~(Abs(HeaderAt(s, k) - PosOf(k)) > SLOT_TOL)
<1>1. PICK t \in Used : map.pitch = 4656 + t[2] BY DEF MapTrue
<1>0. s \in Shifts /\ t \in Shifts BY UsedIs
<1> DEFINE p == 4656 + t[2]
           x == s[1]
<1>2. PICK u \in Used, a \in Slots :
        /\ PosOf(k) = HeaderAt(u, a) + (k - a) * p
  <2>1. CASE Around(k) = {}
    <3>1. PICK a \in DOMAIN map.sec : map.base = map.nominal[a] - a * map.pitch
      BY DEF MapTrue
    <3>2. PICK u \in Used : map.nominal[a] = HeaderAt(u, a) BY DEF MapTrue
    <3>3. a \in Slots BY DEF MapTrue
    <3>4. PosOf(k) = (HeaderAt(u, a) - a * p) + k * p BY <1>1, <2>1, <3>1, <3>2 DEF PosOf
    <3>5. HeaderAt(u, a) \in Int /\ p \in Int /\ a \in Int /\ k \in Int
      <4>1. t[2] \in Int BY <1>0, ShiftIs
      <4>2. HeaderAt(u, a) \in Int BY <3>3, UsedIs, PlaceInt
      <4> QED BY <3>3, <4>1, <4>2 DEF Slots
    <3>6. (HeaderAt(u, a) - a * p) + k * p = HeaderAt(u, a) + (k - a) * p
      <4> HIDE DEF p
      <4> QED BY <3>5
    <3> QED BY <3>3, <3>4, <3>6
  <2>2. CASE Around(k) # {}
    <3> DEFINE a == CHOOSE b \in Around(k) : TRUE
    <3>1. a \in Around(k) BY <2>2
    <3>2. PosOf(k) = map.nominal[a] + (k - a) * map.pitch BY <2>2 DEF PosOf
    <3> HIDE DEF a
    <3>3. a \in DOMAIN map.sec /\ a \in Slots BY <3>1, AroundIs DEF MapTrue
    <3>4. PICK u \in Used : map.nominal[a] = HeaderAt(u, a) BY <3>3 DEF MapTrue
    <3> QED BY <1>1, <3>2, <3>3, <3>4
  <2> QED BY <2>1, <2>2
<1>10. u \in Shifts BY UsedIs
<1> DEFINE y == u[1]
           m == Late(k)
           n == Late(a)
<1>3. /\ x \in Int /\ y \in Int /\ x - y <= 100 /\ y - x <= 100
      /\ -1 <= s[2] - t[2] /\ s[2] - t[2] <= 1 /\ -1 <= u[2] - t[2] /\ u[2] - t[2] <= 1
  <2>1. x \in Int /\ y \in Int /\ s[2] \in Int /\ t[2] \in Int /\ u[2] \in Int
    BY <1>0, <1>10, ShiftIs
  <2>2. \A v, w \in Used : v[1] - w[1] <= 100 /\ v[2] - w[2] <= 1 BY Zenon DEF Tight, Used
  <2>3. /\ x - y <= 100 /\ y - x <= 100 /\ s[2] - t[2] <= 1 /\ t[2] - s[2] <= 1
        /\ u[2] - t[2] <= 1 /\ t[2] - u[2] <= 1
    BY Zenon, <2>2
  <2> QED BY <2>1, <2>3
<1>4. PICK d \in -25 .. 25 : HeaderAt(s, k) = k * p + (437 + x + d + m)
  BY <1>0, <1>3, PlaceTight
<1>5. PICK e \in -25 .. 25 : HeaderAt(u, a) = a * p + (437 + y + e + n)
  BY <1>0, <1>3, <1>10, PlaceTight
<1>6. p \in Int /\ k \in Int /\ a \in Int /\ m \in 0 .. 450 /\ n \in 0 .. 450
  <2>1. t[2] \in Int BY <1>0, ShiftIs
  <2> QED BY <2>1, LateBound DEF Slots
<1> HIDE DEF x, y, p, m, n
<1> DEFINE f == (x - y) + (d - e) + (m - n)
<1>7. HeaderAt(s, k) - PosOf(k) = f
  <2>1. (k - a) * p = k * p - a * p /\ k * p \in Int /\ a * p \in Int BY <1>6
  <2> QED BY <1>2, <1>3, <1>4, <1>5, <1>6, <2>1
<1>8. f \in Int /\ -600 <= f /\ f <= 600 BY <1>3, <1>6
<1> HIDE DEF f
<1>9. ~(Abs(f) > 600) BY <1>8 DEF Abs
<1> QED BY <1>7, <1>9 DEF SLOT_TOL

\* Two slots that are heard, in whatever revolution.
Two == Cardinality({Fold(slot) : slot \in DOMAIN map.sec}) >= 2

\* Each of them is the same as one that fit_interleave uses.
LEMMA FoldedAll == ASSUME MapTrue, Two PROVE Cardinality(Folded) >= 2
<1> DEFINE T == {Fold(slot) : slot \in DOMAIN map.sec}
           f == [slot \in Folded |-> Fold(slot)]
<1>1. Folded \subseteq Slots /\ DOMAIN map.sec \subseteq Slots BY DEF Folded, MapTrue
<1>2. IsFiniteSet(Folded) BY <1>1, SlotsFinite, FS_Subset
<1>3. \A slot \in DOMAIN map.sec : \E k \in Folded : Fold(k) = Fold(slot)
  <2> SUFFICES ASSUME NEW slot \in DOMAIN map.sec PROVE \E k \in Folded : Fold(k) = Fold(slot)
    OBVIOUS
  <2>1. slot \in 0 .. 25 BY <1>1 DEF Slots
  <2>2. CASE slot + 23 \notin DOMAIN map.sec BY <2>2 DEF Folded, SECTORS_PER_TRACK
  <2>3. CASE slot + 23 \in DOMAIN map.sec
    <3>1. slot + 46 \notin DOMAIN map.sec BY <1>1, <2>1 DEF Slots
    <3>2. slot + 23 \in Folded BY <2>1, <2>3, <3>1 DEF Folded, SECTORS_PER_TRACK
    <3>3. Fold(slot + 23) = Fold(slot) BY <2>1 DEF Fold, SECTORS_PER_TRACK
    <3> QED BY <3>2, <3>3
  <2> QED BY <2>2, <2>3
<1>4. f \in Surjection(Folded, T)
  <2>1. f \in [Folded -> T]
    <3>1. \A k \in Folded : Fold(k) \in T BY DEF Folded
    <3> QED BY <3>1
  <2>2. \A z \in T : \E k \in Folded : f[k] = z BY <1>3
  <2> HIDE DEF T, f
  <2> QED BY <2>1, <2>2 DEF Surjection
<1>5. Cardinality(T) >= 2 BY DEF Two
<1> HIDE DEF T, f
<1>6. /\ Cardinality(T) <= Cardinality(Folded) /\ Cardinality(T) \in Nat
      /\ Cardinality(Folded) \in Nat
  BY <1>2, <1>4, FS_Surjection, FS_CardinalityType
<1> QED BY <1>5, <1>6

\* Then every slot is known.
LEMMA SecKnown == ASSUME MapTrue, Two, NEW k \in Slots PROVE SecOf(k) = {Fold(8 * k)}
<1>1. CASE Around(k) # {}
  <2>1. SecOf(k) # {} BY <1>1 DEF SecOf
  <2> QED BY <2>1, SecIs
<1>2. CASE Around(k) = {}
  <2>1. <<0, 8>> \in Fits
    <3>1. \A slot \in Folded : slot \in DOMAIN map.sec /\ slot \in Int
      BY DEF Folded, MapTrue, Slots
    <3>2. \A slot \in Folded : Fold(0 + 8 * slot) = map.sec[slot]
      BY <3>1 DEF MapTrue
    <3> QED BY <3>2 DEF Fits, Sectors, SECTORS_PER_TRACK
  <2>2. SecOf(k) # {} BY <1>2, <2>1, FoldedAll DEF SecOf, Fit
  <2> QED BY <2>2, SecIs
<1> QED BY <1>1, <1>2

\* The scan has missed none of the fields it met, and the end drops none but conflicts.
MissInv ==
  /\ pc = "survey" => passed = {}
  /\ pc = "scan" /\ PitchSeen /\ Tight /\ Two => \A s \in passed \cap Dead : rescued[s] # NoField
  /\ pc = "done" /\ map # NoMap /\ PitchSeen /\ Tight /\ Two =>
       \A s \in passed \cap Dead : rescued[s] # NoField \/ s \in conflict

\* A field that is taken stays.
LEMMA TakeKeeps ==
  ASSUME TypeOK, NEW s \in Dead, NEW d, NEW corr, Take(s, d, corr)
  PROVE  /\ rescued'[s] # NoField
         /\ \A u \in Dead : rescued[u] # NoField => rescued'[u] # NoField
<1>1. \/ rescued' = rescued /\ rescued[s] # NoField
      \/ rescued' = [rescued EXCEPT ![s] = <<d, corr>>]
  BY DEF Take
<1> QED BY <1>1, FieldsArePairs DEF TypeOK

\* A field of a dead sector is claimed once two slots are known.
LEMMA ClaimedIs ==
  ASSUME Aligned, PitchSeen, Tight, TypeOK, MapInv, ScanField, r \in usable, Two,
         SectorIn("own", Places[i]) \in Dead
  PROVE  Claimants(HeaderAt(raws[r].shift, Places[i]) + HDR_TO_SYNC) # {}
<1> DEFINE Raw == [kind : Kinds, shift : Shifts, heard : Heard]
           s == raws[r].shift
           k == Places[i]
           at == HeaderAt(s, k) + HDR_TO_SYNC
<1>1. s \in Shifts /\ s \in Used
  <2>1. raws \in Seq(Raw) /\ r \in DOMAIN raws BY DEF TypeOK, usable
  <2>2. raws[r] \in Raw
    <3> HIDE DEF Raw
    <3> QED BY <2>1
  <2> QED BY <2>2 DEF Used
<1>2. MapTrue /\ k \in Slots BY RescueAssumption DEF ScanField, MapInv, TypeOK
<1>4. SectorIn("own", k) = Fold(8 * k) BY DEF SectorIn
<1> HIDE DEF s, k
<1>5. Place(at) = k BY <1>1, <1>2, PlaceIs
<1>6. at - HDR_TO_SYNC = HeaderAt(s, k)
  <2>1. HeaderAt(s, k) \in Int BY <1>1, <1>2, PlaceInt
  <2> QED BY <2>1 DEF HDR_TO_SYNC
<1>7. ~(Abs(HeaderAt(s, k) - PosOf(k)) > SLOT_TOL) BY <1>1, <1>2, NearEnough
<1>8. SecOf(k) = {Fold(8 * k)} BY <1>2, SecKnown
<1> HIDE DEF at
<1>9. Claimants(at) = SecOf(k) \cap Dead BY <1>5, <1>6, <1>7 DEF Claimants
<1>10. Fold(8 * k) \in Dead BY <1>4 DEF k
<1>11. Claimants(at) # {} BY <1>8, <1>9, <1>10
<1> QED BY <1>11 DEF at, s, k

LEMMA MissStep ==
  ASSUME Aligned, TypeOK, MapInv, MissInv, [Next]_vars PROVE MissInv'
<1>1. map' = map => (Two' <=> Two) BY DEF Two
<1>7. raws' = raws => PitchSeen' = PitchSeen /\ Tight' = Tight BY SameRaws
<1>2. CASE Survey \/ GiveUp \/ UNCHANGED vars
  BY <1>1, <1>2, <1>7 DEF Survey, GiveUp, scanned, vars, MapInv, MissInv
<1>3. CASE Locate BY <1>3 DEF Locate, scanned, MissInv
<1>4. CASE ScanField
  <2>1. pc = "scan" /\ pc' = "scan" /\ map' = map /\ raws' = raws BY <1>4 DEF ScanField
  <2>2. CASE UNCHANGED <<rescued, passed>> BY <1>1, <1>7, <2>1, <2>2 DEF MissInv
  <2>3. CASE r \in usable /\ Field
    <3> DEFINE own == SectorIn("own", Places[i])
    <3> SUFFICES ASSUME PitchSeen, Tight, Two
                 PROVE  \A s \in passed' \cap Dead : rescued'[s] # NoField
      BY <1>1, <1>7, <2>1 DEF MissInv
    <3>1. passed' = passed \cup {own} BY <1>4, <2>3, FieldIs
    <3>2. \A s \in passed \cap Dead : rescued[s] # NoField BY <2>1 DEF MissInv
    <3>3. CASE own \in Dead
      <4>1. \E v \in 0 .. 2, corr \in BOOLEAN : Take(own, <<"own", own, v>>, corr)
        BY <1>4, <2>3, <3>3, FieldIs, ClaimedIs
      <4> HIDE DEF own
      <4>2. /\ rescued'[own] # NoField
            /\ \A u \in Dead : rescued[u] # NoField => rescued'[u] # NoField
        BY <3>3, <4>1, TakeKeeps
      <4> QED BY <3>1, <3>2, <4>2
    <3>4. CASE own \notin Dead
      <4>1. UNCHANGED rescued BY <1>4, <2>3, <3>4, FieldIs
      <4> HIDE DEF own
      <4> QED BY <3>1, <3>2, <3>4, <4>1
    <3> QED BY <3>3, <3>4
  <2> QED BY <1>4, <2>2, <2>3, FieldOrNot
<1>5. CASE NextRaw BY <1>1, <1>5, <1>7 DEF NextRaw, MissInv
<1>6. CASE Finish
  <2>1. \A s \in Dead : rescued'[s] = IF s \in conflict THEN NoField ELSE rescued[s]
    BY <1>6 DEF Finish
  <2> QED BY <1>1, <1>6, <1>7, <2>1 DEF Finish, MissInv
<1> QED BY <1>2, <1>3, <1>4, <1>5, <1>6 DEF Next

\* Once two slots are known no field of a dead sector that can be read is lost for want of a
\* header, if the pitch is a slot's and the captures that are used lie as near to each other
\* as SLOT_TOL asks for, what is left over at the end of a revolution included.
THEOREM NoFieldMissed == ASSUME Aligned PROVE Spec => []NothingMissed
<1>1. Init => TypeOK /\ MapInv /\ MissInv
  <2>1. Init => MapInv /\ MissInv BY DEF Init, MapInv, MissInv
  <2> QED BY <2>1, TypeInit
<1>2. TypeOK /\ MapInv /\ MissInv /\ [Next]_vars => (TypeOK /\ MapInv /\ MissInv)'
  BY TypeStep, MapStep, MissStep
<1>3. MissInv => NothingMissed BY DEF MissInv, NothingMissed, Two
<1> QED BY <1>1, <1>2, <1>3, PTL DEF Spec

-----------------------------------------------------------------------------
(* The vote of vote_repair.py: what is counted is finite.                  *)

VoteTyped == reads \in [Reads -> 0 .. MaxReads]

LEMMA FoundFinite ==
  ASSUME VoteTyped
  PROVE  /\ IsFiniteSet(found) /\ found \subseteq Reads \X (1 .. MaxReads)
         /\ \A d \in Reads : {d} \X (1 .. reads[d]) \subseteq found
<1>1. IsFiniteSet(Reads) /\ MaxReads \in Nat BY VoteAssumption
<1>2. IsFiniteSet(1 .. MaxReads) BY <1>1, FS_Interval
<1>3. IsFiniteSet(Reads \X (1 .. MaxReads)) BY <1>1, <1>2, FS_Product
<1>4. found \subseteq Reads \X (1 .. MaxReads)
  <2> SUFFICES ASSUME NEW d \in Reads, NEW n \in 1 .. reads[d] PROVE n \in 1 .. MaxReads
    BY DEF found
  <2>1. reads[d] \in 0 .. MaxReads BY DEF VoteTyped
  <2> QED BY <1>1, <2>1
<1> QED BY <1>3, <1>4, FS_Subset DEF found

\* A field is tried within 700 bits of the header, at one of three offsets.
LEMMA TriesBounded ==
  ASSUME NEW d \in Reads PROVE tries[d] \subseteq (0 .. 771) \X Offsets
<1>1. d.ones \subseteq Nat BY VoteAssumption
<1>2. tries[d] \subseteq Anchors(d.ones, PREAMBLE_BITS + 3) \X Offsets BY DEF tries, Tries
<1>3. Anchors(d.ones, PREAMBLE_BITS + 3) \subseteq 0 .. 771
  BY <1>1 DEF Anchors, AnchorsIn, HDR_BITS, DATA_SEARCH_BITS
<1> QED BY <1>2, <1>3

LEMMA InstancesFinite ==
  ASSUME VoteTyped
  PROVE  /\ IsFiniteSet(Instances)
         /\ \A x \in Instances : x[1] \in Reads
<1> DEFINE U == (0 .. 771) \X Offsets
           Q == found \X U
           g == [q \in Q |-> <<q[1][1], q[1][2], q[2]>>]
           T == {g[q] : q \in Q}
<1>1. IsFiniteSet(U)
  <2> DEFINE lo == 0
             hi == 771
  <2>1. lo \in Int /\ hi \in Int OBVIOUS
  <2> HIDE DEF lo, hi
  <2>2. IsFiniteSet(lo .. hi) BY <2>1, FS_Interval
  <2>3. IsFiniteSet({3}) /\ IsFiniteSet({3} \cup {4}) BY FS_Singleton, FS_AddElement
  <2>4. IsFiniteSet({3} \cup {4} \cup {7}) BY <2>3, FS_AddElement
  <2>5. Offsets = {3} \cup {4} \cup {7} BY DEF Offsets
  <2>6. IsFiniteSet((lo .. hi) \X Offsets) BY <2>2, <2>4, <2>5, FS_Product
  <2> QED BY <2>6 DEF lo, hi
<1>2. IsFiniteSet(found) BY FoundFinite
<1>3. IsFiniteSet(Q) BY <1>1, <1>2, FS_Product
<1>4. g \in Surjection(Q, T)
  <2> HIDE DEF Q
  <2>1. g \in [Q -> T] OBVIOUS
  <2>2. \A t \in T : \E q \in Q : g[q] = t OBVIOUS
  <2> HIDE DEF g, T
  <2> QED BY <2>1, <2>2 DEF Surjection
<1>5. IsFiniteSet(T)
  <2> HIDE DEF Q, g, T
  <2> QED BY <1>3, <1>4, FS_Surjection
<1>6. Instances \subseteq T /\ \A x \in Instances : x[1] \in Reads
  <2> SUFFICES ASSUME NEW x \in Instances PROVE x \in T /\ x[1] \in Reads
    OBVIOUS
  <2>a. PICK h \in found : x \in {<<h[1], h[2], t>> : t \in tries[h[1]]} BY DEF Instances
  <2>0. PICK t \in tries[h[1]] : x = <<h[1], h[2], t>> BY <2>a
  <2>1. h[1] \in Reads BY FoundFinite
  <2>2. <<h, t>> \in Q BY <2>1, TriesBounded
  <2> HIDE DEF Q
  <2>3. g[<<h, t>>] = <<h[1], h[2], t>> BY <2>2
  <2>4. g[<<h, t>>] \in T BY <2>2
  <2> QED BY <2>0, <2>1, <2>3, <2>4
<1> QED BY <1>5, <1>6, FS_Subset

\* What a read of the sector's own field holds.
LEMMA FieldBits ==
  ASSUME VoteTyped, NEW x \in Group(START)
  PROVE  /\ x \in Instances /\ x[1].wrong \subseteq Bits
         /\ field(x) = SymDiff(Truth, x[1].wrong) /\ field(x) \subseteq Bits
<1>1. x \in Instances /\ Key(x) = START BY DEF Group
<1>2. x[1] \in Reads BY <1>1, InstancesFinite
<1>3. x[1].wrong \subseteq Bits /\ Truth \subseteq Bits BY <1>2, VoteAssumption
<1> QED BY <1>1, <1>3 DEF field, SymDiff

LEMMA GoodFinite ==
  ASSUME VoteTyped
  PROVE  /\ IsFiniteSet(Group(START)) /\ IsFiniteSet(Good) /\ IsFiniteSet(Bad)
         /\ Cardinality(Group(START)) = Cardinality(Good) + Cardinality(Bad)
         /\ Cardinality(Good) \in Nat /\ Cardinality(Bad) \in Nat
         /\ Cardinality(Group(START)) <= Cardinality(Instances)
         /\ Cardinality(Instances) \in Nat
<1>1. IsFiniteSet(Instances) BY InstancesFinite
<1>2. Group(START) \subseteq Instances /\ Good \subseteq Group(START) /\ Bad \subseteq Group(START)
  BY DEF Group, Good, Bad
<1>3. IsFiniteSet(Group(START)) /\ Cardinality(Group(START)) <= Cardinality(Instances)
  BY <1>1, <1>2, FS_Subset
<1>4. IsFiniteSet(Good) /\ IsFiniteSet(Bad) BY <1>2, <1>3, FS_Subset
<1>5. Good \cup Bad = Group(START) /\ Good \cap Bad = {} BY DEF Good, Bad
<1>6. Cardinality(Good \cup Bad) = Cardinality(Good) + Cardinality(Bad) - Cardinality(Good \cap Bad)
  BY <1>4, FS_Union
<1>7. Cardinality(Good \cap Bad) = 0 BY <1>5, FS_EmptySet
<1>8. Cardinality(Good) \in Nat /\ Cardinality(Bad) \in Nat /\ Cardinality(Instances) \in Nat
  BY <1>1, <1>4, FS_CardinalityType
<1>9. Cardinality(Good \cup Bad) = Cardinality(Good) + Cardinality(Bad) BY <1>6, <1>7, <1>8
<1> QED BY <1>3, <1>4, <1>5, <1>8, <1>9
-----------------------------------------------------------------------------
(* Totals of distances, counted as pairs.                                  *)

\* A finite set can be numbered.
LEMMA Numbered ==
  ASSUME NEW S, IsFiniteSet(S), NEW n \in Nat, Cardinality(S) <= n
  PROVE  Injection(S, 1 .. n) # {}
<1>1. PICK m \in Nat : ExistsBijection(1 .. m, S) BY FS_NatBijection
<1>2. m = Cardinality(S)
  <2>1. IsFiniteSet(1 .. m) /\ Cardinality(1 .. m) = m BY FS_Interval
  <2> QED BY <1>1, <2>1, FS_Bijection
<1>3. ExistsBijection(S, 1 .. m) BY <1>1, Fun_ExistsBijSymmetric
<1>4. PICK f : f \in Bijection(S, 1 .. m) BY <1>3 DEF ExistsBijection
<1>5. f \in [S -> 1 .. m] /\ IsInjective(f) BY <1>4 DEF Bijection, Injection
<1>6. 1 .. m \subseteq 1 .. n BY <1>2
<1>7. f \in Injection(S, 1 .. n) BY <1>5, <1>6 DEF Injection
<1> QED BY <1>7

\* Pairs of which each first has at most K seconds.
LEMMA PairsAtMost ==
  ASSUME NEW A, IsFiniteSet(A), NEW K \in Nat, NEW D,
         \A z \in A : IsFiniteSet(D[z]) /\ Cardinality(D[z]) <= K,
         NEW P, \A p \in P : p = <<p[1], p[2]>> /\ p[1] \in A /\ p[2] \in D[p[1]]
  PROVE  Cardinality(P) <= Cardinality(A) * K
<1> DEFINE num(z) == CHOOSE f : f \in Injection(D[z], 1 .. K)
           Q == A \X (1 .. K)
           h == [p \in P |-> <<p[1], num(p[1])[p[2]]>>]
<1>1. \A z \in A : num(z) \in Injection(D[z], 1 .. K)
  <2> SUFFICES ASSUME NEW z \in A PROVE num(z) \in Injection(D[z], 1 .. K)
    OBVIOUS
  <2>1. \E f : f \in Injection(D[z], 1 .. K) BY Numbered
  <2> QED BY <2>1, Zenon
<1> HIDE DEF num
<1>2. h \in [P -> Q]
  <2> SUFFICES ASSUME NEW p \in P PROVE num(p[1])[p[2]] \in 1 .. K
    OBVIOUS
  <2>1. num(p[1]) \in [D[p[1]] -> 1 .. K] BY <1>1 DEF Injection
  <2> QED BY <2>1
<1>3. \A p, q \in P : h[p] = h[q] => p = q
  <2> SUFFICES ASSUME NEW p \in P, NEW q \in P, h[p] = h[q] PROVE p = q
    OBVIOUS
  <2>1. p[1] = q[1] /\ num(p[1])[p[2]] = num(p[1])[q[2]] OBVIOUS
  <2>2. IsInjective(num(p[1])) /\ DOMAIN num(p[1]) = D[p[1]] BY <1>1 DEF Injection
  <2>3. p[2] = q[2] BY <2>1, <2>2 DEF IsInjective
  <2> QED BY <2>1, <2>3
<1>4. h \in Injection(P, Q)
  <2> HIDE DEF Q
  <2> QED BY <1>2, <1>3 DEF Injection, IsInjective
<1>5. IsFiniteSet(Q) /\ Cardinality(Q) = Cardinality(A) * K
  <2>1. IsFiniteSet(1 .. K) /\ Cardinality(1 .. K) = K BY FS_Interval
  <2> QED BY <2>1, FS_Product
<1> HIDE DEF Q, h
<1> QED BY <1>4, <1>5, FS_Injection

\* Two good reads differ by no more than the filter allows.
LEMMA GoodAlike ==
  ASSUME VoteTyped, NEW x \in Good, NEW z \in Good
  PROVE  /\ IsFiniteSet(SymDiff(field(x), field(z)))
         /\ Cardinality(SymDiff(field(x), field(z))) <= OUTLIER_BITS
<1> DEFINE a == x[1].wrong
           b == z[1].wrong
<1>1. /\ x \in Group(START) /\ z \in Group(START)
      /\ 2 * Cardinality(a) <= OUTLIER_BITS /\ 2 * Cardinality(b) <= OUTLIER_BITS
  BY DEF Good
<1>2. /\ a \subseteq Bits /\ b \subseteq Bits
      /\ field(x) = SymDiff(Truth, a) /\ field(z) = SymDiff(Truth, b)
  BY <1>1, FieldBits
<1>3. SymDiff(field(x), field(z)) \subseteq a \cup b
  BY <1>2 DEF SymDiff
<1> HIDE DEF a, b
<1>4. IsFiniteSet(a) /\ IsFiniteSet(b)
  BY <1>2, VoteAssumption, FS_Subset
<1>5. IsFiniteSet(a \cup b) /\ Cardinality(a \cup b) = Cardinality(a) + Cardinality(b) - Cardinality(a \cap b)
  BY <1>4, FS_Union
<1>6. IsFiniteSet(a \cap b) BY <1>4, FS_Subset
<1>7. Cardinality(a) \in Nat /\ Cardinality(b) \in Nat /\ Cardinality(a \cap b) \in Nat
  BY <1>4, <1>6, FS_CardinalityType
<1> DEFINE c == SymDiff(field(x), field(z))
<1> HIDE DEF c
<1>8. IsFiniteSet(c) /\ Cardinality(c) <= Cardinality(a \cup b) BY <1>3, <1>5, FS_Subset DEF c
<1>9. Cardinality(c) \in Nat BY <1>8, FS_CardinalityType
<1>10. Cardinality(c) <= OUTLIER_BITS BY <1>1, <1>5, <1>7, <1>8, <1>9, VoteAssumption
<1> QED BY <1>8, <1>10 DEF c

\* Numbers of pairs, g good reads and b bad ones, h apart.
LEMMA GoodWins ==
  ASSUME NEW g \in Nat, NEW b \in Nat, NEW h \in Nat, NEW o \in Nat,
         g > b, g >= 1, (g - b) * h > 2 * o * (g - 1),
         NEW xg \in Nat, NEW xb \in Nat, NEW yg \in Nat, NEW yb \in Nat,
         xg <= (g - 1) * o, xb <= b * h + yb, g * h <= yg + xg
  PROVE  xg + xb < yg + yb
<1>1. (g - b) * h = (g * h) - (b * h) OBVIOUS
<1>2. 2 * o * (g - 1) = 2 * ((g - 1) * o) OBVIOUS
<1> DEFINE gh == g * h
           bh == b * h
           go == (g - 1) * o
<1>3. gh \in Int /\ bh \in Int /\ go \in Int OBVIOUS
<1>4. gh - bh > 2 * go /\ xg <= go /\ xb <= bh + yb /\ gh <= yg + xg BY <1>1, <1>2
<1> HIDE DEF gh, bh, go
<1> QED BY <1>3, <1>4

\* The differences from x over a part of the group.
Part(x, A) == {p \in A \X Bits : p[2] \in SymDiff(field(x), field(p[1]))}

LEMMA PartsAddUp ==
  ASSUME VoteTyped, NEW x
  PROVE  /\ IsFiniteSet(Part(x, Good)) /\ IsFiniteSet(Part(x, Bad))
         /\ Cardinality(Part(x, Good)) \in Nat /\ Cardinality(Part(x, Bad)) \in Nat
         /\ Cardinality(Differ(x, Group(START)))
              = Cardinality(Part(x, Good)) + Cardinality(Part(x, Bad))
<1>1. IsFiniteSet(Good) /\ IsFiniteSet(Bad) /\ IsFiniteSet(Bits)
  BY GoodFinite, VoteAssumption
<1>2. IsFiniteSet(Good \X Bits) /\ IsFiniteSet(Bad \X Bits) BY <1>1, FS_Product
<1>3. Part(x, Good) \subseteq Good \X Bits /\ Part(x, Bad) \subseteq Bad \X Bits BY DEF Part
<1>4. IsFiniteSet(Part(x, Good)) /\ IsFiniteSet(Part(x, Bad)) BY <1>2, <1>3, FS_Subset
<1>5. Group(START) = Good \cup Bad /\ Good \cap Bad = {} BY DEF Good, Bad
<1>6. /\ Differ(x, Group(START)) = Part(x, Good) \cup Part(x, Bad)
      /\ Part(x, Good) \cap Part(x, Bad) = {}
  <2> HIDE DEF Good, Bad
  <2> QED BY <1>5 DEF Differ, Part
<1>7. Cardinality(Part(x, Good) \cup Part(x, Bad))
        = Cardinality(Part(x, Good)) + Cardinality(Part(x, Bad))
          - Cardinality(Part(x, Good) \cap Part(x, Bad))
  BY <1>4, FS_Union
<1>8. Cardinality(Part(x, Good) \cap Part(x, Bad)) = 0 BY <1>6, FS_EmptySet
<1>9. Cardinality(Part(x, Good)) \in Nat /\ Cardinality(Part(x, Bad)) \in Nat
  BY <1>4, FS_CardinalityType
<1> QED BY <1>4, <1>6, <1>7, <1>8, <1>9

\* A bad read that is far off differs more from the whole group than a good one:
\* of h bits between them, each good read differs from the one or the other.
LEMMA BadIsFar ==
  ASSUME VoteTyped, Cardinality(Good) > Cardinality(Bad), FarOff,
         NEW x \in Good, NEW y \in Bad
  PROVE  Cardinality(Differ(x, Group(START))) < Cardinality(Differ(y, Group(START)))
<1> DEFINE g == Cardinality(Good)
           b == Cardinality(Bad)
           A == SymDiff(field(x), field(y))
           h == Cardinality(A)
           o == OUTLIER_BITS
           xg == Cardinality(Part(x, Good))
           xb == Cardinality(Part(x, Bad))
           yg == Cardinality(Part(y, Good))
           yb == Cardinality(Part(y, Bad))
<1>1. x \in Group(START) /\ y \in Group(START) BY DEF Good, Bad
<1>2. field(x) \subseteq Bits /\ field(y) \subseteq Bits BY <1>1, FieldBits
<1>3. A \subseteq Bits BY <1>2 DEF SymDiff
<1>4. IsFiniteSet(A) /\ h \in Nat BY <1>3, VoteAssumption, FS_Subset, FS_CardinalityType
<1>5. g \in Nat /\ b \in Nat /\ IsFiniteSet(Good) /\ IsFiniteSet(Bad) BY GoodFinite
<1>6. IsFiniteSet(Good \ {x}) /\ Cardinality(Good \ {x}) = g - 1
  BY <1>5, FS_RemoveElement
<1>7. g >= 1
  <2>1. Cardinality(Good \ {x}) \in Nat BY <1>6, FS_CardinalityType
  <2> QED BY <1>5, <1>6, <2>1
<1>8. o \in Nat BY VoteAssumption
<1>9. /\ xg \in Nat /\ xb \in Nat /\ yg \in Nat /\ yb \in Nat
      /\ IsFiniteSet(Part(x, Good)) /\ IsFiniteSet(Part(x, Bad))
      /\ IsFiniteSet(Part(y, Good)) /\ IsFiniteSet(Part(y, Bad))
  BY PartsAddUp
<1>10. (g - b) * h > 2 * o * (g - 1)
  <2>1. SymDiff(field(y), field(x)) = A BY DEF SymDiff
  <2> QED BY <2>1 DEF FarOff, hamming
<1>11. xg <= (g - 1) * o
  <2> DEFINE D == [z \in Good |-> SymDiff(field(x), field(z))]
             B == Good \ {x}
             P == Part(x, Good)
  <2>1. \A z \in B : IsFiniteSet(D[z]) /\ Cardinality(D[z]) <= o BY GoodAlike
  <2>2. \A p \in P : p = <<p[1], p[2]>> /\ p[1] \in B /\ p[2] \in D[p[1]]
    <3> SUFFICES ASSUME NEW p \in P
                 PROVE  p = <<p[1], p[2]>> /\ p[1] \in B /\ p[2] \in D[p[1]]
      OBVIOUS
    <3>1. p \in Good \X Bits /\ p[2] \in SymDiff(field(x), field(p[1])) BY DEF Part
    <3>2. p[1] # x BY <3>1 DEF SymDiff
    <3> QED BY <3>1, <3>2
  <2> HIDE DEF D, B, P
  <2>3. IsFiniteSet(B) BY <1>6 DEF B
  <2>4. Cardinality(P) <= Cardinality(B) * o BY <1>8, <2>1, <2>2, <2>3, PairsAtMost
  <2> QED BY <1>6, <2>4 DEF P, B
<1>12. xb <= (b * h) + yb
  <2> DEFINE P == Bad \X A
             Q == Part(y, Bad)
  <2>1. Part(x, Bad) \subseteq P \cup Q
    <3> SUFFICES ASSUME NEW p \in Part(x, Bad), p \notin P PROVE p \in Q
      OBVIOUS
    <3>1. p \in Bad \X Bits /\ p[2] \in SymDiff(field(x), field(p[1])) BY DEF Part
    <3>2. p[2] \notin SymDiff(field(x), field(y)) BY <3>1
    <3>3. p[2] \in SymDiff(field(y), field(p[1])) BY <3>1, <3>2 DEF SymDiff
    <3> QED BY <3>1, <3>3 DEF Part
  <2>2. IsFiniteSet(P) /\ Cardinality(P) = b * h BY <1>4, <1>5, FS_Product
  <2>3. IsFiniteSet(Q) BY <1>9
  <2>4. /\ IsFiniteSet(P \cup Q)
        /\ Cardinality(P \cup Q) = Cardinality(P) + Cardinality(Q) - Cardinality(P \cap Q)
    <3> HIDE DEF P, Q
    <3> QED BY <2>2, <2>3, FS_Union
  <2>5. Cardinality(P \cap Q) \in Nat
    <3> HIDE DEF P, Q
    <3>1. IsFiniteSet(P \cap Q) BY <2>2, FS_Subset
    <3> QED BY <3>1, FS_CardinalityType
  <2>6. xb <= Cardinality(P \cup Q) BY <2>1, <2>4, FS_Subset
  <2> DEFINE bh == b * h
             u == Cardinality(P \cup Q)
             c == Cardinality(P \cap Q)
  <2>7. bh \in Nat /\ c \in Nat /\ u = bh + yb - c /\ xb <= u
    BY <1>4, <1>5, <2>2, <2>4, <2>5, <2>6
  <2> HIDE DEF bh, u, c, xb, yb
  <2>8. xb <= bh + yb BY <1>9, <2>7
  <2> QED BY <2>8 DEF bh
<1>13. g * h <= yg + xg
  <2> DEFINE P == Good \X A
             Q == Part(y, Good)
             R == Part(x, Good)
  <2>1. P \subseteq Q \cup R
    <3> SUFFICES ASSUME NEW p \in P, p \notin R PROVE p \in Q
      OBVIOUS
    <3>1. p \in Good \X Bits /\ p[2] \in SymDiff(field(x), field(y)) BY <1>3
    <3>2. p[2] \notin SymDiff(field(x), field(p[1])) BY <3>1 DEF Part
    <3>3. p[2] \in SymDiff(field(y), field(p[1])) BY <3>1, <3>2 DEF SymDiff
    <3> QED BY <3>1, <3>3 DEF Part
  <2>2. IsFiniteSet(P) /\ Cardinality(P) = g * h BY <1>4, <1>5, FS_Product
  <2>3. IsFiniteSet(Q) /\ IsFiniteSet(R) BY <1>9
  <2>4. /\ IsFiniteSet(Q \cup R)
        /\ Cardinality(Q \cup R) = Cardinality(Q) + Cardinality(R) - Cardinality(Q \cap R)
    <3> HIDE DEF Q, R
    <3> QED BY <2>3, FS_Union
  <2>5. Cardinality(Q \cap R) \in Nat
    <3> HIDE DEF Q, R
    <3>1. IsFiniteSet(Q \cap R) BY <2>3, FS_Subset
    <3> QED BY <3>1, FS_CardinalityType
  <2>6. Cardinality(P) <= Cardinality(Q \cup R) BY <2>1, <2>4, FS_Subset
  <2> DEFINE gh == g * h
             u == Cardinality(Q \cup R)
             c == Cardinality(Q \cap R)
  <2>7. gh \in Nat /\ c \in Nat /\ u = yg + xg - c /\ gh <= u
    BY <1>4, <1>5, <2>2, <2>4, <2>5, <2>6
  <2> HIDE DEF gh, u, c, xg, yg
  <2>8. gh <= yg + xg BY <1>9, <2>7
  <2> QED BY <2>8 DEF gh
<1> HIDE DEF g, b, h, o, xg, xb, yg, yb, A
<1>14. g > b BY DEF g, b
<1>15. xg + xb < yg + yb
  BY <1>4, <1>5, <1>7, <1>8, <1>9, <1>10, <1>11, <1>12, <1>13, <1>14, GoodWins
<1> QED BY <1>15, PartsAddUp DEF xg, xb, yg, yb
-----------------------------------------------------------------------------
(* What the filter keeps, and what is voted.                               *)

\* A read that far off is not within the filter's distance.
LEMMA NearTooFar ==
  ASSUME NEW g \in Nat, NEW b \in Nat, NEW h \in Nat, NEW o \in Nat,
         g > b, b # 0, h <= o, (g - b) * h > 2 * o * (g - 1)
  PROVE  FALSE
<1>1. (g - b) * h <= (g - 1) * o
  <2>1. (g - b) * h <= (g - b) * o BY SMTT(30)
  <2>2. (g - b) * o <= (g - 1) * o BY SMTT(30)
  <2> DEFINE u == (g - b) * h
             v == (g - b) * o
             w == (g - 1) * o
  <2>3. u \in Int /\ v \in Int /\ w \in Int OBVIOUS
  <2>4. u <= v /\ v <= w BY <2>1, <2>2
  <2> HIDE DEF u, v, w
  <2>5. u <= w BY <2>3, <2>4
  <2> QED BY <2>5 DEF u, w
<1>2. 2 * o * (g - 1) = 2 * ((g - 1) * o) OBVIOUS
<1> DEFINE u == (g - b) * h
           w == (g - 1) * o
<1>3. u \in Int /\ w \in Nat OBVIOUS
<1>4. u > 2 * w /\ u <= w BY <1>1, <1>2
<1> HIDE DEF u, w
<1> QED BY <1>3, <1>4

\* Of good reads that prevail the filter keeps them all and nothing else.
LEMMA KeptIsGood ==
  ASSUME VoteTyped, GoodPrevail, NEW kept \in Filtered(Group(START))
  PROVE  kept = Good
<1> DEFINE g == Cardinality(Good)
           b == Cardinality(Bad)
           G == Group(START)
<1>1. /\ g \in Nat /\ b \in Nat /\ Cardinality(G) = g + b
      /\ IsFiniteSet(Good) /\ IsFiniteSet(Bad)
  BY GoodFinite
<1>2. g > b BY DEF GoodPrevail
<1>3. G = Good \cup Bad /\ Good \cap Bad = {} BY DEF Good, Bad
<1>4. CASE Cardinality(G) <= 2
  <2>1. b = 0
    <3> HIDE DEF g, b, G
    <3> QED BY <1>1, <1>2, <1>4
  <2>2. Bad = {} BY <1>1, <2>1, FS_EmptySet
  <2>3. kept = G BY <1>4 DEF Filtered
  <2> QED BY <1>3, <2>2, <2>3
<1>5. CASE ~(Cardinality(G) <= 2)
  <2>1. PICK m \in Medoids(G) : kept = Near(m, G) BY <1>5 DEF Filtered
  <2>2. m \in G /\ \A y \in G : Cardinality(Differ(m, G)) <= Cardinality(Differ(y, G))
    <3> DEFINE far == [x \in G |-> Cardinality(Differ(x, G))]
    <3>1. m \in G /\ \A y \in G : far[m] <= far[y] BY <2>1 DEF Medoids
    <3> QED BY <3>1
  <2>3. PICK x : x \in Good
    <3>1. g # 0
      <4> HIDE DEF g, b
      <4> QED BY <1>1, <1>2
    <3> QED BY <3>1, FS_EmptySet
  <2>4. m \in Good
    <3> SUFFICES ASSUME m \in Bad PROVE FALSE
      BY <1>3, <2>2
    <3> DEFINE fx == Cardinality(Differ(x, G))
               fm == Cardinality(Differ(m, G))
    <3>1. fx < fm BY <2>3, BadIsFar DEF GoodPrevail
    <3>2. fm <= fx BY <1>3, <2>2, <2>3
    <3>3. fx \in Nat /\ fm \in Nat BY PartsAddUp
    <3> HIDE DEF fx, fm
    <3> QED BY <3>1, <3>2, <3>3
  <2>5. \A z \in Good : z \in Near(m, G)
    BY <1>3, <2>4, GoodAlike DEF Near, hamming
  <2>6. \A y \in Bad : y \notin Near(m, G)
    <3> SUFFICES ASSUME NEW y \in Bad, Cardinality(SymDiff(field(y), field(m))) <= OUTLIER_BITS
                 PROVE  FALSE
      BY DEF Near, hamming
    <3> DEFINE A == SymDiff(field(y), field(m))
               h == Cardinality(A)
    <3>1. (g - b) * h > 2 * OUTLIER_BITS * (g - 1)
      BY <2>4 DEF GoodPrevail, FarOff, hamming
    <3>2. field(y) \subseteq Bits /\ field(m) \subseteq Bits BY <1>3, <2>4, FieldBits
    <3>3. A \subseteq Bits BY <3>2 DEF SymDiff
    <3>4. h \in Nat BY <3>3, VoteAssumption, FS_Subset, FS_CardinalityType
    <3>5. b # 0 BY <1>1, FS_EmptySet
    <3>6. OUTLIER_BITS \in Nat BY VoteAssumption
    <3>7. h <= OUTLIER_BITS OBVIOUS
    <3> HIDE DEF g, b, h
    <3> QED BY <1>1, <1>2, <3>1, <3>4, <3>5, <3>6, <3>7, NearTooFar
  <2> QED BY <1>3, <2>1, <2>5, <2>6 DEF Near
<1> QED BY <1>4, <1>5

\* The vote of good reads is the field as it was written.
LEMMA VoteTrue ==
  ASSUME VoteTyped, MostlyRight
  PROVE  vote(Good) = Truth
<1>1. Truth \subseteq Bits BY VoteAssumption
<1>2. SUFFICES ASSUME NEW b \in Bits
               PROVE  2 * Cardinality({x \in Good : b \in field(x)}) > Cardinality(Good)
                        <=> b \in Truth
  BY <1>1 DEF vote
<1> DEFINE W == {x \in Good : b \in x[1].wrong}
           F == {x \in Good : b \in field(x)}
           g == Cardinality(Good)
<1>3. IsFiniteSet(Good) /\ g \in Nat BY GoodFinite
<1>4. 2 * Cardinality(W) < g BY DEF MostlyRight
<1>5. \A x \in Good : field(x) = SymDiff(Truth, x[1].wrong)
  BY FieldBits DEF Good
<1>6. IsFiniteSet(W) /\ Cardinality(W) \in Nat
  <2>1. W \subseteq Good OBVIOUS
  <2> QED BY <1>3, <2>1, FS_Subset, FS_CardinalityType
<1>7. CASE b \in Truth
  <2>1. F = Good \ W BY <1>5, <1>7 DEF SymDiff
  <2>2. Cardinality(Good \ W) = g - Cardinality(Good \cap W) BY <1>3, <1>6, FS_Difference
  <2>3. Good \cap W = W OBVIOUS
  <2>4. Cardinality(F) = g - Cardinality(W) BY <2>1, <2>2, <2>3
  <2> HIDE DEF F, W, g
  <2>5. 2 * Cardinality(F) > g BY <1>3, <1>4, <1>6, <2>4
  <2> QED BY <1>7, <2>5 DEF F, g
<1>8. CASE b \notin Truth
  <2>1. F = W BY <1>5, <1>8 DEF SymDiff
  <2> HIDE DEF F, W, g
  <2>2. ~(2 * Cardinality(F) > g) BY <1>3, <1>4, <1>6, <2>1
  <2> QED BY <1>8, <2>2 DEF F, g
<1> QED BY <1>7, <1>8

LEMMA VotedIsRight ==
  ASSUME VoteTyped, GoodPrevail
  PROVE  validate(START, vote(Good)) = {}
<1>1. vote(Good) = Truth BY VoteTrue DEF GoodPrevail
<1>2. SymDiff(vote(Good), Truth) = {} BY <1>1 DEF SymDiff
<1>3. Undone(SymDiff(vote(Good), Truth), MAX_BURST, LastBurst) BY <1>2 DEF Undone
<1> QED BY <1>2, <1>3 DEF validate
-----------------------------------------------------------------------------
(* The invariant of the vote.                                              *)

\* While groups are left to try, that of the good reads is one of them.
VoteInv ==
  /\ VoteRight
  /\ vpc = "read" => voted = None
  /\ vpc = "vote" /\ voted = None /\ GoodPrevail => START \in groups
  /\ Recovered

LEMMA SameReads ==
  ASSUME reads' = reads
  PROVE  (GoodPrevail)' <=> GoodPrevail
<1>1. found' = found BY DEF found
<1>2. Instances' = Instances BY <1>1 DEF Instances
<1>3. Group(START)' = Group(START) BY <1>2 DEF Group
<1>4. Good' = Good /\ Bad' = Bad BY <1>3 DEF Good, Bad
<1>5. MostlyRight' <=> MostlyRight BY <1>4 DEF MostlyRight
<1>6. FarOff' <=> FarOff BY <1>4 DEF FarOff
<1> QED BY <1>4, <1>5, <1>6 DEF GoodPrevail

LEMMA VoteInvInit == VoteInit => VoteInv
<1>1. \A d \in Reads : 0 \in 0 .. MaxReads BY VoteAssumption
<1> QED BY <1>1 DEF VoteInit, VoteInv, VoteRight, Recovered, None

LEMMA VoteInvStep == VoteInv /\ [VoteNext]_voteVars => VoteInv'
<1> SUFFICES ASSUME VoteInv, [VoteNext]_voteVars PROVE VoteInv'
  OBVIOUS
<1>a. VoteTyped BY DEF VoteInv, VoteRight, VoteTyped
<1>b. None # {} BY DEF None
<1>1. CASE Read
  <2>1. PICK d \in Reads : reads' = [reads EXCEPT ![d] = @ + 1] BY <1>1 DEF Read
  <2>2. reads[d] \in 0 .. MaxReads /\ MaxReads \in Nat BY <1>a, VoteAssumption DEF VoteTyped
  <2>3. reads[d] # MaxReads
    <3> SUFFICES ASSUME reads[d] = MaxReads PROVE FALSE
      OBVIOUS
    <3> DEFINE C == {d} \X (1 .. MaxReads)
    <3>1. C \subseteq found /\ IsFiniteSet(found) BY <1>a, FoundFinite
    <3>2. IsFiniteSet({d}) /\ Cardinality({d}) = 1 BY FS_Singleton
    <3>3. IsFiniteSet(1 .. MaxReads) /\ Cardinality(1 .. MaxReads) = MaxReads
      BY <2>2, FS_Interval
    <3>4. Cardinality(C) = 1 * MaxReads BY <3>2, <3>3, FS_Product
    <3>5. Cardinality(C) <= Cardinality(found)
      <4> HIDE DEF C
      <4> QED BY <3>1, FS_Subset
    <3>6. Cardinality(found) < MaxReads BY <1>1 DEF Read
    <3>7. Cardinality(found) \in Nat BY <3>1, FS_CardinalityType
    <3> QED BY <2>2, <3>4, <3>5, <3>6, <3>7
  <2>4. reads[d] + 1 \in 0 .. MaxReads BY <2>2, <2>3
  <2>5. reads' \in [Reads -> 0 .. MaxReads] BY <1>a, <2>1, <2>4 DEF VoteTyped
  <2>6. vpc' = "read" /\ voted' = None BY <1>1 DEF Read, VoteInv
  <2> QED BY <2>5, <2>6 DEF VoteInv, VoteRight, Recovered
<1>2. CASE Extract
  <2>1. reads' = reads /\ voted' = None BY <1>2 DEF Extract, VoteInv
  <2>2. VoteRight' BY <1>2, <2>1 DEF Extract, VoteInv, VoteRight
  <2>3. CASE Cardinality(Instances) < min_reads
    <3>1. vpc' = "done" BY <1>2, <2>3 DEF Extract
    <3>2. ~GoodPrevail
      <4> DEFINE n == Cardinality(Instances)
                 g == Cardinality(Good)
                 G == Cardinality(Group(START))
                 b == Cardinality(Bad)
      <4>1. n \in Nat /\ g \in Nat /\ b \in Nat /\ G = g + b /\ G <= n BY <1>a, GoodFinite
      <4>2. min_reads \in Nat /\ n < min_reads BY <2>3, VoteAssumption
      <4>3. GoodPrevail => g >= min_reads BY DEF GoodPrevail
      <4> HIDE DEF n, g, G, b
      <4> QED BY <4>1, <4>2, <4>3
    <3> QED BY <2>1, <2>2, <3>1, <3>2, SameReads DEF VoteInv, Recovered
  <2>4. CASE ~(Cardinality(Instances) < min_reads)
    <3>1. vpc' = "vote" /\ groups' = {Key(x) : x \in Instances} BY <1>2, <2>4 DEF Extract
    <3>2. GoodPrevail => START \in groups'
      <4> SUFFICES ASSUME GoodPrevail PROVE \E x \in Instances : Key(x) = START
        BY <3>1
      <4>1. Cardinality(Good) > Cardinality(Bad) BY DEF GoodPrevail
      <4>2. Cardinality(Good) # 0 BY <1>a, <4>1, GoodFinite
      <4>3. PICK x : x \in Good BY <4>2, FS_EmptySet
      <4> QED BY <4>3 DEF Good, Group
    <3> QED BY <2>1, <2>2, <3>1, <3>2, SameReads DEF VoteInv, Recovered
  <2> QED BY <2>3, <2>4
<1>3. CASE TryGroup
  <2>0. PICK key \in groups : \E kept \in Filtered(Group(key)) :
          /\ groups' = Others(key)
          /\ voted' = IF Cardinality(kept) < min_reads THEN None ELSE validate(key, vote(kept))
    BY <1>3 DEF TryGroup
  <2>1. PICK kept \in Filtered(Group(key)) :
          /\ groups' = Others(key)
          /\ voted' = IF Cardinality(kept) < min_reads THEN None ELSE validate(key, vote(kept))
    BY <2>0
  <2>2. vpc' = "vote" /\ vpc = "vote" /\ reads' = reads /\ voted = None BY <1>3 DEF TryGroup
  <2>3. voted' \in {None, {}} BY <2>1 DEF validate
  <2>4. GoodPrevail /\ voted' = None => START \in groups'
    <3> SUFFICES ASSUME GoodPrevail, voted' = None PROVE START \in groups'
      OBVIOUS
    <3>1. START \in groups BY <2>2 DEF VoteInv
    <3>2. key # START
      <4> SUFFICES ASSUME key = START PROVE FALSE
        OBVIOUS
      <4>1. kept = Good BY <1>a, <2>1, KeptIsGood
      <4>2. validate(key, vote(kept)) = {} BY <1>a, <4>1, VotedIsRight
      <4>3. ~(Cardinality(kept) < min_reads)
        <5>1. Cardinality(Good) >= min_reads BY DEF GoodPrevail
        <5> QED BY <1>a, <4>1, <5>1, GoodFinite, VoteAssumption
      <4> QED BY <1>b, <2>1, <4>2, <4>3
    <3> QED BY <2>1, <3>1, <3>2 DEF Others
  <2> QED BY <2>2, <2>3, <2>4, SameReads DEF VoteInv, VoteRight, Recovered
<1>4. CASE NoGroupLeft
  <2>1. vpc' = "done" /\ vpc = "vote" /\ UNCHANGED <<reads, groups, voted>>
        /\ (groups = {} \/ voted # None)
    BY <1>4 DEF NoGroupLeft
  <2>2. GoodPrevail => voted = {} BY <2>1 DEF VoteInv, VoteRight
  <2> QED BY <2>1, <2>2, SameReads DEF VoteInv, VoteRight, Recovered
<1>5. CASE UNCHANGED voteVars
  <2>1. UNCHANGED <<vpc, reads, groups, voted>> BY <1>5 DEF voteVars
  <2> QED BY <2>1, SameReads DEF VoteInv, VoteRight, Recovered
<1> QED BY <1>1, <1>2, <1>3, <1>4, <1>5 DEF VoteNext

\* At every stage of the vote the group of the good reads is left to try, if they prevail
\* and nothing is voted yet, and what is voted is right.
THEOREM VoteInductive == VoteSpec => []VoteInv
BY VoteInvInit, VoteInvStep, PTL DEF VoteSpec

\* What vote_repair.py writes back is the field as it was written: the ECC tells.
THEOREM VoteIsRight == VoteSpec => []VoteRight
<1>1. VoteInv => VoteRight BY DEF VoteInv
<1> QED BY <1>1, VoteInductive, PTL

\* If the good reads are more than the bad ones, which are far off, and most of them are
\* right about each bit, the sector is recovered, whatever else is found and tried first.
THEOREM GoodReadsPrevail == VoteSpec => []Recovered
<1>1. VoteInv => Recovered BY DEF VoteInv
<1> QED BY <1>1, VoteInductive, PTL
-----------------------------------------------------------------------------
(* The tools together: each is what it is alone, or not run at all.        *)

DP == INSTANCE DeepRescueProofs WITH
  NR <- NC, pc <- dpc, raws <- draws, reads <- dreads, out <- dout

\* rescue.py, run among the tools, is rescue.py.
THEOREM RescuesByPosition == RepairSpec => Spec
<1>1. RepairInit => Init BY DEF RepairInit, Begin
<1>2. [RepairNext]_repairVars => [Next]_vars
  <2>1. RepairNext => Next \/ UNCHANGED vars BY DEF RepairNext
  <2>2. UNCHANGED repairVars => UNCHANGED vars BY DEF repairVars
  <2> QED BY <2>1, <2>2
<1> QED BY <1>1, <1>2, PTL DEF RepairSpec, Spec

\* vote_repair.py, run among the tools, is vote_repair.py.
THEOREM RepairsByVote == RepairSpec => VoteSpec
<1>1. RepairInit => VoteInit BY DEF RepairInit, Begin
<1>2. [RepairNext]_repairVars => [VoteNext]_voteVars
  <2>1. RepairNext => VoteNext \/ UNCHANGED voteVars BY DEF RepairNext
  <2>2. UNCHANGED repairVars => UNCHANGED voteVars BY DEF repairVars
  <2> QED BY <2>1, <2>2
<1> QED BY <1>1, <1>2, PTL DEF RepairSpec, VoteSpec

\* What DeepRescueProofs proves is about the same tool: each operator of DeepRescue is the
\* same in both of its instances, the ones it is defined by being the same.
LEMMA SameTool ==
  /\ DP!Init <=> Deep!Init
  /\ DP!Next <=> Deep!Next
  /\ DP!vars = Deep!vars
  /\ DP!DeepAssumption <=> Deep!DeepAssumption
  /\ DP!InReach <=> Deep!InReach
  /\ DP!Unlike <=> Deep!Unlike
  /\ DP!TypeOK <=> Deep!TypeOK
  /\ DP!OwnField <=> Deep!OwnField
  /\ DP!HeldIsFound <=> Deep!HeldIsFound
  /\ DP!Outvoted <=> Deep!Outvoted
<1>1. /\ \A S : DP!Cardinality(S) = Deep!Cardinality(S)
      /\ \A S : DP!Min(S) = Deep!Min(S)
      /\ \A S : DP!Max(S) = Deep!Max(S)
      /\ \A S, T : DP!SymDiff(S, T) = Deep!SymDiff(S, T)
  BY DEF Deep!Cardinality, DP!Cardinality, Deep!Min, DP!Min, Deep!Max, DP!Max, Deep!SymDiff,
     DP!SymDiff
<1>2. /\ DP!PITCH = Deep!PITCH
      /\ DP!HDR_TO_SYNC = Deep!HDR_TO_SYNC
      /\ DP!WIN_BEFORE = Deep!WIN_BEFORE
      /\ DP!WIN_AFTER = Deep!WIN_AFTER
      /\ DP!Reach = Deep!Reach
      /\ DP!FIELD_BITS = Deep!FIELD_BITS
      /\ DP!BODY_BITS = Deep!BODY_BITS
      /\ DP!BURST_BITS = Deep!BURST_BITS
      /\ DP!RAW_BITS = Deep!RAW_BITS
      /\ DP!Slots = Deep!Slots
      /\ DP!Sector = Deep!Sector
      /\ DP!Span = Deep!Span
      /\ DP!None = Deep!None
      /\ DP!SyncOnes = Deep!SyncOnes
      /\ DP!Offsets = Deep!Offsets
  BY DEF Deep!PITCH, DP!PITCH, Deep!HDR_TO_SYNC, DP!HDR_TO_SYNC, Deep!WIN_BEFORE,
     DP!WIN_BEFORE, Deep!WIN_AFTER, DP!WIN_AFTER, Deep!Reach, DP!Reach, Deep!FIELD_BITS,
     DP!FIELD_BITS, Deep!BODY_BITS, DP!BODY_BITS, Deep!BURST_BITS, DP!BURST_BITS,
     Deep!RAW_BITS, DP!RAW_BITS, Deep!Slots, DP!Slots, Deep!Sector, DP!Sector, Deep!Span,
     DP!Span, Deep!None, DP!None, Deep!SyncOnes, DP!SyncOnes, Deep!Offsets, DP!Offsets
<1>3. /\ \A slot : DP!SectorIn(slot) = Deep!SectorIn(slot)
      /\ \A c, slot : DP!HeaderAt(c, slot) = Deep!HeaderAt(c, slot)
      /\ \A p, q : DP!Round(p, q) = Deep!Round(p, q)
      /\ \A ones, at : DP!Placed(ones, at) = Deep!Placed(ones, at)
      /\ \A ones, s : DP!SyncErrors(ones, s) = Deep!SyncErrors(ones, s)
      /\ \A wrong, most, last : DP!Undone(wrong, most, last) <=> Deep!Undone(wrong, most, last)
      /\ \A ones, run, from, to : DP!AnchorsIn(ones, run, from, to) = Deep!AnchorsIn(ones, run, from, to)
      /\ \A ones, from : DP!Slice(ones, from) = Deep!Slice(ones, from)
  BY <1>1, <1>2 DEF Deep!SectorIn, DP!SectorIn, Deep!HeaderAt, DP!HeaderAt, Deep!Round,
     DP!Round, Deep!Placed, DP!Placed, Deep!SyncErrors, DP!SyncErrors, Deep!Undone,
     DP!Undone, Deep!AnchorsIn, DP!AnchorsIn, Deep!Slice, DP!Slice
<1>4. /\ \A c, slot : DP!FieldAt(c, slot) = Deep!FieldAt(c, slot)
      /\ \A c, slot : DP!Read(c, slot) = Deep!Read(c, slot)
      /\ \A c, slot : DP!Off(c, slot) = Deep!Off(c, slot)
      /\ \A c : DP!Qualified(c) <=> Deep!Qualified(c)
      /\ \A p : DP!Word(p) = Deep!Word(p)
      /\ \A ones, s : DP!At(ones, s) = Deep!At(ones, s)
  BY <1>1, <1>2, <1>3 DEF Deep!FieldAt, DP!FieldAt, Deep!Read, DP!Read, Deep!Off, DP!Off,
     Deep!Qualified, DP!Qualified, Deep!Word, DP!Word, Deep!At, DP!At
<1>5. \A c : DP!Base(c) = Deep!Base(c)
  BY <1>1, <1>4 DEF Deep!Base, DP!Base
<1>6. /\ DP!slot0 = Deep!slot0
      /\ \A c, slot : DP!Lo(c, slot) = Deep!Lo(c, slot)
  BY <1>2 DEF Deep!slot0, DP!slot0, Deep!Lo, DP!Lo
<1>7. \A c, slot : DP!Over(c, slot) = Deep!Over(c, slot)
  BY <1>2, <1>4, <1>6 DEF Deep!Over, DP!Over
<1>8. \A c, slot : DP!Window(c, slot) = Deep!Window(c, slot)
  BY <1>2, <1>3, <1>4, <1>6, <1>7 DEF Deep!Window, DP!Window
<1>9. DP!Windows = Deep!Windows
  BY <1>2, <1>6, <1>8 DEF Deep!Windows, DP!Windows
<1>10. DP!Fields = Deep!Fields
  BY DEF Deep!Fields, DP!Fields
<1>11. /\ \A ones, s, p : DP!Exact(ones, s, p) <=> Deep!Exact(ones, s, p)
       /\ \A ones, s, p : DP!Burst(ones, s, p) <=> Deep!Burst(ones, s, p)
       /\ \A w : DP!Tried(w) = Deep!Tried(w)
  BY <1>1, <1>2, <1>3, <1>4 DEF Deep!Exact, DP!Exact, Deep!Burst, DP!Burst, Deep!Tried,
     DP!Tried
<1>12. DP!Offered = Deep!Offered
  BY <1>11 DEF Deep!Offered, DP!Offered
<1>13. /\ DP!Slid = Deep!Slid
       /\ DP!Near = Deep!Near
  BY <1>11, <1>12 DEF Deep!Slid, DP!Slid, Deep!Near, DP!Near
<1>14. \A ones, p : DP!Slipped(ones, p) <=> Deep!Slipped(ones, p)
  BY <1>1, <1>2, <1>4 DEF Deep!Slipped, DP!Slipped
<1>15. \A v, w : DP!Earlier(v, w) <=> Deep!Earlier(v, w)
  BY DEF Deep!Earlier, DP!Earlier
<1>16. /\ DP!First = Deep!First
       /\ \A g, h : DP!Before(g, h) <=> Deep!Before(g, h)
  BY <1>15 DEF Deep!First, DP!First, Deep!Before, DP!Before
<1>17. \A w : DP!Lags(w) = Deep!Lags(w)
  BY <1>1, <1>2, <1>3, <1>16 DEF Deep!Lags, DP!Lags
<1>18. DP!Laid = Deep!Laid
  BY <1>16, <1>17 DEF Deep!Laid, DP!Laid
<1>19. /\ DP!Length = Deep!Length
       /\ \A j : DP!Agreed(j) <=> Deep!Agreed(j)
  BY <1>1, <1>2 DEF Deep!Length, DP!Length, Deep!Agreed, DP!Agreed
<1>20. DP!Consensus = Deep!Consensus
  BY <1>19 DEF Deep!Consensus, DP!Consensus
<1>21. DP!Starts = Deep!Starts
  BY <1>1, <1>2, <1>3, <1>19 DEF Deep!Starts, DP!Starts
<1>22. /\ DP!VoteExact = Deep!VoteExact
       /\ DP!VoteSlip = Deep!VoteSlip
  BY <1>2, <1>10, <1>11, <1>14, <1>19, <1>21 DEF Deep!VoteExact, DP!VoteExact,
     Deep!VoteSlip, DP!VoteSlip
<1>23. \A H, how, next : DP!TakeFirst(H, how, next) <=> Deep!TakeFirst(H, how, next)
  BY <1>16 DEF Deep!TakeFirst, DP!TakeFirst
<1>24. DP!Survey <=> Deep!Survey
  BY DEF Deep!Survey, DP!Survey
<1>25. DP!Qualify <=> Deep!Qualify
  BY <1>4, <1>5 DEF Deep!Qualify, DP!Qualify
<1>26. DP!Cut <=> Deep!Cut
  BY <1>9 DEF Deep!Cut, DP!Cut
<1>27. /\ DP!Slide <=> Deep!Slide
       /\ DP!NearSyncs <=> Deep!NearSyncs
  BY <1>13, <1>23 DEF Deep!Slide, DP!Slide, Deep!NearSyncs, DP!NearSyncs
<1>28. /\ DP!Align <=> Deep!Align
       /\ DP!Vote <=> Deep!Vote
  BY <1>1, <1>18, <1>20 DEF Deep!Align, DP!Align, Deep!Vote, DP!Vote
<1>29. DP!Search <=> Deep!Search
  BY <1>22 DEF Deep!Search, DP!Search
<1>30. DP!Next <=> Deep!Next
  BY <1>24, <1>25, <1>26, <1>27, <1>28, <1>29 DEF Deep!Next, DP!Next
<1>31. DP!vars = Deep!vars
  BY DEF Deep!vars, DP!vars
<1>32. DP!Init <=> Deep!Init
  BY <1>2 DEF Deep!Init, DP!Init
<1>33. DP!DeepAssumption <=> Deep!DeepAssumption
  BY <1>2 DEF Deep!DeepAssumption, DP!DeepAssumption
<1>34. DP!InReach <=> Deep!InReach
  BY DEF Deep!InReach, DP!InReach
<1>35. DP!Unlike <=> Deep!Unlike
  BY <1>1, <1>2, <1>3 DEF Deep!Unlike, DP!Unlike
<1>36. DP!TypeOK <=> Deep!TypeOK
  BY <1>2 DEF Deep!TypeOK, DP!TypeOK
<1>37. DP!OwnField <=> Deep!OwnField
  BY <1>2 DEF Deep!OwnField, DP!OwnField
<1>38. /\ \A c : DP!FirstRev(c) <=> Deep!FirstRev(c)
       /\ \A wrong : DP!Held(wrong) <=> Deep!Held(wrong)
       /\ \A c : DP!Looked(c) = Deep!Looked(c)
  BY <1>1, <1>2, <1>3 DEF Deep!FirstRev, DP!FirstRev, Deep!Held, DP!Held, Deep!Looked,
     DP!Looked
<1>39. DP!HeldIsFound <=> Deep!HeldIsFound
  BY <1>2, <1>38 DEF Deep!HeldIsFound, DP!HeldIsFound
<1>40. DP!Outvoted <=> Deep!Outvoted
  BY <1>1, <1>2, <1>17, <1>38 DEF Deep!Outvoted, DP!Outvoted
<1> QED BY <1>32, <1>30, <1>31, <1>33, <1>34, <1>35, <1>36, <1>37, <1>39, <1>40

\* deep_rescue.py, run among the tools, is deep_rescue.py.
THEOREM RescuesByEveryMeans == RepairSpec => DP!Spec
<1>1. RepairInit => DP!Init BY SameTool DEF RepairInit, Begin
<1>2. [RepairNext]_repairVars => [DP!Next]_DP!vars
  <2>1. RepairNext => Deep!Next \/ UNCHANGED deepVars BY DEF RepairNext
  <2>2. UNCHANGED repairVars => UNCHANGED deepVars BY DEF repairVars
  <2>3. UNCHANGED deepVars => UNCHANGED DP!vars BY DEF deepVars, DP!vars
  <2> QED BY <2>1, <2>2, <2>3, SameTool
<1> QED BY <1>1, <1>2, PTL DEF RepairSpec, DP!Spec

\* Whichever tool is run, what it returns for a sector is the data of that sector of that
\* track, by position or by vote: given captures of the head they are kept for that lie
\* alike, for rescue.py, and headers less than half a slot off, for deep_rescue.py.
THEOREM OwnSectorReturned ==
  ASSUME Aligned, Deep!DeepAssumption
  PROVE  RepairSpec => []OwnSector
<1>1. Spec => []TypeOK /\ []Rightful BY TypeCorrect, PositionTells
<1>2. DP!DeepAssumption BY SameTool
<1>3. DP!Spec => []DP!TypeOK /\ []DP!OwnField BY <1>2, DP!TypeCorrect, DP!IdentityFromPosition
<1>4. TypeOK /\ Rightful /\ DP!TypeOK /\ DP!OwnField /\ VoteRight => OwnSector
  BY SameTool DEF OwnSector
<1> QED
  BY <1>1, <1>3, <1>4, RescuesByPosition, RepairsByVote, RescuesByEveryMeans, VoteIsRight, PTL

\* No two data of a sector are returned as one, whichever tool is run.
THEOREM NoConflictInRepair == RepairSpec => []Unanimous
BY RescuesByPosition, NoConflictReturned, PTL

\* What one capture shows is found by position, whichever tool is run: given, for
\* rescue.py, captures of the head they are kept for that lie alike, and, for
\* deep_rescue.py, captures off INDEX by what a window leaves room for.
THEOREM WhatIsHeldIsFound ==
  ASSUME Aligned, Deep!DeepAssumption, Deep!InReach
  PROVE  RepairSpec => []HeldIsFound
<1>1. Spec => []NothingMissed BY NoFieldMissed
<1>2. DP!DeepAssumption /\ DP!InReach BY SameTool
<1>3. DP!Spec => []DP!HeldIsFound BY <1>2, DP!HeldFound
<1>4. NothingMissed /\ DP!HeldIsFound => HeldIsFound BY SameTool DEF HeldIsFound
<1> QED BY <1>1, <1>3, <1>4, RescuesByPosition, RescuesByEveryMeans, PTL

\* Damaged reads make up for each other, whichever tool is run: in vote_repair.py if the
\* good ones prevail, in deep_rescue.py if three have no wrong bit in common and are laid
\* over each other, given sectors that are not like themselves at another place.
THEOREM DamagedReadsMakeUp ==
  ASSUME Deep!DeepAssumption, Deep!InReach, Deep!Unlike
  PROVE  RepairSpec => []Outvoted
<1>1. DP!DeepAssumption /\ DP!InReach /\ DP!Unlike BY SameTool
<1>2. DP!Spec => []DP!Outvoted BY <1>1, DP!ThreeMakeUp
<1>3. Recovered /\ DP!Outvoted => Outvoted BY SameTool DEF Outvoted
<1> QED BY <1>2, <1>3, RepairsByVote, RescuesByEveryMeans, GoodReadsPrevail, PTL
=============================================================================
