----------------------------- MODULE FileWalkProofs -----------------------------
(***************************************************************************)
(* What irmx_fs.py reports of any volume with any blocks missing: the walk *)
(* lists what can be reached, once, and the verdict on a file and the      *)
(* owner of a block are true of the volume as it was written.  What        *)
(* defect_map.py makes of the same walk: the table it finds is the one     *)
(* that was written, and every loss is in its file's row, by its cause.    *)
(***************************************************************************)
EXTENDS DefectMap, FiniteSetTheorems, SequenceTheorems, TLAPS

\* What makes it inductive: seen is exactly what has been listed.
ListInv == /\ files \in Seq(seen)
           /\ \A n \in seen : \E k \in 1 .. Len(files) : files[k] = n
           /\ \A k, l \in 1 .. Len(files) : files[k] = files[l] => k = l

\* A sequence grows by an element that is new to its set.
LEMMA AppendNew ==
  ASSUME NEW S, NEW s \in Seq(S), NEW n, n \notin S,
         \A x \in S : \E k \in 1 .. Len(s) : s[k] = x,
         \A k, l \in 1 .. Len(s) : s[k] = s[l] => k = l
  PROVE  /\ Append(s, n) \in Seq(S \cup {n})
         /\ \A x \in S \cup {n} : \E k \in 1 .. Len(Append(s, n)) : Append(s, n)[k] = x
         /\ \A k, l \in 1 .. Len(Append(s, n)) : Append(s, n)[k] = Append(s, n)[l] => k = l
<1>1. s \in Seq(S \cup {n})
  <2>1. Len(s) \in Nat /\ s \in [1 .. Len(s) -> S]
    BY LenProperties
  <2>2. s \in [1 .. Len(s) -> S \cup {n}]
    BY <2>1
  <2> QED BY <2>1, <2>2, SeqDef
<1>2. /\ Len(Append(s, n)) = Len(s) + 1 /\ Append(s, n)[Len(s) + 1] = n
      /\ Append(s, n) \in Seq(S \cup {n})
      /\ \A k \in 1 .. Len(s) : Append(s, n)[k] = s[k]
  BY <1>1, AppendProperties
<1>3. Len(s) \in Nat /\ \A k \in 1 .. Len(s) : s[k] \in S
  BY LenProperties, ElementOfSeq
<1>4. ASSUME NEW x \in S \cup {n}
      PROVE  \E k \in 1 .. Len(Append(s, n)) : Append(s, n)[k] = x
  <2>1. CASE x = n
    BY <2>1, <1>2, <1>3
  <2>2. CASE x \in S
    BY <2>2, <1>2, <1>3
  <2> QED BY <2>1, <2>2
<1>5. ASSUME NEW k \in 1 .. Len(Append(s, n)), NEW l \in 1 .. Len(Append(s, n)),
             Append(s, n)[k] = Append(s, n)[l]
      PROVE  k = l
  <2>1. CASE k \in 1 .. Len(s) /\ l \in 1 .. Len(s)
    BY <2>1, <1>2, <1>5
  <2>2. CASE k \in 1 .. Len(s) /\ l = Len(s) + 1
    BY <2>2, <1>2, <1>3, <1>5
  <2>3. CASE k = Len(s) + 1 /\ l \in 1 .. Len(s)
    BY <2>3, <1>2, <1>3, <1>5
  <2>4. CASE k = Len(s) + 1 /\ l = Len(s) + 1
    BY <2>4
  <2> QED BY <2>1, <2>2, <2>3, <2>4, <1>2, <1>3
<1> QED BY <1>2, <1>4, <1>5

-----------------------------------------------------------------------------
(* What is read of the volume.                                             *)

\* With its fnode and its indirect blocks there, a file is read as it was written.
LEMMA ReadAsWritten ==
  ASSUME NEW m, NEW n \in DOMAIN Fnode, Meta(n) \cap m = {}
  PROVE  /\ fnode(m, n) = fnode({}, n)
         /\ extents(m, fnode(m, n)) = extents({}, fnode({}, n))
         /\ Within(m, fnode(m, n)) = Content[n]
<1> DEFINE f == fnode({}, n)
<1>1. FnBlocks[n][1] \notin m /\ FnBlocks[n][2] \notin m /\ Indirects(n) \cap m = {}
  BY DEF Meta
<1>2. fnode(m, n) = f
  BY <1>1 DEF fnode
<1>3. f.ptrs = Fnode[n].ptrs /\ f.long = Fnode[n].long
  BY VolumeAssumption DEF fnode
<1>4. ASSUME NEW k \in DOMAIN f.ptrs, f.long
      PROVE  Listed(m, f.ptrs[k][2], f.ptrs[k][1]) = Listed({}, f.ptrs[k][2], f.ptrs[k][1])
  <2>1. f.ptrs[k][2] \notin m
    BY <1>1, <1>3, <1>4 DEF Indirects, ToSet
  <2> QED BY <2>1 DEF Listed
<1>5. extents(m, f) = extents({}, f)
  BY <1>4 DEF extents
<1>6. Within(m, f) = Within({}, f)
  BY <1>5 DEF Within
<1> QED BY <1>2, <1>5, <1>6, ContentAssumption

\* What is in no block of the fnode table has no blocks, and no entries.
LEMMA NoneReadsEmpty ==
  ASSUME NEW m, NEW n, n \notin DOMAIN Fnode \/ FnBlocks[n][2] \in m
  PROVE  ToSet(extents(m, fnode(m, n))) = {} /\ Within(m, fnode(m, n)) = {}
<1>1. fnode(m, n).ptrs = <<>>
  BY DEF fnode
<1>2. extents(m, fnode(m, n)) = <<>>
  BY <1>1 DEF extents, FlattenSeq
<1> QED BY <1>2 DEF ToSet, Within

\* The root has a number, and none is 0.
LEMMA RootNumber == rootfn \in Numbers /\ 0 \notin DOMAIN Fnode
<1>1. 0 \notin DOMAIN Fnode /\ rootfn \in DOMAIN Fnode
  BY VolumeAssumption
<1>2. rootfn # 0
  BY <1>1
<1> QED BY <1>1, <1>2 DEF Numbers

\* A directory names only numbers.
LEMMA EntriesAreNumbers == ASSUME NEW m, NEW f PROVE readdir(m, f) \subseteq Numbers
<1>1. \A b : Nonzero(EntriesOf(m, b)) \subseteq Numbers
  <2> SUFFICES ASSUME NEW b, NEW n \in Nonzero(EntriesOf(m, b)) PROVE n \in Numbers
    OBVIOUS
  <2>1. n \in ToSet(EntriesOf(m, b)) /\ n # 0
    BY DEF Nonzero
  <2>2. CASE b \in m \/ b \notin DOMAIN Entries
    BY <2>1, <2>2 DEF EntriesOf, ToSet
  <2>3. CASE b \notin m /\ b \in DOMAIN Entries
    BY <2>1, <2>3 DEF EntriesOf, Numbers
  <2> QED BY <2>2, <2>3
<1> QED BY <1>1 DEF readdir

\* Of the members of a set of numbers that is bounded there is a least: were there
\* none, adding one to the numbers below all of them would put 0 .. n into 1 .. n.
LEMMA LeastOf ==
  ASSUME NEW n \in Nat, NEW I, I \subseteq 1 .. n, I # {}
  PROVE  \E i \in I : \A j \in I : i <= j
<1> SUFFICES ASSUME \A i \in I : \E j \in I : j < i PROVE FALSE
  OBVIOUS
<1> DEFINE Below == {k \in 0 .. n : \A i \in I : k < i}
           g == [k \in 0 .. n |-> IF k \in Below THEN k + 1 ELSE k]
           S == 0 .. n
           T == 1 .. n
<1>1. 0 \in Below /\ n \notin Below
  <2>1. \A i \in I : i \in 1 .. n
    OBVIOUS
  <2>2. PICK i \in I : TRUE
    OBVIOUS
  <2> QED BY <2>1, <2>2
<1>2. ASSUME NEW k \in Below PROVE k + 1 \in Below
  <2>1. k \in 0 .. n /\ k # n
    BY <1>1
  <2>2. ASSUME NEW i \in I PROVE k + 1 < i
    <3>1. PICK j \in I : j < i
      OBVIOUS
    <3>2. k < j
      OBVIOUS
    <3> QED BY <3>1, <3>2, <2>1
  <2> QED BY <2>1, <2>2
<1>3. g \in [S -> T]
  BY <1>1, <1>2
<1>4. /\ IsFiniteSet(S) /\ Cardinality(S) = n + 1
      /\ IsFiniteSet(T) /\ Cardinality(T) = n
  BY FS_Interval
<1>5. PICK x \in S, y \in S : x # y /\ g[x] = g[y]
  <2> HIDE DEF g, S, T
  <2> QED BY <1>3, <1>4, FS_PigeonHole
<1> QED BY <1>2, <1>5

-----------------------------------------------------------------------------
(* The walk.                                                               *)

Pending(t) == UNION {t[k] : k \in 1 .. Len(t)}
Sub(n) == LET f == fnode(missing, n) IN IF f.type = "dir" THEN readdir(missing, f) ELSE {}

\* The directories rec is in, and their entries, as a stack.
LEMMA Stack ==
  ASSUME NEW T, NEW x \in T, NEW s \in Seq(T)
  PROVE  /\ <<x>> \o s \in Seq(T) /\ Pending(<<x>> \o s) = x \cup Pending(s)
         /\ s # <<>> => /\ Head(s) \in T /\ Tail(s) \in Seq(T)
                        /\ Pending(s) = Head(s) \cup Pending(Tail(s))
<1>1. /\ <<x>> \in Seq(T) /\ Len(<<x>>) = 1 /\ <<x>>[1] = x /\ Len(s) \in Nat
  BY LenProperties
<1>2. /\ <<x>> \o s \in Seq(T) /\ Len(<<x>> \o s) = Len(s) + 1
      /\ \A i \in 1 .. Len(s) + 1 : (<<x>> \o s)[i] = IF i = 1 THEN x ELSE s[i - 1]
  BY <1>1, ConcatProperties
<1>3. Pending(<<x>> \o s) = x \cup Pending(s)
  <2>1. ASSUME NEW n \in Pending(<<x>> \o s) PROVE n \in x \cup Pending(s)
    <3>1. PICK i \in 1 .. Len(s) + 1 : n \in (<<x>> \o s)[i]
      BY <1>2 DEF Pending
    <3>2. i # 1 => i - 1 \in 1 .. Len(s)
      BY <1>1
    <3> QED BY <1>2, <3>1, <3>2 DEF Pending
  <2>2. ASSUME NEW n \in x PROVE n \in Pending(<<x>> \o s)
    <3>1. 1 \in 1 .. Len(s) + 1
      BY <1>1
    <3> QED BY <1>2, <3>1 DEF Pending
  <2>3. ASSUME NEW n \in Pending(s) PROVE n \in Pending(<<x>> \o s)
    <3>1. PICK i \in 1 .. Len(s) : n \in s[i]
      BY DEF Pending
    <3>2. i + 1 \in 1 .. Len(s) + 1 /\ i + 1 # 1 /\ (i + 1) - 1 = i
      BY <1>1
    <3>3. n \in (<<x>> \o s)[i + 1]
      BY <1>2, <3>1, <3>2
    <3> QED BY <1>2, <3>2, <3>3 DEF Pending
  <2> QED BY <2>1, <2>2, <2>3
<1>4. ASSUME s # <<>>
      PROVE  Head(s) \in T /\ Tail(s) \in Seq(T) /\ Pending(s) = Head(s) \cup Pending(Tail(s))
  <2>1. /\ Head(s) \in T /\ Tail(s) \in Seq(T) /\ Len(Tail(s)) = Len(s) - 1
        /\ \A i \in 1 .. Len(Tail(s)) : Tail(s)[i] = s[i + 1]
    BY <1>4, HeadTailProperties
  <2>2. Head(s) = s[1] /\ 1 \in 1 .. Len(s)
    BY <1>1, <1>4, EmptySeq
  <2>3. ASSUME NEW n \in Pending(s) PROVE n \in Head(s) \cup Pending(Tail(s))
    <3>1. PICK i \in 1 .. Len(s) : n \in s[i]
      BY DEF Pending
    <3>2. i # 1 => i - 1 \in 1 .. Len(Tail(s)) /\ (i - 1) + 1 = i
      BY <1>1, <2>1
    <3>3. i # 1 => n \in Tail(s)[i - 1]
      BY <2>1, <3>1, <3>2
    <3> QED BY <2>2, <3>1, <3>2, <3>3 DEF Pending
  <2>4. ASSUME NEW n \in Pending(Tail(s)) PROVE n \in Pending(s)
    <3>1. PICK i \in 1 .. Len(Tail(s)) : n \in Tail(s)[i]
      BY DEF Pending
    <3>2. i + 1 \in 1 .. Len(s)
      BY <1>1, <2>1
    <3> QED BY <2>1, <3>1, <3>2 DEF Pending
  <2> QED BY <2>1, <2>2, <2>3, <2>4 DEF Pending
<1> QED BY <1>2, <1>3, <1>4

\* What has been listed or is about to be: it has the root and what the listed
\* directories name, and is within everything that has the root and what its
\* directories name.
Known == seen \cup Pending(todo)
WalkInv ==
  /\ todo \in Seq(SUBSET Numbers)
  /\ rootfn \in Known /\ \A n \in seen : Sub(n) \subseteq Known
  /\ \A S \in SUBSET Numbers :
       rootfn \in S /\ (\A n \in S : Sub(n) \subseteq S) => Known \subseteq S

\* A visit lists what is new, and puts what it names on the stack.
LEMMA VisitStep ==
  ASSUME WalkInv, ListInv, Visit PROVE WalkInv' /\ ListInv'
<1> DEFINE top == Head(todo)
           T == SUBSET Numbers
<1>1. PICK n \in top :
        LET f == fnode(missing, n)
            rest == <<top \ {n}>> \o Tail(todo)
        IN  IF Again(n) THEN todo' = rest /\ UNCHANGED <<seen, files>>
            ELSE /\ seen' = seen \cup {n} /\ files' = Append(files, n)
                 /\ todo' = IF f.type = "dir" THEN <<readdir(missing, f)>> \o rest ELSE rest
  BY DEF Visit
<1> DEFINE rest == <<top \ {n}>> \o Tail(todo)
<1>2. /\ top \in T /\ Tail(todo) \in Seq(T) /\ Pending(todo) = top \cup Pending(Tail(todo))
  <2>1. {} \in T /\ todo \in Seq(T) /\ todo # <<>>
    BY DEF WalkInv, Visit
  <2> HIDE DEF T
  <2> QED BY <2>1, Stack
<1>3. rest \in Seq(T) /\ Pending(rest) = (top \ {n}) \cup Pending(Tail(todo))
  <2> DEFINE x == top \ {n}
             s == Tail(todo)
  <2>1. x \in T /\ s \in Seq(T)
    BY <1>2
  <2>2. <<x>> \o s \in Seq(T) /\ Pending(<<x>> \o s) = x \cup Pending(s)
    <3> HIDE DEF T, x, s
    <3> QED BY <2>1, Stack
  <2> QED BY <2>2
<1>4. n \in Numbers /\ n \in Known /\ missing' = missing
  BY <1>2 DEF Known, Visit
<1>5. \A x : Sub(x)' = Sub(x)
  BY <1>4 DEF Sub
<1>6. CASE Again(n)
  <2>1. todo' = rest /\ seen' = seen /\ files' = files /\ n \in seen
    BY <1>1, <1>6 DEF Again
  <2>2. Known' = Known
    BY <1>2, <1>3, <2>1 DEF Known
  <2>3. WalkInv'
    BY <1>3, <1>5, <2>1, <2>2 DEF WalkInv
  <2> QED BY <2>1, <2>3 DEF ListInv
<1>7. CASE ~Again(n)
  <2>1. /\ seen' = seen \cup {n} /\ files' = Append(files, n) /\ n \notin seen
        /\ todo' = IF fnode(missing, n).type = "dir"
                   THEN <<readdir(missing, fnode(missing, n))>> \o rest ELSE rest
    BY <1>1, <1>7 DEF Again
  <2>2. ListInv'
    <3>1. /\ files \in Seq(seen) /\ n \notin seen
          /\ \A x \in seen : \E k \in 1 .. Len(files) : files[k] = x
          /\ \A k, l \in 1 .. Len(files) : files[k] = files[l] => k = l
      BY <2>1 DEF ListInv
    <3> DEFINE g == Append(files, n)
               D == seen \cup {n}
    <3>2. /\ g \in Seq(D) /\ \A x \in D : \E k \in 1 .. Len(g) : g[k] = x
          /\ \A k, l \in 1 .. Len(g) : g[k] = g[l] => k = l
      <4> HIDE DEF top, T, rest
      <4> QED BY <3>1, AppendNew
    <3>3. files' = g /\ seen' = D
      BY <2>1
    <3> HIDE DEF g, D
    <3> QED BY <3>2, <3>3 DEF ListInv
  <2>3. todo' \in Seq(T) /\ Pending(todo') = Sub(n) \cup Pending(rest)
    <3>1. CASE fnode(missing, n).type = "dir"
      <4>1. readdir(missing, fnode(missing, n)) \in T
        BY EntriesAreNumbers
      <4>2. Sub(n) = readdir(missing, fnode(missing, n))
        BY <3>1 DEF Sub
      <4> HIDE DEF T, rest
      <4> QED BY <1>3, <2>1, <3>1, <4>1, <4>2, Stack
    <3>2. CASE fnode(missing, n).type # "dir"
      BY <1>3, <2>1, <3>2 DEF Sub
    <3> QED BY <3>1, <3>2
  <2>4. Known' = Known \cup Sub(n)
    BY <1>2, <1>3, <2>1, <2>3 DEF Known
  <2>5. rootfn \in Known' /\ \A x \in seen' : Sub(x)' \subseteq Known'
    BY <1>5, <2>1, <2>4 DEF WalkInv
  <2>6. ASSUME NEW S \in SUBSET Numbers, rootfn \in S, \A x \in S : Sub(x) \subseteq S
        PROVE  Known' \subseteq S
    <3>1. Known \subseteq S
      BY <2>6 DEF WalkInv
    <3> QED BY <1>4, <2>4, <2>6, <3>1
  <2>7. \A S \in SUBSET Numbers :
          rootfn \in S /\ (\A x \in S : Sub(x)' \subseteq S) => Known' \subseteq S
    BY <1>5, <2>6
  <2> QED BY <2>2, <2>3, <2>5, <2>7 DEF WalkInv
<1> QED BY <1>6, <1>7

\* Leaving a directory takes nothing from what is pending.
LEMMA LeaveStep ==
  ASSUME WalkInv, ListInv, Leave PROVE WalkInv' /\ ListInv'
<1> DEFINE T == SUBSET Numbers
<1>1. Tail(todo) \in Seq(T) /\ Pending(todo) = Pending(Tail(todo))
  <2>1. {} \in T /\ todo \in Seq(T) /\ todo # <<>> /\ Head(todo) = {}
    BY DEF WalkInv, Leave
  <2>2. Tail(todo) \in Seq(T) /\ Pending(todo) = Head(todo) \cup Pending(Tail(todo))
    <3> HIDE DEF T
    <3> QED BY <2>1, Stack
  <2> QED BY <2>1, <2>2
<1>2. todo' = Tail(todo) /\ UNCHANGED <<missing, seen, files>>
  BY DEF Leave
<1>3. Known' = Known /\ \A x : Sub(x)' = Sub(x)
  BY <1>1, <1>2 DEF Known, Sub
<1> QED BY <1>1, <1>2, <1>3 DEF WalkInv, ListInv

\* At the start.
LEMMA WalkInit ==
  ASSUME todo = << {rootfn} >>, seen = {}, files = <<>> PROVE WalkInv /\ ListInv
<1>1. rootfn \in Numbers
  BY RootNumber
<1>2. todo \in Seq(SUBSET Numbers)
  BY <1>1
<1>3. Len(todo) = 1 /\ todo[1] = {rootfn}
  OBVIOUS
<1>4. Pending(todo) = {rootfn}
  BY <1>3 DEF Pending
<1>5. Known = {rootfn}
  BY <1>4 DEF Known
<1>6. WalkInv
  BY <1>2, <1>5 DEF WalkInv
<1>7. Len(files) = 0 /\ files \in Seq(seen)
  BY EmptySeq
<1>8. 1 .. Len(files) = {}
  BY <1>7
<1> QED BY <1>6, <1>7, <1>8 DEF ListInv

\* At the end.
LEMMA WalkEnd ==
  ASSUME WalkInv, ListInv
  PROVE  /\ seen = Listing /\ Listing \subseteq Numbers
         /\ todo = <<>> => /\ rootfn \in Listing /\ \A n \in Listing : Sub(n) \subseteq Listing
                           /\ \A S \in SUBSET Numbers :
                                rootfn \in S /\ (\A n \in S : Sub(n) \subseteq S)
                                => Listing \subseteq S
<1>1. seen = Listing
  BY LenProperties, ElementOfSeq DEF ListInv, Listing
<1>2. Known \subseteq Numbers
  <2>1. rootfn \in Numbers
    BY RootNumber
  <2>2. \A n \in Numbers : Sub(n) \subseteq Numbers
    BY EntriesAreNumbers DEF Sub
  <2> QED BY <2>1, <2>2 DEF WalkInv
<1>3. todo = <<>> => Pending(todo) = {}
  BY EmptySeq DEF Pending
<1> QED BY <1>1, <1>2, <1>3 DEF Known, WalkInv

-----------------------------------------------------------------------------
(* The whole script.                                                       *)

OwnerOf == [b \in Blocks |->
  IF b \in missing /\ Owners(b) # {}
  THEN files[CHOOSE k \in Owners(b) : \A l \in Owners(b) : k <= l] ELSE NoOwner]

\* The walk's invariant holds to the end, when the report says what main makes of it.
IInv == /\ pc \in {"walk", "report", "done"} /\ missing \in Losses
        /\ WalkInv /\ ListInv
        /\ pc # "walk" => todo = <<>>
        /\ pc = "done" => intact = FilesOf(TRUE) /\ damaged = FilesOf(FALSE) /\ owner = OwnerOf
        /\ pc # "done" => /\ intact = {} /\ damaged = {}
                          /\ owner = [b \in Blocks |-> NoOwner]

\* The script starts with the root pending.
LEMMA InitInv == ASSUME Init PROVE IInv
<1>1. WalkInv /\ ListInv
  BY WalkInit DEF Init
<1> QED BY <1>1 DEF Init, IInv

\* The walk, action by action.
LEMMA VisitInv == ASSUME IInv, Visit \/ Leave PROVE IInv'
<1>1. WalkInv' /\ ListInv'
  BY VisitStep, LeaveStep DEF IInv
<1>2. pc = "walk" /\ UNCHANGED <<pc, missing, intact, damaged, owner>>
  BY DEF Visit, Leave
<1> QED BY <1>1, <1>2 DEF IInv

\* Where the list and what is lost stay the same, so does all that is computed of them.
LEMMA WalkStays ==
  ASSUME WalkInv, ListInv, UNCHANGED <<missing, todo, seen, files>>
  PROVE  /\ WalkInv' /\ ListInv' /\ OwnerOf' = OwnerOf
         /\ \A w : FilesOf(w)' = FilesOf(w)
<1>1. WalkInv' /\ ListInv'
  BY DEF WalkInv, ListInv, Known, Sub
<1>2. OwnerOf' = OwnerOf
  BY DEF OwnerOf, Owners
<1>3. \A w : FilesOf(w)' = FilesOf(w)
  BY DEF FilesOf, Listing
<1> QED BY <1>1, <1>2, <1>3

\* The end of the walk changes nothing the invariant speaks of.
LEMMA WalkedInv == ASSUME IInv, Walked PROVE IInv'
<1>1. WalkInv' /\ ListInv'
  BY WalkStays DEF IInv, Walked
<1> QED BY <1>1 DEF IInv, Walked

\* The report is computed from the list as the walk left it.
LEMMA ReportInv == ASSUME IInv, Report PROVE IInv'
<1>1. WalkInv' /\ ListInv' /\ OwnerOf' = OwnerOf /\ \A w : FilesOf(w)' = FilesOf(w)
  BY WalkStays DEF IInv, Report
<1>2. /\ intact' = FilesOf(TRUE) /\ damaged' = FilesOf(FALSE) /\ owner' = OwnerOf
      /\ pc = "report" /\ pc' = "done" /\ missing' = missing /\ todo' = todo
  BY DEF Report, OwnerOf
<1>3. /\ intact' = FilesOf(TRUE)' /\ damaged' = FilesOf(FALSE)' /\ owner' = OwnerOf'
  BY <1>1, <1>2
<1> QED BY <1>1, <1>2, <1>3 DEF IInv

\* A step of something else.
LEMMA StutterInv == ASSUME IInv, UNCHANGED vars PROVE IInv'
<1>1. WalkInv' /\ ListInv' /\ OwnerOf' = OwnerOf /\ \A w : FilesOf(w)' = FilesOf(w)
  BY WalkStays DEF IInv, vars
<1>2. UNCHANGED <<pc, missing, todo, intact, damaged, owner>>
  BY DEF vars
<1> QED BY <1>1, <1>2 DEF IInv

\* The invariant of the walk and its report.
THEOREM Inductive == Spec => []IInv
<1>1. Init => IInv
  BY InitInv
<1>2. IInv /\ [Next]_vars => IInv'
  BY VisitInv, WalkedInv, ReportInv, StutterInv DEF Next
<1> QED BY <1>1, <1>2, PTL DEF Spec

\* No file is listed, or counted, twice, however the directories point.
THEOREM ListedOnce == Spec => []EachOnce
<1>1. IInv => EachOnce
  <2> SUFFICES ASSUME IInv PROVE EachOnce
    OBVIOUS
  <2>1. DOMAIN files = 1 .. Len(files)
    BY LenProperties DEF IInv, ListInv
  <2> QED BY <2>1 DEF IInv, ListInv, EachOnce
<1> QED BY <1>1, Inductive, PTL

-----------------------------------------------------------------------------
(* What the report says.                                                   *)

\* The owner of a block is a file of the list that has it; there is one when any has.
LEMMA OwnerHas ==
  ASSUME ListInv, NEW b \in Blocks
  PROVE  /\ OwnerOf[b] # NoOwner =>
              OwnerOf[b] \in Listing
              /\ b \in ToSet(extents(missing, fnode(missing, OwnerOf[b])))
         /\ b \in missing /\ Owners(b) # {} => OwnerOf[b] \in Listing
<1>1. CASE b \in missing /\ Owners(b) # {}
  <2> DEFINE k == CHOOSE k \in Owners(b) : \A l \in Owners(b) : k <= l
  <2>1. DOMAIN files = 1 .. Len(files) /\ Len(files) \in Nat
    BY LenProperties DEF ListInv
  <2>2. Owners(b) \subseteq 1 .. Len(files)
    BY <2>1 DEF Owners
  <2>3. \E i \in Owners(b) : \A l \in Owners(b) : i <= l
    BY <1>1, <2>1, <2>2, LeastOf
  <2>4. k \in Owners(b)
    BY <2>3, Zenon
  <2>5. OwnerOf[b] = files[k]
    BY <1>1 DEF OwnerOf
  <2> HIDE DEF k
  <2> QED BY <2>4, <2>5 DEF Owners, Listing
<1>2. CASE ~(b \in missing /\ Owners(b) # {})
  <2>1. OwnerOf[b] = NoOwner
    BY <1>2 DEF OwnerOf
  <2> QED BY <1>2, <2>1
<1> QED BY <1>1, <1>2

\* The type invariant, with the owner of a block a number of the list or none.
LEMMA TypesRight == ASSUME IInv PROVE TypeOK
<1>1. seen = Listing /\ Listing \subseteq Numbers
  BY WalkEnd DEF IInv
<1>2. CASE pc = "done"
  <2>1. intact \subseteq Numbers /\ damaged \subseteq Numbers
    BY <1>1, <1>2 DEF IInv, FilesOf
  <2>2. ASSUME NEW b \in Blocks PROVE OwnerOf[b] \in Numbers \cup {NoOwner}
    BY <1>1, OwnerHas DEF IInv
  <2>3. OwnerOf \in [Blocks -> Numbers \cup {NoOwner}]
    BY <2>2 DEF OwnerOf
  <2>4. owner = OwnerOf
    BY <1>2 DEF IInv
  <2> QED BY <1>1, <2>1, <2>3, <2>4 DEF IInv, TypeOK, WalkInv
<1>3. CASE pc # "done"
  BY <1>1, <1>3 DEF IInv, TypeOK, WalkInv
<1> QED BY <1>2, <1>3

\* A listed directory was read for what it leads to, when its indirect blocks are there.
LEMMA SubIsLeads ==
  ASSUME NEW n, Directory(n) => Indirects(n) \cap missing = {}
  PROVE  Sub(n) = Leads(n)
<1> DEFINE f == fnode(missing, n)
<1>1. CASE Directory(n) /\ FnBlocks[n][1] \notin missing /\ FnBlocks[n][2] \notin missing
  <2>1. n \in DOMAIN Fnode /\ Meta(n) \cap missing = {}
    BY <1>1 DEF Directory, Meta
  <2>2. Within(missing, f) = Content[n] /\ f.type = "dir"
    BY <1>1, <2>1, ReadAsWritten DEF fnode, Directory
  <2>3. Sub(n) = UNION {Nonzero(EntriesOf(missing, b)) : b \in Content[n]}
    BY <2>2 DEF Sub, readdir
  <2>4. ASSUME NEW b PROVE Nonzero(EntriesOf(missing, b))
                           = IF b \in missing THEN {} ELSE ToSet(EntriesOf({}, b)) \ {0}
    BY DEF Nonzero, EntriesOf, ToSet
  <2>5. Sub(n) = UNION {ToSet(EntriesOf({}, b)) \ {0} : b \in Content[n] \ missing}
    BY <2>3, <2>4
  <2>6. Leads(n) = (UNION {ToSet(EntriesOf({}, b)) : b \in Content[n] \ missing}) \ {0}
    BY <1>1 DEF Leads
  <2> QED BY <2>5, <2>6
<1>2. CASE Directory(n) /\ FnBlocks[n][1] \notin missing /\ FnBlocks[n][2] \in missing
  <2>1. Within(missing, f) = {}
    BY <1>2, NoneReadsEmpty
  <2> QED BY <1>2, <2>1 DEF Sub, readdir, Leads
<1>3. CASE ~Directory(n) \/ FnBlocks[n][1] \in missing
  <2>1. f.type # "dir"
    BY <1>3 DEF Directory, fnode
  <2> QED BY <1>3, <2>1 DEF Sub, Leads
<1> QED BY <1>1, <1>2, <1>3

\* The walk lists what the directories lead to, all of it and nothing else, whatever
\* it visits first.
THEOREM ListingComplete == Spec => []Complete
<1>1. ASSUME IInv PROVE Complete
  <2> SUFFICES ASSUME pc = "done",
                      \A n \in Listing : Directory(n) => Indirects(n) \cap missing = {}
               PROVE  Closed(Listing) /\ \A S \in SUBSET Numbers : Closed(S) => Listing \subseteq S
    BY <1>1, TypesRight DEF Complete
  <2>1. \A n \in Listing : Sub(n) = Leads(n)
    BY SubIsLeads
  <2>2. /\ Listing \subseteq Numbers
        /\ rootfn \in Listing /\ \A n \in Listing : Sub(n) \subseteq Listing
        /\ \A S \in SUBSET Numbers :
             rootfn \in S /\ (\A n \in S : Sub(n) \subseteq S) => Listing \subseteq S
    BY <1>1, WalkEnd DEF IInv
  <2>3. Closed(Listing)
    BY <2>1, <2>2 DEF Closed
  <2>4. ASSUME NEW S \in SUBSET Numbers, Closed(S) PROVE Listing \subseteq S
    <3> DEFINE R == S \cap Listing
    <3>1. R \in SUBSET Numbers /\ rootfn \in R
      BY <2>2, <2>4 DEF Closed
    <3>2. \A n \in R : Sub(n) \subseteq R
      BY <2>1, <2>2, <2>4 DEF Closed
    <3>3. Listing \subseteq R
      BY <2>2, <3>1, <3>2
    <3> QED BY <3>3
  <2> QED BY <2>3, <2>4
<1> QED BY <1>1, Inductive, PTL

\* What is within a file's size is in its extents.
LEMMA WithinExtents == \A m, f : Within(m, f) \subseteq ToSet(extents(m, f))
BY DEF Within, ToSet

\* The verdict on a file whose fnode and indirect blocks are there is true, and so is
\* the owner of a block it lost.
THEOREM VerdictHolds == Spec => []VerdictTrue
<1>1. ASSUME IInv PROVE VerdictTrue
  <2> SUFFICES ASSUME pc = "done" PROVE VerdictTrue
    BY DEF VerdictTrue
  <2>1. intact = FilesOf(TRUE) /\ damaged = FilesOf(FALSE) /\ owner = OwnerOf /\ ListInv
    BY <1>1 DEF IInv
  <2>2. Listing \subseteq Numbers /\ 0 \notin Numbers
    BY <1>1, WalkEnd DEF IInv, Numbers
  <2>3. ASSUME NEW n \in Listing \cap DOMAIN Fnode, Meta(n) \cap missing = {},
               Fnode[n].type = "data"
        PROVE  /\ n \in intact <=> Content[n] \cap missing = {}
               /\ n \in damaged <=> Content[n] \cap missing # {}
    <3>1. n # rootfn
      BY <2>3, ContentAssumption
    <3>2. damage(missing, fnode(missing, n)) = Content[n] \cap missing
      BY <2>3, ReadAsWritten DEF damage
    <3>3. fnode(missing, n).type = "data"
      BY <2>3 DEF fnode, Meta
    <3>4. /\ n \in FilesOf(TRUE) <=> Content[n] \cap missing = {}
          /\ n \in FilesOf(FALSE) <=> Content[n] \cap missing # {}
      BY <3>1, <3>2, <3>3 DEF FilesOf
    <3> QED BY <2>1, <3>4
  <2>4. ASSUME NEW b \in Blocks, NEW n \in DOMAIN Fnode, b \in Content[n], b \in missing,
               n \in damaged, Meta(n) \cap missing = {}
        PROVE  owner[b] # NoOwner
    <3>1. b \in ToSet(extents(missing, fnode(missing, n)))
      BY <2>4, ReadAsWritten, WithinExtents
    <3>2. PICK k \in DOMAIN files : files[k] = n
      BY <2>1, <2>4 DEF FilesOf, Listing
    <3>3. Owners(b) # {}
      BY <3>1, <3>2 DEF Owners
    <3>4. OwnerOf[b] \in Listing
      BY <2>1, <2>4, <3>3, OwnerHas
    <3> QED BY <2>1, <2>2, <3>4 DEF NoOwner
  <2>5. ASSUME NEW b \in Blocks, NEW n \in DOMAIN Fnode, b \in Content[n],
               owner[b] # NoOwner, Meta(owner[b]) \cap missing = {}
        PROVE  owner[b] = n
    <3> DEFINE o == owner[b]
    <3>1. b \in ToSet(extents(missing, fnode(missing, o)))
      BY <2>1, <2>5, OwnerHas
    <3>2. o \in DOMAIN Fnode
      BY <3>1, NoneReadsEmpty
    <3>3. b \in ToSet(extents({}, fnode({}, o)))
      BY <2>5, <3>1, <3>2, ReadAsWritten
    <3>4. b \in ToSet(extents({}, fnode({}, n)))
      BY <2>5, WithinExtents, ContentAssumption
    <3> HIDE DEF o
    <3>5. o = n
      BY <3>2, <3>3, <3>4, ContentAssumption
    <3> QED BY <3>5 DEF o
  <2> QED BY <2>3, <2>4, <2>5 DEF VerdictTrue
<1> QED BY <1>1, Inductive, PTL
-----------------------------------------------------------------------------
(* defect_map.py: the table.                                               *)

Track == (0 .. CYL - 1) \X (0 .. HEAD - 1)
Probes == 0 .. HEAD * SPT - 1

\* Quotient and remainder are what they are multiplied out from, and nothing else is.
LEMMA DivMod ==
  ASSUME NEW d \in Nat \ {0}, NEW a \in Nat
  PROVE  a \div d \in Nat /\ a % d \in 0 .. d - 1 /\ a = (a \div d) * d + (a % d)
BY SMT

LEMMA DivUnique ==
  ASSUME NEW d \in Nat \ {0}, NEW q \in Nat, NEW r \in 0 .. d - 1,
         NEW p \in Nat, NEW s \in 0 .. d - 1, q * d + r = p * d + s
  PROVE  q = p /\ r = s
<1>1. CASE q < p
  <2>1. p - q \in Nat \ {0} /\ p * d = q * d + (p - q) * d
    BY <1>1
  <2>2. (p - q) * d >= d
    BY <2>1
  <2> QED BY <2>1, <2>2
<1>2. CASE p < q
  <2>1. q - p \in Nat \ {0} /\ q * d = p * d + (q - p) * d
    BY <1>2
  <2>2. (q - p) * d >= d
    BY <2>1
  <2> QED BY <2>1, <2>2
<1> QED BY <1>1, <1>2

\* A sector below h tracks is on one of them.
LEMMA HeadOf ==
  ASSUME NEW h \in Nat \ {0}, NEW d \in Nat \ {0}, NEW p \in 0 .. h * d - 1
  PROVE  p \div d \in 0 .. h - 1
<1> DEFINE q == p \div d
<1>1. q \in Nat /\ p % d \in 0 .. d - 1 /\ p = q * d + (p % d)
  BY DivMod
<1> HIDE DEF q
<1>2. ASSUME q >= h PROVE FALSE
  <2>1. q - h \in Nat /\ q * d = h * d + (q - h) * d
    BY <1>1, <1>2
  <2>2. (q - h) * d >= 0
    BY <2>1
  <2> QED BY <1>1, <2>1, <2>2
<1> QED BY <1>1, <1>2 DEF q

\* A table that was written has tracks of the drive, and it has some.
LEMMA Written ==
  ASSUME NEW t \in Tables
  PROVE  /\ t \in Seq(Track) /\ Len(t) \in Nat \ {0} /\ DOMAIN t = 1 .. Len(t) /\ t # <<>>
         /\ ToSet(t) \subseteq Track /\ Plausible(Len(t), t)
<1>1. /\ t \in Seq(Track) /\ Len(t) \in 1 .. MaxEntries /\ CYL \in Nat /\ HEAD \in Nat
      /\ MaxEntries \in Nat
  BY TableAssumption, GeometryAssumption DEF Track
<1>2. /\ Len(t) \in Nat \ {0} /\ DOMAIN t = 1 .. Len(t) /\ t # <<>>
      /\ \A k \in 1 .. Len(t) : t[k] \in Track
  BY <1>1, LenProperties, EmptySeq, ElementOfSeq
<1>3. \A k \in 1 .. Len(t) : t[k][1] < CYL /\ t[k][2] < HEAD
  BY <1>1, <1>2 DEF Track
<1> QED BY <1>1, <1>2, <1>3 DEF ToSet, Plausible

\* What a sector of the cylinder is taken for: a copy that is there for the table,
\* and nothing else for one.
LEMMA TakenForTable ==
  ASSUME written \in Tables, NEW b
  PROVE  /\ b \in CopyAt \ missing => IsTable(b)
         /\ IsTable(b) => Sector(b).ents = written
<1>1. Plausible(Len(written), written)
  BY Written
<1>2. CASE b \in missing
  BY <1>2 DEF IsTable, Sector
<1>3. CASE b \notin missing /\ b \in CopyAt
  BY <1>1, <1>3 DEF IsTable, Sector
<1>4. CASE b \notin missing /\ b \notin CopyAt /\ b \in DOMAIN Strays
  <2>1. Sector(b) = [magic |-> TRUE, n |-> Strays[b].n, ents |-> Strays[b].ents]
    BY <1>4 DEF Sector
  <2>2. ~Plausible(Strays[b].n, Strays[b].ents)
    BY <1>4, TableAssumption
  <2> QED BY <1>4, <2>1, <2>2 DEF IsTable
<1>5. CASE b \notin missing /\ b \notin CopyAt /\ b \notin DOMAIN Strays
  BY <1>5 DEF IsTable, Sector
<1> QED BY <1>2, <1>3, <1>4, <1>5

RowsOf ==
  LET hit == {n \in Listing : /\ n # rootfn /\ fnode(missing, n).type # "dir"
                              /\ LostOf(n) # {}}
  IN  [n \in hit |-> [factory |-> Cardinality(Flagged(LostOf(n))),
                      storage |-> Cardinality(LostOf(n) \ Flagged(LostOf(n)))]]

\* Every sector probed before this one is no copy that is there; from the first that
\* holds on, the table is the one that was written.
TableInv ==
  /\ pc \in {"table", "no table", "split", "ZeroDivisionError", "walk", "report", "attributed"}
  /\ missing \in Losses /\ written \in Tables
  /\ probe \in Probes /\ on_head \in {NoHead} \cup 0 .. HEAD - 1
  /\ bad = IF pc \in {"table", "no table"} THEN <<>> ELSE written
  /\ pc = "table" => \A q \in Probes : q < probe => At(q) \notin CopyAt \ missing
  /\ pc = "no table" => \A q \in Probes : At(q) \notin CopyAt \ missing
  /\ covered \subseteq badset
DInv == /\ TableInv /\ WalkInv /\ ListInv
        /\ rows = IF pc = "attributed" THEN RowsOf ELSE <<>>

\* The script starts at the first sector of the cylinder.
LEMMA StartInv == ASSUME Start PROVE DInv
<1>1. WalkInv /\ ListInv
  BY WalkInit DEF Start
<1>2. HEAD * SPT \in Nat \ {0}
  BY GeometryAssumption
<1>3. 0 \in Probes /\ \A q \in Probes : ~(q < 0)
  BY <1>2 DEF Probes
<1> QED BY <1>1, <1>3 DEF Start, DInv, TableInv

\* One sector is looked at.
LEMMA ProbeInv == ASSUME DInv, Probe PROVE DInv'
<1>1. WalkInv' /\ ListInv'
  BY WalkStays DEF DInv, Probe
<1>2. /\ pc = "table" /\ bad = <<>> /\ probe \in Probes /\ written \in Tables /\ rows = <<>>
      /\ UNCHANGED <<missing, written, rows, covered>> /\ missing \in Losses
      /\ on_head \in {NoHead} \cup 0 .. HEAD - 1
      /\ \A q \in Probes : q < probe => At(q) \notin CopyAt \ missing
      /\ covered \subseteq badset
  BY DEF DInv, TableInv, Probe, reportVars
<1>3. covered = {}
  BY <1>2, EmptySeq DEF badset, ToSet
<1>4. CASE IsTable(At(probe))
  <2>1. bad' = written /\ on_head' = probe \div SPT /\ pc' = "split" /\ probe' = probe
    BY <1>2, <1>4, TakenForTable DEF Probe, Found
  <2>2. HEAD \in Nat \ {0} /\ SPT \in Nat \ {0}
    BY GeometryAssumption
  <2>3. on_head' \in 0 .. HEAD - 1
    BY <1>2, <2>1, <2>2, HeadOf DEF Probes
  <2>4. TableInv'
    BY <1>2, <1>3, <2>1, <2>3 DEF TableInv
  <2> QED BY <1>1, <1>2, <2>1, <2>4 DEF DInv
<1>5. CASE ~IsTable(At(probe))
  <2>1. At(probe) \notin CopyAt \ missing
    BY <1>2, <1>5, TakenForTable
  <2>2. bad' = bad /\ on_head' = on_head /\ covered' \subseteq badset'
    BY <1>2, <1>3, <1>5 DEF Probe, NotHere
  <2>3. CASE MoreHeads
    <3>1. probe' = probe + 1 /\ pc' = pc
      BY <1>5, <2>3 DEF Probe, NotHere
    <3>2. probe' \in Probes
      BY <1>2, <2>3, <3>1, GeometryAssumption DEF Probes, MoreHeads
    <3>3. \A q \in Probes : q < probe' => q < probe \/ q = probe
      BY <1>2, <3>1, GeometryAssumption DEF Probes
    <3>4. TableInv'
      BY <1>2, <2>1, <2>2, <3>1, <3>2, <3>3 DEF TableInv, At
    <3> QED BY <1>1, <1>2, <3>1, <3>4 DEF DInv
  <2>4. CASE ~MoreHeads
    <3>1. probe' = probe /\ pc' = "no table"
      BY <1>5, <2>4 DEF Probe, NotHere
    <3>2. \A q \in Probes : q < probe \/ q = probe
      BY <1>2, <2>4, GeometryAssumption DEF Probes, MoreHeads
    <3>3. TableInv'
      BY <1>2, <2>1, <2>2, <3>1, <3>2 DEF TableInv, At
    <3> QED BY <1>1, <1>2, <3>1, <3>3 DEF DInv
  <2> QED BY <2>3, <2>4
<1> QED BY <1>4, <1>5

\* The missing sectors are split, the listing walked, the losses attributed.
LEMMA SplitInv == ASSUME DInv, Split PROVE DInv'
<1>1. WalkInv' /\ ListInv'
  BY WalkStays DEF DInv, Split
<1>2. /\ pc' \in {"walk", "ZeroDivisionError"} /\ pc = "split" /\ rows' = rows
      /\ UNCHANGED <<missing, written, probe, bad, on_head>>
  BY DEF Split, tableVars
<1>3. covered' \subseteq badset'
  BY <1>2 DEF Split, DInv, TableInv, badset
<1> QED BY <1>1, <1>2, <1>3 DEF DInv, TableInv

LEMMA WalkStepInv == ASSUME DInv, Walk PROVE DInv'
<1>1. /\ UNCHANGED <<missing, written, probe, bad, on_head, covered, rows>>
      /\ pc = "walk" /\ pc' \in {"walk", "report"}
  BY DEF Walk, Visit, Leave, Walked, tableVars, reportVars
<1>2. WalkInv' /\ ListInv'
  <2>1. CASE Visit \/ Leave
    BY <2>1, VisitStep, LeaveStep DEF DInv
  <2>2. CASE Walked
    BY <2>2, WalkStays DEF DInv, Walked
  <2> QED BY <2>1, <2>2 DEF Walk
<1>3. covered' \subseteq badset'
  BY <1>1 DEF DInv, TableInv, badset
<1> QED BY <1>1, <1>2, <1>3 DEF DInv, TableInv

LEMMA RowsInv == ASSUME DInv, Rows PROVE DInv'
<1>1. WalkInv' /\ ListInv'
  BY WalkStays DEF DInv, Rows
<1>2. /\ UNCHANGED <<missing, files, written, probe, bad, on_head, covered>>
      /\ pc = "report" /\ pc' = "attributed" /\ rows' = RowsOf
  BY DEF Rows, RowsOf, tableVars
<1>3. covered' \subseteq badset' /\ RowsOf' = RowsOf
  BY <1>2 DEF DInv, TableInv, badset, RowsOf, Listing, LostOf, Flagged
<1> QED BY <1>1, <1>2, <1>3 DEF DInv, TableInv

LEMMA DStutter == ASSUME DInv, UNCHANGED <<vars, tableVars, reportVars>> PROVE DInv'
<1>1. WalkInv' /\ ListInv'
  BY WalkStays DEF DInv, vars
<1>2. UNCHANGED <<pc, missing, files, written, probe, bad, on_head, covered, rows>>
  BY DEF vars, tableVars, reportVars
<1>3. badset' = badset /\ RowsOf' = RowsOf
  BY <1>2 DEF badset, RowsOf, Listing, LostOf, Flagged
<1> QED BY <1>1, <1>2, <1>3 DEF DInv, TableInv

\* The invariant of the table, the walk and the rows.
THEOREM DInductive == DSpec => []DInv
<1>1. Start => DInv
  BY StartInv
<1>2. DInv /\ [Attribute]_<<vars, tableVars, reportVars>> => DInv'
  BY ProbeInv, SplitInv, WalkStepInv, RowsInv, DStutter DEF Attribute
<1> QED BY <1>1, <1>2, PTL DEF DSpec

\* The table that is found is the one that was written, and it is found while any
\* copy of it on any head is there.
THEOREM TableRead == DSpec => []TableFound
<1>1. ASSUME DInv PROVE TableFound
  <2>1. TableInv
    BY <1>1 DEF DInv
  <2>2. DOMAIN rows \subseteq Listing
    BY <1>1 DEF DInv, RowsOf
  <2>3. ToSet(bad) \subseteq Track
    <3>1. bad = <<>> \/ (bad = written /\ written \in Tables)
      BY <2>1 DEF TableInv
    <3>2. bad = <<>> => ToSet(bad) = {}
      BY DEF ToSet
    <3> QED BY <3>1, <3>2, Written
  <2>4. DTypeOK
    BY <2>1, <2>2, <2>3 DEF TableInv, DTypeOK, Track, Probes
  <2>5. ASSUME pc = "no table", NEW b \in CopyAt PROVE b \in missing
    <3>1. PICK q \in Probes : b = At(q)
      BY <2>5, TableAssumption DEF Probes
    <3> QED BY <2>1, <2>5, <3>1 DEF TableInv
  <2> QED BY <2>1, <2>4, <2>5 DEF TableInv, TableFound
<1> QED BY <1>1, DInductive, PTL

-----------------------------------------------------------------------------
(* defect_map.py: the rows.                                                *)

\* A sector is on the track of that number when it is one of the track's sectors.
LEMMA TrackSectors ==
  ASSUME NEW l \in Nat, NEW t \in Track
  PROVE  track_of(l) = t <=> \E s \in 0 .. SPT - 1 : l = (t[1] * HEAD + t[2]) * SPT + s
<1> DEFINE d == HEAD * SPT
           r == l % d
           h == r \div SPT
<1>1. HEAD \in Nat \ {0} /\ SPT \in Nat \ {0} /\ d \in Nat \ {0}
  BY GeometryAssumption
<1>2. l \div d \in Nat /\ r \in 0 .. d - 1 /\ l = (l \div d) * d + r
  <2> HIDE DEF d
  <2> QED BY <1>1, DivMod
<1>3. h \in 0 .. HEAD - 1 /\ r % SPT \in 0 .. SPT - 1 /\ r = h * SPT + (r % SPT)
  <2>1. r \in 0 .. HEAD * SPT - 1 /\ r \in Nat
    BY <1>2, <1>1
  <2> HIDE DEF r
  <2> QED BY <1>1, <2>1, HeadOf, DivMod
<1>4. t[1] \in Nat /\ t[2] \in 0 .. HEAD - 1 /\ t = <<t[1], t[2]>>
  BY <1>1, GeometryAssumption DEF Track
<1>5. track_of(l) = <<l \div d, h>>
  BY DEF track_of
<1>6. ASSUME track_of(l) = t
      PROVE  \E s \in 0 .. SPT - 1 : l = (t[1] * HEAD + t[2]) * SPT + s
  <2>1. t[1] = l \div d /\ t[2] = h
    BY <1>4, <1>5, <1>6
  <2>2. l = t[1] * (HEAD * SPT) + (t[2] * SPT + (r % SPT))
    BY <1>2, <1>3, <2>1
  <2> HIDE DEF r
  <2>3. l = (t[1] * HEAD + t[2]) * SPT + (r % SPT)
    BY <1>1, <1>3, <1>4, <2>2
  <2> QED BY <1>3, <2>3
<1>7. ASSUME NEW s \in 0 .. SPT - 1, l = (t[1] * HEAD + t[2]) * SPT + s
      PROVE  track_of(l) = t
  <2> DEFINE x == t[2] * SPT + s
  <2>1. l = t[1] * d + x
    BY <1>1, <1>4, <1>7
  <2>2. x \in 0 .. d - 1
    <3>1. (HEAD - 1 - t[2]) * SPT >= 0 /\ t[2] * SPT >= 0
      BY <1>1, <1>4
    <3>2. d = t[2] * SPT + (HEAD - 1 - t[2]) * SPT + SPT
      BY <1>1, <1>4
    <3> QED BY <1>1, <1>4, <1>7, <3>1, <3>2
  <2>3. l \div d = t[1] /\ r = x
    <3> HIDE DEF d, x, r
    <3>1. l \div d \in Nat /\ r \in 0 .. d - 1 /\ (l \div d) * d + r = t[1] * d + x
      BY <1>2, <2>1
    <3> QED BY <1>1, <1>4, <2>2, <3>1, DivUnique
  <2>4. h = t[2]
    <3>1. h \in Nat /\ r % SPT \in 0 .. SPT - 1 /\ h * SPT + (r % SPT) = t[2] * SPT + s
      BY <1>1, <1>3, <2>3
    <3> HIDE DEF h, r
    <3> QED BY <1>1, <1>4, <1>7, <3>1, DivUnique
  <2> QED BY <1>4, <1>5, <2>3, <2>4
<1> QED BY <1>6, <1>7

\* Which sectors of the disk are flagged.
LEMMA FlaggedTrue ==
  ASSUME written \in Tables, bad = written, NEW S, S \subseteq Nat
  PROVE  Flagged(S) = S \cap OnFlagged
<1>1. ToSet(written) \subseteq Track
  BY Written
<1>2. ASSUME NEW l \in S PROVE track_of(l) \in badset <=> l \in OnFlagged
  <2>1. track_of(l) \in badset <=> \E t \in ToSet(written) : track_of(l) = t
    BY DEF badset
  <2>2. l \in OnFlagged <=> \E t \in ToSet(written) :
                             \E s \in 0 .. SPT - 1 : l = (t[1] * HEAD + t[2]) * SPT + s
    BY DEF OnFlagged
  <2> QED BY <1>1, <2>1, <2>2, TrackSectors
<1> QED BY <1>2 DEF Flagged

\* What a file lost is in its row, each sector under the cause it has.
THEOREM RowsHold == DSpec => []RowsTrue
<1>1. ASSUME DInv PROVE RowsTrue
  <2> SUFFICES ASSUME pc = "attributed", NEW n \in Listing \cap DOMAIN Fnode,
                      Fnode[n].type = "data", Meta(n) \cap missing = {},
                      Content[n] \cap missing # {}
               PROVE  LET lost == Content[n] \cap missing
                      IN  /\ n \in DOMAIN rows
                          /\ rows[n].factory >= Cardinality(lost \cap OnFlagged)
                          /\ rows[n].storage >= Cardinality(lost \ OnFlagged)
                          /\ rows[n].factory + rows[n].storage
                               <= Cardinality(missing \cap ToSet(extents({}, fnode({}, n))))
    BY DEF RowsTrue
  <2> DEFINE lost == Content[n] \cap missing
             all == missing \cap ToSet(extents({}, fnode({}, n)))
             fac == all \cap OnFlagged
             sto == all \ OnFlagged
  <2>1. missing \in Losses /\ written \in Tables /\ bad = written /\ rows = RowsOf
    BY <1>1 DEF DInv, TableInv
  <2>2. missing \subseteq Nat /\ IsFiniteSet(missing)
    <3>1. missing \subseteq Blocks /\ CYL * HEAD * SPT - 1 \in Int
      BY <2>1, LossAssumption, GeometryAssumption
    <3>2. IsFiniteSet(Blocks) /\ Blocks \subseteq Nat
      BY <3>1, FS_Interval, GeometryAssumption
    <3> QED BY <3>1, <3>2, FS_Subset
  <2>3. /\ extents(missing, fnode(missing, n)) = extents({}, fnode({}, n))
        /\ Content[n] \subseteq ToSet(extents({}, fnode({}, n)))
    BY ReadAsWritten, WithinExtents, ContentAssumption
  <2>4. LostOf(n) = all
    BY <2>3 DEF LostOf, Contains, ToSet
  <2>5. Flagged(LostOf(n)) = fac /\ LostOf(n) \ Flagged(LostOf(n)) = sto
    <3>1. all \subseteq Nat
      BY <2>2
    <3>2. Flagged(all) = all \cap OnFlagged
      <4> HIDE DEF all
      <4> QED BY <2>1, <3>1, FlaggedTrue
    <3> QED BY <2>4, <3>2
  <2>6. lost \subseteq all /\ lost # {}
    BY <2>3
  <2>7. n # rootfn /\ fnode(missing, n).type = "data"
    BY ContentAssumption DEF fnode, Meta
  <2>8. /\ n \in DOMAIN rows
        /\ rows[n] = [factory |-> Cardinality(fac), storage |-> Cardinality(sto)]
    <3> HIDE DEF all, lost, fac, sto
    <3> QED BY <2>1, <2>4, <2>5, <2>6, <2>7 DEF RowsOf
  <2>9. IsFiniteSet(all) /\ IsFiniteSet(fac) /\ IsFiniteSet(sto)
    BY <2>2, FS_Subset
  <2>10. /\ Cardinality(lost \cap OnFlagged) <= Cardinality(fac)
         /\ Cardinality(lost \ OnFlagged) <= Cardinality(sto)
    <3>1. lost \cap OnFlagged \subseteq fac /\ lost \ OnFlagged \subseteq sto
      BY <2>6
    <3> QED BY <2>9, <3>1, FS_Subset
  <2>11. Cardinality(fac) + Cardinality(sto) = Cardinality(all)
    <3>1. all = fac \cup sto /\ fac \cap sto = {}
      OBVIOUS
    <3> HIDE DEF all, fac, sto
    <3>2. Cardinality(fac \cup sto) = Cardinality(fac) + Cardinality(sto) - Cardinality(fac \cap sto)
      BY <2>9, FS_Union
    <3>3. Cardinality(fac) \in Nat /\ Cardinality(sto) \in Nat
      BY <2>9, FS_CardinalityType
    <3>4. Cardinality({}) = 0
      BY FS_EmptySet
    <3> QED BY <3>1, <3>2, <3>3, <3>4
  <2>12. /\ Cardinality(lost \cap OnFlagged) \in Nat /\ Cardinality(lost \ OnFlagged) \in Nat
         /\ Cardinality(fac) \in Nat /\ Cardinality(sto) \in Nat /\ Cardinality(all) \in Nat
    <3>1. IsFiniteSet(lost \cap OnFlagged) /\ IsFiniteSet(lost \ OnFlagged)
      BY <2>2, FS_Subset
    <3> HIDE DEF all, fac, sto, lost
    <3> QED BY <2>9, <3>1, FS_CardinalityType
  <2> HIDE DEF fac, sto
  <2> QED BY <2>8, <2>10, <2>11, <2>12
<1> QED BY <1>1, DInductive, PTL
=============================================================================
