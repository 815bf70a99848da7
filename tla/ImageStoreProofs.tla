--------------------------- MODULE ImageStoreProofs ---------------------------
(***************************************************************************)
(* Proofs about ImageStore, for any tracks, captures, decoder verdicts and *)
(* options.                                                                *)
(***************************************************************************)
EXTENDS ImageStore, FiniteSetTheorems, TLAPS

-----------------------------------------------------------------------------
(* Facts about the operators.                                              *)

\* Counting sectors: no set of sectors has more than NS members.
LEMMA SectorCount ==
  /\ IsFiniteSet(Sectors) /\ Cardinality(Sectors) = NS
  /\ \A S \in SUBSET Sectors : Cardinality(S) \in 0 .. NS
<1>1. IsFiniteSet(Sectors) /\ Cardinality(Sectors) = NS
  BY FS_Interval, NSAssumption DEF Sectors
<1>2. ASSUME NEW S \in SUBSET Sectors PROVE Cardinality(S) \in 0 .. NS
  BY <1>1, FS_Subset, FS_CardinalityType, NSAssumption
<1> QED BY <1>1, <1>2

\* Joining sectors none of which is an empty slice keeps each in its place.
LEMMA ImageInPlace ==
  ASSUME NEW data \in [Sectors -> Blocks], \A s \in Sectors : data[s] # NoBytes
  PROVE  Image(data) = data
<1> DEFINE kept == {s \in Sectors : data[s] # NoBytes}
<1>1. kept = Sectors
  OBVIOUS
<1>2. ASSUME NEW s \in Sectors PROVE Rank(kept, s) = s
  <2>1. {u \in kept : u < s} = 0 .. s - 1
    BY <1>1, NSAssumption DEF Sectors
  <2>2. Cardinality(0 .. s - 1) = s
    BY FS_Interval, NSAssumption DEF Sectors
  <2> QED BY <2>1, <2>2 DEF Rank
<1>3. ASSUME NEW i \in Sectors
      PROVE  /\ \E s \in kept : Rank(kept, s) = i
             /\ (CHOOSE s \in kept : Rank(kept, s) = i) = i
  BY <1>1, <1>2
<1>4. Image(data) = [i \in Sectors |-> data[i]]
  BY <1>3 DEF Image
<1> QED BY <1>4

\* Whatever is joined, the file is made of the blocks given and of its end.
LEMMA ImageType ==
  ASSUME NEW data \in [Sectors -> Blocks]
  PROVE  /\ Image(data) \in [Sectors -> Blocks]
         /\ (\A s \in Sectors : data[s] # Missing) =>
               \A s \in Sectors : Image(data)[s] # Missing
<1> DEFINE kept == {s \in Sectors : data[s] # NoBytes}
<1> DEFINE pick(i) == CHOOSE s \in kept : Rank(kept, s) = i
<1>1. ASSUME NEW i \in Sectors, \E s \in kept : Rank(kept, s) = i
      PROVE  pick(i) \in Sectors
  BY <1>1
<1> HIDE DEF pick
<1>2. Image(data) = [i \in Sectors |-> IF \E s \in kept : Rank(kept, s) = i
                                       THEN data[pick(i)] ELSE NoBytes]
  BY DEF Image, pick
<1>3. NoBytes \in Blocks /\ NoBytes # Missing
  BY DEF Blocks, NoBytes, Missing
<1> QED BY <1>1, <1>2, <1>3

\* A slice assignment puts the block where the sector is, if the file reaches
\* so far, and always yields a file made of the same blocks and the new one.
LEMMA PutType ==
  ASSUME NEW file \in [Sectors -> Blocks], NEW s \in Sectors, NEW b \in Blocks
  PROVE  /\ Put(file, s, b) \in [Sectors -> Blocks]
         /\ file[s] # NoBytes => Put(file, s, b) = [file EXCEPT ![s] = b]
         /\ b # Missing /\ (\A u \in Sectors : file[u] # Missing) =>
               \A u \in Sectors : Put(file, s, b)[u] # Missing
BY DEF Put

\* The blocks of a recovery are blocks of their own.
LEMMA BlockFacts ==
  /\ Zero \in Blocks /\ NoBytes \in Blocks /\ Missing \in Blocks
  /\ Zero # NoBytes /\ Zero # Missing /\ NoBytes # Missing
  /\ \A s \in Sectors, c \in Recovered :
       /\ <<s, c>> \in Blocks
       /\ <<s, c>> # NoBytes /\ <<s, c>> # Missing /\ <<s, c>> # Zero
<1>1. Zero # NoBytes /\ Zero # Missing /\ NoBytes # Missing
  BY DEF Zero, NoBytes, Missing
<1>2. ASSUME NEW s \in Sectors, NEW c \in Recovered
      PROVE  /\ <<s, c>> \in Blocks
             /\ <<s, c>> # NoBytes /\ <<s, c>> # Missing /\ <<s, c>> # Zero
  <2>1. s # -1
    BY NSAssumption DEF Sectors
  <2> QED BY <2>1 DEF Blocks, Data, NoBytes, Missing, Zero
<1> QED BY <1>1, <1>2 DEF Blocks

\* What a read makes of a sector is a recovered class.
LEMMA LabelType ==
  ASSUME NEW cls, NEW q
  PROVE  /\ Label(cls, q) \in {"valid", "corrected"}
         /\ Label(cls, q) \in Recovered
BY DEF Label, Recovered

-----------------------------------------------------------------------------
(* Type correctness.                                                       *)

\* What an idle process's variables are reset to has the right type.
LEMMA BlankTypes ==
  /\ BlankManifest \in [Tracks -> Entries]
  /\ SomeTrack \in Tracks /\ SomeRaw \in Raws
  /\ Nothing \in [Sectors -> Recovered \cup {"none"}]
  /\ NoVerdict \in [Sectors -> Dead]
  /\ Empty \in [Sectors -> Blocks] /\ Zeros \in [Sectors -> Blocks]
  /\ NoFile \in [Sectors -> Blocks]
<1>1. NoEntry \in Entries
  BY NSAssumption DEF NoEntry, Entries
<1>2. SomeTrack \in Tracks /\ SomeRaw \in Raws
  BY TracksAssumption DEF SomeTrack, SomeRaw
<1>3. Empty \in [Sectors -> Blocks] /\ Zeros \in [Sectors -> Blocks]
      /\ NoFile \in [Sectors -> Blocks]
  BY BlockFacts DEF Empty, Zeros, NoFile
<1> QED BY <1>1, <1>2, <1>3 DEF BlankManifest, Nothing, NoVerdict, Dead

\* An empty image directory and no running tool are of the right types.
LEMMA TypeInit == Init => TypeOK
<1> SUFFICES ASSUME Init PROVE TypeOK
  OBVIOUS
<1>1. /\ manifest \in [Tracks -> Entries] /\ mem \in [Tracks -> Entries]
      /\ blob \in [Tracks -> [Sectors -> Blocks]]
      /\ raw \in [Tracks -> [Raws -> {"absent", "empty", "whole"}]]
  BY BlankTypes DEF Init
<1>2. /\ labels \in [Sectors -> Recovered \cup {"none"}] /\ buf \in [Sectors -> Blocks]
      /\ verdict \in [Sectors -> Dead]
      /\ cur \in Tracks /\ last \in Raws /\ count \in 0 .. Checkpoint - 1
  BY BlankTypes, CheckpointAssumption DEF Init
<1> QED BY <1>1, <1>2 DEF Init, TypeOK

\* The entry a sweep records of a track is a manifest entry.
LEMMA SweepEntryType ==
  ASSUME TypeOK PROVE SweepEntry \in Entries
<1> DEFINE got == {s \in Sectors : labels[s] # "none"}
<1>1. Cardinality(got) \in 0 .. NS
  BY SectorCount
<1>2. \A s \in Sectors : (IF s \in got THEN labels[s] ELSE verdict[s]) \in Classes
  BY DEF TypeOK, Classes
<1> QED BY <1>1, <1>2 DEF SweepEntry, Entries

\* What the offline tools assign to an entry keeps it one.
LEMMA EntryTypes ==
  ASSUME NEW m \in [Tracks -> Entries], NEW t \in Tracks
  PROVE  /\ \A s \in Sectors, c \in Classes :
              [m EXCEPT ![t].sectors[s] = c] \in [Tracks -> Entries]
         /\ \A v \in 0 .. NS :
              [m EXCEPT ![t].valid = v,
                        ![t].status = IF v = NS THEN "complete" ELSE @]
                \in [Tracks -> Entries]
<1>1. ASSUME NEW s \in Sectors, NEW c \in Classes
      PROVE  [m EXCEPT ![t].sectors[s] = c] \in [Tracks -> Entries]
  <2> DEFINE f == [m[t].sectors EXCEPT ![s] = c]
  <2>1. f \in [Sectors -> Classes \cup {"unseen"}]
    BY DEF Entries
  <2> HIDE DEF f
  <2>2. [m[t] EXCEPT !.sectors = f] \in Entries
    BY <2>1 DEF Entries
  <2> QED BY <2>2 DEF f
<1>2. ASSUME NEW v \in 0 .. NS
      PROVE  [m EXCEPT ![t].valid = v,
                       ![t].status = IF v = NS THEN "complete" ELSE @]
               \in [Tracks -> Entries]
  <2> DEFINE st == IF v = NS THEN "complete" ELSE m[t].status
  <2>1. st \in {"none", "partial", "complete"}
    BY DEF Entries
  <2> HIDE DEF st
  <2>2. [m[t] EXCEPT !.valid = v, !.status = st] \in Entries
    BY <2>1 DEF Entries
  <2> QED BY <2>2 DEF st
<1> QED BY <1>1, <1>2

\* Every step keeps the types.
LEMMA TypeStep == TypeOK /\ [Next]_vars => TypeOK'
<1> SUFFICES ASSUME TypeOK, [Next]_vars PROVE TypeOK'
  OBVIOUS
<1> USE DEF disk, visit
<1>q. ASSUME Quit, manifest' \in [Tracks -> Entries],
             blob' = blob, raw' = raw, torn' \subseteq Tracks
      PROVE  TypeOK'
  <2>1. /\ mem' \in [Tracks -> Entries]
        /\ labels' \in [Sectors -> Recovered \cup {"none"}] /\ buf' \in [Sectors -> Blocks]
        /\ verdict' \in [Sectors -> Dead]
        /\ cur' \in Tracks /\ last' \in Raws /\ count' \in 0 .. Checkpoint - 1
    BY <1>q, BlankTypes, CheckpointAssumption DEF Quit
  <2>2. /\ blob' \in [Tracks -> [Sectors -> Blocks]]
        /\ raw' \in [Tracks -> [Raws -> {"absent", "empty", "whole"}]]
    BY <1>q DEF TypeOK
  <2> QED BY <1>q, <2>1, <2>2 DEF Quit, TypeOK
<1>1. CASE SweepStart
  BY <1>1 DEF SweepStart, TypeOK
<1>2. CASE SweepVisit
  <2>1. PICK t \in todo :
          /\ cur' = t /\ todo' = Remaining(t)
          /\ labels' = [s \in Sectors |->
               IF Prior(mem[t], blob[t], s) THEN mem[t].sectors[s] ELSE "none"]
          /\ buf' = [s \in Sectors |-> Seed(t, s)]
    BY <1>2 DEF SweepVisit
  <2>2. t \in Tracks /\ blob[t] \in [Sectors -> Blocks]
    BY DEF TypeOK
  <2>3. labels' \in [Sectors -> Recovered \cup {"none"}] /\ buf' \in [Sectors -> Blocks]
    BY <2>1, <2>2, BlockFacts DEF Seed, Prior
  <2> QED BY <1>2, <2>1, <2>2, <2>3, BlankTypes DEF SweepVisit, TypeOK, Remaining
<1>3. CASE SweepCapture
  <2>1. PICK r \in Raws :
          /\ last' = r
          /\ seen' = seen \cup {r}
          /\ verdict' = IF r \in seen THEN verdict
                        ELSE [s \in Sectors |->
                                IF verdict[s] = "no-header" /\ Decode[r][s] \in Dead
                                THEN Decode[r][s] ELSE verdict[s]]
          /\ IF NewFile(r)
             THEN raw' = [raw EXCEPT ![cur][r] = "empty"] /\ pc' = "archive"
             ELSE raw' = raw /\ pc' = "decode"
    BY <1>3 DEF SweepCapture
  <2>2. verdict' \in [Sectors -> Dead] /\ last' \in Raws /\ seen' \subseteq Raws
    BY <2>1 DEF TypeOK
  <2>3. raw' \in [Tracks -> [Raws -> {"absent", "empty", "whole"}]]
        /\ pc' \in {"archive", "decode"}
    <3>1. CASE NewFile(r)
      <4>1. raw' = [raw EXCEPT ![cur] = [raw[cur] EXCEPT ![r] = "empty"]]
        BY <2>1, <3>1 DEF TypeOK
      <4> QED BY <2>1, <3>1, <4>1 DEF TypeOK
    <3>2. CASE ~NewFile(r)
      BY <2>1, <3>2 DEF TypeOK
    <3> QED BY <3>1, <3>2
  <2>4. reads' \in Nat
    BY <1>3 DEF SweepCapture, TypeOK
  <2> QED BY <1>3, <2>2, <2>3, <2>4 DEF SweepCapture, TypeOK
<1>4. CASE SweepArchive
  BY <1>4 DEF SweepArchive, TypeOK
<1>5. CASE SweepDecode
  <2>1. labels' \in [Sectors -> Recovered \cup {"none"}]
    BY <1>5, LabelType DEF SweepDecode, TypeOK
  <2>2. buf' \in [Sectors -> Blocks]
    BY <1>5, LabelType, BlockFacts DEF SweepDecode, TypeOK
  <2>3. dry' \in Nat /\ pc' \in {"open", "read"}
    BY <1>5 DEF SweepDecode, TypeOK
  <2> QED BY <1>5, <2>1, <2>2, <2>3 DEF SweepDecode, TypeOK
<1>6. CASE SweepRecord
  BY <1>6, SweepEntryType DEF SweepRecord, TypeOK
<1>7. CASE SweepStop
  BY <1>7, <1>q DEF SweepStop, TypeOK
<1>8. CASE SweepDone
  BY <1>8, <1>q DEF SweepDone, TypeOK
<1>9. CASE OfflineStart
  BY <1>9 DEF OfflineStart, TypeOK
<1>10. CASE OfflineVisit
  BY <1>10, BlankTypes DEF OfflineVisit, TypeOK, Targets, With, Remaining
<1>11. CASE OfflinePatch
  <2>1. PICK s \in wins :
          /\ wins' = wins \ {s}
          /\ buf' = Put(buf, s, <<s, Label3[tool]>>)
          /\ mem' = [mem EXCEPT ![cur].sectors[s] = Label3[tool]]
    BY <1>11 DEF OfflinePatch
  <2>2. s \in Sectors /\ Label3[tool] \in Recovered /\ Label3[tool] \in Classes
    BY <1>11 DEF OfflinePatch, TypeOK, Offline, Label3, Recovered, Classes
  <2>3. buf' \in [Sectors -> Blocks]
    BY <2>1, <2>2, PutType, BlockFacts DEF TypeOK
  <2>4. mem' \in [Tracks -> Entries]
    BY <2>1, <2>2, EntryTypes DEF TypeOK
  <2>5. pc' \in {"tally", "patch"}
    BY <1>11 DEF OfflinePatch
  <2> QED BY <1>11, <2>1, <2>3, <2>4, <2>5 DEF OfflinePatch, TypeOK
<1>12. CASE OfflineTally
  <2> DEFINE v == Cardinality(With(mem[cur], Counted[tool]))
  <2>1. v \in 0 .. NS
    BY SectorCount DEF With
  <2>2. mem' = [mem EXCEPT ![cur].valid = v,
                           ![cur].status = IF v = NS THEN "complete" ELSE @]
    BY <1>12 DEF OfflineTally
  <2> HIDE DEF v
  <2>3. mem' \in [Tracks -> Entries]
    BY <2>1, <2>2, EntryTypes DEF TypeOK
  <2>4. pc' \in {"open", "count", "next"}
    BY <1>12 DEF OfflineTally
  <2> QED BY <1>12, <2>3, <2>4 DEF OfflineTally, TypeOK
<1>13. CASE OfflineCount
  <2>1. count' \in 0 .. Checkpoint - 1
    BY <1>13, CheckpointAssumption DEF OfflineCount, TypeOK
  <2>2. manifest' \in [Tracks -> Entries]
    BY <1>13 DEF OfflineCount, TypeOK
  <2> QED BY <1>13, <2>1, <2>2 DEF OfflineCount, TypeOK
<1>14. CASE OfflineDone
  BY <1>14, <1>q DEF OfflineDone, TypeOK
<1>15. CASE OpenBlob
  BY <1>15, BlankTypes DEF OpenBlob, TypeOK
<1>16. CASE WriteBlob
  BY <1>16, ImageType DEF WriteBlob, TypeOK
<1>17. CASE Crash
  BY <1>17, <1>q DEF Crash, TypeOK
<1>18. CASE UNCHANGED vars
  BY <1>18 DEF vars, TypeOK
<1> QED BY <1>1, <1>2, <1>3, <1>4, <1>5, <1>6, <1>7, <1>8, <1>9, <1>10, <1>11,
           <1>12, <1>13, <1>14, <1>15, <1>16, <1>17, <1>18 DEF Next, Work

\* Type correctness, for every number of tracks, sectors and captures.
THEOREM TypeCorrect == Spec => []TypeOK
BY TypeInit, TypeStep, PTL DEF Spec

-----------------------------------------------------------------------------
(* The inductive invariant.                                                *)

\* The classes are told apart, and only listed entries claim anything.
LEMMA ClassFacts ==
  /\ Recovered \cap Dead = {} /\ Recovered \subseteq Classes /\ Dead \subseteq Classes
  /\ "unseen" \notin Classes /\ "none" \notin Recovered
  /\ \A k \in Offline : Label3[k] \in Recovered
  /\ "sweep" \notin Offline /\ "none" \notin Offline
BY DEF Recovered, Dead, Classes, Label3, Offline

\* Nothing is listed, nothing runs: every part of IInv holds at the start.
LEMMA InvInit == Init => IInv
<1> SUFFICES ASSUME Init PROVE IInv
  OBVIOUS
<1>1. TypeOK
  BY TypeInit
<1>2. /\ \A t \in Tracks : ~Listed(manifest[t]) /\ With(manifest[t], Classes) = {}
      /\ \A t \in Tracks : blob[t] = NoFile
  BY ClassFacts DEF Init, Listed, With, BlankManifest, NoEntry
<1>3. ~Visiting /\ ~Patching /\ tool = "none" /\ pc = "idle"
  BY ClassFacts DEF Init, Visiting, Patching
<1>4. ControlInv
  BY <1>3, ClassFacts DEF ControlInv
<1>5. ListingInv
  BY <1>2, <1>3 DEF ListingInv
<1>6. DiskInv /\ MemInv /\ SweepInv /\ PatchInv
  BY <1>2, <1>3, ClassFacts DEF DiskInv, MemInv, SweepInv, PatchInv
<1> QED BY <1>1, <1>4, <1>5, <1>6 DEF IInv

\* A process that ends needs only the files to agree with the saved manifest.
LEMMA InvQuit ==
  ASSUME TypeOK', Quit, DiskInv',
         \A t \in Tracks :
           /\ ~Listed(manifest'[t]) => With(manifest'[t], Classes) = {}
           /\ Listed(manifest'[t]) => blob'[t] # NoFile
           /\ blob'[t] # NoFile => \A s \in Sectors : blob'[t][s] # Missing
  PROVE  IInv'
<1>1. ~Visiting' /\ ~Patching' /\ tool' = "none" /\ pc' = "idle"
  BY ClassFacts DEF Quit, Visiting, Patching
<1>2. ControlInv'
  BY <1>1, ClassFacts DEF ControlInv
<1>3. ListingInv'
  BY <1>1 DEF ListingInv
<1>4. MemInv' /\ SweepInv' /\ PatchInv'
  BY <1>1, ClassFacts DEF MemInv, SweepInv, PatchInv
<1> QED BY <1>2, <1>3, <1>4 DEF IInv

\* A step that leaves the files and the saved manifest alone keeps what relates
\* them, when it neither begins nor ends the write of a track file.
LEMMA DiskUnchanged ==
  ASSUME IInv, UNCHANGED <<manifest, blob, torn>>, pc # "write", pc' # "write"
  PROVE  /\ DiskInv'
         /\ \A t \in Tracks :
              /\ ~Listed(manifest'[t]) => With(manifest'[t], Classes) = {}
              /\ Listed(manifest'[t]) => blob'[t] # NoFile
              /\ blob'[t] # NoFile => \A s \in Sectors : blob'[t][s] # Missing
BY DEF IInv, DiskInv, ListingInv, Writing, Holds, With, Solid, Backs, Listed

\* sweep.py starts with the saved manifest: its memory agrees with the disk.
LEMMA InvSweepStart == ASSUME IInv, TypeOK', SweepStart PROVE IInv'
<1> USE DEF disk, visit
<1>1. /\ tool' = "sweep" /\ pc' = "next" /\ mem' = manifest /\ pc = "idle"
      /\ UNCHANGED <<manifest, blob, torn>>
  BY DEF SweepStart
<1>2. ~Visiting' /\ ~Patching'
  BY <1>1, ClassFacts DEF Visiting, Patching
<1>3. DiskInv' /\ ListingInv'
  BY <1>1, <1>2, DiskUnchanged DEF ListingInv
<1>4. ControlInv' /\ MemInv' /\ SweepInv' /\ PatchInv'
  BY <1>1, <1>2, ClassFacts DEF ControlInv, MemInv, SweepInv, PatchInv
<1> QED BY <1>3, <1>4 DEF IInv

\* An offline tool starts with the saved manifest as its copy.
LEMMA InvOfflineStart == ASSUME IInv, TypeOK', OfflineStart PROVE IInv'
<1> USE DEF disk, visit
<1>1. /\ tool' \in Offline /\ pc' = "next" /\ mem' = manifest /\ pc = "idle"
      /\ UNCHANGED <<manifest, blob, torn>>
  BY DEF OfflineStart
<1>2. ~Visiting' /\ ~Patching'
  BY <1>1, ClassFacts DEF Visiting, Patching
<1>3. DiskInv' /\ ListingInv'
  BY <1>1, <1>2, DiskUnchanged DEF ListingInv
<1>4. MemInv'
  <2> SUFFICES ASSUME NEW t \in Tracks, t \notin torn'
               PROVE  Holds(blob'[t], mem'[t])
    BY <1>1, <1>3, ClassFacts DEF MemInv, ListingInv
  <2>1. CASE Listed(manifest[t])
    BY <1>1, <1>3, <2>1 DEF DiskInv, Writing
  <2>2. CASE ~Listed(manifest[t])
    BY <1>1, <2>2, ClassFacts DEF IInv, ListingInv, Holds, With
  <2> QED BY <2>1, <2>2
<1>5. ControlInv' /\ SweepInv' /\ PatchInv'
  BY <1>1, <1>2, ClassFacts DEF ControlInv, SweepInv, PatchInv
<1> QED BY <1>3, <1>4, <1>5 DEF IInv

\* Seeding a visit: what the manifest claims is taken over with its bytes.
LEMMA InvSweepVisit == ASSUME IInv, TypeOK', SweepVisit PROVE IInv'
<1> USE DEF disk, visit
<1>1. /\ tool = "sweep" /\ pc = "next" /\ tool' = tool /\ pc' = "read" /\ mem' = mem
      /\ UNCHANGED <<manifest, blob, torn>> /\ mem = manifest
  BY DEF SweepVisit, IInv, MemInv
<1>2. PICK t \in todo :
        /\ cur' = t /\ todo' = Remaining(t)
        /\ labels' = [s \in Sectors |->
             IF Prior(mem[t], blob[t], s) THEN mem[t].sectors[s] ELSE "none"]
        /\ buf' = [s \in Sectors |-> Seed(t, s)]
  BY DEF SweepVisit
<1>3. t \in Tracks
  BY DEF IInv, TypeOK
<1>4. Visiting' /\ ~Patching'
  BY <1>1, ClassFacts DEF Visiting, Patching
<1>5. \A s \in Sectors : buf'[s] # Missing
  BY <1>2, <1>3, BlockFacts DEF Seed, Prior, IInv, ListingInv
<1>6. DiskInv' /\ ListingInv'
  BY <1>1, <1>4, <1>5, DiskUnchanged DEF ListingInv
<1>7. \A s \in With(mem[t], Recovered) : labels'[s] = mem[t].sectors[s]
  <2> SUFFICES ASSUME NEW s \in With(mem[t], Recovered)
               PROVE  labels'[s] = mem[t].sectors[s]
    OBVIOUS
  <2>1. Listed(manifest[t])
    BY <1>1, <1>3, ClassFacts DEF With, IInv, ListingInv
  <2>2. blob[t] # NoFile
    BY <1>3, <2>1 DEF IInv, ListingInv
  <2> QED BY <1>2, <2>2 DEF Prior, With
<1>8. ASSUME t \notin torn, NEW s \in Sectors
      PROVE  IF labels'[s] = "none" THEN buf'[s] = Zero ELSE Backs(s, labels'[s], buf'[s])
  <2>1. CASE Prior(mem[t], blob[t], s)
    <3>1. s \in With(manifest[t], Recovered)
      BY <1>1, <2>1 DEF Prior, With
    <3>2. Listed(manifest[t])
      BY <1>3, <3>1, ClassFacts DEF With, IInv, ListingInv
    <3>3. Holds(blob[t], manifest[t])
      BY <1>1, <1>3, <1>8, <3>2 DEF IInv, DiskInv, Writing
    <3> QED BY <1>1, <1>2, <2>1, <3>1, <3>3, ClassFacts DEF Seed, Prior, Holds
  <2>2. CASE ~Prior(mem[t], blob[t], s)
    BY <1>2, <2>2 DEF Seed
  <2> QED BY <2>1, <2>2
<1>9. SweepInv'
  BY <1>1, <1>2, <1>7, <1>8 DEF SweepInv
<1>10. ControlInv' /\ MemInv' /\ PatchInv'
  BY <1>1, <1>4, ClassFacts DEF ControlInv, MemInv, PatchInv
<1> QED BY <1>6, <1>9, <1>10 DEF IInv

\* A read and its archiving touch neither `merged` nor the track files.
LEMMA InvSweepRead ==
  ASSUME IInv, TypeOK', SweepCapture \/ SweepArchive PROVE IInv'
<1> USE DEF disk, visit
<1>1. /\ tool = "sweep" /\ pc \in {"read", "archive"} /\ tool' = tool
      /\ pc' \in {"archive", "decode"}
      /\ UNCHANGED <<manifest, blob, torn, mem, cur, labels, buf>>
  BY DEF SweepCapture, SweepArchive
<1>2. Visiting /\ Visiting' /\ ~Patching'
  BY <1>1, ClassFacts DEF Visiting, Patching
<1>3. DiskInv' /\ ListingInv'
  BY <1>1, <1>2, DiskUnchanged DEF ListingInv, IInv
<1>4. SweepInv'
  BY <1>1, <1>2 DEF SweepInv, IInv, With, Backs
<1>5. ControlInv' /\ MemInv' /\ PatchInv'
  BY <1>1, <1>2, ClassFacts DEF ControlInv, MemInv, PatchInv, IInv
<1> QED BY <1>3, <1>4, <1>5 DEF IInv

\* Merging adds sectors, or replaces corrected bytes by clean ones.
LEMMA InvSweepDecode == ASSUME IInv, TypeOK', SweepDecode PROVE IInv'
<1> USE DEF disk, visit
<1> DEFINE better == {s \in Sectors : Improves(labels[s], Decode[last][s])}
<1>1. /\ tool = "sweep" /\ pc = "decode" /\ tool' = tool /\ pc' \in {"open", "read"}
      /\ UNCHANGED <<manifest, blob, torn, mem, cur>>
      /\ labels' = [s \in Sectors |-> IF s \in better THEN Label(labels[s], Decode[last][s])
                                      ELSE labels[s]]
      /\ buf' = [s \in Sectors |-> IF s \in better
                                   THEN <<s, Label(labels[s], Decode[last][s])>> ELSE buf[s]]
  BY DEF SweepDecode
<1>2. Visiting /\ Visiting' /\ ~Patching'
  BY <1>1, ClassFacts DEF Visiting, Patching
<1>3. \A s \in Sectors : buf'[s] # Missing
  BY <1>1, <1>2, LabelType, BlockFacts DEF IInv, ListingInv
<1>4. DiskInv' /\ ListingInv'
  BY <1>1, <1>2, <1>3, DiskUnchanged DEF ListingInv
<1>5. ASSUME NEW s \in With(mem[cur], Recovered)
      PROVE  \/ labels'[s] = mem[cur].sectors[s]
             \/ labels'[s] = "valid" /\ mem[cur].sectors[s] = "corrected"
  <2>1. s \in Sectors /\ mem[cur].sectors[s] \in Recovered
    BY DEF With
  <2>2. \/ labels[s] = mem[cur].sectors[s]
        \/ labels[s] = "valid" /\ mem[cur].sectors[s] = "corrected"
    BY <1>2 DEF IInv, SweepInv
  <2>3. CASE s \in better
    BY <1>1, <2>1, <2>2, <2>3, ClassFacts DEF Improves, Label
  <2>4. CASE s \notin better
    BY <1>1, <2>1, <2>2, <2>4
  <2> QED BY <2>3, <2>4
<1>6. ASSUME cur \notin torn, NEW s \in Sectors
      PROVE  IF labels'[s] = "none" THEN buf'[s] = Zero ELSE Backs(s, labels'[s], buf'[s])
  <2>1. IF labels[s] = "none" THEN buf[s] = Zero ELSE Backs(s, labels[s], buf[s])
    BY <1>2, <1>6 DEF IInv, SweepInv
  <2>2. CASE s \in better
    BY <1>1, <2>2, LabelType DEF Backs
  <2>3. CASE s \notin better
    BY <1>1, <2>1, <2>3
  <2> QED BY <2>2, <2>3
<1>7. SweepInv'
  BY <1>1, <1>5, <1>6 DEF SweepInv, With
<1>8. ControlInv' /\ MemInv' /\ PatchInv'
  BY <1>1, <1>2, ClassFacts DEF ControlInv, MemInv, PatchInv, IInv
<1> QED BY <1>4, <1>7, <1>8 DEF IInv

\* The entry saved claims what `merged` holds, and the file holds it already.
LEMMA InvSweepRecord == ASSUME IInv, TypeOK', SweepRecord PROVE IInv'
<1> USE DEF disk, visit
<1>1. /\ tool = "sweep" /\ pc = "record" /\ tool' = tool /\ pc' = "next"
      /\ mem' = [mem EXCEPT ![cur] = SweepEntry] /\ manifest' = mem' /\ mem = manifest
      /\ UNCHANGED <<blob, torn, cur, buf>>
  BY DEF SweepRecord, IInv, MemInv
<1>2. Visiting /\ ~Visiting' /\ ~Patching' /\ cur \in Tracks
  BY <1>1, ClassFacts DEF Visiting, Patching, IInv, TypeOK
<1>3. /\ manifest'[cur] = SweepEntry
      /\ \A t \in Tracks \ {cur} : manifest'[t] = manifest[t]
  BY <1>1, <1>2 DEF IInv, TypeOK
<1>4. Listed(SweepEntry)
  BY DEF SweepEntry, Listed
<1>5. blob[cur] # NoFile /\ \A s \in Sectors : blob[cur][s] # Missing
  BY <1>1, <1>2 DEF IInv, ListingInv, SweepInv
<1>6. ASSUME cur \notin torn PROVE Solid(blob[cur]) /\ Holds(blob[cur], SweepEntry)
  <2>1. /\ blob[cur] = buf
        /\ \A s \in Sectors :
             IF labels[s] = "none" THEN buf[s] = Zero ELSE Backs(s, labels[s], buf[s])
    BY <1>1, <1>2, <1>6 DEF IInv, SweepInv
  <2>2. \A s \in Sectors : labels[s] = "none" \/ labels[s] \in Recovered
    BY DEF IInv, TypeOK
  <2>3. Solid(buf)
    BY <2>1, <2>2 DEF Solid, Backs, Recovered
  <2>4. Holds(buf, SweepEntry)
    <3> SUFFICES ASSUME NEW s \in With(SweepEntry, Recovered)
                 PROVE  Backs(s, SweepEntry.sectors[s], buf[s])
      BY DEF Holds
    <3>1. s \in Sectors /\ SweepEntry.sectors[s] \in Recovered
      BY DEF With
    <3>2. SweepEntry.sectors[s] = IF labels[s] # "none" THEN labels[s] ELSE verdict[s]
      BY <3>1 DEF SweepEntry
    <3>3. verdict[s] \notin Recovered
      BY <3>1, ClassFacts DEF IInv, TypeOK
    <3> QED BY <2>1, <3>1, <3>2, <3>3
  <2> QED BY <2>1, <2>3, <2>4
<1>7. DiskInv'
  <2> SUFFICES ASSUME NEW t \in Tracks, t \notin torn, Listed(manifest'[t])
               PROVE  Solid(blob[t]) /\ Holds(blob[t], manifest'[t])
    BY <1>1 DEF DiskInv
  <2>1. CASE t = cur
    BY <1>3, <1>6, <2>1
  <2>2. CASE t # cur
    BY <1>1, <1>3, <2>2 DEF IInv, DiskInv, Writing
  <2> QED BY <2>1, <2>2
<1>8. ListingInv'
  <2> SUFFICES ASSUME NEW t \in Tracks
               PROVE  /\ ~Listed(manifest'[t]) => With(manifest'[t], Classes) = {}
                      /\ Listed(manifest'[t]) => blob[t] # NoFile
                      /\ blob[t] # NoFile => \A s \in Sectors : blob[t][s] # Missing
    BY <1>1, <1>2 DEF ListingInv
  <2>1. CASE t = cur
    BY <1>3, <1>4, <1>5, <2>1
  <2>2. CASE t # cur
    BY <1>3, <2>2 DEF IInv, ListingInv
  <2> QED BY <2>1, <2>2
<1>9. ControlInv' /\ MemInv' /\ SweepInv' /\ PatchInv'
  BY <1>1, <1>2, ClassFacts DEF ControlInv, MemInv, SweepInv, PatchInv
<1> QED BY <1>7, <1>8, <1>9 DEF IInv

\* While the track file is truncated nothing is asked of it.
LEMMA InvOpenBlob == ASSUME IInv, TypeOK', OpenBlob PROVE IInv'
<1> USE DEF disk, visit
<1>1. /\ pc = "open" /\ pc' = "write" /\ blob' = [blob EXCEPT ![cur] = Empty]
      /\ UNCHANGED <<manifest, torn, tool, mem, cur, labels, buf, wins, dryRun>>
  BY DEF OpenBlob
<1>2. /\ Visiting' <=> Visiting
      /\ Patching' <=> Patching
      /\ cur \in Tracks
  BY <1>1 DEF Visiting, Patching, IInv, TypeOK
<1>3. /\ blob'[cur] = Empty
      /\ \A t \in Tracks \ {cur} : blob'[t] = blob[t]
  BY <1>1, <1>2 DEF IInv, TypeOK
<1>4. Empty # NoFile /\ \A s \in Sectors : Empty[s] # Missing
  <2>1. 0 \in Sectors
    BY NSAssumption DEF Sectors
  <2>2. Empty[0] # NoFile[0]
    BY <2>1, BlockFacts DEF Empty, NoFile
  <2> QED BY <2>2, BlockFacts DEF Empty
<1>5. ListingInv'
  BY <1>1, <1>2, <1>3, <1>4 DEF IInv, ListingInv
<1>6. DiskInv'
  BY <1>1, <1>3 DEF IInv, DiskInv, Writing, Listed, Holds, With, Solid, Backs
<1>7. MemInv'
  <2>1. CASE tool \in Offline
    <3>1. Patching
      BY <1>1, <2>1 DEF Patching
    <3> QED BY <1>1, <1>2, <1>3, <2>1, <3>1, ClassFacts DEF IInv, MemInv, Holds, With, Backs, Listed
  <2>2. CASE tool \notin Offline
    BY <1>1, <2>2 DEF IInv, MemInv
  <2> QED BY <2>1, <2>2
<1>8. SweepInv' /\ PatchInv'
  BY <1>1, <1>2 DEF IInv, SweepInv, PatchInv, With, Backs, Listed, Solid, Holds
<1>9. ControlInv'
  BY <1>1, <1>2 DEF IInv, ControlInv, Visiting, Patching
<1> QED BY <1>5, <1>6, <1>7, <1>8, <1>9 DEF IInv

\* The file written holds what was to be written, each sector in its place.
LEMMA InvWriteBlob == ASSUME IInv, TypeOK', WriteBlob PROVE IInv'
<1> USE DEF disk, visit
<1> DEFINE file == IF tool = "sweep" THEN Image(buf) ELSE buf
<1>1. /\ pc = "write" /\ pc' = IF tool = "sweep" THEN "record" ELSE "count"
      /\ blob' = [blob EXCEPT ![cur] = file]
      /\ UNCHANGED <<manifest, torn, tool, mem, cur, labels, buf, wins, dryRun>>
  BY DEF WriteBlob
<1>2. Visiting \/ Patching
  BY <1>1, ClassFacts DEF IInv, ControlInv, TypeOK
<1>3. /\ cur \in Tracks /\ buf \in [Sectors -> Blocks]
      /\ \A s \in Sectors : buf[s] # Missing
  BY <1>2 DEF IInv, TypeOK, ListingInv
<1>4. /\ blob'[cur] = file
      /\ \A t \in Tracks \ {cur} : blob'[t] = blob[t]
  <2> HIDE DEF file
  <2> QED BY <1>1, <1>3 DEF IInv, TypeOK
<1>5. /\ \A s \in Sectors : file[s] # Missing
      /\ file # NoFile
  <2>1. \A s \in Sectors : file[s] # Missing
    BY <1>3, ImageType
  <2>2. 0 \in Sectors /\ NoFile[0] = Missing
    BY NSAssumption DEF Sectors, NoFile
  <2> HIDE DEF file
  <2> QED BY <2>1, <2>2
<1>6. CASE tool = "sweep"
  <2>1. Visiting /\ Visiting' /\ ~Patching' /\ mem = manifest /\ tool' = "sweep"
    BY <1>1, <1>6, <1>2, ClassFacts DEF Visiting, Patching, IInv, MemInv
  <2>2. ASSUME cur \notin torn
        PROVE  /\ file = buf /\ Solid(buf)
               /\ \A s \in With(mem[cur], Recovered) : Backs(s, mem[cur].sectors[s], buf[s])
    <3>1. \A s \in Sectors :
            IF labels[s] = "none" THEN buf[s] = Zero ELSE Backs(s, labels[s], buf[s])
      BY <2>1, <2>2 DEF IInv, SweepInv
    <3>2. \A s \in Sectors : labels[s] = "none" \/ labels[s] \in Recovered
      BY DEF IInv, TypeOK
    <3>3. Solid(buf)
      BY <3>1, <3>2 DEF Solid, Backs, Recovered
    <3>4. \A s \in Sectors : buf[s] # NoBytes
      BY <3>3, BlockFacts DEF Solid
    <3>5. file = buf
      BY <1>3, <1>6, <3>4, ImageInPlace
    <3>6. ASSUME NEW s \in With(mem[cur], Recovered)
          PROVE  Backs(s, mem[cur].sectors[s], buf[s])
      <4>1. s \in Sectors /\ mem[cur].sectors[s] \in Recovered
        BY DEF With
      <4>2. \/ labels[s] = mem[cur].sectors[s]
            \/ labels[s] = "valid" /\ mem[cur].sectors[s] = "corrected"
        BY <2>1 DEF IInv, SweepInv
      <4> QED BY <3>1, <4>1, <4>2, ClassFacts DEF Backs
    <3> QED BY <3>3, <3>5, <3>6
  <2> HIDE DEF file
  <2>3. DiskInv'
    <3> SUFFICES ASSUME NEW t \in Tracks, t \notin torn, Listed(manifest[t])
                 PROVE  Solid(blob'[t]) /\ Holds(blob'[t], manifest[t])
      BY <1>1 DEF DiskInv
    <3>1. CASE t = cur
      BY <1>4, <2>1, <2>2, <3>1 DEF Holds
    <3>2. CASE t # cur
      BY <1>4, <3>2 DEF IInv, DiskInv, Writing
    <3> QED BY <3>1, <3>2
  <2>4. ListingInv'
    BY <1>1, <1>3, <1>4, <1>5 DEF IInv, ListingInv
  <2>5. SweepInv'
    BY <1>1, <1>4, <1>5, <1>6, <2>1, <2>2 DEF IInv, SweepInv, With, Backs
  <2>6. ControlInv' /\ MemInv' /\ PatchInv'
    BY <1>1, <1>6, <2>1, ClassFacts DEF ControlInv, MemInv, PatchInv
  <2> QED BY <2>3, <2>4, <2>5, <2>6 DEF IInv
<1>7. CASE tool # "sweep"
  <2>1. Patching /\ ~Patching' /\ ~Visiting' /\ tool' \in Offline /\ pc' = "count"
    BY <1>1, <1>2, <1>7 DEF Visiting, Patching
  <2>2. /\ file = buf /\ Listed(mem[cur]) /\ ~dryRun
        /\ cur \notin torn => Solid(buf) /\ Holds(buf, mem[cur])
    BY <1>1, <1>7, <2>1 DEF IInv, PatchInv, ControlInv
  <2> HIDE DEF file
  <2>3. \A t \in Tracks :
          /\ Listed(mem[t]) <=> Listed(manifest[t])
          /\ ~Listed(mem[t]) => With(mem[t], Classes) = {}
          /\ \A s \in With(manifest[t], Recovered) :
               mem[t].sectors[s] = manifest[t].sectors[s]
          /\ t \notin torn /\ t # cur => Holds(blob[t], mem[t])
    BY <2>1, <2>2 DEF IInv, MemInv, Patching
  <2>4. DiskInv'
    <3> SUFFICES ASSUME NEW t \in Tracks, t \notin torn, Listed(manifest[t])
                 PROVE  Solid(blob'[t]) /\ Holds(blob'[t], manifest[t])
      BY <1>1 DEF DiskInv
    <3>1. CASE t = cur
      BY <1>4, <2>2, <2>3, <3>1 DEF Holds, With
    <3>2. CASE t # cur
      BY <1>4, <3>2 DEF IInv, DiskInv, Writing
    <3> QED BY <3>1, <3>2
  <2>5. ListingInv'
    BY <1>1, <1>3, <1>4, <1>5 DEF IInv, ListingInv
  <2>6. MemInv'
    <3>1. \A t \in Tracks : t \notin torn => Holds(blob'[t], mem[t])
      BY <1>4, <2>2, <2>3
    <3> QED BY <1>1, <1>7, <2>3, <3>1 DEF MemInv
  <2>7. ControlInv' /\ SweepInv' /\ PatchInv'
    BY <1>1, <2>1, ClassFacts DEF ControlInv, SweepInv, PatchInv
  <2> QED BY <2>4, <2>5, <2>6, <2>7 DEF IInv
<1> QED BY <1>6, <1>7

\* An offline tool starts on a track with the bytes of its file.
LEMMA InvOfflineVisit == ASSUME IInv, TypeOK', OfflineVisit PROVE IInv'
<1> USE DEF disk, visit
<1>1. /\ tool \in Offline /\ pc = "next" /\ tool' = tool
      /\ pc' \in {"patch", "count", "next"}
      /\ UNCHANGED <<manifest, blob, torn, mem, dryRun>>
  BY DEF OfflineVisit
<1>2. PICK t \in todo :
        /\ cur' = t /\ todo' = Remaining(t)
        /\ buf' = IF blob[t] = NoFile THEN Zeros ELSE blob[t]
        /\ \E W \in SUBSET Targets(tool, mem[t]) :
             /\ W # {} => Readable(tool, t)
             /\ wins' = W
             /\ pc' = IF W # {} THEN "patch" ELSE IF tool = "deep" THEN "count" ELSE "next"
  BY DEF OfflineVisit
<1>3. t \in Tracks /\ ~Visiting' /\ ~Patching
  BY <1>1, ClassFacts DEF IInv, TypeOK, Visiting, Patching
<1>4. \A s \in Sectors : buf'[s] # Missing
  BY <1>2, <1>3, BlockFacts DEF IInv, ListingInv, Zeros
<1>5. DiskInv' /\ ListingInv'
  BY <1>1, <1>4, DiskUnchanged DEF ListingInv
<1>6. \A u \in Tracks :
        /\ Listed(mem[u]) <=> Listed(manifest[u])
        /\ ~Listed(mem[u]) => With(mem[u], Classes) = {}
        /\ \A s \in With(manifest[u], Recovered) : mem[u].sectors[s] = manifest[u].sectors[s]
        /\ u \notin torn /\ ~dryRun => Holds(blob[u], mem[u])
  BY <1>1, <1>3 DEF IInv, MemInv
<1>7. MemInv'
  BY <1>1, <1>6, ClassFacts DEF MemInv
<1>8. ASSUME Patching' PROVE PatchInv'
  <2>1. pc' = "patch" /\ wins' # {} /\ wins' \subseteq Targets(tool, mem[t])
    BY <1>1, <1>2, <1>8 DEF Patching
  <2>2. \A s \in wins' : s \in Sectors /\ mem[t].sectors[s] \in Dead
    BY <2>1 DEF Targets, With, Dead
  <2>3. Listed(mem[t])
    BY <1>3, <1>6, <2>1, <2>2, ClassFacts DEF With
  <2>4. wins' \cap With(mem[t], Recovered) = {}
    BY <2>2, ClassFacts DEF With
  <2>5. ASSUME t \notin torn, ~dryRun PROVE Solid(buf') /\ Holds(buf', mem[t])
    <3>1. buf' = blob[t]
      BY <1>2, <1>3, <1>6, <2>3 DEF IInv, ListingInv
    <3>2. Solid(blob[t])
      BY <1>1, <1>3, <1>6, <2>3, <2>5 DEF IInv, DiskInv, Writing
    <3> QED BY <1>3, <1>6, <2>5, <3>1, <3>2
  <2> QED BY <1>1, <1>2, <2>3, <2>4, <2>5 DEF PatchInv
<1>9. PatchInv'
  BY <1>8 DEF PatchInv
<1>10. ControlInv' /\ SweepInv'
  <2>1. pc' = "patch" => Patching'
    BY <1>1 DEF Patching
  <2> QED BY <1>1, <1>3, <2>1, ClassFacts DEF ControlInv, SweepInv, Patching
<1> QED BY <1>5, <1>7, <1>9, <1>10 DEF IInv

\* A recovered sector was dead, and gets its bytes with its claim.
LEMMA InvOfflinePatch == ASSUME IInv, TypeOK', OfflinePatch PROVE IInv'
<1> USE DEF disk, visit
<1>1. /\ tool \in Offline /\ pc = "patch" /\ tool' = tool /\ pc' \in {"patch", "tally"}
      /\ UNCHANGED <<manifest, blob, torn, cur, dryRun>>
  BY DEF OfflinePatch
<1>2. PICK s \in wins :
        /\ wins' = wins \ {s}
        /\ buf' = Put(buf, s, <<s, Label3[tool]>>)
        /\ mem' = [mem EXCEPT ![cur].sectors[s] = Label3[tool]]
  BY DEF OfflinePatch
<1> DEFINE c == Label3[tool]
<1>3. Patching /\ Patching' /\ ~Visiting' /\ cur \in Tracks /\ s \in Sectors
      /\ c \in Recovered
  BY <1>1, ClassFacts DEF Patching, Visiting, IInv, TypeOK
<1> HIDE DEF c
<1>4. /\ mem'[cur].status = mem[cur].status
      /\ mem'[cur].sectors = [mem[cur].sectors EXCEPT ![s] = c]
      /\ \A t \in Tracks \ {cur} : mem'[t] = mem[t]
  BY <1>2, <1>3 DEF IInv, TypeOK, Entries, c
<1>5. mem[cur].sectors \in [Sectors -> Classes \cup {"unseen"}]
  BY <1>3 DEF IInv, TypeOK, Entries
<1>6. /\ Listed(mem[cur]) /\ s \notin With(mem[cur], Recovered)
      /\ wins \cap With(mem[cur], Recovered) = {}
      /\ cur \notin torn /\ ~dryRun => Solid(buf) /\ Holds(buf, mem[cur])
  BY <1>2, <1>3 DEF IInv, PatchInv
<1>7. /\ mem'[cur].sectors[s] = c
      /\ \A u \in Sectors \ {s} : mem'[cur].sectors[u] = mem[cur].sectors[u]
  BY <1>3, <1>4, <1>5
<1>8. \A u \in Sectors : buf'[u] # Missing
  <2>1. buf \in [Sectors -> Blocks] /\ \A u \in Sectors : buf[u] # Missing
    BY <1>3 DEF IInv, TypeOK, ListingInv
  <2> DEFINE b == <<s, c>>
  <2>2. b \in Blocks /\ b # Missing
    BY <1>3, BlockFacts
  <2>3. buf' = Put(buf, s, b)
    BY <1>2 DEF c
  <2> HIDE DEF b
  <2>4. \A u \in Sectors : Put(buf, s, b)[u] # Missing
    BY <1>3, <2>1, <2>2, PutType
  <2> QED BY <2>3, <2>4
<1>9. DiskInv' /\ ListingInv'
  BY <1>1, <1>8, DiskUnchanged DEF ListingInv
<1>10. MemInv'
  <2> SUFFICES ASSUME NEW t \in Tracks
               PROVE  /\ Listed(mem'[t]) <=> Listed(manifest[t])
                      /\ ~Listed(mem'[t]) => With(mem'[t], Classes) = {}
                      /\ \A u \in With(manifest[t], Recovered) :
                           mem'[t].sectors[u] = manifest[t].sectors[u]
                      /\ t \notin torn /\ ~dryRun /\ t # cur => Holds(blob[t], mem'[t])
    BY <1>1, <1>3, ClassFacts DEF MemInv
  <2>1. /\ Listed(mem[t]) <=> Listed(manifest[t])
        /\ ~Listed(mem[t]) => With(mem[t], Classes) = {}
        /\ \A u \in With(manifest[t], Recovered) : mem[t].sectors[u] = manifest[t].sectors[u]
        /\ t \notin torn /\ ~dryRun /\ t # cur => Holds(blob[t], mem[t])
    BY <1>1 DEF IInv, MemInv
  <2>2. CASE t = cur
    <3>1. Listed(mem'[cur]) /\ Listed(manifest[cur])
      BY <1>4, <1>6, <2>1, <2>2 DEF Listed
    <3>2. ASSUME NEW u \in With(manifest[cur], Recovered)
          PROVE  mem'[cur].sectors[u] = manifest[cur].sectors[u]
      <4>1. u \in Sectors /\ mem[cur].sectors[u] = manifest[cur].sectors[u]
            /\ manifest[cur].sectors[u] \in Recovered
        BY <2>1, <2>2 DEF With
      <4>2. u # s
        BY <1>6, <4>1 DEF With
      <4> QED BY <1>7, <4>1, <4>2
    <3> QED BY <2>2, <3>1, <3>2
  <2>3. CASE t # cur
    BY <1>4, <2>1, <2>3
  <2> QED BY <2>2, <2>3
<1>11. PatchInv'
  <2>1. Listed(mem'[cur])
    BY <1>4, <1>6 DEF Listed
  <2>2. wins' \cap With(mem'[cur], Recovered) = {}
    BY <1>2, <1>6, <1>7 DEF With
  <2>3. ASSUME cur \notin torn, ~dryRun PROVE Solid(buf') /\ Holds(buf', mem'[cur])
    <3>1. Solid(buf) /\ Holds(buf, mem[cur])
      BY <1>6, <2>3
    <3>2. buf[s] # NoBytes
      BY <1>3, <3>1, BlockFacts DEF Solid
    <3>3. buf \in [Sectors -> Blocks] /\ <<s, c>> \in Blocks
      BY <1>3, BlockFacts DEF IInv, TypeOK
    <3>4. buf' = [buf EXCEPT ![s] = <<s, c>>]
      BY <1>2, <1>3, <3>2, <3>3, PutType DEF c
    <3>5. Solid(buf')
      BY <1>3, <3>1, <3>3, <3>4 DEF Solid
    <3>6. Holds(buf', mem'[cur])
      BY <1>3, <1>7, <3>1, <3>3, <3>4 DEF Holds, With, Backs
    <3> QED BY <3>5, <3>6
  <2> QED BY <1>1, <2>1, <2>2, <2>3 DEF PatchInv
<1>12. ControlInv' /\ SweepInv'
  BY <1>1, <1>3, ClassFacts DEF ControlInv, SweepInv
<1> QED BY <1>9, <1>10, <1>11, <1>12 DEF IInv

\* The tally changes what an entry says of the whole, not of its sectors.
LEMMA InvOfflineTally == ASSUME IInv, TypeOK', OfflineTally PROVE IInv'
<1> USE DEF disk, visit
<1>1. /\ tool \in Offline /\ pc = "tally" /\ tool' = tool
      /\ pc' = IF ~dryRun THEN "open" ELSE IF tool = "deep" THEN "count" ELSE "next"
      /\ UNCHANGED <<manifest, blob, torn, cur, buf, wins, dryRun>>
  BY DEF OfflineTally
<1>2. PICK v : mem' = [mem EXCEPT ![cur].valid = v,
                                 ![cur].status = IF v = NS THEN "complete" ELSE @]
  BY DEF OfflineTally
<1>3. Patching /\ ~Visiting' /\ cur \in Tracks
  BY <1>1, ClassFacts DEF Patching, Visiting, IInv, TypeOK
<1>4. /\ mem'[cur].status = IF v = NS THEN "complete" ELSE mem[cur].status
      /\ mem'[cur].sectors = mem[cur].sectors
      /\ \A t \in Tracks \ {cur} : mem'[t] = mem[t]
  BY <1>2, <1>3 DEF IInv, TypeOK, Entries
<1>5. /\ Listed(mem[cur])
      /\ wins \cap With(mem[cur], Recovered) = {}
      /\ cur \notin torn /\ ~dryRun => Solid(buf) /\ Holds(buf, mem[cur])
  BY <1>3 DEF IInv, PatchInv
<1>6. /\ Listed(mem'[cur])
      /\ \A S : With(mem'[cur], S) = With(mem[cur], S)
      /\ Holds(buf, mem'[cur]) <=> Holds(buf, mem[cur])
  BY <1>4, <1>5 DEF Listed, With, Holds
<1>7. DiskInv' /\ ListingInv'
  BY <1>1, <1>3, DiskUnchanged DEF IInv, ListingInv
<1>8. MemInv'
  <2> SUFFICES ASSUME NEW t \in Tracks
               PROVE  /\ Listed(mem'[t]) <=> Listed(manifest[t])
                      /\ ~Listed(mem'[t]) => With(mem'[t], Classes) = {}
                      /\ \A u \in With(manifest[t], Recovered) :
                           mem'[t].sectors[u] = manifest[t].sectors[u]
                      /\ t \notin torn /\ ~dryRun /\ ~(Patching' /\ t = cur) =>
                           Holds(blob[t], mem'[t])
    BY <1>1, ClassFacts DEF MemInv
  <2>1. /\ Listed(mem[t]) <=> Listed(manifest[t])
        /\ ~Listed(mem[t]) => With(mem[t], Classes) = {}
        /\ \A u \in With(manifest[t], Recovered) : mem[t].sectors[u] = manifest[t].sectors[u]
        /\ t \notin torn /\ ~dryRun /\ t # cur => Holds(blob[t], mem[t])
    BY <1>1 DEF IInv, MemInv
  <2>2. ~dryRun => Patching'
    BY <1>1 DEF Patching
  <2>3. CASE t = cur
    BY <1>4, <1>5, <1>6, <2>1, <2>2, <2>3
  <2>4. CASE t # cur
    BY <1>4, <2>1, <2>4
  <2> QED BY <2>3, <2>4
<1>9. PatchInv'
  BY <1>1, <1>5, <1>6 DEF PatchInv
<1>10. ControlInv' /\ SweepInv'
  BY <1>1, <1>3, ClassFacts DEF ControlInv, SweepInv, Patching
<1> QED BY <1>7, <1>8, <1>9, <1>10 DEF IInv

\* Saving the memory of an offline tool between two tracks: the files hold all
\* it claims.
LEMMA SaveMem ==
  ASSUME IInv, tool \in Offline, pc \in {"next", "count"}, ~dryRun,
         manifest' = mem, UNCHANGED <<blob, torn>>, pc' # "write"
  PROVE  /\ DiskInv'
         /\ \A t \in Tracks :
              /\ ~Listed(manifest'[t]) => With(manifest'[t], Classes) = {}
              /\ Listed(manifest'[t]) => blob'[t] # NoFile
              /\ blob'[t] # NoFile => \A s \in Sectors : blob'[t][s] # Missing
<1>1. \A t \in Tracks :
        /\ Listed(mem[t]) <=> Listed(manifest[t])
        /\ ~Listed(mem[t]) => With(mem[t], Classes) = {}
        /\ t \notin torn => Holds(blob[t], mem[t])
  BY DEF IInv, MemInv, Patching
<1>2. DiskInv'
  <2> SUFFICES ASSUME NEW t \in Tracks, t \notin torn, Listed(mem[t])
               PROVE  Solid(blob[t]) /\ Holds(blob[t], mem[t])
    BY DEF DiskInv
  <2> QED BY <1>1 DEF IInv, DiskInv, Writing
<1> QED BY <1>1, <1>2 DEF IInv, ListingInv

\* A checkpoint publishes the tool's copy, which the files already back.
LEMMA InvOfflineCount == ASSUME IInv, TypeOK', OfflineCount PROVE IInv'
<1> USE DEF disk, visit
<1>1. /\ tool \in Offline /\ pc = "count" /\ tool' = tool /\ pc' = "next"
      /\ UNCHANGED <<blob, torn, mem, cur, dryRun>>
      /\ (manifest' = mem /\ ~dryRun) \/ manifest' = manifest
  BY DEF OfflineCount
<1>2. ~Patching /\ ~Patching' /\ ~Visiting'
  BY <1>1, ClassFacts DEF Patching, Visiting
<1>3. DiskInv' /\ ListingInv'
  BY <1>1, <1>2, SaveMem, DiskUnchanged DEF ListingInv
<1>4. MemInv'
  BY <1>1, <1>2, ClassFacts DEF IInv, MemInv, Holds, With, Backs, Listed
<1>5. ControlInv' /\ SweepInv' /\ PatchInv'
  BY <1>1, <1>2, ClassFacts DEF ControlInv, SweepInv, PatchInv
<1> QED BY <1>3, <1>4, <1>5 DEF IInv

\* The four ways a process ends.
LEMMA InvEnds ==
  ASSUME IInv, TypeOK', SweepStop \/ SweepDone \/ OfflineDone \/ Crash PROVE IInv'
<1> USE DEF disk
<1>1. Quit /\ pc' = "idle"
  BY DEF SweepStop, SweepDone, OfflineDone, Crash, Quit
<1>2. CASE SweepStop \/ SweepDone
  <2>1. UNCHANGED <<manifest, blob, torn>> /\ pc # "write"
    BY <1>2 DEF SweepStop, SweepDone, IInv, MemInv
  <2> QED BY <1>1, <2>1, DiskUnchanged, InvQuit
<1>3. CASE OfflineDone
  <2>1. /\ tool \in Offline /\ pc = "next" /\ UNCHANGED <<blob, torn>>
        /\ \/ dryRun /\ manifest' = manifest
           \/ ~dryRun /\ manifest' = mem
    BY <1>3 DEF OfflineDone
  <2> QED BY <1>1, <2>1, SaveMem, DiskUnchanged, InvQuit
<1>4. CASE Crash
  <2>1. /\ UNCHANGED <<manifest, blob>>
        /\ torn' = IF pc = "write" /\ Listed(manifest[cur]) THEN torn \cup {cur} ELSE torn
    BY <1>4 DEF Crash, Listed
  <2>2. DiskInv'
    BY <1>1, <2>1 DEF IInv, DiskInv, Writing, Listed, Solid, Holds, With, Backs
  <2> QED BY <1>1, <2>1, <2>2, InvQuit DEF IInv, ListingInv, With, Listed
<1> QED BY <1>2, <1>3, <1>4

\* Every step of every tool, and every kill, preserves IInv.
LEMMA InvStep == IInv /\ [Next]_vars => IInv'
<1> SUFFICES ASSUME IInv, [Next]_vars PROVE IInv'
  OBVIOUS
<1>1. TypeOK'
  BY TypeStep DEF IInv
<1>2. CASE Next
  BY <1>1, <1>2, InvSweepStart, InvOfflineStart, InvSweepVisit, InvSweepRead,
     InvSweepDecode, InvSweepRecord, InvOpenBlob, InvWriteBlob, InvOfflineVisit,
     InvOfflinePatch, InvOfflineTally, InvOfflineCount, InvEnds DEF Next, Work
<1>3. CASE UNCHANGED vars
  <2> USE <1>3 DEF vars
  <2>1. (Visiting' <=> Visiting) /\ (Patching' <=> Patching)
    BY DEF Visiting, Patching
  <2>2. ControlInv' /\ ListingInv'
    BY <2>1 DEF IInv, ControlInv, ListingInv, Listed, With
  <2>3. DiskInv' /\ SweepInv' /\ PatchInv'
    BY <2>1 DEF IInv, DiskInv, SweepInv, PatchInv, Writing, Listed, With, Solid, Holds, Backs
  <2>4. MemInv'
    BY <2>1 DEF IInv, MemInv, Listed, With, Holds, Backs
  <2> QED BY <1>1, <2>2, <2>3, <2>4 DEF IInv
<1> QED BY <1>2, <1>3

\* The inductive invariant holds of every behaviour.
THEOREM Inductive == Spec => []IInv
BY InvInit, InvStep, PTL DEF Spec

-----------------------------------------------------------------------------
(* What follows from it.                                                   *)

\* The manifest is authoritative for every track whose file no kill has cut
\* short, whatever the tools, their order, and the moments they are killed at.
THEOREM ManifestTrue == Spec => []ClaimedStored
<1>1. IInv => ClaimedStored
  <2> SUFFICES ASSUME IInv, NEW t \in Tracks \ torn, ~Writing(t),
                      NEW s \in With(manifest[t], Recovered)
               PROVE  Backs(s, manifest[t].sectors[s], blob[t][s])
    BY DEF ClaimedStored, Stored
  <2>1. Listed(manifest[t])
    BY ClassFacts DEF IInv, ListingInv, With
  <2> QED BY <2>1 DEF IInv, DiskInv, Holds
<1> QED BY <1>1, Inductive, PTL

\* No block of such a track is another sector's, or missing.
THEOREM NoBlockMisplaced == Spec => []BlocksInPlace
<1>1. IInv => BlocksInPlace
  BY DEF IInv, DiskInv, BlocksInPlace, Listed, Solid
<1> QED BY <1>1, Inductive, PTL

\* A saved manifest claims what the one before it did.
LEMMA ClaimStep ==
  ASSUME IInv, Next, NEW t \in Tracks, NEW s \in With(manifest[t], Recovered)
  PROVE  \/ manifest'[t].sectors[s] = manifest[t].sectors[s]
         \/ manifest[t].sectors[s] = "corrected" /\ manifest'[t].sectors[s] = "valid"
<1> USE DEF disk
<1>1. CASE manifest' = manifest
  BY <1>1
<1>2. CASE SweepRecord
  <2>1. /\ tool = "sweep" /\ pc = "record" /\ mem = manifest
        /\ manifest' = [manifest EXCEPT ![cur] = SweepEntry]
    BY <1>2 DEF SweepRecord, IInv, MemInv
  <2>2. ASSUME NEW u \in With(manifest[cur], Recovered)
        PROVE  \/ SweepEntry.sectors[u] = manifest[cur].sectors[u]
               \/ manifest[cur].sectors[u] = "corrected" /\ SweepEntry.sectors[u] = "valid"
    <3>1. u \in Sectors /\ manifest[cur].sectors[u] \in Recovered
      BY DEF With
    <3>2. \/ labels[u] = manifest[cur].sectors[u]
          \/ labels[u] = "valid" /\ manifest[cur].sectors[u] = "corrected"
      BY <2>1 DEF IInv, SweepInv, Visiting
    <3>3. SweepEntry.sectors[u] = labels[u]
      BY <3>1, <3>2, ClassFacts DEF SweepEntry
    <3> QED BY <3>2, <3>3
  <2> QED BY <2>1, <2>2 DEF IInv, TypeOK
<1>3. CASE tool \in Offline /\ manifest' = mem
  BY <1>3 DEF IInv, MemInv
<1>4. CASE tool = "sweep" /\ manifest' = mem
  BY <1>4 DEF IInv, MemInv
<1> QED BY <1>1, <1>2, <1>3, <1>4 DEF Next, Work, SweepStart, SweepVisit, SweepCapture,
     SweepArchive, SweepDecode, SweepStop, SweepDone, OfflineStart, OfflineVisit,
     OfflinePatch, OfflineTally, OfflineCount, OfflineDone, OpenBlob, WriteBlob, Crash

\* The saved manifest gives no claim up, on any track, even one cut short.
THEOREM ClaimsKept == Spec => ClaimsOnlyGrow
<1> DEFINE Kept ==
      \A t \in Tracks : \A s \in With(manifest[t], Recovered) :
        \/ manifest'[t].sectors[s] = manifest[t].sectors[s]
        \/ manifest[t].sectors[s] = "corrected" /\ manifest'[t].sectors[s] = "valid"
<1>1. IInv /\ [Next]_vars => [Kept]_vars
  BY ClaimStep
<1> QED BY <1>1, Inductive, PTL DEF Spec, ClaimsOnlyGrow

-----------------------------------------------------------------------------
(* What the tools count and call complete.                                 *)

\* A larger set of sectors has no fewer members.
LEMMA CountGrows ==
  ASSUME NEW A, NEW B, A \subseteq B, B \subseteq Sectors
  PROVE  /\ Cardinality(A) <= Cardinality(B)
         /\ Cardinality(A) \in 0 .. NS /\ Cardinality(B) \in 0 .. NS
         /\ Cardinality(A) = NS => B = Sectors
<1>1. IsFiniteSet(B) /\ IsFiniteSet(Sectors) /\ Cardinality(Sectors) = NS
  BY SectorCount, FS_Subset
<1>2. Cardinality(A) <= Cardinality(B)
  BY <1>1, FS_Subset
<1>3. /\ Cardinality(A) \in 0 .. NS /\ Cardinality(B) \in 0 .. NS
  BY SectorCount
<1>4. ASSUME Cardinality(A) = NS PROVE A = Sectors
  BY <1>1, <1>4, FS_Subset
<1> QED BY <1>2, <1>3, <1>4

\* The manifest no process holds claims nothing, and counts nothing.
LEMMA BlankHonest == \A t \in Tracks : Honest(BlankManifest[t])
<1>1. With(NoEntry, Recovered) \subseteq Sectors
  BY DEF With
<1>2. Cardinality(With(NoEntry, Recovered)) \in 0 .. NS
  BY <1>1, CountGrows
<1> QED BY <1>2, NSAssumption DEF BlankManifest, Honest, NoEntry

\* The entry of a sweep counts exactly what it calls recovered.
LEMMA SweepEntryHonest == ASSUME TypeOK PROVE Honest(SweepEntry)
<1> DEFINE got == {s \in Sectors : labels[s] # "none"}
<1>1. With(SweepEntry, Recovered) = got
  <2>1. \A s \in Sectors : /\ s \in got => labels[s] \in Recovered
                           /\ s \notin got => verdict[s] \notin Recovered
    BY ClassFacts DEF TypeOK
  <2> QED BY <2>1 DEF With, SweepEntry
<1>2. Cardinality(got) \in 0 .. NS
  BY SectorCount
<1> QED BY <1>1, <1>2 DEF Honest, SweepEntry

\* An entry with more recovered sectors and the same count stays honest.
LEMMA HonestGrows ==
  ASSUME NEW e \in Entries, NEW f \in Entries, Honest(e),
         f.valid = e.valid, f.status = e.status,
         With(e, Recovered) \subseteq With(f, Recovered)
  PROVE  Honest(f)
<1>1. With(f, Recovered) \subseteq Sectors /\ f.valid \in 0 .. NS /\ e.valid \in 0 .. NS
  BY DEF With, Entries
<1>2. /\ Cardinality(With(e, Recovered)) <= Cardinality(With(f, Recovered))
      /\ Cardinality(With(e, Recovered)) \in 0 .. NS
      /\ Cardinality(With(f, Recovered)) \in 0 .. NS
  BY <1>1, CountGrows
<1>3. /\ e.valid <= Cardinality(With(e, Recovered))
      /\ e.status = "complete" => With(e, Recovered) = Sectors
  BY DEF Honest
<1>4. f.valid <= Cardinality(With(f, Recovered))
  BY <1>1, <1>2, <1>3
<1>5. f.status = "complete" => With(f, Recovered) = Sectors
  BY <1>1, <1>3
<1> QED BY <1>4, <1>5 DEF Honest

\* Every step keeps the counts: an offline tool recovers a sector before it
\* counts it, and counts no class that is not recovered.
LEMMA CountStep == ASSUME IInv, CountInv, TypeOK', Next PROVE CountInv'
<1> USE DEF disk, visit
<1>1. TypeOK
  BY DEF IInv
<1>2. CASE UNCHANGED <<manifest, mem>>
  BY <1>2 DEF CountInv
<1>3. CASE mem' \in {manifest, BlankManifest} /\ manifest' \in {manifest, mem}
  BY <1>3, BlankHonest DEF CountInv
<1>4. CASE manifest' \in {manifest, mem} /\ mem' = mem
  BY <1>4 DEF CountInv
<1>5. CASE SweepRecord
  <2>1. \A t \in Tracks : Honest(mem'[t])
    BY <1>1, <1>5, SweepEntryHonest DEF SweepRecord, CountInv, TypeOK
  <2> QED BY <1>5, <2>1 DEF SweepRecord, CountInv
<1>6. CASE OfflinePatch
  <2>1. PICK s \in wins : mem' = [mem EXCEPT ![cur].sectors[s] = Label3[tool]]
    BY <1>6 DEF OfflinePatch
  <2>2. /\ cur \in Tracks /\ mem[cur] \in Entries /\ mem'[cur] \in Entries /\ s \in Sectors
        /\ Label3[tool] \in Recovered
    BY <1>1, <1>6, ClassFacts DEF TypeOK, OfflinePatch
  <2>3. /\ mem'[cur].valid = mem[cur].valid /\ mem'[cur].status = mem[cur].status
        /\ mem'[cur].sectors = [mem[cur].sectors EXCEPT ![s] = Label3[tool]]
        /\ \A t \in Tracks : t # cur => mem'[t] = mem[t]
    BY <1>1, <2>1, <2>2 DEF TypeOK, Entries
  <2>4. With(mem[cur], Recovered) \subseteq With(mem'[cur], Recovered)
    BY <2>2, <2>3 DEF With, Entries
  <2>5. Honest(mem'[cur])
    BY <2>2, <2>3, <2>4, HonestGrows DEF CountInv
  <2> QED BY <1>6, <2>3, <2>5 DEF CountInv, OfflinePatch
<1>7. CASE OfflineTally
  <2> DEFINE v == Cardinality(With(mem[cur], Counted[tool]))
  <2>1. /\ cur \in Tracks /\ mem[cur] \in Entries /\ tool \in Offline
        /\ mem' = [mem EXCEPT ![cur].valid = v,
                              ![cur].status = IF v = NS THEN "complete" ELSE @]
    BY <1>1, <1>7 DEF TypeOK, OfflineTally
  <2>2. /\ mem'[cur].valid = v /\ mem'[cur].sectors = mem[cur].sectors
        /\ mem'[cur].status = IF v = NS THEN "complete" ELSE mem[cur].status
        /\ \A t \in Tracks : t # cur => mem'[t] = mem[t]
    BY <1>1, <2>1 DEF TypeOK, Entries
  <2>3. Counted[tool] \subseteq Recovered
    BY <2>1 DEF Counted, Recovered, Offline
  <2>4. /\ With(mem[cur], Counted[tool]) \subseteq With(mem[cur], Recovered)
        /\ With(mem[cur], Recovered) \subseteq Sectors
        /\ With(mem'[cur], Recovered) = With(mem[cur], Recovered)
    BY <2>2, <2>3 DEF With
  <2>5. /\ v <= Cardinality(With(mem[cur], Recovered))
        /\ v = NS => With(mem[cur], Recovered) = Sectors
    BY <2>4, CountGrows
  <2>6. Honest(mem'[cur])
    BY <2>1, <2>2, <2>4, <2>5 DEF Honest, CountInv
  <2> QED BY <1>7, <2>2, <2>6 DEF CountInv, OfflineTally
<1> QED BY <1>2, <1>3, <1>4, <1>5, <1>6, <1>7 DEF Next, Work, Quit, SweepStart, SweepVisit,
       SweepCapture, SweepArchive, SweepDecode, SweepStop, SweepDone, OfflineStart,
       OfflineVisit, OfflineCount, OfflineDone, OpenBlob, WriteBlob, Crash

-----------------------------------------------------------------------------
(* The captures behind the classes.                                        *)


\* A capture's file, once there, stays.
LEMMA FilesGrow ==
  ASSUME TypeOK, NEW t \in Tracks, NEW r,
         \/ raw' = raw
         \/ raw' = [raw EXCEPT ![cur][r] = "empty"]
         \/ raw' = [raw EXCEPT ![cur][r] = "whole"]
  PROVE  Files(t) \subseteq Files(t)'
<1> SUFFICES ASSUME NEW q \in Raws, raw[t][q] # "absent"
             PROVE  raw'[t][q] # "absent"
  BY DEF Files
<1>1. raw \in [Tracks -> [Raws -> {"absent", "empty", "whole"}]] /\ cur \in Tracks
  BY DEF TypeOK
<1>2. ASSUME NEW x \in {"empty", "whole"}, raw' = [raw EXCEPT ![cur][r] = x]
      PROVE  raw'[t][q] # "absent"
  <2>1. CASE t = cur
    <3>1. raw'[t] = [raw[t] EXCEPT ![r] = x]
      BY <1>1, <1>2, <2>1
    <3>2. raw'[t][q] = IF q = r THEN x ELSE raw[t][q]
      BY <1>1, <3>1
    <3> QED BY <3>2
  <2>2. CASE t # cur
    BY <1>1, <1>2, <2>2
  <2> QED BY <2>1, <2>2
<1> QED BY <1>2

\* What a capture shows it still shows when more files are there.
LEMMA ShownGrows ==
  ASSUME NEW t, NEW s, NEW cls, Shown(t, s, cls), Files(t) \subseteq Files(t)'
  PROVE  (Shown(t, s, cls))'
BY DEF Shown

\* The manifest's classes are shown, and so they are after a step that changes
\* neither them nor takes a file away.
LEMMA ShownStays ==
  ASSUME IInv, EvidenceInv, \A t \in Tracks : Files(t) \subseteq Files(t)',
         manifest' = manifest \/ (tool # "none" /\ manifest' = mem)
  PROVE  \A t \in Tracks, s \in Sectors : (Shown(t, s, manifest[t].sectors[s]))'
<1> SUFFICES ASSUME NEW t \in Tracks, NEW s \in Sectors
             PROVE  (Shown(t, s, manifest[t].sectors[s]))'
  OBVIOUS
<1> DEFINE c == manifest'[t].sectors[s]
<1>1. \/ c = manifest[t].sectors[s]
      \/ c \notin {"valid", "corrected"}
  <2>1. CASE manifest' = manifest
    BY <2>1
  <2>2. CASE tool # "none" /\ manifest' = mem
    <3>1. CASE tool = "sweep"
      BY <2>2, <3>1 DEF IInv, MemInv
    <3>2. CASE tool \in Offline
      BY <2>2, <3>2 DEF EvidenceInv
    <3> QED BY <2>2, <3>1, <3>2 DEF IInv, TypeOK
  <2> QED BY <2>1, <2>2
<1>2. CASE c = manifest[t].sectors[s]
  <2>1. Shown(t, s, manifest[t].sectors[s])
    BY DEF EvidenceInv
  <2> QED BY <1>2, <2>1 DEF Shown
<1>3. CASE c \notin {"valid", "corrected"}
  BY <1>3 DEF Shown
<1> QED BY <1>1, <1>2, <1>3

\* Every step keeps a file behind each class: sweep.py archives a capture before
\* it decodes it.
LEMMA EvidenceStep == ASSUME IInv, EvidenceInv, Next PROVE EvidenceInv'
<1> USE DEF disk, visit
<1>1. TypeOK
  BY DEF IInv
<1>2. \A t \in Tracks : Files(t) \subseteq Files(t)'
  BY <1>1, FilesGrow DEF Next, Work, SweepStart, SweepVisit, SweepCapture, SweepArchive,
     SweepDecode, SweepRecord, SweepStop, SweepDone, OfflineStart, OfflineVisit, OfflinePatch,
     OfflineTally, OfflineCount, OfflineDone, OpenBlob, WriteBlob, Crash
<1>3. \A t \in Tracks, s \in Sectors : Shown(t, s, manifest[t].sectors[s])
  BY DEF EvidenceInv
\* The steps that leave the manifest as it is, or save it.
<1>4. ASSUME manifest' = manifest \/ (tool # "none" /\ manifest' = mem)
      PROVE  \A t \in Tracks, s \in Sectors : (Shown(t, s, manifest[t].sectors[s]))'
  BY <1>2, <1>4, ShownStays
<1>5. CASE SweepStart
  BY <1>4, <1>5, ClassFacts DEF SweepStart, EvidenceInv, Visiting
<1>6. CASE OfflineStart
  BY <1>4, <1>6, ClassFacts DEF OfflineStart, EvidenceInv, Visiting
<1>7. CASE SweepVisit
  <2>1. PICK t \in todo :
          /\ cur' = t
          /\ labels' = [s \in Sectors |->
               IF Prior(mem[t], blob[t], s) THEN mem[t].sectors[s] ELSE "none"]
    BY <1>7 DEF SweepVisit
  <2>2. /\ t \in Tracks /\ mem = manifest /\ manifest' = manifest /\ seen' = {} /\ pc' = "read"
        /\ tool = "sweep" /\ tool' = tool
    BY <1>7 DEF SweepVisit, IInv, MemInv, TypeOK
  <2>3. \A s \in Sectors : labels'[s] \in {manifest[t].sectors[s], "none"}
    BY <2>1, <2>2
  <2>4. \A s \in Sectors : (Shown(cur, s, labels[s]))'
    BY <1>4, <2>1, <2>2, <2>3 DEF Shown
  <2> QED BY <1>4, <2>2, <2>4, ClassFacts DEF EvidenceInv
<1>8. CASE SweepCapture
  <2>1. PICK r \in Raws :
          /\ last' = r /\ seen' = seen \cup {r}
          /\ IF NewFile(r) THEN raw' = [raw EXCEPT ![cur][r] = "empty"] ELSE raw' = raw
    BY <1>8 DEF SweepCapture
  <2>2. /\ manifest' = manifest /\ tool = "sweep" /\ tool' = tool /\ cur' = cur
        /\ labels' = labels /\ Visiting /\ cur \in Tracks
    BY <1>1, <1>8 DEF SweepCapture, Visiting, TypeOK
  <2>3. r \in Files(cur)'
    <3>1. CASE NewFile(r)
      <4>1. raw' = [raw EXCEPT ![cur][r] = "empty"]
        BY <2>1, <3>1
      <4>2. raw'[cur] = [raw[cur] EXCEPT ![r] = "empty"]
        BY <1>1, <2>2, <4>1 DEF TypeOK
      <4>3. raw'[cur][r] = "empty"
        BY <1>1, <2>2, <4>2 DEF TypeOK
      <4> QED BY <2>2, <4>3 DEF Files
    <3>2. CASE ~NewFile(r)
      <4>1. r \in Files(cur)
        BY <2>2, <3>2 DEF NewFile, Files, EvidenceInv
      <4> QED BY <1>2, <2>2, <4>1
    <3> QED BY <3>1, <3>2
  <2>4. seen' \subseteq Files(cur)'
    BY <1>2, <2>1, <2>2, <2>3 DEF EvidenceInv
  <2>5. \A s \in Sectors : (Shown(cur, s, labels[s]))'
    BY <1>2, <2>2 DEF EvidenceInv, Shown
  <2>6. last' \in seen'
    BY <2>1
  <2> QED BY <1>4, <2>2, <2>4, <2>5, <2>6, ClassFacts DEF EvidenceInv
<1>9. CASE SweepArchive
  <2>1. /\ manifest' = manifest /\ tool = "sweep" /\ tool' = tool /\ cur' = cur
        /\ labels' = labels /\ seen' = seen /\ last' = last /\ pc = "archive"
        /\ Visiting /\ cur \in Tracks
    BY <1>1, <1>9 DEF SweepArchive, Visiting, TypeOK
  <2>2. \A s \in Sectors : (Shown(cur, s, labels[s]))'
    BY <1>2, <2>1 DEF EvidenceInv, Shown
  <2>3. seen' \subseteq Files(cur)' /\ last' \in seen'
    BY <1>2, <2>1 DEF EvidenceInv
  <2> QED BY <1>4, <2>1, <2>2, <2>3, ClassFacts DEF EvidenceInv
<1>10. CASE SweepDecode
  <2>1. /\ manifest' = manifest /\ tool = "sweep" /\ tool' = tool /\ cur' = cur
        /\ raw' = raw /\ seen' = seen /\ last' = last /\ pc = "decode"
        /\ pc' \in {"open", "read"} /\ Visiting /\ cur \in Tracks
    BY <1>1, <1>10 DEF SweepDecode, Visiting, TypeOK
  <2>2. last \in Files(cur)
    BY <2>1 DEF EvidenceInv
  <2>3. ASSUME NEW s \in Sectors PROVE (Shown(cur, s, labels[s]))'
    <3>1. labels'[s] = IF Improves(labels[s], Decode[last][s])
                       THEN Label(labels[s], Decode[last][s]) ELSE labels[s]
      BY <1>10 DEF SweepDecode
    <3>2. CASE ~Improves(labels[s], Decode[last][s])
      BY <2>1, <3>1, <3>2 DEF EvidenceInv, Shown, Files
    <3>3. CASE Improves(labels[s], Decode[last][s])
      <4>1. \/ Decode[last][s] = "clean"
            \/ Decode[last][s] = "fixed" /\ labels'[s] = "corrected"
        BY <3>1, <3>3 DEF Improves, Label
      <4>2. last \in Files(cur)' /\ cur' = cur
        BY <2>1, <2>2 DEF Files
      <4> QED BY <4>1, <4>2 DEF Shown, Files
    <3> QED BY <3>2, <3>3
  <2>4. seen' \subseteq Files(cur)'
    BY <2>1 DEF EvidenceInv, Files
  <2> QED BY <1>4, <2>1, <2>3, <2>4, ClassFacts DEF EvidenceInv
<1>11. CASE SweepRecord
  <2>1. /\ tool = "sweep" /\ tool' = tool /\ pc = "record" /\ pc' = "next" /\ raw' = raw
        /\ manifest' = [manifest EXCEPT ![cur] = SweepEntry] /\ Visiting /\ cur \in Tracks
    BY <1>1, <1>11 DEF SweepRecord, IInv, MemInv, Visiting, TypeOK
  <2>2. \A s \in Sectors : SweepEntry.sectors[s] =
          IF labels[s] # "none" THEN labels[s] ELSE verdict[s]
    BY DEF SweepEntry
  <2>3. \A s \in Sectors : verdict[s] \notin {"valid", "corrected"}
    BY <1>1 DEF TypeOK, Dead
  <2>4. \A s \in Sectors : Shown(cur, s, SweepEntry.sectors[s])
    BY <2>1, <2>2, <2>3 DEF EvidenceInv, Shown
  <2>5. \A t \in Tracks, s \in Sectors : Shown(t, s, manifest'[t].sectors[s])
    BY <1>1, <1>3, <2>1, <2>4 DEF TypeOK
  <2>6. \A t \in Tracks, s \in Sectors : (Shown(t, s, manifest[t].sectors[s]))'
    BY <2>1, <2>5 DEF Shown, Files
  <2> QED BY <2>1, <2>6, ClassFacts DEF EvidenceInv, Visiting
<1>12. CASE OfflineVisit
  BY <1>4, <1>12, ClassFacts DEF OfflineVisit, EvidenceInv, Visiting
<1>13. CASE OfflinePatch
  <2>1. PICK u \in wins : mem' = [mem EXCEPT ![cur].sectors[u] = Label3[tool]]
    BY <1>13 DEF OfflinePatch
  <2>2. /\ manifest' = manifest /\ tool \in Offline /\ tool' = tool /\ cur \in Tracks
        /\ mem \in [Tracks -> Entries] /\ u \in Sectors
    BY <1>1, <1>13 DEF OfflinePatch, TypeOK
  <2>3. Label3[tool] \notin {"valid", "corrected"}
    BY <2>2 DEF Label3, Offline
  <2>4. /\ mem'[cur].sectors = [mem[cur].sectors EXCEPT ![u] = Label3[tool]]
        /\ \A t \in Tracks : t # cur => mem'[t] = mem[t]
    BY <2>1, <2>2 DEF Entries
  <2>5. \A t \in Tracks, s \in Sectors :
          mem'[t].sectors[s] \in {mem[t].sectors[s], Label3[tool]}
    BY <2>2, <2>4 DEF Entries
  <2> QED BY <1>4, <2>2, <2>3, <2>5, ClassFacts DEF EvidenceInv, Visiting
<1>14. CASE OfflineTally
  <2> DEFINE v == Cardinality(With(mem[cur], Counted[tool]))
  <2>1. /\ manifest' = manifest /\ tool \in Offline /\ tool' = tool /\ cur \in Tracks
        /\ mem' = [mem EXCEPT ![cur].valid = v,
                              ![cur].status = IF v = NS THEN "complete" ELSE @]
        /\ mem \in [Tracks -> Entries]
    BY <1>1, <1>14 DEF OfflineTally, TypeOK
  <2>2. \A t \in Tracks : mem'[t].sectors = mem[t].sectors
    BY <2>1 DEF Entries
  <2> QED BY <1>4, <2>1, <2>2, ClassFacts DEF EvidenceInv, Visiting
<1>15. CASE OfflineCount
  BY <1>4, <1>15, ClassFacts DEF OfflineCount, EvidenceInv, Visiting
<1>16. CASE OpenBlob \/ WriteBlob
  BY <1>4, <1>16, ClassFacts DEF OpenBlob, WriteBlob, EvidenceInv, Visiting, Shown, Files
<1>17. CASE SweepStop \/ SweepDone \/ OfflineDone \/ Crash
  <2>1. Quit /\ (manifest' = manifest \/ (tool # "none" /\ manifest' = mem))
    BY <1>17, ClassFacts DEF SweepStop, SweepDone, OfflineDone, Crash
  <2> QED BY <1>4, <2>1, ClassFacts DEF Quit, EvidenceInv, Visiting
<1> QED BY <1>5, <1>6, <1>7, <1>8, <1>9, <1>10, <1>11, <1>12, <1>13, <1>14, <1>15, <1>16,
       <1>17 DEF Next, Work

-----------------------------------------------------------------------------
(* Complete tracks.                                                        *)

\* Every step keeps complete tracks out of the tools' way: sweep.py selects none,
\* and an offline tool finds no target in one.
LEMMA UntouchedStep ==
  ASSUME IInv, CountInv, UntouchedInv, Next PROVE UntouchedInv'
<1> USE DEF disk, visit
<1>1. TypeOK /\ ControlInv
  BY DEF IInv
<1>2. CASE SweepStart
  BY <1>1, <1>2, ClassFacts DEF SweepStart, UntouchedInv, Visiting, Patching, Selected, TypeOK
<1>3. CASE OfflineStart
  <2>1. ASSUME NEW k \in Offline, NEW t \in Tracks, Eligible(k, t, manifest[t])
        PROVE  manifest[t].status # "complete"
    <3>1. PICK s \in Sectors : manifest[t].sectors[s] \in Dead
      BY <2>1 DEF Eligible, Targets, With, Dead
    <3>2. s \notin With(manifest[t], Recovered)
      BY <3>1, ClassFacts DEF With
    <3> QED BY <3>2 DEF CountInv, Honest
  <2>2. \A t \in todo' : manifest[t].status # "complete"
    BY <1>1, <1>3, <2>1 DEF OfflineStart, TypeOK
  <2>3. /\ tool' \in Offline /\ pc' = "next" /\ mem' = manifest /\ manifest' = manifest
    BY <1>3 DEF OfflineStart
  <2> QED BY <2>2, <2>3, ClassFacts DEF UntouchedInv, Visiting, Patching
<1>4. CASE SweepVisit
  BY <1>1, <1>4, ClassFacts DEF SweepVisit, Remaining, UntouchedInv, Visiting, Patching, IInv, MemInv, TypeOK
<1>5. CASE OfflineVisit
  BY <1>1, <1>5, ClassFacts DEF OfflineVisit, Remaining, UntouchedInv, Visiting, Patching, TypeOK
<1>6. CASE SweepCapture \/ SweepArchive \/ SweepDecode
  BY <1>1, <1>6, ClassFacts DEF SweepCapture, SweepArchive, SweepDecode, UntouchedInv, Visiting, Patching
<1>7. CASE SweepRecord
  <2>1. /\ tool = "sweep" /\ tool' = tool /\ pc = "record" /\ pc' = "next" /\ todo' = todo
        /\ mem' = [mem EXCEPT ![cur] = SweepEntry] /\ manifest' = mem'
        /\ cur \notin todo /\ mem \in [Tracks -> Entries]
    BY <1>1, <1>7 DEF SweepRecord, UntouchedInv, Visiting, TypeOK
  <2>2. \A t \in todo : mem'[t] = mem[t]
    BY <1>1, <2>1 DEF TypeOK
  <2> QED BY <2>1, <2>2, ClassFacts DEF UntouchedInv, Visiting, Patching
<1>8. CASE OfflinePatch
  <2>1. PICK u \in wins : mem' = [mem EXCEPT ![cur].sectors[u] = Label3[tool]]
    BY <1>8 DEF OfflinePatch
  <2>2. /\ manifest' = manifest /\ tool \in Offline /\ tool' = tool /\ cur' = cur /\ todo' = todo
        /\ Patching /\ mem \in [Tracks -> Entries]
    BY <1>1, <1>8 DEF OfflinePatch, Patching, TypeOK
  <2>3. \A t \in Tracks : mem'[t].status = mem[t].status
    BY <2>1, <2>2 DEF Entries
  <2> QED BY <1>1, <2>2, <2>3, ClassFacts DEF UntouchedInv, TypeOK
<1>9. CASE OfflineTally
  <2> DEFINE v == Cardinality(With(mem[cur], Counted[tool]))
  <2>1. /\ mem' = [mem EXCEPT ![cur].valid = v,
                              ![cur].status = IF v = NS THEN "complete" ELSE @]
        /\ manifest' = manifest /\ tool \in Offline /\ tool' = tool /\ cur' = cur /\ todo' = todo
        /\ Patching /\ mem \in [Tracks -> Entries] /\ cur \in Tracks
    BY <1>1, <1>9 DEF OfflineTally, Patching, TypeOK
  <2>2. \A t \in Tracks : \/ mem'[t].status = mem[t].status
                          \/ t = cur /\ mem'[t].status = "complete"
    BY <2>1 DEF Entries
  <2>3. \A t \in todo' : t # cur /\ t \in Tracks
    BY <1>1, <2>1 DEF UntouchedInv, TypeOK
  <2> QED BY <2>1, <2>2, <2>3, ClassFacts DEF UntouchedInv
<1>10. CASE OfflineCount
  BY <1>1, <1>10, ClassFacts DEF OfflineCount, UntouchedInv, Visiting, Patching
<1>11. CASE OpenBlob \/ WriteBlob
  BY <1>1, <1>11, ClassFacts DEF OpenBlob, WriteBlob, UntouchedInv, Visiting, Patching, ControlInv
<1>12. CASE SweepStop \/ SweepDone \/ OfflineDone \/ Crash
  <2>1. Quit
    BY <1>12 DEF SweepStop, SweepDone, OfflineDone, Crash
  <2> QED BY <2>1, ClassFacts DEF Quit, UntouchedInv, Visiting, Patching
<1> QED BY <1>2, <1>3, <1>4, <1>5, <1>6, <1>7, <1>8, <1>9, <1>10, <1>11, <1>12 DEF Next, Work

-----------------------------------------------------------------------------
(* The file and the bytes that will take its place.                        *)

\* Every step keeps the bytes to be written as good as those in the file.
LEMMA RewriteStep ==
  ASSUME IInv, RewriteInv, Next PROVE RewriteInv'
<1> USE DEF disk, visit
<1>1. TypeOK /\ ControlInv
  BY DEF IInv
<1>2. \A s \in Sectors, c \in Recovered : <<s, c>> # Zero /\ <<s, c>> # NoBytes
  BY BlockFacts
<1>3. CASE SweepVisit
  <2>1. PICK t \in todo : cur' = t /\ buf' = [s \in Sectors |-> Seed(t, s)]
    BY <1>3 DEF SweepVisit
  <2>2. /\ t \in Tracks /\ mem = manifest /\ UNCHANGED <<manifest, blob, torn>>
    BY <1>1, <1>3 DEF SweepVisit, IInv, MemInv, TypeOK
  <2>3. ASSUME NEW s \in With(manifest[t], Recovered) PROVE buf'[s] = blob[t][s]
    <3>1. Listed(manifest[t])
      BY <2>2, ClassFacts DEF IInv, ListingInv, With
    <3>2. Prior(mem[t], blob[t], s)
      BY <2>2, <3>1 DEF IInv, ListingInv, Prior, With
    <3> QED BY <2>1, <3>2 DEF Seed, With
  <2> QED BY <2>1, <2>2, <2>3 DEF RewriteInv, With
<1>4. CASE OfflineVisit
  <2>1. PICK t \in todo : cur' = t /\ buf' = IF blob[t] = NoFile THEN Zeros ELSE blob[t]
    BY <1>4 DEF OfflineVisit
  <2>2. /\ t \in Tracks /\ UNCHANGED <<manifest, blob, torn>>
    BY <1>1, <1>4 DEF OfflineVisit, TypeOK
  <2>3. ASSUME NEW s \in With(manifest[t], Recovered) PROVE buf'[s] = blob[t][s]
    <3>1. Listed(manifest[t])
      BY <2>2, ClassFacts DEF IInv, ListingInv, With
    <3> QED BY <2>1, <2>2, <3>1 DEF IInv, ListingInv
  <2> QED BY <2>1, <2>2, <2>3 DEF RewriteInv, With
<1>5. CASE SweepCapture \/ SweepArchive
  BY <1>1, <1>5 DEF SweepCapture, SweepArchive, RewriteInv, Rewriting, With
<1>6. CASE SweepDecode
  <2>1. /\ tool = "sweep" /\ pc = "decode" /\ UNCHANGED <<manifest, blob, torn, cur, dryRun>>
        /\ Visiting /\ mem = manifest /\ cur \in Tracks
        /\ buf' = [s \in Sectors |->
             IF Improves(labels[s], Decode[last][s])
             THEN <<s, Label(labels[s], Decode[last][s])>> ELSE buf[s]]
    BY <1>1, <1>6 DEF SweepDecode, Visiting, IInv, MemInv, TypeOK
  <2>2. ASSUME NEW s \in With(manifest[cur], Recovered)
        PROVE  buf'[s] = <<s, "valid">> \/ buf'[s] = buf[s]
    <3>1. s \in Sectors /\ labels[s] # "none"
      BY <2>1, ClassFacts DEF IInv, SweepInv, With
    <3> QED BY <2>1, <3>1 DEF Label
  <2> QED BY <2>1, <2>2 DEF RewriteInv, Rewriting, With
<1>7. CASE OfflinePatch
  <2>1. PICK u \in wins : buf' = Put(buf, u, <<u, Label3[tool]>>)
    BY <1>7 DEF OfflinePatch
  <2>2. /\ UNCHANGED <<manifest, blob, torn, cur, dryRun>> /\ Patching /\ u \in Sectors
        /\ cur \in Tracks /\ tool \in Offline /\ pc = "patch"
    BY <1>1, <1>7 DEF OfflinePatch, Patching, TypeOK
  <2>3. u \notin With(manifest[cur], Recovered)
    <3>1. u \notin With(mem[cur], Recovered)
      BY <2>2 DEF IInv, PatchInv
    <3> QED BY <2>2, <3>1 DEF IInv, MemInv, With
  <2>4. ASSUME cur \notin torn, ~dryRun PROVE buf' = [buf EXCEPT ![u] = <<u, Label3[tool]>>]
    <3>1. Solid(buf)
      BY <2>2, <2>4 DEF IInv, PatchInv
    <3>2. buf[u] # NoBytes /\ <<u, Label3[tool]>> \in Blocks
      BY <2>2, <3>1, BlockFacts, ClassFacts DEF Solid
    <3> QED BY <1>1, <2>1, <2>2, <3>2, PutType DEF TypeOK
  <2>5. ASSUME cur \notin torn, ~dryRun, NEW s \in With(manifest[cur], Recovered)
        PROVE  buf'[s] = buf[s]
    BY <1>1, <2>3, <2>4, <2>5 DEF With, TypeOK
  <2> QED BY <1>7, <2>2, <2>5, ClassFacts DEF RewriteInv, Rewriting, With, OfflinePatch
<1>8. CASE OfflineTally
  BY <1>1, <1>8 DEF OfflineTally, RewriteInv, Rewriting, With
<1>9. CASE SweepStart \/ OfflineStart \/ SweepRecord \/ SweepDone \/ OfflineCount \/ OfflineDone
           \/ OpenBlob \/ WriteBlob \/ SweepStop \/ Crash
  <2>1. ~Rewriting'
    BY <1>9 DEF SweepStart, OfflineStart, SweepRecord, SweepDone, OfflineCount, OfflineDone,
       OpenBlob, WriteBlob, SweepStop, Crash, Quit, Rewriting
  <2> QED BY <2>1 DEF RewriteInv
<1> QED BY <1>3, <1>4, <1>5, <1>6, <1>7, <1>8, <1>9 DEF Next, Work

-----------------------------------------------------------------------------
(* FullInv, and what follows from it.                                      *)

\* The parts beyond IInv hold at the start, too.
LEMMA FullInit == Init => FullInv
<1> SUFFICES ASSUME Init PROVE FullInv
  OBVIOUS
<1>1. IInv
  BY InvInit
<1>2. /\ tool = "none" /\ pc = "idle" /\ ~Visiting /\ ~Patching /\ ~Rewriting
      /\ manifest = BlankManifest /\ mem = BlankManifest
  BY ClassFacts DEF Init, Visiting, Patching, Rewriting
<1>3. CountInv
  BY <1>2, BlankHonest DEF CountInv
<1>4. EvidenceInv
  <2>1. \A t \in Tracks, s \in Sectors : manifest[t].sectors[s] = "unseen"
    BY <1>2 DEF BlankManifest, NoEntry
  <2> QED BY <1>2, <2>1, ClassFacts DEF EvidenceInv, Shown
<1> QED BY <1>1, <1>2, <1>3, <1>4 DEF FullInv, UntouchedInv, RewriteInv

\* A step of nobody keeps the invariant.
LEMMA FullStutter == ASSUME FullInv, UNCHANGED vars PROVE FullInv'
<1> USE DEF vars, FullInv
<1>1. IInv'
  BY InvStep
<1>2. (Visiting' <=> Visiting) /\ (Patching' <=> Patching) /\ (Rewriting' <=> Rewriting)
  BY DEF Visiting, Patching, Rewriting
<1>3. CountInv' /\ UntouchedInv'
  BY <1>2 DEF CountInv, UntouchedInv
<1>4. EvidenceInv'
  BY <1>2 DEF EvidenceInv, Shown, Files
<1>5. RewriteInv'
  BY <1>2 DEF RewriteInv, With
<1> QED BY <1>1, <1>3, <1>4, <1>5

\* The whole invariant holds of every behaviour.
THEOREM FullInductive == Spec => []FullInv
<1>1. FullInv /\ [Next]_vars => FullInv'
  <2> SUFFICES ASSUME FullInv, [Next]_vars PROVE FullInv'
    OBVIOUS
  <2>1. CASE Next
    <3>1. IInv' /\ TypeOK'
      BY <2>1, InvStep DEF FullInv, IInv
    <3> QED BY <2>1, <3>1, CountStep, EvidenceStep, UntouchedStep, RewriteStep DEF FullInv
  <2>2. CASE UNCHANGED vars
    BY <2>2, FullStutter
  <2> QED BY <2>1, <2>2
<1> QED BY <1>1, FullInit, PTL DEF Spec

\* The manifest overstates no track.
THEOREM CountsTrue == Spec => []NeverOverstated
<1>1. FullInv => NeverOverstated
  BY DEF FullInv, CountInv, NeverOverstated
<1> QED BY <1>1, FullInductive, PTL

\* What is called valid or corrected some capture kept in raw/ decodes to.
THEOREM EvidenceThere == Spec => []EvidenceKept
<1>1. FullInv => EvidenceKept
  <2> SUFFICES ASSUME FullInv, NEW t \in Tracks, Files(t) = Whole(t),
                      NEW s \in With(manifest[t], {"valid", "corrected"})
               PROVE  Evidence(t, s)
    BY DEF EvidenceKept
  <2>1. Shown(t, s, manifest[t].sectors[s]) /\ manifest[t].sectors[s] \in {"valid", "corrected"}
    BY DEF FullInv, EvidenceInv, With
  <2> QED BY <2>1 DEF Shown, Evidence
<1> QED BY <1>1, FullInductive, PTL

\* No tool writes the file of a complete track.
THEOREM CompleteStays == Spec => CompleteUntouched
<1> DEFINE Kept == \A t \in Tracks : manifest[t].status = "complete" => blob'[t] = blob[t]
<1>1. FullInv /\ [Next]_vars => [Kept]_vars
  <2> SUFFICES ASSUME FullInv, Next PROVE Kept
    OBVIOUS
  <2>1. CASE blob' = blob
    BY <2>1
  <2>2. CASE OpenBlob \/ WriteBlob
    <3>1. Visiting \/ Patching
      <4>1. pc \in {"open", "write"}
        BY <2>2 DEF OpenBlob, WriteBlob
      <4> QED BY <4>1, ClassFacts DEF FullInv, IInv, ControlInv, TypeOK, Visiting, Patching
    <3>2. manifest[cur].status # "complete"
      BY <3>1 DEF FullInv, UntouchedInv
    <3> QED BY <2>2, <3>2 DEF OpenBlob, WriteBlob, FullInv, IInv, TypeOK
  <2> QED BY <2>1, <2>2 DEF Next, Work, disk, SweepStart, SweepVisit, SweepCapture,
       SweepArchive, SweepDecode, SweepRecord, SweepStop, SweepDone, OfflineStart, OfflineVisit,
       OfflinePatch, OfflineTally, OfflineCount, OfflineDone, Crash
<1> QED BY <1>1, FullInductive, PTL DEF Spec, CompleteUntouched

-----------------------------------------------------------------------------
(* The refinement of Archive.                                              *)


\* What the running tool is about to write backs the saved manifest's claims,
\* and is written as it is.
LEMMA BufBacks ==
  ASSUME FullInv, cur \notin torn, Visiting \/ (Patching /\ ~dryRun)
  PROVE  /\ \A s \in With(manifest[cur], Recovered) : Backs(s, manifest[cur].sectors[s], buf[s])
         /\ Visiting => Image(buf) = buf
<1>1. TypeOK /\ cur \in Tracks
  BY DEF FullInv, IInv, TypeOK
<1>2. CASE Visiting
  <2>1. mem = manifest
    BY <1>2 DEF Visiting, FullInv, IInv, MemInv
  <2>2. \A u \in Sectors : IF labels[u] = "none" THEN buf[u] = Zero
                           ELSE Backs(u, labels[u], buf[u])
    BY <1>2 DEF FullInv, IInv, SweepInv
  <2>3. \A u \in Sectors : buf[u] # NoBytes
    BY <1>1, <2>2, BlockFacts, ClassFacts DEF Backs, TypeOK, Recovered
  <2>4. Image(buf) = buf
    BY <1>1, <2>3, ImageInPlace DEF TypeOK
  <2>5. ASSUME NEW s \in With(manifest[cur], Recovered)
        PROVE  Backs(s, manifest[cur].sectors[s], buf[s])
    <3>1. \/ labels[s] = manifest[cur].sectors[s]
          \/ labels[s] = "valid" /\ manifest[cur].sectors[s] = "corrected"
      BY <1>2, <2>1 DEF FullInv, IInv, SweepInv
    <3>2. s \in Sectors /\ manifest[cur].sectors[s] \in Recovered
      BY DEF With
    <3> QED BY <2>2, <3>1, <3>2, ClassFacts DEF Backs
  <2> QED BY <2>4, <2>5
<1>3. CASE Patching /\ ~dryRun
  <2>1. ~Visiting /\ tool \in Offline
    BY <1>3, ClassFacts DEF Patching, Visiting
  <2>2. ASSUME NEW s \in With(manifest[cur], Recovered)
        PROVE  Backs(s, manifest[cur].sectors[s], buf[s])
    <3>1. mem[cur].sectors[s] = manifest[cur].sectors[s]
      BY <1>1, <2>1 DEF FullInv, IInv, MemInv
    <3>2. s \in With(mem[cur], Recovered)
      BY <3>1 DEF With
    <3> QED BY <1>3, <3>1, <3>2 DEF FullInv, IInv, PatchInv, Holds
  <2> QED BY <2>1, <2>2
<1> QED BY <1>2, <1>3

\* Writing, or about to: a tool is at the track, and not on a dry run.
LEMMA AtWork ==
  ASSUME FullInv, pc \in {"open", "write"}
  PROVE  /\ tool = "sweep" => Visiting
         /\ tool # "sweep" => Patching /\ ~dryRun
         /\ Visiting \/ (Patching /\ ~dryRun)
         /\ (IF tool = "sweep" THEN Image(buf) ELSE buf) = buf \/ cur \in torn
<1>1. /\ tool = "sweep" => Visiting
      /\ tool # "sweep" => Patching /\ ~dryRun
  BY ClassFacts DEF FullInv, IInv, ControlInv, TypeOK, Visiting, Patching
<1> QED BY <1>1, BufBacks

\* A claimed sector of a track not lost is there to be read, with its class or,
\* if that is corrected, a clean read's.
Legible ==
  \A t \in Tracks \ torn : \A s \in With(manifest[t], Recovered) :
    /\ Backs(s, manifest[t].sectors[s], Bytes(t)[s])
    /\ Bytes(t)[s][2] \in Recovered

\* The invariant makes the claimed sectors legible.
LEMMA AllLegible == FullInv => Legible
<1> SUFFICES ASSUME FullInv, NEW t \in Tracks \ torn, NEW s \in With(manifest[t], Recovered)
             PROVE  /\ Backs(s, manifest[t].sectors[s], Bytes(t)[s])
                    /\ Bytes(t)[s][2] \in Recovered
  BY DEF Legible
<1>1. s \in Sectors /\ manifest[t].sectors[s] \in Recovered
  BY DEF With
<1>2. Listed(manifest[t])
  BY <1>1, ClassFacts DEF FullInv, IInv, ListingInv, With
<1>3. CASE ~Writing(t)
  <2>1. Backs(s, manifest[t].sectors[s], Bytes(t)[s])
    BY <1>2, <1>3 DEF FullInv, IInv, DiskInv, Holds, Bytes
  <2> QED BY <1>1, <2>1 DEF Backs, Recovered
<1>4. CASE Writing(t)
  <2>1. cur = t /\ Bytes(t) = buf
    BY <1>4, AtWork DEF Writing, Bytes
  <2>2. Backs(s, manifest[t].sectors[s], Bytes(t)[s])
    BY <1>4, <2>1, AtWork, BufBacks DEF Writing
  <2> QED BY <1>1, <2>2 DEF Backs, Recovered
<1> QED BY <1>3, <1>4

\* A step loses no bytes of such a sector, unless it loses the track.
LEMMA BytesKept ==
  ASSUME FullInv, Next, NEW t \in Tracks, t \notin torn', NEW s \in With(manifest[t], Recovered)
  PROVE  \/ (Bytes(t)[s])' = Bytes(t)[s]
         \/ Bytes(t)[s][2] = "corrected" /\ (Bytes(t)[s])'[2] = "valid"
<1> USE DEF disk
<1>1. TypeOK /\ cur \in Tracks /\ s \in Sectors /\ manifest[t].sectors[s] \in Recovered
  BY DEF FullInv, IInv, With, TypeOK
<1>2. Listed(manifest[t])
  BY <1>1, ClassFacts DEF FullInv, IInv, ListingInv, With
<1>3. CASE pc # "write" /\ pc' # "write" /\ blob' = blob
  BY <1>3 DEF Bytes, Writing
<1>4. CASE OpenBlob
  <2>1. /\ pc = "open" /\ pc' = "write" /\ blob' = [blob EXCEPT ![cur] = Empty]
        /\ UNCHANGED <<manifest, torn, tool, cur, buf>>
    BY <1>4 DEF OpenBlob
  <2>2. CASE t # cur
    BY <1>1, <2>1, <2>2 DEF Bytes, Writing, TypeOK
  <2>3. CASE t = cur
    <3>1. Visiting \/ (Patching /\ ~dryRun)
      BY <2>1, AtWork
    <3>2. (Bytes(t)[s])' = buf[s]
      BY <1>4, <2>1, <2>3, AtWork DEF Bytes, Writing
    <3>3. Bytes(t)[s] = blob[cur][s]
      BY <2>1, <2>3 DEF Bytes, Writing
    <3>4. Backs(s, manifest[t].sectors[s], blob[cur][s])
      BY <2>1, <2>3, <3>3, AllLegible DEF Legible
    <3>5. Backs(s, manifest[t].sectors[s], buf[s])
      BY <2>1, <2>3, <3>1, BufBacks
    <3>6. dryRun => tool = "sweep"
      BY <2>1, <2>3, <3>1, ClassFacts DEF Visiting
    <3>7. blob[cur][s] = <<s, "valid">> => buf[s] = <<s, "valid">>
      BY <2>1, <2>3, <3>6 DEF FullInv, RewriteInv, Rewriting
    <3> QED BY <3>2, <3>3, <3>4, <3>5, <3>7 DEF Backs
  <2> QED BY <2>2, <2>3
<1>5. CASE WriteBlob
  BY <1>1, <1>5 DEF WriteBlob, Bytes, Writing, TypeOK
<1>6. CASE Crash
  <2>1. ~Writing(t)
    BY <1>2, <1>6 DEF Crash, Listed, Writing
  <2> QED BY <1>6, <2>1 DEF Crash, Quit, Bytes, Writing
<1> QED BY <1>3, <1>4, <1>5, <1>6 DEF Next, Work, Quit, SweepStart, SweepVisit, SweepCapture,
       SweepArchive, SweepDecode, SweepRecord, SweepStop, SweepDone, OfflineStart, OfflineVisit,
       OfflinePatch, OfflineTally, OfflineCount, OfflineDone

\* Every step of a tool, and every kill, improves what a reader gets or loses a
\* track (a step that changes nothing for the reader improves it trivially).
LEMMA ViewMapped ==
  ASSUME FullInv, Legible, Legible', Next
  PROVE  Promised!Improve \/ Promised!Lose
<1> USE DEF disk
<1>1. TypeOK /\ cur \in Tracks
  BY DEF FullInv, IInv, TypeOK
<1>2. torn' = torn \/ (Crash /\ torn' = torn \cup {cur})
  BY DEF Next, Work, SweepStart, SweepVisit, SweepCapture, SweepArchive, SweepDecode,
     SweepRecord, SweepStop, SweepDone, OfflineStart, OfflineVisit, OfflinePatch,
     OfflineTally, OfflineCount, OfflineDone, OpenBlob, WriteBlob, Crash
<1>3. ASSUME NEW t \in Tracks, NEW s \in Sectors
      PROVE  /\ View[t][s] = IF t \notin torn /\ s \in With(manifest[t], Recovered)
                             THEN Bytes(t)[s][2] ELSE "nothing"
             /\ View'[t][s] = IF t \notin torn' /\ s \in With(manifest'[t], Recovered)
                              THEN (Bytes(t)[s])'[2] ELSE "nothing"
  BY DEF View, With
<1>4. \A t \in Tracks, s \in Sectors : /\ View[t][s] \in Recovered \cup {"nothing"}
                                       /\ View'[t][s] \in Recovered \cup {"nothing"}
  BY <1>3 DEF Legible, With
<1>5. /\ View = [t \in Tracks |-> [s \in Sectors |-> View[t][s]]]
      /\ View' = [t \in Tracks |-> [s \in Sectors |-> View'[t][s]]]
  BY DEF View
<1>6. ASSUME NEW t \in Tracks, NEW s \in Sectors, t \notin torn'
      PROVE  Promised!Better(View[t][s], View'[t][s])
  <2>1. t \notin torn
    BY <1>2, <1>6
  <2>2. CASE s \notin With(manifest[t], Recovered)
    BY <1>3, <1>4, <2>2 DEF Promised!Better
  <2>3. CASE s \in With(manifest[t], Recovered)
    <3>1. s \in With(manifest'[t], Recovered)
      BY <2>3, ClaimStep DEF FullInv, With, Recovered
    <3>2. View[t][s] = Bytes(t)[s][2] /\ View'[t][s] = (Bytes(t)[s])'[2]
      BY <1>3, <1>6, <2>1, <2>3, <3>1
    <3>3. \/ (Bytes(t)[s])' = Bytes(t)[s]
          \/ Bytes(t)[s][2] = "corrected" /\ (Bytes(t)[s])'[2] = "valid"
      BY <1>6, <2>3, BytesKept
    <3> QED BY <3>2, <3>3 DEF Promised!Better
  <2> QED BY <2>2, <2>3
<1>7. CASE torn' = torn
  <2>1. \A t \in torn : View'[t] = View[t]
    BY <1>1, <1>7 DEF View, TypeOK
  <2>2. View' \in [Tracks -> [Sectors -> Recovered \cup {"nothing"}]]
    BY <1>4, <1>5
  <2> QED BY <1>6, <1>7, <2>1, <2>2 DEF Promised!Improve
<1>8. CASE torn' # torn
  <2>1. Crash /\ torn' = torn \cup {cur} /\ cur \notin torn /\ manifest' = manifest
    BY <1>2, <1>8 DEF Crash
  <2>2. ASSUME NEW t \in Tracks, t # cur PROVE View'[t] = View[t]
    <3>1. t \in torn' <=> t \in torn
      BY <2>1, <2>2
    <3>2. (Bytes(t))' = Bytes(t)
      BY <2>1, <2>2 DEF Crash, Quit, Bytes, Writing
    <3> QED BY <2>1, <3>1, <3>2 DEF View
  <2>3. View'[cur] = [s \in Sectors |-> "nothing"]
    BY <1>1, <2>1 DEF View
  <2>4. View' = [View EXCEPT ![cur] = [s \in Sectors |-> "nothing"]]
    BY <1>1, <1>5, <2>2, <2>3
  <2> QED BY <1>1, <2>1, <2>4 DEF Promised!Lose
<1> QED BY <1>7, <1>8

\* The image directory keeps what Archive promises, with any number of tracks.
THEOREM Implements == Spec => ImplementsArchive
<1>1. Init => Promised!Init
  <2> SUFFICES ASSUME Init PROVE Promised!Init
    OBVIOUS
  <2>1. \A t \in Tracks : With(manifest[t], Recovered) = {}
    BY ClassFacts DEF Init, BlankManifest, NoEntry, With
  <2>2. View = [t \in Tracks |-> [s \in Sectors |-> "nothing"]]
    BY <2>1 DEF View
  <2> QED BY <2>2 DEF Init, Promised!Init
<1>2. FullInv /\ Legible /\ Legible' /\ [Next]_vars
        => [Promised!Improve \/ Promised!Lose]_<<View, torn>>
  <2> SUFFICES ASSUME FullInv, Legible, Legible', [Next]_vars
               PROVE  [Promised!Improve \/ Promised!Lose]_<<View, torn>>
    OBVIOUS
  <2>1. CASE Next
    BY <2>1, ViewMapped
  <2>2. CASE UNCHANGED vars
    BY <2>2 DEF vars, View, Bytes, Writing
  <2> QED BY <2>1, <2>2
<1> QED BY <1>1, <1>2, AllLegible, FullInductive, PTL DEF Spec, ImplementsArchive, Promised!Spec
=============================================================================
