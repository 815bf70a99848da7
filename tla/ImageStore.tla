------------------------------ MODULE ImageStore ------------------------------
(***************************************************************************)
(* The image directory of software/: manifest.json, tracks/*.bin and       *)
(* raw/*.bin, and the four tools that write it (sweep.py, vote_repair.py,  *)
(* rescue.py, deep_rescue.py), one at a time.  A tool may be killed        *)
(* between any two file system calls, and be started again.                *)
(*                                                                         *)
(* A capture is a member of Raws: what matters of its 15,120 bytes is what *)
(* the decoder makes of each sector of it, Decode[r][s].  A block is the   *)
(* 512 bytes of a sector, named by the sector and the class of the         *)
(* recovery that produced them.                                            *)
(***************************************************************************)
EXTENDS Integers, FiniteSets

CONSTANTS
  Tracks,      \* keys "cyl:head" of the manifest
  CylZero,     \* the tracks of cylinder 0, which deep_rescue.py skips
  NS,          \* SECTORS_PER_TRACK, 23 on the drive
  Raws,        \* the captures the drive can deliver of a track
  Decode,      \* what decode_track / classify_missing say of a capture
  MaxReads,    \* sweep.py --max-reads
  DryLimit,    \* sweep.py --dry-limit
  MinReads,    \* vote_repair.py --min-reads
  Checkpoint   \* tracks between two manifest saves of an offline tool

Sectors   == 0 .. NS - 1
Recovered == {"valid", "corrected", "voted", "position", "deep"}
Dead      == {"failed", "no-header", "erased-ff"}
Offline   == {"vote", "rescue", "deep"}

ASSUME TracksAssumption  == Tracks # {} /\ Raws # {}
ASSUME NSAssumption      == NS \in Nat \ {0}
ASSUME CylZeroAssumption == CylZero \subseteq Tracks
ASSUME DecodeAssumption  ==
  Decode \in [Raws -> [Sectors -> {"clean", "fixed"} \cup Dead]]
\* --max-reads 0 images nothing; the loop is entered at least once.
ASSUME ReadsAssumption   == MaxReads \in Nat \ {0} /\ DryLimit \in Nat \ {0}
ASSUME MinReadsAssumption   == MinReads \in Nat
ASSUME CheckpointAssumption == Checkpoint \in Nat \ {0}

-----------------------------------------------------------------------------
(* Files and manifest entries.                                             *)

Zero    == <<-1, "zero">>      \* a zero-filled block
NoBytes == <<-1, "no bytes">>  \* past the end of a file, or an empty slice
Missing == <<-1, "missing">>   \* the file does not exist
Data    == Sectors \X Recovered
Blocks  == Data \cup {Zero, NoBytes, Missing}

\* A track file, block by block.
Empty  == [s \in Sectors |-> NoBytes]
Zeros  == [s \in Sectors |-> Zero]
NoFile == [s \in Sectors |-> Missing]

\* b''.join over the sectors: an empty slice takes no room, what follows it
\* moves forward, and the file ends short.
Rank(kept, s) == Cardinality({u \in kept : u < s})
Image_Compact(data) ==  \* mutant: joins the merged blocks, without zero-filling
  LET kept == {s \in Sectors : data[s] # Zero}
  IN  [i \in Sectors |->
         IF \E s \in kept : Rank(kept, s) = i
         THEN data[CHOOSE s \in kept : Rank(kept, s) = i]
         ELSE Zero]
Image(data) ==
  LET kept == {s \in Sectors : data[s] # NoBytes}
  IN  [i \in Sectors |->
         IF \E s \in kept : Rank(kept, s) = i
         THEN data[CHOOSE s \in kept : Rank(kept, s) = i]
         ELSE NoBytes]

\* blob[s * 512 : (s + 1) * 512] = data on a bytearray: past its end the
\* assignment appends.
Put(file, s, data) ==
  LET at == IF file[s] # NoBytes THEN s
            ELSE CHOOSE i \in Sectors : /\ file[i] = NoBytes
                                        /\ \A j \in Sectors : j < i => file[j] # NoBytes
  IN  [file EXCEPT ![at] = data]

Classes == Recovered \cup Dead
NoEntry == [status |-> "none", valid |-> 0, sectors |-> [s \in Sectors |-> "unseen"]]
Entries == [status  : {"none", "partial", "complete"},
            valid   : 0 .. NS,
            sectors : [Sectors -> Classes \cup {"unseen"}]]

With(entry, classes) == {s \in Sectors : entry.sectors[s] \in classes}

-----------------------------------------------------------------------------
VARIABLES
  manifest,  \* manifest.json: track -> entry
  blob,      \* tracks/cylCCC_hN.bin
  raw,       \* raw/cylCCC_hN.<hash>.bin: "absent", "empty" or "whole"
  torn,      \* history: listed tracks whose file a kill left truncated
  tool,      \* the running tool
  pc,        \* where it is
  mem,       \* its copy of the manifest
  todo,      \* the tracks it has still to visit
  cur,       \* the track it is at
  labels,    \* sweep: class of each sector in `merged`, "none" if not in it
  buf,       \* sweep: bytes of each sector in `merged`; offline: the bytearray
  seen,      \* sweep: distinct captures of this visit
  last,      \* sweep: the latest capture
  verdict,   \* sweep: diagnosis of each sector over `seen`
  reads, dry,\* sweep: the loop's counters
  wins,      \* offline: sectors recovered and not yet written to the bytearray
  count,     \* offline: tracks since the last checkpoint
  dryRun     \* offline: --dry-run

disk == <<manifest, blob, raw, torn>>
visit == <<labels, seen, last, verdict, reads, dry>>
vars == <<manifest, blob, raw, torn, tool, pc, mem, todo, cur, labels, buf,
          seen, last, verdict, reads, dry, wins, count, dryRun>>

Nothing == [s \in Sectors |-> "none"]
NoVerdict == [s \in Sectors |-> "no-header"]
SomeTrack == CHOOSE t \in Tracks : TRUE
SomeRaw == CHOOSE r \in Raws : TRUE
BlankManifest == [t \in Tracks |-> NoEntry]

Init ==
  /\ manifest = BlankManifest
  /\ blob = [t \in Tracks |-> NoFile]
  /\ raw = [t \in Tracks |-> [r \in Raws |-> "absent"]]
  /\ torn = {}
  /\ tool = "none" /\ pc = "idle"
  /\ mem = BlankManifest /\ todo = {} /\ cur = SomeTrack
  /\ labels = Nothing /\ buf = Empty
  /\ seen = {} /\ last = SomeRaw /\ verdict = NoVerdict
  /\ reads = 0 /\ dry = 0
  /\ wins = {} /\ count = 0 /\ dryRun = FALSE

\* The process ends: nothing it had in memory survives.
Quit ==
  /\ tool' = "none" /\ pc' = "idle"
  /\ mem' = BlankManifest /\ todo' = {} /\ cur' = SomeTrack
  /\ labels' = Nothing /\ buf' = Empty
  /\ seen' = {} /\ last' = SomeRaw /\ verdict' = NoVerdict
  /\ reads' = 0 /\ dry' = 0
  /\ wins' = {} /\ count' = 0 /\ dryRun' = FALSE

-----------------------------------------------------------------------------
(* sweep.py                                                                *)

Selected_Any(e, revisit, minValid) ==  \* mutant: --revisit takes complete tracks too
  \/ e.status = "none"
  \/ revisit /\ e.valid >= minValid
Selected(e, revisit, minValid) ==
  \/ e.status = "none"
  \/ e.status = "partial" /\ revisit /\ e.valid >= minValid

\* Load the manifest, select the tracks of --cyls and --heads.
SweepStart ==
  /\ pc = "idle"
  /\ \E asked \in SUBSET Tracks, revisit \in BOOLEAN, minValid \in 0 .. NS :
       todo' = {t \in asked : Selected(manifest[t], revisit, minValid)}
  /\ todo' # {}
  /\ tool' = "sweep" /\ pc' = "next" /\ mem' = manifest
  /\ UNCHANGED <<disk, visit, cur, buf, wins, count, dryRun>>

\* Next track: `merged` is seeded with every recovered class of the manifest,
\* the bytes sliced out of the track file.
Prior_OfReads(e, file, s) ==  \* mutant: the offline classes are not seeded
  file # NoFile /\ e.sectors[s] \in {"valid", "corrected"}
Prior(e, file, s) == file # NoFile /\ e.sectors[s] \in Recovered
Seed_ClassOnly(t, s) == Zero  \* mutant: the class is seeded without the bytes
Seed(t, s) == IF Prior(mem[t], blob[t], s) THEN blob[t][s] ELSE Zero
Remaining_Requeue(t) == todo  \* mutant: a track goes back to the queue
Remaining(t) == todo \ {t}
SweepVisit ==
  /\ tool = "sweep" /\ pc = "next"
  /\ \E t \in todo :
       /\ cur' = t /\ todo' = Remaining(t)
       /\ labels' = [s \in Sectors |->
                       IF Prior(mem[t], blob[t], s) THEN mem[t].sectors[s] ELSE "none"]
       /\ buf' = [s \in Sectors |-> Seed(t, s)]
  /\ seen' = {} /\ verdict' = NoVerdict /\ reads' = 0 /\ dry' = 0
  /\ pc' = "read"
  /\ UNCHANGED <<disk, tool, mem, last, wins, count, dryRun>>

\* One capture.  A capture not seen on this visit and not in raw/ is archived:
\* the file is created (here) and then written (SweepArchive).
NewFile_FirstRead(r) == seen = {} /\ raw[cur][r] = "absent"  \* mutant: archives one read a visit
NewFile(r) == r \notin seen /\ raw[cur][r] = "absent"
SweepCapture ==
  /\ tool = "sweep" /\ pc = "read"
  /\ \E r \in Raws :
       /\ last' = r
       /\ seen' = seen \cup {r}
       /\ verdict' = IF r \in seen THEN verdict
                     ELSE [s \in Sectors |->
                             IF verdict[s] = "no-header" /\ Decode[r][s] \in Dead
                             THEN Decode[r][s] ELSE verdict[s]]
       /\ IF NewFile(r)
          THEN raw' = [raw EXCEPT ![cur][r] = "empty"] /\ pc' = "archive"
          ELSE raw' = raw /\ pc' = "decode"
  /\ reads' = reads + 1
  /\ UNCHANGED <<manifest, blob, torn, tool, mem, todo, cur, labels, buf, dry,
                 wins, count, dryRun>>

SweepArchive ==
  /\ tool = "sweep" /\ pc = "archive"
  /\ raw' = [raw EXCEPT ![cur][last] = "whole"]
  /\ pc' = "decode"
  /\ UNCHANGED <<manifest, blob, torn, tool, mem, todo, cur, visit, buf, wins,
                 count, dryRun>>

\* Merge what the capture decodes to; stop when all sectors are there, after
\* DryLimit reads that added none, or after MaxReads.
Label(cls, q) ==
  IF cls = "none" THEN (IF q = "fixed" THEN "corrected" ELSE "valid") ELSE "valid"
Improves(cls, q) ==
  \/ cls = "none" /\ q \in {"clean", "fixed"}
  \/ cls = "corrected" /\ q = "clean"
SweepDecode ==
  /\ tool = "sweep" /\ pc = "decode"
  /\ LET got == Decode[last]
         better == {s \in Sectors : Improves(labels[s], got[s])}
         new == {s \in better : labels[s] = "none"}
     IN  /\ labels' = [s \in Sectors |->
                         IF s \in better THEN Label(labels[s], got[s]) ELSE labels[s]]
         /\ buf' = [s \in Sectors |->
                      IF s \in better THEN <<s, Label(labels[s], got[s])>> ELSE buf[s]]
         /\ dry' = IF new = {} THEN dry + 1 ELSE 0
  /\ pc' = IF \/ \A s \in Sectors : labels'[s] # "none"
              \/ dry' >= DryLimit
              \/ reads >= MaxReads
           THEN "open" ELSE "read"
  /\ UNCHANGED <<disk, tool, mem, todo, cur, seen, last, verdict, reads, wins,
                 count, dryRun>>

\* The entry image_track returns goes into the manifest, which is saved.
SweepEntry ==
  LET got == {s \in Sectors : labels[s] # "none"}
  IN  [status  |-> IF got = Sectors THEN "complete" ELSE "partial",
       valid   |-> Cardinality(got),
       sectors |-> [s \in Sectors |-> IF s \in got THEN labels[s] ELSE verdict[s]]]
SweepRecord ==
  /\ tool = "sweep" /\ pc = "record"
  /\ mem' = [mem EXCEPT ![cur] = SweepEntry]
  /\ manifest' = mem'
  /\ pc' = "next"
  /\ UNCHANGED <<blob, raw, torn, tool, todo, cur, visit, buf, wins, count, dryRun>>

\* A capture that fails or times out: save the manifest and stop.
SweepStop ==
  /\ tool = "sweep" /\ pc = "read"
  /\ manifest' = mem
  /\ Quit
  /\ UNCHANGED <<blob, raw, torn>>

SweepDone ==
  /\ tool = "sweep" /\ pc = "next" /\ todo = {}
  /\ Quit
  /\ UNCHANGED disk

-----------------------------------------------------------------------------
(* vote_repair.py, rescue.py, deep_rescue.py                               *)

Label3 == [vote |-> "voted", rescue |-> "position", deep |-> "deep"]

\* Tracks a tool works on, and the sectors it tries there.
Targets_Corrected(k, e) == With(e, Dead \cup {"corrected"})  \* mutant: retries those too
Targets(k, e) == With(e, IF k = "vote" THEN {"failed"} ELSE Dead)
Eligible(k, t, e) ==
  /\ Targets(k, e) # {}
  /\ k = "vote" => e.status = "partial"
  /\ k = "deep" => t \notin CylZero /\ With(e, Recovered) # {}

\* What the raw directory must hold before the tool can recover a sector.
Files(t) == {r \in Raws : raw[t][r] # "absent"}
Whole(t) == {r \in Raws : raw[t][r] = "whole"}
Readable(k, t) ==
  CASE k = "vote"   -> Cardinality(Files(t)) >= MinReads /\ Whole(t) # {}
    [] k = "rescue" -> \E r \in Whole(t), s \in Sectors : Decode[r][s] # "no-header"
    [] k = "deep"   -> Whole(t) # {}

\* The classes each tool counts into entry['valid'].
Counted_WithHeader ==  \* mutant: counts what has a header
  [k \in Offline |-> Recovered \cup {"failed"}]
Counted == [vote   |-> {"valid", "corrected", "voted"},
            rescue |-> {"valid", "corrected", "voted", "position"},
            deep   |-> Recovered]

OfflineStart ==
  /\ pc = "idle"
  /\ \E k \in Offline, asked \in SUBSET Tracks, d \in BOOLEAN :
       /\ k = "deep" => asked = Tracks
       /\ todo' = {t \in asked : Eligible(k, t, manifest[t])}
       /\ tool' = k /\ dryRun' = d
  /\ pc' = "next" /\ mem' = manifest
  /\ UNCHANGED <<disk, visit, cur, buf, wins, count>>

\* Next track: some set of its target sectors is recovered.  deep_rescue.py
\* counts every track towards the checkpoint, the others those they improved.
OfflineVisit ==
  /\ tool \in Offline /\ pc = "next"
  /\ \E t \in todo :
       /\ cur' = t /\ todo' = Remaining(t)
       /\ buf' = IF blob[t] = NoFile THEN Zeros ELSE blob[t]
       /\ \E W \in SUBSET Targets(tool, mem[t]) :
            /\ W # {} => Readable(tool, t)
            /\ wins' = W
            /\ pc' = IF W # {} THEN "patch" ELSE IF tool = "deep" THEN "count" ELSE "next"
  /\ UNCHANGED <<disk, tool, mem, visit, count, dryRun>>

OfflinePatch ==
  /\ tool \in Offline /\ pc = "patch"
  /\ \E s \in wins :
       /\ wins' = wins \ {s}
       /\ buf' = Put(buf, s, <<s, Label3[tool]>>)
       /\ mem' = [mem EXCEPT ![cur].sectors[s] = Label3[tool]]
  /\ pc' = IF wins' = {} THEN "tally" ELSE "patch"
  /\ UNCHANGED <<disk, tool, todo, cur, visit, count, dryRun>>

OfflineTally ==
  /\ tool \in Offline /\ pc = "tally"
  /\ LET v == Cardinality(With(mem[cur], Counted[tool]))
     IN  mem' = [mem EXCEPT ![cur].valid = v,
                            ![cur].status = IF v = NS THEN "complete" ELSE @]
  /\ pc' = IF ~dryRun THEN "open" ELSE IF tool = "deep" THEN "count" ELSE "next"
  /\ UNCHANGED <<disk, tool, todo, cur, visit, buf, wins, count, dryRun>>

\* Every Checkpoint-th track the manifest is saved.
OfflineCount ==
  /\ tool \in Offline /\ pc = "count"
  /\ count' = (count + 1) % Checkpoint
  /\ manifest' = IF count' = 0 /\ ~dryRun THEN mem ELSE manifest
  /\ pc' = "next"
  /\ UNCHANGED <<blob, raw, torn, tool, mem, todo, cur, visit, buf, wins, dryRun>>

OfflineDone ==
  /\ tool \in Offline /\ pc = "next" /\ todo = {}
  /\ manifest' = IF dryRun THEN manifest ELSE mem
  /\ Quit
  /\ UNCHANGED <<blob, raw, torn>>

-----------------------------------------------------------------------------
(* write_bytes on a track file opens it, which truncates it, and writes it. *)

OpenBlob ==
  /\ pc = "open"
  /\ blob' = [blob EXCEPT ![cur] = Empty]
  /\ pc' = "write"
  /\ UNCHANGED <<manifest, raw, torn, tool, mem, todo, cur, visit, buf, wins,
                 count, dryRun>>

WriteBlob ==
  /\ pc = "write"
  /\ blob' = [blob EXCEPT ![cur] = IF tool = "sweep" THEN Image(buf) ELSE buf]
  /\ pc' = IF tool = "sweep" THEN "record" ELSE "count"
  /\ UNCHANGED <<manifest, raw, torn, tool, mem, todo, cur, visit, buf, wins,
                 count, dryRun>>

\* Killed (Ctrl-C, an exception nobody catches, a power cut).  A track the
\* manifest does not list yet is imaged afresh, whatever its file holds.
Crash ==
  /\ pc # "idle"
  /\ torn' = IF pc = "write" /\ manifest[cur].status # "none"
             THEN torn \cup {cur} ELSE torn
  /\ Quit
  /\ UNCHANGED <<manifest, blob, raw>>

-----------------------------------------------------------------------------
Work ==
  \/ SweepVisit \/ SweepCapture \/ SweepArchive \/ SweepDecode \/ SweepRecord
  \/ SweepDone
  \/ OfflineVisit \/ OfflinePatch \/ OfflineTally \/ OfflineCount \/ OfflineDone
  \/ OpenBlob \/ WriteBlob

Next == SweepStart \/ OfflineStart \/ Work \/ SweepStop \/ Crash

Spec == Init /\ [][Next]_vars

\* A started process is scheduled until it ends; nobody has to start one.
FairSpec == Spec /\ WF_vars(Work)

-----------------------------------------------------------------------------
(* What must hold.                                                         *)

\* Every variable keeps its type, whatever is killed when.
TypeOK ==
  /\ manifest \in [Tracks -> Entries] /\ mem \in [Tracks -> Entries]
  /\ blob \in [Tracks -> [Sectors -> Blocks]]
  /\ raw \in [Tracks -> [Raws -> {"absent", "empty", "whole"}]]
  /\ torn \subseteq Tracks /\ todo \subseteq Tracks
  /\ tool \in {"none", "sweep"} \cup Offline
  /\ pc \in {"idle", "next", "read", "archive", "decode", "open", "write",
             "record", "patch", "tally", "count"}
  /\ cur \in Tracks /\ last \in Raws
  /\ labels \in [Sectors -> Recovered \cup {"none"}]
  /\ buf \in [Sectors -> Blocks]
  /\ seen \subseteq Raws /\ verdict \in [Sectors -> Dead]
  /\ reads \in Nat /\ dry \in Nat
  /\ wins \subseteq Sectors /\ count \in 0 .. Checkpoint - 1
  /\ dryRun \in BOOLEAN

\* A block that a claim of class cls on sector s may point at: bytes recovered
\* that way, or since replaced by a clean read the manifest missed.
Backs(s, cls, block) ==
  \/ block = <<s, cls>>
  \/ cls = "corrected" /\ block = <<s, "valid">>
Stored(t) ==
  \A s \in With(manifest[t], Recovered) : Backs(s, manifest[t].sectors[s], blob[t][s])
Writing(t) == pc = "write" /\ cur = t

\* "The manifest is authoritative for validity": a sector it claims is at its
\* place in the track file, with the bytes the claimed recovery produced.  A
\* kill may fall between the file's write and the manifest's, or lose the
\* claims of up to Checkpoint repaired tracks; only a kill inside the write of
\* the track file itself breaks it, on that track.
ClaimedStored == \A t \in Tracks \ torn : ~Writing(t) => Stored(t)

\* A block the manifest does not claim is zero-filled, or holds that same
\* sector, left there by a tool killed before its manifest save; never another
\* sector's bytes, and never a hole that would shift the sectors after it.
BlocksInPlace ==
  \A t \in Tracks \ torn : ~Writing(t) /\ manifest[t].status # "none" =>
    \A s \in Sectors : blob[t][s] = Zero \/ blob[t][s] \in {s} \X Recovered

\* raw/ is the evidence: what the manifest calls valid or corrected some
\* capture kept in raw/ decodes to, so a better decoder can run again.  A kill
\* while a capture is written voids this for the track.
Evidence(t, s) ==
  \E r \in Whole(t) : \/ Decode[r][s] = "clean"
                      \/ Decode[r][s] = "fixed" /\ manifest[t].sectors[s] = "corrected"
EvidenceKept ==
  \A t \in Tracks : Files(t) = Whole(t) =>
    \A s \in With(manifest[t], {"valid", "corrected"}) : Evidence(t, s)

\* The manifest never claims more than there is: `valid` counts no sector that
\* is not recovered, and a track called complete has them all.
Honest(e) == LET got == With(e, Recovered)
             IN  /\ e.valid <= Cardinality(got)
                 /\ e.status = "complete" => got = Sectors
NeverOverstated == \A t \in Tracks : Honest(manifest[t])

\* What the saved manifest claims it never gives up, across tools, kills and
\* revisits; a class changes only from corrected to valid.
ClaimsOnlyGrow ==
  [][\A t \in Tracks : \A s \in With(manifest[t], Recovered) :
       \/ manifest'[t].sectors[s] = manifest[t].sectors[s]
       \/ manifest[t].sectors[s] = "corrected" /\ manifest'[t].sectors[s] = "valid"]_vars

\* A complete track is done with: no tool writes its file again.
CompleteUntouched ==
  [][\A t \in Tracks : manifest[t].status = "complete" => blob'[t] = blob[t]]_vars

\* A tool that is started ends: the read loop of a track is bounded, and every
\* track is visited once.
ToolEnds == pc # "idle" ~> pc = "idle"

-----------------------------------------------------------------------------
(* The inductive invariant behind ClaimedStored, BlocksInPlace and         *)
(* ClaimsOnlyGrow.                                                         *)

Listed(e) == e.status # "none"
Solid(file) == \A s \in Sectors : file[s] = Zero \/ file[s] \in {s} \X Recovered
Holds(file, e) == \A s \in With(e, Recovered) : Backs(s, e.sectors[s], file[s])
Visiting == tool = "sweep" /\ pc \in {"read", "archive", "decode", "open", "write", "record"}
Patching == tool \in Offline /\ pc \in {"patch", "tally", "open", "write"}

ControlInv ==
  /\ tool = "none" <=> pc = "idle"
  /\ tool = "sweep" => pc = "next" \/ Visiting
  /\ tool \in Offline => pc \in {"next", "count"} \/ Patching
  /\ Patching /\ pc \in {"open", "write"} => ~dryRun

\* What is listed has a file, and a file has no missing block.
ListingInv ==
  /\ \A t \in Tracks :
       /\ ~Listed(manifest[t]) => With(manifest[t], Classes) = {}
       /\ Listed(manifest[t]) => blob[t] # NoFile
       /\ blob[t] # NoFile => \A s \in Sectors : blob[t][s] # Missing
  /\ Visiting \/ Patching => \A s \in Sectors : buf[s] # Missing

\* The files agree with the saved manifest...
DiskInv ==
  \A t \in Tracks \ torn : ~Writing(t) /\ Listed(manifest[t]) =>
    Solid(blob[t]) /\ Holds(blob[t], manifest[t])

\* ...and with the running tool's copy, which claims no less; except on the
\* track an offline tool is at, where the bytearray agrees with it.
MemInv ==
  /\ tool = "sweep" => mem = manifest
  /\ tool \in Offline =>
       \A t \in Tracks :
         /\ Listed(mem[t]) <=> Listed(manifest[t])
         /\ ~Listed(mem[t]) => With(mem[t], Classes) = {}
         /\ \A s \in With(manifest[t], Recovered) : mem[t].sectors[s] = manifest[t].sectors[s]
         /\ t \notin torn /\ ~dryRun /\ ~(Patching /\ t = cur) => Holds(blob[t], mem[t])

SweepInv ==
  Visiting =>
    /\ \A s \in With(mem[cur], Recovered) :
         \/ labels[s] = mem[cur].sectors[s]
         \/ labels[s] = "valid" /\ mem[cur].sectors[s] = "corrected"
    /\ cur \notin torn => \A s \in Sectors :
         IF labels[s] = "none" THEN buf[s] = Zero ELSE Backs(s, labels[s], buf[s])
    /\ pc = "record" => blob[cur] # NoFile /\ (cur \notin torn => blob[cur] = buf)

PatchInv ==
  Patching =>
    /\ Listed(mem[cur])
    /\ wins \cap With(mem[cur], Recovered) = {}
    /\ cur \notin torn /\ ~dryRun => Solid(buf) /\ Holds(buf, mem[cur])

\* The tools' memory and the files agree at every step: what a kill leaves
\* behind is always something the next tool can continue from.
IInv == TypeOK /\ ControlInv /\ ListingInv /\ DiskInv /\ MemInv /\ SweepInv /\ PatchInv

\* What the tools count and call complete: of the running one's copy, too.
CountInv == \A t \in Tracks : Honest(manifest[t]) /\ Honest(mem[t])

\* The capture behind a class has a file in raw/, if only one that a kill left
\* empty; what an offline tool adds to its copy claims no capture.
Shown(t, s, cls) ==
  cls \in {"valid", "corrected"} =>
    \E r \in Files(t) : \/ Decode[r][s] = "clean"
                        \/ Decode[r][s] = "fixed" /\ cls = "corrected"
EvidenceInv ==
  /\ \A t \in Tracks, s \in Sectors : Shown(t, s, manifest[t].sectors[s])
  /\ tool \in Offline =>
       \A t \in Tracks, s \in Sectors :
         mem[t].sectors[s] \in {"valid", "corrected"} =>
           manifest[t].sectors[s] = mem[t].sectors[s]
  /\ Visiting => /\ \A s \in Sectors : Shown(cur, s, labels[s])
                 /\ seen \subseteq Files(cur)
                 /\ pc \in {"archive", "decode"} => last \in seen

\* No tool is at a complete track, or has one still to visit.
UntouchedInv ==
  /\ tool # "none" =>
       /\ \A t \in todo : mem[t].status # "complete"
       /\ \A t \in Tracks : manifest[t].status = "complete" => mem[t].status = "complete"
  /\ Visiting \/ Patching => cur \notin todo /\ manifest[cur].status # "complete"

\* The file that is about to be rewritten holds nothing better than the bytes
\* that will take its place.
Rewriting == (dryRun => tool = "sweep") /\ pc \in {"read", "archive", "decode", "patch", "tally", "open"}
RewriteInv ==
  Rewriting /\ cur \notin torn =>
    \A s \in With(manifest[cur], Recovered) :
      blob[cur][s] = <<s, "valid">> => buf[s] = <<s, "valid">>

\* IInv with what NeverOverstated, EvidenceKept, CompleteUntouched and
\* ImplementsArchive need beyond it.
FullInv == IInv /\ CountInv /\ EvidenceInv /\ UntouchedInv /\ RewriteInv

-----------------------------------------------------------------------------
(* What the image directory promises: the archive as a reader sees it, what*)
(* the manifest claims, read from the track file, or from the bytes about  *)
(* to be written while it is rewritten.                                    *)

Bytes(t) == IF Writing(t) THEN (IF tool = "sweep" THEN Image(buf) ELSE buf) ELSE blob[t]
View == [t \in Tracks |-> [s \in Sectors |->
           IF t \notin torn /\ s \in With(manifest[t], Recovered)
           THEN Bytes(t)[s][2] ELSE "nothing"]]

Promised == INSTANCE Archive WITH Qualities <- Recovered, view <- View, lost <- torn

\* The image directory implements Archive: what a reader gets only improves,
\* or is lost with the track whose file a kill left truncated.
ImplementsArchive == Promised!Spec

-----------------------------------------------------------------------------
(* What the repository says and the code does not do.                      *)

\* sweep.py: "manifest is authoritative for validity".
ManifestAuthoritative == \A t \in Tracks : ~Writing(t) => Stored(t)

\* sweep.py: raw/ holds "every distinct raw capture", "a bit-faithful archive
\* so better decoders can re-run later".
ArchiveBitFaithful ==
  \A t \in Tracks : pc # "archive" =>
    \A s \in With(manifest[t], {"valid", "corrected"}) : Evidence(t, s)

\* sweep.py: "ALL recovered classes, incl. offline repairs"; software/README.md:
\* "reruns skip completed tracks".  A track whose sectors are all recovered is
\* complete.
AllRecoveredIsComplete ==
  \A t \in Tracks : With(manifest[t], Recovered) = Sectors => manifest[t].status = "complete"
=============================================================================
