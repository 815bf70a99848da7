-------------------------------- MODULE Decoder --------------------------------
(***************************************************************************)
(* decode_scout.py: decode_track and classify_missing on one capture.      *)
(*                                                                         *)
(* A capture is the sequence of the headers find_headers finds, those      *)
(* whose own checksum is right, each with what follows it on the track.    *)
(* The ECC is ideal: a field checks only where one starts, and only if it  *)
(* is undamaged or burst correction repairs it (ErrorTrap shows when).     *)
(***************************************************************************)
EXTENDS AnchorWalk, Sequences

CONSTANTS
  Headers,    \* the headers that may be found: cyl, head, sec
  Fields,     \* what may follow: the kind of the field, the bits inverted
  MaxHeaders  \* bound: headers of a capture

SECTORS_PER_TRACK == 23
expect_cyl == 0
expect_head == 0
Kinds == {"data", "ff", "blank"}
ASSUME DecoderAssumption ==
  /\ \A h \in Headers : h.cyl \in Nat /\ h.head \in Nat /\ h.sec \in Nat
  /\ Fields \subseteq [kind : Kinds, flips : SUBSET Nat]
  /\ MaxHeaders \in Nat

VARIABLES
  pc,      \* "find" the headers, "decode", "classify", "done"
  cap,     \* the headers and fields of the capture, by position
  k,       \* the header decode_track is at
  got,     \* its dict: sector -> {} or {data, corrected}
  verdict  \* classify_missing of the sectors that are missing

vars == <<pc, cap, k, got, verdict>>
Sectors == {h.sec : h \in Headers} \cap 0 .. SECTORS_PER_TRACK - 1

Init == /\ pc = "find" /\ cap = <<>> /\ k = 1
        /\ got = [s \in Sectors |-> {}] /\ verdict = [s \in Sectors |-> "none"]

-----------------------------------------------------------------------------
(* The track after a header.                                               *)

START == 298   \* of the data sync
PITCH == 4656  \* from header to header, and from field to field
Sync(start) == {start + b : b \in SyncOnes}
Written(kind) == CASE kind = "data"  -> Sync(START) \cup {START + b : b \in {9, 12, 13, 30}}
                   [] kind = "ff"    -> Sync(START) \cup START + 8 .. START + 40
                   [] kind = "blank" -> {}
Splice == {75, 77, 90}  \* ones where the data's preamble begins
Ones(f) == LET w == Splice \cup Written(f.kind) \cup Sync(PITCH + START)
           IN  (w \ f.flips) \cup (f.flips \ w)
\* The field ends with its ECC; a burst is given up in the ECC, and in the last bits before.
BODY_BITS == 4104
MAX_BURST == 4
Damage(f) == f.flips \cap START .. START + BODY_BITS + 31
Mended(f) == Undone(Damage(f), MAX_BURST, START + BODY_BITS - MAX_BURST)

\* find_data: the first try that checks, by anchor, then by offset.
Checks(f, s) == \/ s = START /\ f.kind = "data" /\ Mended(f)
                \/ s = START + PITCH
find_data(f) ==
  LET good == {a \in Tries(Ones(f)) : Checks(f, a[1] - a[2])}
      first == CHOOSE a \in good : \A b \in good : a[1] < b[1] \/ (a[1] = b[1] /\ a[2] <= b[2])
      own == first[1] - first[2] = START
  IN  IF good = {} THEN {} ELSE {[own |-> own, corrected |-> own /\ Damage(f) # {}]}

\* classify_missing at a header: where the first longer run of zeros ends the
\* field is compared with FF-fill; 4% may differ, or the place be so far off.
FieldStart(f) == LET A == Anchors(Ones(f), 22)
              IN  {i - 3 : i \in {a \in A : \A b \in A : a <= b}}
Filled_Exact(f) ==  \* mutant: no tolerance
  f.kind = "ff" /\ START \in FieldStart(f)
Filled(f) == f.kind = "ff" /\ \E s \in FieldStart(f) : -165 < s - START /\ s - START < 165

-----------------------------------------------------------------------------
FindHeader == /\ pc = "find" /\ Len(cap) < MaxHeaders
              /\ \E h \in Headers, f \in Fields : cap' = Append(cap, <<h, f>>)
              /\ UNCHANGED <<pc, k, got, verdict>>
Found == /\ pc = "find" /\ pc' = "decode"
         /\ UNCHANGED <<cap, k, got, verdict>>

Expected_AnyHead(h) == h.cyl = expect_cyl  \* mutant: the head is not looked at
Expected(h) == h.cyl = expect_cyl /\ h.head = expect_head
HasClean(s) == \E d \in got[s] : ~d.corrected

Replaces_Never(s, d) == got[s] = {}  \* mutant: the first read stays
Replaces(s, d) == got[s] = {} \/ ~d.corrected

\* decode_track: one header, unless it is of another track, or has a clean read.
DecodeHeader ==
  /\ pc = "decode" /\ k <= Len(cap)
  /\ k' = k + 1
  /\ LET h == cap[k][1]
         found == IF h.sec \in Sectors /\ Expected(h) /\ ~HasClean(h.sec)
                  THEN find_data(cap[k][2]) ELSE {}
     IN  got' = [s \in Sectors |->
                   IF s = h.sec /\ \E d \in found : Replaces(s, d)
                   THEN {[header |-> h, own |-> d.own, corrected |-> d.corrected] : d \in found}
                   ELSE got[s]]
  /\ UNCHANGED <<pc, cap, verdict>>

Decoded == /\ pc = "decode" /\ k > Len(cap) /\ pc' = "classify"
           /\ UNCHANGED <<cap, k, got, verdict>>

\* classify_missing: the first header of the sector and cylinder decides.
Claims(s) == {n \in DOMAIN cap : cap[n][1].sec = s /\ cap[n][1].cyl = expect_cyl}
Classify ==
  /\ pc = "classify" /\ pc' = "done"
  /\ verdict' = [s \in Sectors |->
       IF got[s] # {} THEN "none"
       ELSE IF Claims(s) = {} THEN "no-header"
       ELSE LET n == CHOOSE n \in Claims(s) : \A m \in Claims(s) : n <= m
            IN  IF Filled(cap[n][2]) THEN "erased-ff" ELSE "failed"]
  /\ UNCHANGED <<cap, k, got>>

Next == FindHeader \/ Found \/ DecodeHeader \/ Decoded \/ Classify
Spec == Init /\ [][Next]_vars

-----------------------------------------------------------------------------
Read == [header : Headers, own : BOOLEAN, corrected : BOOLEAN]
\* Sectors that are returned exist, and decode_track's dict holds one read of each.
TypeOK ==
  /\ pc \in {"find", "decode", "classify", "done"}
  /\ cap \in Seq(Headers \X [kind : Kinds, flips : SUBSET Nat]) /\ k \in 1 .. Len(cap) + 1
  /\ DOMAIN got \subseteq 0 .. SECTORS_PER_TRACK - 1
  /\ \A s \in DOMAIN got : got[s] \subseteq Read /\ Cardinality(got[s]) <= 1
  /\ verdict \in [Sectors -> {"none", "no-header", "erased-ff", "failed"}]

\* Headers of the track that was asked for.
Rightful(s) == {n \in DOMAIN cap : /\ cap[n][1].sec = s /\ cap[n][1].cyl = expect_cyl
                                   /\ cap[n][1].head = expect_head}

\* What is returned for a sector stands after a header of that sector of that
\* track: no field of the next sector is taken for it when its own is dead, and
\* none of a track the drive was on by mistake.
OwnField ==
  /\ TypeOK
  /\ pc = "done" => \A s \in Sectors : \A d \in got[s] :
       d.own /\ \E n \in Rightful(s) : cap[n][1] = d.header

\* The long preamble and the zeros the sync starts with are undamaged.
Anchored(f) == \A b \in f.flips : b < START - PREAMBLE_BITS \/ b >= START + 3
\* Of the sync byte no more is damaged than find_data lets pass.
Faint(f) == Cardinality({b \in 0 .. 7 : START + b \in f.flips}) <= 2
\* A field with a burst of up to four bits is read, unless more than two are in its
\* sync, or the burst begins in the last three bits of the data or in the ECC; and if
\* the sector passes twice, the clean one is what remains.
Recovered == pc = "done" => \A s \in Sectors : \A n \in Rightful(s) :
  LET f == cap[n][2]
  IN  f.kind = "data" /\ Anchored(f) /\ Faint(f) /\ Mended(f) =>
        \E d \in got[s] : d.corrected => Damage(f) # {}

\* A sector filled with FF is told from a damaged one though its sync is damaged.
FillSeen == pc = "done" => \A s \in Sectors :
  (/\ Claims(s) # {}
   /\ \A n \in Claims(s) : LET f == cap[n][2] IN
        f.kind = "ff" /\ \A b \in f.flips : b >= START /\ b < START + 8)
  => verdict[s] = "erased-ff"
=============================================================================
