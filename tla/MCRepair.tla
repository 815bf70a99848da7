------------------------------- MODULE MCRepair -------------------------------
(***************************************************************************)
(* Repair on small captures of one track, and beside it the CRC arithmetic *)
(* deep_rescue.py uses (SlidingCrc), as if it were a tool of its own.      *)
(***************************************************************************)
EXTENDS Repair, TLC

VARIABLES cpc, w, pw, s, hits, slips  \* deep_rescue.py, the CRCs
crcVars == <<cpc, w, pw, s, hits, slips>>

\* Few slots that can be heard or read, on both sides of the revolution's end.
MCShifts == {<<-60, 0>>, <<40, 1>>, <<400, 10>>}
MCHeard  == {{}, {0, 1}, {10, 11, 12}, {1, 24}, {22, 23}}
MCPlaces == <<1, 11, 24>>  \* sectors 8, 19, and 8 again

\* Fields of fourteen bits: good reads with a bit wrong here or there, reads of
\* something else, and reads that are tried elsewhere too.
Sync(start) == {start + 3, start + 4, start + 7}
Pass(own, ones, wrong) == [own |-> own, ones |-> ones, wrong |-> wrong]
MCTruth == {1, 4, 5, 14}
MCBits == 1 .. 14
MCReads ==
  {Pass(TRUE, Sync(298), x) : x \in {{}, {1}, {2}, {14}, MCBits, MCBits \ {7, 8}}}
  \cup {Pass(TRUE, Sync(147) \cup Sync(298), {2}),          \* two alignments
        Pass(TRUE, Sync(147) \cup {290} \cup Sync(298), {}), \* the wrong one only
        Pass(FALSE, Sync(298), {})}                          \* another sector's header

\* Sectors differ where they are dense, behind the sync and near the end; at no shift is one like itself.
MCWritten ==
  [p \in {"own", "cylinder"} \X (0 .. 22) |->
     {-298, -290} \cup SyncOnes \cup {4000 + p[2], 4100, 4130}
     \cup {b \in (8 .. 299) \cup (3900 .. 3999) :
             (9 * b * b + 3 * b + p[2] + Len(p[1])) % 251 < 60}]

\* Sector 0 is in a slot that is captured twice, sector 16 in slot 2.  Captures
\* show no header, some of the first revolution, or only the one of the second;
\* a capture of another cylinder shows some or none.  Bits are wrong here and there, in
\* bursts that are undone (in the sync, at the last place, as far off INDEX as a
\* window allows for) and that are not, in a run too long to be laid over another,
\* and, for want of a bit, from some place on.
Of(kind, shifts, heard, wrong) ==
  [kind : {kind}, shift : shifts, heard : heard, wrong : wrong]
Slip == LET as == MCWritten[<<"own", 0>>]
        IN  SymDiff(as, {b \in as : b < 3950} \cup {b - 1 : b \in as \cap (3951 .. 4135)})
MCCaptures == Of("own", {-50}, {{1, 5, 24}},
                 {{3, 2000}, {3, 4}, {4101}, 40 .. 80, Slip})
              \cup Of("own", {-50}, {{23}}, {{100, 4102}})
              \cup Of("own", {300}, {{}, {1, 5, 24}}, {{200, 3000}})
              \cup Of("own", {-335}, {{1, 5, 24}}, {{4100, 4102}})
              \cup Of("own", {899}, {{}}, {{3}})
              \cup Of("cylinder", {0}, {{}, {1, 5}}, {{}})

\* Every window of 13 bits, with x^4 + x + 1 and a body of six bits: a run of
\* three bits too many still fits.
Crc == INSTANCE SlidingCrc WITH
  W <- 4, POLY <- {0, 1}, K <- {1}, BODY_BITS <- 6, Lengths <- {13}, MinX <- 2,
  Dropped <- 1 .. 3, Missed <- 1 .. 3, pc <- cpc
ASSUME Deep!DeepAssumption /\ Crc!CrcAssumption
\* What the theorems about Repair assume holds of these captures.
ASSUME Aligned /\ Deep!InReach /\ Deep!Unlike

-----------------------------------------------------------------------------
MCInit ==
  /\ Begin /\ Crc!Init
  /\ tool \in {"rescue.py", "vote_repair.py", "deep_rescue.py", "sliding_scan"}
  /\ tool = "deep_rescue.py" \/ sec = 0
  /\ tool = "sliding_scan" \/ w = [k \in 1 .. 13 |-> 0]
MCNext == \/ RepairNext /\ UNCHANGED crcVars
          \/ tool = "sliding_scan" /\ Crc!Next /\ UNCHANGED repairVars
MCSpec == MCInit /\ [][MCNext]_<<repairVars, crcVars>>

\* sliding_scan finds the fields that are valid, slip_search the slips which,
\* undone, make one: without computing the CRC of any of them.
CrcExact == Crc!TypeOK /\ Crc!ScanExact /\ Crc!SlipExact
=============================================================================
