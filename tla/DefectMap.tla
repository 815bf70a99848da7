-------------------------------- MODULE DefectMap --------------------------------
(***************************************************************************)
(* defect_map.py: the bad-track table of the reserved cylinder is searched *)
(* for in an image with holes, the missing sectors are split by it, and    *)
(* the losses are attributed to the files that irmx_fs.walk lists.         *)
(***************************************************************************)
EXTENDS FileWalk

CONSTANTS
  CYL, HEAD, SPT,  \* the geometry
  BADTRK_CYL,      \* the cylinder of the table
  MaxEntries,      \* of one sector, (SEC - 4) // 4
  Tables,          \* the tables the format utility may have written
  CopyAt,          \* the blocks of BADTRK_CYL it wrote them to
  Strays           \* other blocks that start with the magic: count and entries

ASSUME GeometryAssumption == /\ {CYL, HEAD, SPT, MaxEntries} \subseteq Nat \ {0}
                             /\ Blocks = 0 .. CYL * HEAD * SPT - 1

\* A count that fits, of tracks the drive has; and the p-th sector of the cylinder.
Plausible(n, ents) == /\ n \in 1 .. MaxEntries
                      /\ \A k \in 1 .. n : ents[k][1] < CYL /\ ents[k][2] < HEAD
At(p) == BADTRK_CYL * HEAD * SPT + p

\* The format utility wrote tracks of the drive, to that cylinder; no other block passes
\* for a table.
ASSUME TableAssumption ==
  /\ \A t \in Tables : /\ t \in Seq((0 .. CYL - 1) \X (0 .. HEAD - 1))
                       /\ Len(t) \in 1 .. MaxEntries
  /\ CopyAt \subseteq {At(p) : p \in 0 .. HEAD * SPT - 1}
  /\ \A b \in DOMAIN Strays \ CopyAt : ~Plausible(Strays[b].n, Strays[b].ents)

VARIABLES
  written,   \* the table on the disk
  probe,     \* the sector of BADTRK_CYL to look at
  bad,       \* the table found, empty until then
  on_head,
  covered,   \* the tracks reported as fully unreadable
  rows,      \* damaged file -> sectors lost to factory defects and to storage
  claim      \* whether it prints that no file data is on the flagged tracks

tableVars == <<written, probe, bad, on_head>>
reportVars == <<covered, rows, claim>>
NoHead == -1

Start ==
  /\ pc = "table" /\ missing \in Losses /\ written \in Tables
  /\ todo = << {rootfn} >> /\ seen = {} /\ files = <<>>
  /\ intact = {} /\ damaged = {} /\ owner = [b \in Blocks |-> NoOwner]
  /\ probe = 0 /\ bad = <<>> /\ on_head = NoHead
  /\ covered = {} /\ rows = <<>> /\ claim = FALSE

track_of_Flat(l) == <<l \div (HEAD * SPT), l % HEAD>>  \* mutant: the sector is not divided out
track_of(l) == <<l \div (HEAD * SPT), (l % (HEAD * SPT)) \div SPT>>

-----------------------------------------------------------------------------
\* A lost sector is zeros: it has no magic, like all but the strays.
Sector(b) == IF b \in missing THEN [magic |-> FALSE]
             ELSE IF b \in CopyAt THEN [magic |-> TRUE, n |-> Len(written), ents |-> written]
             ELSE IF b \in DOMAIN Strays
             THEN [magic |-> TRUE, n |-> Strays[b].n, ents |-> Strays[b].ents]
             ELSE [magic |-> FALSE]
IsTable_Magic(b) == Sector(b).magic  \* mutant: the magic alone is believed
IsTable(b) == Sector(b).magic /\ Plausible(Sector(b).n, Sector(b).ents)

\* read_badtrack_table: head after head, sector after sector, the first that holds.
MoreHeads_One == probe + 1 < SPT  \* mutant: only the first head is searched
MoreHeads == probe + 1 < HEAD * SPT
Found == /\ bad' = Sector(At(probe)).ents
         /\ on_head' = probe \div SPT /\ pc' = "split"
         /\ UNCHANGED probe
NotHere == /\ UNCHANGED <<bad, on_head>>
           /\ IF MoreHeads THEN probe' = probe + 1 /\ UNCHANGED pc
              ELSE pc' = "no table" /\ UNCHANGED probe
Probe ==
  /\ pc = "table"
  /\ IF IsTable(At(probe)) THEN Found ELSE NotHere
  /\ UNCHANGED <<missing, todo, seen, files, intact, damaged, owner, written>>
  /\ UNCHANGED reportVars

\* main: the shares are of all missing sectors, a division by zero without any.
badset == ToSet(bad)
Split ==
  /\ pc = "split"
  /\ IF missing = {} THEN pc' = "ZeroDivisionError" /\ UNCHANGED covered
     ELSE /\ pc' = "walk"
          /\ covered' = {track_of(l) : l \in missing} \cap badset
  /\ UNCHANGED <<missing, todo, seen, files, intact, damaged, owner, rows, claim>>
  /\ UNCHANGED tableVars

Walk == (Visit \/ Leave \/ Walked) /\ UNCHANGED tableVars /\ UNCHANGED reportVars

\* A row for each file any of whose extents has a missing sector, slack included.
LostOf(n) == {l \in missing : Contains(extents(missing, fnode(missing, n)), l)}
Flagged(S) == {l \in S : track_of(l) \in badset}
Rows ==
  /\ pc = "report"
  /\ LET hit == {n \in Listing : /\ n # rootfn /\ fnode(missing, n).type # "dir"
                                 /\ LostOf(n) # {}}
     IN  /\ rows' = [n \in hit |-> [factory |-> Cardinality(Flagged(LostOf(n))),
                                    storage |-> Cardinality(LostOf(n) \ Flagged(LostOf(n)))]]
         /\ claim' = \A n \in hit : Flagged(LostOf(n)) = {}
  /\ pc' = "attributed"
  /\ UNCHANGED <<missing, todo, seen, files, intact, damaged, owner, covered>>
  /\ UNCHANGED tableVars

Attribute == Probe \/ Split \/ Walk \/ Rows
DSpec == Start /\ [][Attribute]_<<vars, tableVars, reportVars>>

-----------------------------------------------------------------------------
\* The table that is found names tracks the drive has; rows are of files listed.
DTypeOK ==
  /\ pc \in {"table", "no table", "split", "ZeroDivisionError", "walk", "report", "done",
             "attributed"}
  /\ probe \in 0 .. HEAD * SPT - 1 /\ on_head \in {NoHead} \cup 0 .. HEAD - 1
  /\ ToSet(bad) \subseteq (0 .. CYL - 1) \X (0 .. HEAD - 1)
  /\ DOMAIN rows \subseteq Listing /\ covered \subseteq badset

\* "a hole in one copy is not fatal": the table is found, as it was written, while
\* any copy of it on any head is there; otherwise nothing else is taken for it.
TableFound ==
  /\ DTypeOK
  /\ bad # <<>> => bad = written
  /\ pc = "no table" => CopyAt \subseteq missing

\* What a file lost is in its row, each sector under the cause it has; a sector of
\* the disk is on a flagged track when the format utility wrote that track down.
OnFlagged == UNION {{(t[1] * HEAD + t[2]) * SPT + s : s \in 0 .. SPT - 1} : t \in ToSet(written)}
RowsTrue == pc = "attributed" => \A n \in Listing \cap DOMAIN Fnode :
  Fnode[n].type = "data" /\ Meta(n) \cap missing = {} =>
    LET lost == Content[n] \cap missing
    IN  lost # {} => /\ n \in DOMAIN rows
                     /\ rows[n].factory >= Cardinality(lost \cap OnFlagged)
                     /\ rows[n].storage >= Cardinality(lost \ OnFlagged)
                     /\ rows[n].factory + rows[n].storage
                          <= Cardinality(missing \cap ToSet(extents({}, fnode({}, n))))
=============================================================================
