--------------------------------- MODULE Volume ---------------------------------
(***************************************************************************)
(* irmx_fs.py: class Volume.  An iRMX volume as it was written, and what   *)
(* the image has of it: a block that was never recovered reads as zeros.   *)
(* A file's size counts blocks; one block holds a whole indirect list or a *)
(* few directory entries.                                                  *)
(***************************************************************************)
EXTENDS Integers, SequencesExt

CONSTANTS
  Fnode,     \* the fnode table: type, long, size, ptrs of each number
  FnBlocks,  \* the two halves of an fnode may be in two blocks: <<first, second>>
  Indirect,  \* indirect blocks: <<count, first block>> in a sequence
  Entries,   \* directory blocks: fnode numbers in a sequence, 0 for an empty slot
  Blocks,    \* blocks of the volume
  rootfn

Types == {"none", "dir", "data"}  \* 0, 6 and 8
ASSUME VolumeAssumption ==
  /\ Blocks \subseteq Nat /\ rootfn \in DOMAIN Fnode
  /\ \A n \in DOMAIN Fnode : /\ n \in Nat \ {0} /\ FnBlocks[n] \in Blocks \X Blocks
                             /\ Fnode[n].type \in Types /\ Fnode[n].size \in Nat
                             /\ Fnode[n].long \in BOOLEAN

\* fnode: what is lost reads as zeros, as does an entry never allocated; the flags,
\* type and size are in the first half, the pointers in the second.
fnode(missing, n) ==
  LET there(half) == n \in DOMAIN Fnode /\ FnBlocks[n][half] \notin missing
  IN  [type |-> IF there(1) THEN Fnode[n].type ELSE "none",
       long |-> there(1) /\ Fnode[n].long,
       size |-> IF there(1) THEN Fnode[n].size ELSE 0,
       ptrs |-> IF there(2) THEN Fnode[n].ptrs ELSE <<>>]

Run(first, count) == [k \in 1 .. count |-> first + k - 1]

\* The runs of an indirect block up to the count of its pointer, or to a run of none.
Listed(missing, blk, nb) ==
  LET ind == IF blk \in missing \/ blk \notin DOMAIN Indirect THEN <<>> ELSE Indirect[blk]
      got(k) == FoldLeft(LAMBDA sum, e : sum + e[1], 0, SubSeq(ind, 1, k))
      used == {k \in DOMAIN ind : got(k - 1) < nb /\ \A i \in 1 .. k : ind[i][1] # 0}
  IN  FlattenSeq([k \in 1 .. Cardinality(used) |-> Run(ind[k][2], ind[k][1])])

\* extents, block by block; a pointer is <<nblocks, block>>.
extents(missing, f) ==
  FlattenSeq([k \in DOMAIN f.ptrs |->
    IF f.long THEN Listed(missing, f.ptrs[k][2], f.ptrs[k][1])
    ELSE Run(f.ptrs[k][2], f.ptrs[k][1])])

\* read_file and damage look at the blocks within the file's size.
Within(missing, f) == LET x == extents(missing, f)
                      IN  {x[k] : k \in {i \in DOMAIN x : i <= f.size}}
damage_All(missing, f) == ToSet(extents(missing, f)) \cap missing  \* mutant: slack blocks count
damage(missing, f) == Within(missing, f) \cap missing

\* readdir: empty slots are passed over, and lost blocks have no others.
EntriesOf(missing, b) == IF b \in missing \/ b \notin DOMAIN Entries THEN <<>> ELSE Entries[b]
Nonzero_Stops(s) ==  \* mutant: an empty slot ends the directory
  {s[k] : k \in {i \in DOMAIN s : \A j \in 1 .. i : s[j] # 0}}
Nonzero(s) == ToSet(s) \ {0}
readdir(missing, f) == UNION {Nonzero(EntriesOf(missing, b)) : b \in Within(missing, f)}
=============================================================================
