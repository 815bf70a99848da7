------------------------------ MODULE AnchorWalk ------------------------------
(***************************************************************************)
(* The search for a data field after a header, which find_data (decode_    *)
(* scout.py), extract_instances (vote_repair.py) and, without a header,    *)
(* sync_scan (rescue.py) share: a one after 19 zeros may be bit 3, 4 or 7  *)
(* of a sync byte, the byte there has to be much like 0x19, and the bytes  *)
(* from there on are tried.                                                *)
(*                                                                         *)
(* And what correct_burst does for the field that is found.                *)
(*                                                                         *)
(* Positions are bits after the header's first.  A capture is the set of   *)
(* the positions of its ones.                                              *)
(***************************************************************************)
EXTENDS Integers, FiniteSets

SyncOnes == {3, 4, 7}  \* SYNC = 0x19 = 00011001
PREAMBLE_BITS == 16
DATA_SEARCH_BITS == 700
HDR_BITS == 72
Offsets_Clean == {3}  \* mutant: only a clean sync anchors
Offsets == {3, 4, 7}

\* The ones that end a run of zeros long enough, after from and before to.
AnchorsIn(ones, run, from, to) ==
  {i \in ones : /\ from <= i - run /\ i < to
                /\ \A b \in ones : ~(i - run <= b /\ b < i)}
Anchors(ones, run) == AnchorsIn(ones, run, HDR_BITS, HDR_BITS + DATA_SEARCH_BITS)

\* bin(b0 ^ SYNC).count('1'), of the byte at s
SyncErrors(ones, s) == Cardinality({b \in 0 .. 7 : (s + b \in ones) # (b \in SyncOnes)})
NearSync(ones, s) == SyncErrors(ones, s) <= 2

\* Where a field is tried: <<anchor, offset>>.
Tries(ones) ==
  {a \in Anchors(ones, PREAMBLE_BITS + 3) \X Offsets : NearSync(ones, a[1] - a[2])}

\* correct_burst: what is wrong in a field and its ECC is undone if it is one burst that
\* begins at bit last or before: one that begins later is trapped in the ECC (ErrorTrap).
Undone(wrong, most, last) ==
  /\ \A a, b \in wrong : b - a < most
  /\ wrong = {} \/ \E b \in wrong : b <= last
=============================================================================
