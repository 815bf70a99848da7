------------------------------- MODULE DeepRescue -------------------------------
(***************************************************************************)
(* deep_rescue.py: track_task and rescue_sector for one dead sector; the   *)
(* loop treats each of them alone.  No anchor is asked for: any place in a *)
(* slot's window where sync and data ECC hold is taken, so that which      *)
(* sector a field is of rests on the arithmetic of the window.             *)
(*                                                                         *)
(* Positions are bits after INDEX, with the numbers of the code, and bits  *)
(* are sets of the positions of ones.  The ECC holds for what was written  *)
(* in a field of the window, and nothing else (Undone says what a burst    *)
(* corrector does); which places the arithmetic of the CRC tests is in     *)
(* SlidingCrc.                                                             *)
(***************************************************************************)
EXTENDS AnchorWalk, FiniteSetsExt, Sequences

CONSTANTS
  NR,         \* captures of the track in raw/
  Captures,   \* what one may be: kind, "own" or another "cylinder"; shift, bits it is
              \* off INDEX; heard, the slots whose header is read; wrong, the bits of the
              \* dead sector that are read wrong (behind a slip, all that are displaced
              \* by it and differ), counted from its data sync
  Leftover,   \* bits from the end of the last slot to INDEX
  Written,    \* the ones of a sector of this and of another cylinder, from its data sync
  DeadSectors \* the sectors that may be the dead one

PITCH == 4656
HDR_TO_SYNC == 298
WIN_BEFORE == 400
WIN_AFTER == 900
Reach == WIN_BEFORE + WIN_AFTER  \* offsets of a window that may start a field
FIELD_BITS == 4136
BODY_BITS == 4104
BURST_BITS == 4                  \* MAX_BURST of correct_burst
RAW_BITS == 3780 * 32            \* of a capture
Slots == 0 .. 25
Sector == -HDR_TO_SYNC .. FIELD_BITS - 1  \* its bits, header to ECC
Span == -200 .. 200

\* What the constants have to be; 437 is the nominal place of slot 0, and what a
\* header may be off it, on either revolution, is less than half a slot.
DeepAssumption ==
  /\ NR \in Nat /\ Leftover \in 0 .. PITCH - WIN_AFTER /\ DeadSectors \subseteq 0 .. 22
  /\ Captures \subseteq [kind : {"own", "cylinder"}, shift : Int,
                         heard : SUBSET Slots, wrong : SUBSET Sector]
  /\ \A c \in Captures : 437 + c.shift > -2328 /\ 437 + Leftover + c.shift < 2328
  /\ Written \in [{"own", "cylinder"} \X (0 .. 22) -> SUBSET Sector]
  /\ \A p \in DOMAIN Written : Written[p] \cap (0 .. 7) = SyncOnes

\* Captures off INDEX by what a window leaves room for: farther, slot 0 begins before
\* the capture does, or its field outside the window of a capture without a header.
InReach == \A c \in Captures : c.shift \in -335 .. 899

\* What is written is not like itself at any other place: more than a quarter differs.
Slice(ones, from) == {b - from : b \in ones \cap (from .. from + 255)}
Unlike == \A x \in DeadSectors, sh \in Span \ {0} :
  LET as == Written[<<"own", x>>] IN Cardinality(SymDiff(Slice(as, 0), Slice(as, sh))) > 64

VARIABLES
  pc,    \* "survey" the captures, then the stages of rescue_sector, "done"
  raws,  \* the captures
  sec,   \* the dead sector
  reads, \* the captures that qualify, each with its slot base
  wins,  \* the windows cut out of them: read, slot, ones, and the fields that start in it
  laid,  \* aligned: windows, each with the shift it is laid at
  cons,  \* the ones of the consensus
  out    \* track_task's entry for it: <<kind, sector, how>>, or none

vars == <<pc, raws, sec, reads, wins, laid, cons, out>>
None == <<>>

Init == /\ pc = "survey" /\ raws = <<>> /\ sec \in DeadSectors
        /\ reads = <<>> /\ wins = {} /\ laid = {} /\ cons = {} /\ out = None

-----------------------------------------------------------------------------
(* The track, the captures and the windows.                                *)

\* Interleave 8, the slots of the next revolution after the leftover.
SectorIn(slot) == (8 * slot) % 23
HeaderAt(c, slot) == 437 + slot * PITCH + (slot \div 23) * Leftover + raws[c].shift
FieldAt(c, slot) == HeaderAt(c, slot) + HDR_TO_SYNC
Read(c, slot) ==
  LET as == Written[<<raws[c].kind, SectorIn(slot)>>]
  IN  IF SectorIn(slot) = sec THEN SymDiff(as, raws[c].wrong) ELSE as

\* A header of another cylinder disqualifies a capture, showing none does not.
Qualified_All(c) == TRUE  \* mutant: no mis-seek guard
Qualified(c) == raws[c].kind = "own" \/ raws[c].heard = {}

\* The slot base of a capture: the median of its headers' offsets, or 437.
Round(p, q) == LET n == (2 * p + q) \div (2 * q)
               IN  IF (2 * p + q) % (2 * q) = 0 /\ n % 2 = 1 THEN n - 1 ELSE n
Off(c, slot) == HeaderAt(c, slot) - Round(HeaderAt(c, slot), PITCH) * PITCH
Base_Latest(c) ==  \* mutant: not the middle one
  IF raws[c].heard = {} THEN 437 ELSE Max({Off(c, k) : k \in raws[c].heard})
Base(c) ==
  LET H == raws[c].heard
      Below(v) == Cardinality({k \in H : Off(c, k) <= v})
  IN  IF H = {} THEN 437
      ELSE LET offs == {Off(c, k) : k \in H}
           IN  Min({v \in offs : Below(v) > Cardinality(H) \div 2})

\* The slots of the sector, 3 being the inverse of 8, and their windows.
slot0 == (sec * 3) % 23
Lo(c, slot) == reads[c] + slot * PITCH + HDR_TO_SYNC - WIN_BEFORE
Over(c, slot) == {f \in Slots : FieldAt(c, f) - Lo(c, slot) \in
                                  -FIELD_BITS .. Reach + FIELD_BITS + HDR_TO_SYNC}
Placed(ones, at) == {at + b : b \in ones}
Window(c, slot) ==
  [read |-> c, slot |-> slot,
   ones |-> (UNION {Placed(Read(c, f), FieldAt(c, f) - Lo(c, slot)) : f \in Over(c, slot)})
              \cap (0 .. Reach + FIELD_BITS - 1),
   fields |-> {<<raws[c].kind, SectorIn(f)>> :
                 f \in {g \in Slots : FieldAt(c, g) - Lo(c, slot) \in 0 .. Reach - 1}}]
Windows == {Window(w[1], w[2]) : w \in {v \in (DOMAIN reads) \X {slot0, slot0 + 23} :
              0 <= Lo(v[1], v[2]) /\ Lo(v[1], v[2]) + Reach + FIELD_BITS <= RAW_BITS}}
Fields == UNION {w.fields : w \in wins}

-----------------------------------------------------------------------------
(* What is found where.                                                    *)

Word(p) == Written[p] \cap (0 .. FIELD_BITS - 1)
At(ones, s) == {b - s : b \in ones \cap (s .. s + FIELD_BITS - 1)}
Exact(ones, s, p) == SyncErrors(ones, s) = 0 /\ At(ones, s) = Word(p)
Burst(ones, s, p) ==
  /\ SyncErrors(ones, s) <= 1
  /\ Undone(SymDiff(At(ones, s), Word(p)), BURST_BITS, BODY_BITS - BURST_BITS)
\* Every offset is tried; with zeros at bits 3 and 4 a byte has two bits of a sync wrong.
Tried(w) == ({b - 3 : b \in w.ones} \cup {b - 4 : b \in w.ones}) \cap (0 .. Reach - 1)
Offered == UNION {{w} \X Tried(w) \X w.fields : w \in wins}
Slid == {h \in Offered : Exact(h[1].ones, h[2], h[3])}
Near == {h \in Offered : Burst(h[1].ones, h[2], h[3])}

\* A slip of a word at the start of ones, up to four bits too many or three too few: if
\* it may be undone at some place, it may at the last that all bits before are right.
Slipped(ones, p) ==
  LET right == Min(SymDiff(ones, Word(p)) \cup {BODY_BITS - 1})
  IN  /\ right >= 8
      /\ \/ \E d \in 1 .. 4 :
              {b - d : b \in ones \cap (right + d .. FIELD_BITS + d - 1)}
                = Word(p) \cap (right .. FIELD_BITS - 1)
         \/ \E d \in 1 .. 3 :
              LET X == Min({right, BODY_BITS - d})
              IN  {b + d : b \in ones \cap (X .. FIELD_BITS - d - 1)}
                    = Word(p) \cap (X + d .. FIELD_BITS - 1)

-----------------------------------------------------------------------------
(* The vote.                                                               *)

\* The windows are gone through read by read, the first slot first.
Earlier(v, w) == v.read < w.read \/ (v.read = w.read /\ v.slot <= w.slot)
First == CHOOSE w \in wins : \A v \in wins : Earlier(w, v)

\* xcorr_align: the first shift at which a window is most like the probe, if seven
\* eighths of it agree.
Lags(w) ==
  LET probe == Slice(First.ones, WIN_BEFORE)
      Differ(sh) == Cardinality(SymDiff(probe, Slice(w.ones, WIN_BEFORE + sh)))
      Best(sh) == LET n == Differ(sh)
                  IN  n <= 32 /\ \A t \in Span : IF t < sh THEN n < Differ(t) ELSE n <= Differ(t)
  IN  {sh \in Span : Best(sh)}
Laid == {<<First, 0>>} \cup UNION {{<<w, sh>> : sh \in Lags(w)} : w \in wins \ {First}}

\* More than half of them have a one there.
Length == Reach + FIELD_BITS - Max({v[2] : v \in laid})
Agreed_All(j) == \A v \in laid : j + v[2] \in v[1].ones  \* mutant: a one has to be everywhere
Agreed(j) == 2 * Cardinality({v \in laid : j + v[2] \in v[1].ones}) > Cardinality(laid)
Consensus == {j \in 0 .. Length - 1 : Agreed(j)}

\* Where slip_search is tried on the consensus.
Starts ==
  {s \in {a[1] - a[2] : a \in AnchorsIn(cons, 19, 0,
            Min({Length - FIELD_BITS - 8, WIN_BEFORE + 700})) \X Offsets} :
     0 <= s /\ s + FIELD_BITS + 8 <= Length}
VoteExact == {p \in Fields : \E s \in 0 .. Length - FIELD_BITS - 1 : Exact(cons, s, p)}
VoteSlip == {p \in Fields : \E s \in Starts :
               Slipped({b - s : b \in cons} \cap (0 .. FIELD_BITS + 7), p)}

-----------------------------------------------------------------------------
Survey == /\ pc = "survey" /\ Len(raws) < NR
          /\ \E c \in Captures : raws' = Append(raws, c)
          /\ UNCHANGED <<pc, sec, reads, wins, laid, cons, out>>

Qualify == /\ pc = "survey" /\ Len(raws) = NR
           /\ reads' = [c \in {d \in DOMAIN raws : Qualified(d)} |-> Base(c)]
           /\ pc' = "cut"
           /\ UNCHANGED <<raws, sec, wins, laid, cons, out>>

Cut == /\ pc = "cut" /\ wins' = Windows /\ pc' = "slide"
       /\ UNCHANGED <<raws, sec, reads, laid, cons, out>>

\* 1. every offset for an exact field, then those near a sync for a burst.
Before(g, h) == IF g[1] = h[1] THEN g[2] <= h[2] ELSE Earlier(g[1], h[1])
TakeFirst(H, how, next) ==
  /\ IF H = {} THEN pc' = next /\ UNCHANGED out
     ELSE /\ pc' = "done"
          /\ \E h \in H : (\A g \in H : Before(h, g)) /\ out' = Append(h[3], how)
  /\ UNCHANGED <<raws, sec, reads, wins, laid, cons>>
Slide == pc = "slide" /\ TakeFirst(Slid, "slide-exact", "nearsync")
NearSyncs == pc = "nearsync" /\ TakeFirst(Near, "nearsync-burst", "align")

\* 2. three windows, laid over each other, vote on each bit.
Align == /\ pc = "align"
         /\ IF Cardinality(wins) >= 3 THEN pc' = "vote" /\ laid' = Laid
            ELSE pc' = "done" /\ UNCHANGED laid
         /\ UNCHANGED <<raws, sec, reads, wins, cons, out>>
Vote == /\ pc = "vote"
        /\ IF Cardinality(laid) >= 3 THEN pc' = "search" /\ cons' = Consensus
           ELSE pc' = "done" /\ UNCHANGED cons
        /\ UNCHANGED <<raws, sec, reads, wins, laid, out>>

\* 3. a field of the consensus is searched for, and a slip of one.  They are of one
\* sector, so that which is found first makes no difference but to the kind.
Search ==
  /\ pc = "search" /\ pc' = "done"
  /\ \/ \E p \in VoteExact : out' = Append(p, "vote-exact")
     \/ VoteExact = {} /\ \E p \in VoteSlip : out' = Append(p, "vote-slip")
     \/ VoteExact = {} /\ VoteSlip = {} /\ UNCHANGED out
  /\ UNCHANGED <<raws, sec, reads, wins, laid, cons>>

Next == Survey \/ Qualify \/ Cut \/ Slide \/ NearSyncs \/ Align \/ Vote \/ Search
Spec == Init /\ [][Next]_vars

-----------------------------------------------------------------------------
\* A slot base is near INDEX, and what is found is a field of the track or of another.
TypeOK == /\ pc \in {"survey", "cut", "slide", "nearsync", "align", "vote", "search", "done"}
          /\ Len(raws) <= NR /\ sec \in DeadSectors
          /\ \A c \in DOMAIN reads : reads[c] \in -2328 .. 2328
          /\ \A v \in laid : v[1] \in wins /\ v[2] \in Span
          /\ out # None => out \in {"own", "cylinder"} \X (0 .. 22) \X
               {"slide-exact", "nearsync-burst", "vote-exact", "vote-slip"}

\* "Identity comes from position": whatever is put in place of a sector was
\* written for it, never for its neighbour; and it was on this track, unless a
\* capture of another cylinder shows no header at all.
OwnField == out # None =>
  /\ out[2] = sec
  /\ (\A c \in DOMAIN raws : raws[c].kind = "own" \/ raws[c].heard # {}) => out[1] = "own"

\* A capture's base is of the first revolution, whose headers lead by the leftover.
FirstRev(c) == raws[c].kind = "own" /\ (raws[c].heard = {} \/
  2 * Cardinality({k \in raws[c].heard : k < 23}) > Cardinality(raws[c].heard))

\* A field that one capture holds is found, if it is whole or there is but one burst in
\* it that correct_burst undoes, of which at most one bit is in the sync.
Held(wrong) == /\ Undone(wrong \cap (0 .. FIELD_BITS - 1), BURST_BITS, BODY_BITS - BURST_BITS)
               /\ Cardinality(wrong \cap (0 .. 7)) <= 1
HeldIsFound == pc = "done" /\ out = None =>
  \A c \in DOMAIN raws : FirstRev(c) => ~Held(raws[c].wrong)

\* Captures that read no bit of the field both wrong make up for each other, if there
\* are three, a header tells of each, and xcorr_align lays them over each other: two have
\* no more bits wrong where it looks than it allows for, and no window of the next
\* revolution is taken for one of this.
Looked(c) == Cardinality(raws[c].wrong \cap (-200 .. 455))
Outvoted == pc = "done" /\ out = None /\ Cardinality(DOMAIN reads) >= 3 =>
  ~ /\ \A c \in DOMAIN reads : FirstRev(c) /\ raws[c].heard # {}
    /\ \A c, d \in DOMAIN reads : c # d =>
         /\ raws[c].wrong \cap raws[d].wrong \cap (0 .. FIELD_BITS - 1) = {}
         /\ Looked(c) + Looked(d) <= 32
    /\ \A w \in wins : w.slot > 22 => Lags(w) = {}
=============================================================================
