---------------------------- MODULE PositionRescue ----------------------------
(***************************************************************************)
(* rescue.py: rescue_track on one track.  Sectors whose header is dead are *)
(* told apart by where their data field lies: the headers that can be read *)
(* in any capture say which sector is in which slot.                       *)
(*                                                                         *)
(* Positions are bits after INDEX, with the numbers of the code.  The data *)
(* of a field is its origin (the track and the sector it was written for)  *)
(* and a version: 0 as written, others made up by the burst corrector.     *)
(***************************************************************************)
EXTENDS Integers, FiniteSets, Sequences

CONSTANTS
  NR,       \* captures of the track in raw/
  Kinds,    \* what a capture may be of: "own", another "cylinder", another "head"
  Shifts,   \* <<bits it is off INDEX, bits a slot is longer>> of a capture
  Leftover, \* bits from the end of the last slot to INDEX
  Heard,    \* sets of slots whose header may be read
  Places,   \* slots whose data field may be read, in a sequence
  Dead      \* the sectors to rescue

SECTORS_PER_TRACK == 23
HDR_TO_SYNC == 298
SLOT_TOL == 600
Sectors == 0 .. SECTORS_PER_TRACK - 1
Slots == 0 .. 25  \* a capture is somewhat longer than a revolution

ASSUME RescueAssumption ==
  /\ NR \in Nat /\ Kinds \subseteq {"own", "cylinder", "head"}
  /\ Shifts \subseteq Int \X Int /\ Leftover \in Nat /\ Heard \subseteq SUBSET Slots
  /\ Places \in Seq(Slots) /\ Dead \subseteq Sectors

\* Slots a revolution apart are the same; interleave 8.
Fold(n) == n % SECTORS_PER_TRACK

\* The track: 4656 bits from slot to slot, and what is left over before the next
\* revolution's; another head is skewed.
SectorIn(kind, slot) == Fold(8 * (IF kind = "head" THEN slot + 3 ELSE slot))
Late(slot) == (slot \div SECTORS_PER_TRACK) * Leftover
HeaderAt(shift, slot) == 437 + slot * (4656 + shift[2]) + Late(slot) + shift[1]
Data == Kinds \X Sectors \X (0 .. 2)
NoField == <<>>

\* Captures of the head they are kept for, which rescue.py does not look at; off INDEX
\* by at most SLOT_TOL, and a slot is as long in all of them, to ten bits; what is left
\* over is more than that, and much less than SLOT_TOL (432 bits).
OffIndex == -600 .. 600
Slower == -100 .. 100
Aligned ==
  /\ "head" \notin Kinds
  /\ \A s \in Shifts : s[1] \in OffIndex /\ s[2] \in Slower
  /\ \A s, t \in Shifts : s[2] - t[2] <= 10
  /\ Leftover \in 11 .. 450

VARIABLES
  pc,        \* "survey" the captures, "map" the slots, "scan" the fields, "done"
  raws,      \* of each capture: its kind, its shift, the slots it shows a header of
  map,       \* pitch, sec (slot_sec), nominal and base, once they are known
  r, i,      \* the capture and the place the scan is at
  rescued,   \* rescue_track's dict: sector -> <<data, corrected>>
  conflict,  \* its set
  shown,     \* history: the data attributed to each sector
  passed     \* history: the sectors of the track's own fields the scan met

vars == <<pc, raws, map, r, i, rescued, conflict, shown, passed>>
NoMap == <<>>
scanned == <<r, i, rescued, conflict, shown, passed>>

Init ==
  /\ pc = "survey" /\ raws = <<>> /\ map = NoMap
  /\ r = 1 /\ i = 1
  /\ rescued = [s \in Dead |-> NoField] /\ conflict = {}
  /\ shown = [s \in Dead |-> {}] /\ passed = {}

-----------------------------------------------------------------------------
(* The headers.                                                            *)

\* One of this cylinder is read, none of another.  The head is not looked at.
Usable_NoneBad(c) == raws[c].kind = "cylinder" => raws[c].heard = {}  \* mutant: good may be 0
Usable(c) == raws[c].kind # "cylinder" /\ raws[c].heard # {}
usable == {c \in DOMAIN raws : Usable(c)}
Headers == {h \in usable \X Slots : h[2] \in raws[h[1]].heard}
Pos(h) == HeaderAt(raws[h[1]].shift, h[2])
Sec(h) == SectorIn(raws[h[1]].kind, h[2])

\* sorted(v.values())[len(v) // 2]
Median(v) ==
  LET X == DOMAIN v
  IN  v[CHOOSE x \in X :
          /\ Cardinality({y \in X : v[y] < v[x]}) <= Cardinality(X) \div 2
          /\ Cardinality({y \in X : v[y] <= v[x]}) > Cardinality(X) \div 2]
Abs(n) == IF n < 0 THEN -n ELSE n
\* round(p / q), to even halfway.
Round(p, q) == LET n == (2 * p + q) \div (2 * q)
               IN  IF (2 * p + q) % (2 * q) = 0 /\ n % 2 = 1 THEN n - 1 ELSE n

\* Neighbouring headers of a capture, if they are about a slot apart.
Gap(g) == Pos(g[2]) - Pos(g[1])
Gaps == {g \in Headers \X Headers :
           /\ g[1][1] = g[2][1] /\ g[1][2] < g[2][2]
           /\ \A h \in Headers : h[1] = g[1][1] => h[2] <= g[1][2] \/ h[2] >= g[2][2]
           /\ 4000 < Gap(g) /\ Gap(g) < 5400}
\* The one over the end of the revolution is among them, and longer.
OverEnd == {g \in Gaps : g[1][2] = SECTORS_PER_TRACK - 1}

Map(pitch) ==
  LET SlotOf(h) == Round(Pos(h), pitch)
      In(slot) == {h \in Headers : SlotOf(h) = slot}
      Seen == {SlotOf(h) : h \in Headers}
      Votes(slot, s) == Cardinality({h \in In(slot) : Sec(h) = s})
      nominal == [slot \in Seen |-> Median([h \in In(slot) |-> Pos(h)])]
      offset == [slot \in Seen |-> nominal[slot] - slot * pitch]
  IN  {[pitch |-> pitch, nominal |-> nominal, base |-> Median(offset), sec |-> sec] :
        sec \in {f \in [Seen -> {Sec(h) : h \in Headers}] :
                   \A slot \in Seen : \A h \in In(slot) : Votes(slot, f[slot]) >= Votes(slot, Sec(h))}}

\* fit_interleave: sec = a + b * slot modulo 23, through all slots there are
\* (of two that are a revolution apart, the later one counts).
Folded == {slot \in DOMAIN map.sec : slot + SECTORS_PER_TRACK \notin DOMAIN map.sec}
Fits == {l \in Sectors \X Sectors :
           \A slot \in Folded : Fold(l[1] + l[2] * slot) = map.sec[slot]}
Fit(slot) == IF Cardinality(Folded) >= 2
             THEN {Fold(l[1] + l[2] * slot) : l \in Fits} ELSE {}

\* sec_of and pos_of look a revolution back and one ahead.
Around(slot) == LET K == DOMAIN map.sec IN
  CASE slot \in K                     -> {slot}
    [] slot - SECTORS_PER_TRACK \in K -> {slot - SECTORS_PER_TRACK}
    [] slot + SECTORS_PER_TRACK \in K -> {slot + SECTORS_PER_TRACK}
    [] OTHER                          -> {}
SecOf_NoFit(slot) == {map.sec[a] : a \in Around(slot)}  \* mutant: slots never heard are given up
SecOf(slot) == IF Around(slot) # {} THEN {map.sec[a] : a \in Around(slot)} ELSE Fit(slot)
PosOf(slot) == IF Around(slot) = {} THEN map.base + slot * map.pitch
               ELSE LET a == CHOOSE a \in Around(slot) : TRUE
                    IN  map.nominal[a] + (slot - a) * map.pitch

-----------------------------------------------------------------------------
Survey ==
  /\ pc = "survey" /\ Len(raws) < NR
  /\ \E k \in Kinds, s \in Shifts, H \in Heard :
       raws' = Append(raws, [kind |-> k, shift |-> s, heard |-> H])
  /\ UNCHANGED <<pc, map, scanned>>

\* 'no-work', 'no-usable-raw'
GiveUp ==
  /\ pc = "survey" /\ Len(raws) = NR
  /\ Dead = {} \/ Gaps = {}
  /\ pc' = "done"
  /\ UNCHANGED <<raws, map, scanned>>

Locate ==
  /\ pc = "survey" /\ Len(raws) = NR /\ Dead # {} /\ Gaps # {}
  /\ map' \in Map(Median([g \in Gaps |-> Gap(g)]))
  /\ pc' = "scan"
  /\ UNCHANGED <<raws, scanned>>

\* A field is taken for a sector: two different ones are a conflict, and a
\* clean one replaces one that was corrected.
Clash_Replaced(s, d, corr) ==  \* mutant: a clean field replaces a corrected one unseen
  rescued[s] # NoField /\ rescued[s][1] # d /\ ~(rescued[s][2] /\ ~corr)
Clash(s, d, corr) == rescued[s] # NoField /\ rescued[s][1] # d
Take(s, d, corr) ==
  /\ conflict' = IF Clash(s, d, corr) THEN conflict \cup {s} ELSE conflict
  /\ rescued' = IF rescued[s] = NoField \/ (rescued[s][2] /\ ~corr)
                THEN [rescued EXCEPT ![s] = <<d, corr>>] ELSE rescued
  /\ shown' = [shown EXCEPT ![s] = @ \cup {d}]

\* The next field of a capture that is used, if it validates there: to which
\* slot it belongs, whether it is near enough, whose slot it is.
Place(s) == Round(s - HDR_TO_SYNC - map.base, map.pitch)
Claimants(s) == IF Abs(s - HDR_TO_SYNC - PosOf(Place(s))) > SLOT_TOL THEN {}
                ELSE SecOf(Place(s)) \cap Dead
ScanField ==
  /\ pc = "scan" /\ r <= NR /\ i <= Len(Places)
  /\ i' = i + 1
  /\ \/ UNCHANGED <<rescued, conflict, shown, passed>>  \* unreadable
     \/ /\ r \in usable
        /\ \E v \in 0 .. 2, corr \in BOOLEAN :
             LET raw == raws[r]
                 own == SectorIn(raw.kind, Places[i])
                 at  == HeaderAt(raw.shift, Places[i]) + HDR_TO_SYNC
             IN  /\ v # 0 => corr
                 /\ passed' = IF raw.kind = "own" THEN passed \cup {own} ELSE passed
                 /\ IF Claimants(at) = {} THEN UNCHANGED <<rescued, conflict, shown>>
                    ELSE \E s \in Claimants(at) : Take(s, <<raw.kind, own, v>>, corr)
  /\ UNCHANGED <<pc, raws, map, r>>

NextRaw ==
  /\ pc = "scan" /\ r <= NR /\ i > Len(Places)
  /\ r' = r + 1 /\ i' = 1
  /\ UNCHANGED <<pc, raws, map, rescued, conflict, shown, passed>>

Finish ==
  /\ pc = "scan" /\ r > NR
  /\ rescued' = [s \in Dead |-> IF s \in conflict THEN NoField ELSE rescued[s]]
  /\ pc' = "done"
  /\ UNCHANGED <<raws, map, r, i, conflict, shown, passed>>

Next == Survey \/ GiveUp \/ Locate \/ ScanField \/ NextRaw \/ Finish
Spec == Init /\ [][Next]_vars

-----------------------------------------------------------------------------
\* The variables are what rescue_track's are.
TypeOK ==
  /\ pc \in {"survey", "scan", "done"}
  /\ raws \in Seq([kind : Kinds, shift : Shifts, heard : Heard])
  /\ r \in 1 .. NR + 1 /\ i \in 1 .. Len(Places) + 1
  /\ rescued \in [Dead -> (Data \X BOOLEAN) \cup {NoField}]
  /\ conflict \subseteq Dead
  /\ shown \in [Dead -> SUBSET Data] /\ passed \subseteq Sectors

\* The pitch that is taken for a slot's length is one, not that over INDEX.
PitchSeen == 2 * Cardinality(OverEnd) < Cardinality(Gaps)
\* The captures that are used lie so near to each other that a field, though it is put
\* a revolution on without what is left over, is within SLOT_TOL.
Tight == \A c, d \in usable : /\ raws[c].shift[1] - raws[d].shift[1] <= 100
                              /\ raws[c].shift[2] - raws[d].shift[2] <= 1

\* "Recovers sectors whose header is dead but whose data field is intact": what is
\* returned for a sector is data of that sector of this very track, if perhaps
\* miscorrected.
SectorRecovered == pc = "done" =>
  \A s \in Dead : rescued[s] # NoField =>
    rescued[s][1][1] = "own" /\ rescued[s][1][2] = s

\* So it is, if of the neighbouring headers that were read most are of one revolution:
\* no capture of another track is used, and no field is taken for its neighbour's,
\* whatever else was read and however a capture is shifted.
Rightful == SectorRecovered \/ ~PitchSeen

\* "if two reads yield different ECC-valid data for one sector: skip": what is
\* returned is all that any capture showed for the sector, in any order of
\* corrected and clean reads.
Unanimous == pc = "done" =>
  \A s \in Dead : rescued[s] # NoField => shown[s] = {rescued[s][1]}

\* Once two slots are known no field of a dead sector is lost for want of a
\* header: it is returned, or in conflict.
NothingMissed == pc = "done" /\ map # NoMap /\ PitchSeen /\ Tight =>
  (Cardinality({Fold(slot) : slot \in DOMAIN map.sec}) >= 2 =>
     \A s \in passed \cap Dead : rescued[s] # NoField \/ s \in conflict)
=============================================================================
