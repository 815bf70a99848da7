------------------------------- MODULE SlidingCrc -------------------------------
(***************************************************************************)
(* deep_rescue.py: the ECC of every place in a window from the prefix CRCs *)
(* of the window alone, where sliding_scan looks for a field and           *)
(* slip_search for one with some bits too many or too few.  A remainder is *)
(* the set of its exponents; the code has the same algorithms with W = 32, *)
(* BODY_BITS = 4104 and MinX = 8.                                          *)
(***************************************************************************)
EXTENDS Integers, SequencesExt

CONSTANTS
  W,         \* bits of the ECC
  POLY,      \* the exponents of its polynomial below W
  K,         \* K_DATA
  BODY_BITS,
  Lengths,   \* of windows
  MinX,      \* the first place a slip is looked for at
  Dropped,   \* how many bits may be too many, 1 .. 4
  Missed     \* how many too few, 1 .. 3

\* What the constants have to be.
CrcAssumption == /\ W \in Nat \ {0} /\ POLY \subseteq 0 .. W - 1 /\ K \subseteq 0 .. W - 1
                        /\ BODY_BITS \in Nat /\ Lengths \subseteq Nat /\ MinX \in Nat
                        /\ Dropped \subseteq Nat \ {0} /\ Missed \subseteq Nat \ {0}
FIELD_BITS == BODY_BITS + W

VARIABLES
  pc,   \* "prefix", "scan", "slip", "done"
  w,    \* the window, bits
  pw,   \* its prefix CRCs so far, the first one of no bits
  s,    \* the start sliding_scan is at
  hits, \* the starts it has found
  slips \* the slips slip_search tries field_at on: <<X, bits dropped, bits put in>>

vars == <<pc, w, pw, s, hits, slips>>

Init == /\ pc = "prefix" /\ w \in UNION {[1 .. n -> {0, 1}] : n \in Lengths}
        /\ pw = << {} >> /\ s = 0 /\ hits = {} /\ slips = {}

-----------------------------------------------------------------------------
\* One bit into the register, and multiplication by x.
Shl(c) == {e + 1 : e \in c \ {W - 1}}
TimesX(c) == IF W - 1 \in c THEN SymDiff(Shl(c), POLY) ELSE Shl(c)
Crc1(c, bit) == IF (W - 1 \in c) # (bit = 1) THEN SymDiff(Shl(c), POLY) ELSE Shl(c)
CrcOf(bits) == FoldLeft(Crc1, {}, bits)

\* mulmod and XP: a times x^n.
Times(a, n) == FoldLeft(LAMBDA c, e : TimesX(c), a, [k \in 1 .. n |-> k])
XP(n) == Times({0}, n)
mulmod(a, b) == FoldSet(LAMBDA e, r : SymDiff(r, Times(a, e)), {}, b)

\* windows32: the W bits from a place on.
sw(i) == {W - j : j \in {k \in 1 .. W : w[i + k] = 1}}

Prefix ==
  /\ pc = "prefix"
  /\ IF Len(pw) <= Len(w) THEN pw' = Append(pw, Crc1(Last(pw), w[Len(pw)])) /\ UNCHANGED pc
     ELSE pc' = "scan" /\ UNCHANGED pw
  /\ UNCHANGED <<w, s, hits, slips>>

\* sliding_scan: the prefix before the field, moved past it, is taken out.
At(i) == pw[i + 1]
Moved_Short == XP(BODY_BITS - 1)  \* mutant: one power of x short
Moved == XP(BODY_BITS)
Scan ==
  /\ pc = "scan"
  /\ IF s < Len(w) - FIELD_BITS
     THEN /\ s' = s + 1 /\ UNCHANGED pc
          /\ hits' = IF SymDiff(SymDiff(mulmod(At(s), Moved), At(s + BODY_BITS)),
                                sw(s + BODY_BITS)) = K
                     THEN hits \cup {s} ELSE hits
     ELSE pc' = "slip" /\ UNCHANGED <<s, hits>>
  /\ UNCHANGED <<w, pw, slips>>

\* slip_search: d bits from X on are left out, or bits g are put in before X.
Dropping(X, d) ==
  /\ X + d < Len(pw) /\ BODY_BITS + d + W <= Len(w)
  /\ SymDiff(SymDiff(mulmod(SymDiff(At(X), At(X + d)), XP(BODY_BITS - X)),
                     At(BODY_BITS + d)), sw(BODY_BITS + d)) = K
Gap_Head(X, g) == mulmod(CrcOf(g), XP(BODY_BITS - X - Len(g)))  \* mutant: the rest is not moved
Gap(X, g) == mulmod(SymDiff(CrcOf(g), At(X)), XP(BODY_BITS - X - Len(g)))
Filling(X, g) ==
  /\ BODY_BITS - X - Len(g) >= 0
  /\ SymDiff(SymDiff(SymDiff(mulmod(At(X), XP(BODY_BITS - X)), Gap(X, g)),
                     At(BODY_BITS - Len(g))), sw(BODY_BITS - Len(g))) = K
Fillers == UNION {[1 .. d -> {0, 1}] : d \in Missed}
Slip ==
  /\ pc = "slip" /\ pc' = "done"
  /\ slips' = IF Len(w) < FIELD_BITS THEN {}
              ELSE {x \in (MinX .. BODY_BITS - 1) \X Dropped \X {<<>>} : Dropping(x[1], x[2])}
                   \cup {x \in (MinX .. BODY_BITS - 1) \X {0} \X Fillers : Filling(x[1], x[3])}
  /\ UNCHANGED <<w, pw, s, hits>>

Next == Prefix \/ Scan \/ Slip
Spec == Init /\ [][Next]_vars

-----------------------------------------------------------------------------
\* The remainders are of the degree the code masks them to.
TypeOK == /\ \A k \in DOMAIN pw : pw[k] \subseteq 0 .. W - 1
          /\ Len(pw) <= Len(w) + 1 /\ hits \subseteq 0 .. s - 1

\* What field_at would say of the bits themselves, with a CRC from their beginning.
Valid(f) == SymDiff(CrcOf(SubSeq(f, 1, BODY_BITS)),
                    {W - j : j \in {k \in 1 .. W : f[BODY_BITS + k] = 1}}) = K

\* "Exact-ECC test of every field start offset": the scan finds the valid fields and
\* no others, without computing any of their CRCs, at every start but the last.
ScanExact == pc = "slip" =>
  hits = {i \in 0 .. Len(w) - FIELD_BITS - 1 : Valid(SubSeq(w, i + 1, i + FIELD_BITS))}

\* "Single-slip repair anywhere in the field": a slip is tried exactly if undoing it
\* makes a field the ECC accepts.
Mended(x) == SubSeq(w, 1, x[1]) \o x[3] \o SubSeq(w, x[1] + x[2] + 1, Len(w))
SlipExact == pc = "done" /\ Len(w) >= FIELD_BITS =>
  slips = {x \in ((MinX .. BODY_BITS - 1) \X Dropped \X {<<>>})
                 \cup ((MinX .. BODY_BITS - 1) \X {0} \X Fillers) :
             /\ Len(x[3]) <= BODY_BITS - x[1]
             /\ Len(Mended(x)) >= FIELD_BITS /\ Valid(Mended(x))}
=============================================================================
