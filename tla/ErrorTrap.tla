------------------------------- MODULE ErrorTrap -------------------------------
(***************************************************************************)
(* decode_scout.py: correct_burst on one codeword, field and ECC bytes.    *)
(*                                                                         *)
(* The checksum is linear, so only the error counts: the set of the bits   *)
(* that are wrong, each named by its distance from the end of the codeword *)
(* (the last 32 are the ECC).  A register is the set of its bits that are  *)
(* 1; what the checksum of the right field and k_const add cancels out.    *)
(***************************************************************************)
EXTENDS Integers, FiniteSetsExt

CONSTANTS
  N,      \* bits of the codeword
  Errors  \* the sets of bits that may be wrong

\* What the constants have to be.
TrapAssumption == N \in Nat /\ N > 32 /\ Errors \subseteq SUBSET (0 .. N - 1)

MAX_BURST == 4
Poly_Short == {0, 2, 11}  \* mutant: 0x0805, cut to 16 bits
Poly == {0, 2, 11, 21, 23}  \* 0x00A00805, x^32 left out
Ecc == 0 .. 31
Shift(c, n) == {b + n : b \in c}

VARIABLES
  err,   \* the bits that are wrong
  fixed, \* the bits the repair inverts
  pc,    \* "crc" of the field, "trap" the burst, "recheck", "done"
  i,     \* crc: the next bit of the field
  t, j,  \* the register, and how often it was stepped down
  out    \* "none", or the field bits that are wrong in what is returned

vars == <<err, fixed, pc, i, t, j, out>>
None == {N}

Init == /\ err \in Errors /\ fixed = {}
        /\ pc = "crc" /\ i = N - 1 /\ t = {} /\ j = 0 /\ out = None

Word == SymDiff(err, fixed)
Return(result) == pc' = "done" /\ out' = result

-----------------------------------------------------------------------------
\* crc32p: a bit of the field enters at the top, and the register is shifted.
Feed == LET c == IF i \in Word THEN SymDiff(t, {31}) ELSE t
        IN  SymDiff(Shift(c \ {31}, 1), IF 31 \in c THEN Poly ELSE {})
CrcBit == /\ pc \in {"crc", "recheck"} /\ i >= 32
          /\ t' = Feed /\ i' = i - 1
          /\ UNCHANGED <<err, fixed, pc, j, out>>

\* ^ stored ^ k_const: the field checks, or the burst is looked for, or the
\* repair was none.
Syndrome == SymDiff(t, Word \cap Ecc)
Check ==
  /\ pc \in {"crc", "recheck"} /\ i < 32
  /\ t' = Syndrome
  /\ IF Syndrome = {} THEN Return(Word \ Ecc)
     ELSE IF pc = "recheck" THEN Return(None)
     ELSE pc' = "trap" /\ out' = out
  /\ UNCHANGED <<err, fixed, i, j>>

\* t times 1/x.
StepDown == Shift(IF 0 \in t THEN SymDiff(t, Poly \cup {32}) ELSE t, -1)
Trapped == t # {} /\ t \subseteq 0 .. MAX_BURST - 1
Walk == /\ pc = "trap" /\ j < N /\ ~Trapped
        /\ t' = StepDown /\ j' = j + 1
        /\ UNCHANGED <<err, fixed, pc, i, out>>

NotFound == /\ pc = "trap"
            /\ \/ j = N
               \/ Trapped /\ j < 32                              \* in the ECC bytes
               \/ Trapped /\ ~(Shift(t, j) \subseteq 0 .. N - 1) \* before the field
            /\ Return(None) /\ UNCHANGED <<err, fixed, i, t, j>>

Burst_Low == Shift(t, j - 1)  \* mutant: off by one
Burst == Shift(t, j)
Repair == /\ pc = "trap" /\ Trapped /\ 32 <= j /\ j < N /\ Burst \subseteq 0 .. N - 1
          /\ fixed' = Burst
          /\ pc' = "recheck" /\ i' = N - 1 /\ t' = {}
          /\ UNCHANGED <<err, j, out>>

Next == CrcBit \/ Check \/ Walk \/ NotFound \/ Repair
Spec == Init /\ [][Next]_vars

-----------------------------------------------------------------------------
\* The register keeps its 32 bits, and no bit outside the codeword is inverted.
TypeOK ==
  /\ err \subseteq 0 .. N - 1 /\ fixed \subseteq 0 .. N - 1
  /\ i \in 31 .. N - 1 /\ t \subseteq Ecc /\ j \in 0 .. N
  /\ pc \in {"crc", "trap", "recheck", "done"} /\ out \subseteq 0 .. N

\* A burst of up to 4 bits in the field is undone, if the 4-bit window that
\* traps it, which is as far down as it can be, does not reach into the ECC.
Corrected ==
  pc = "done" /\ err # {} /\ Max(err) - Min(err) < MAX_BURST /\ Max(err) >= 32 + MAX_BURST - 1
    => out = {}

\* Whatever the error, a field that is returned is the one that was written.
NeverWrong == pc = "done" => out \in {None, {}}
=============================================================================
