------------------------------- MODULE MCDecoder -------------------------------
(***************************************************************************)
(* decode_scout.py, the decoding of one capture: either decode_track and   *)
(* classify_missing with an ideal ECC (Decoder), or the burst corrector    *)
(* that stands behind that ECC (ErrorTrap).  The one that does not run     *)
(* stays as it begins.                                                     *)
(*                                                                         *)
(* Captures have headers of this track and of others, and fields damaged   *)
(* in the preamble, in the sync, behind it and about the ECC; or one       *)
(* header, and every one or two bits from the preamble on.  The codeword   *)
(* is short, with every burst of up to 7 bits, and every pair of bits.     *)
(***************************************************************************)
EXTENDS Decoder, FiniteSetsExt

Header(c, h, s) == [cyl |-> c, head |-> h, sec |-> s]
MCHeaders == {Header(0, 0, 5), Header(0, 1, 5), Header(1, 0, 5), Header(0, 0, 23)}
Field(kind, flips) == [kind |-> kind, flips |-> flips]
MCFlips == {{}, {200}, {290}, {299}, {301}, {301, 302}, {301, 302, 303},
            {304, 305, 306, 307}, {305}, {307, 310}, {307, 315},
            {4398, 4401}, {4399}, {4401, 4402}, {4433}, {4434}}  \* where the trap gives up, the end
MCFields == {Field(kind, F) : kind \in Kinds, F \in MCFlips}
OneHeader == {Header(0, 0, 5)} \X {Field(kind, {a, b}) : kind \in {"data", "ff"}, a, b \in 278 .. 312}

CONSTANT N
Shifted(p, by) == {b + by : b \in p}
MCErrors ==
  {e \in {Shifted(p \cup {0}, a) : p \in SUBSET (1 .. 6), a \in 0 .. N - 1}
         \cup {{a, a + d} : a \in 0 .. N - 1, d \in 1 .. N} : e \subseteq 0 .. N - 1}

VARIABLES part, err, fixed, tpc, i, t, j, out
trapVars == <<err, fixed, tpc, i, t, j, out>>
Trap == INSTANCE ErrorTrap WITH Errors <- MCErrors, pc <- tpc
ASSUME Trap!TrapAssumption

MCInit ==
  /\ Trap!Init
  /\ \/ part = "trap" /\ Init
     \/ part = "track" /\ err = {0} /\ Init
     \/ part = "track" /\ err = {0} /\ pc = "decode" /\ cap \in {<<x>> : x \in OneHeader}
        /\ k = 1 /\ got = [s \in Sectors |-> {}] /\ verdict = [s \in Sectors |-> "none"]
MCNext == \/ part = "track" /\ Next /\ UNCHANGED <<part, trapVars>>
          \/ part = "trap" /\ Trap!Next /\ UNCHANGED <<part, vars>>
MCSpec == MCInit /\ [][MCNext]_<<part, vars, trapVars>>

\* correct_burst undoes the bursts it is for, and whatever it returns is what was
\* written: the properties of ErrorTrap.
BurstTrue == Trap!TypeOK /\ Trap!Corrected /\ Trap!NeverWrong
=============================================================================
