--------------------------------- MODULE Repair ---------------------------------
(***************************************************************************)
(* The ways the dead sectors of a track are repaired from the captures     *)
(* there are: by vote (VoteRepair), by position (PositionRescue) and by    *)
(* every means at their position (DeepRescue).  A tool is run alone; the   *)
(* others stay as they begin.  What it writes back is in ImageStore.       *)
(***************************************************************************)
EXTENDS PositionRescue, VoteRepair

CONSTANTS NC, Captures, Written, DeadSectors  \* of DeepRescue, NC captures

VARIABLES tool,                        \* the script that is run
  dpc, draws, sec, dreads, wins, laid, cons, dout  \* deep_rescue.py: rescue_sector
deepVars == <<dpc, draws, sec, dreads, wins, laid, cons, dout>>
repairVars == <<tool, vars, voteVars, deepVars>>

Deep == INSTANCE DeepRescue WITH
  NR <- NC, pc <- dpc, raws <- draws, reads <- dreads, out <- dout

Begin == Init /\ VoteInit /\ Deep!Init
RepairInit == tool \in {"rescue.py", "vote_repair.py", "deep_rescue.py"} /\ Begin
RepairNext ==
  /\ UNCHANGED tool
  /\ \/ tool = "rescue.py" /\ Next /\ UNCHANGED <<voteVars, deepVars>>
     \/ tool = "vote_repair.py" /\ VoteNext /\ UNCHANGED <<vars, deepVars>>
     \/ tool = "deep_rescue.py" /\ Deep!Next /\ UNCHANGED <<vars, voteVars>>
RepairSpec == RepairInit /\ [][RepairNext]_repairVars

-----------------------------------------------------------------------------
\* What a tool returns for a sector is the data of that sector of that track: by
\* position no neighbour's is taken for it, and by vote only what is right.
OwnSector == /\ TypeOK /\ Rightful
             /\ Deep!TypeOK /\ Deep!OwnField
             /\ VoteRight
\* What one capture shows is found by position: by rescue.py once two slots are
\* known, by deep_rescue.py if it is whole or but for a burst.
HeldIsFound == NothingMissed /\ Deep!HeldIsFound
\* Reads each of which is damaged make up for each other: by vote if the good ones
\* prevail, in deep_rescue.py if three have no error in common.
Outvoted == Recovered /\ Deep!Outvoted
=============================================================================
