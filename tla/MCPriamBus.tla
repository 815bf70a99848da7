------------------------------ MODULE MCPriamBus ------------------------------
(***************************************************************************)
(* The firmware at both its levels: from the start on, either the drive    *)
(* operations run, whose register accesses are atomic (PriamBus), or the   *)
(* register accesses themselves, pin by pin (BusPins).  The one that does  *)
(* not run stays as it begins.                                             *)
(***************************************************************************)
EXTENDS PriamBus, BusPins

VARIABLE level
MCInit == level \in {"operations", "pins"} /\ Init /\ PinInit
Operations(A) == level = "operations" /\ A /\ UNCHANGED <<level, pinVars>>
MCNext == \/ Operations(Next)
          \/ level = "pins" /\ PinNext /\ UNCHANGED <<level, vars>>
mcVars == <<level, vars, pinVars>>
MCSpec == /\ MCInit /\ [][MCNext]_mcVars
          /\ WF_mcVars(Operations(Firmware)) /\ WF_mcVars(Operations(Expire))
=============================================================================
