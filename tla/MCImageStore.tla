----------------------------- MODULE MCImageStore -----------------------------
(***************************************************************************)
(* ImageStore on small instances.                                          *)
(***************************************************************************)
EXTENDS ImageStore

CONSTANTS t0, t1, r0, r1

\* Three sectors, two captures: sector 0 is read clean or not at all; sector 1
\* needs the burst correction, or is clean in the other capture; sector 2 never
\* validates, it only has a header in one of them.  (On two sectors: 0 and 1.)
MCDecode ==
  [r \in Raws |-> [s \in Sectors |->
     CASE r = r0 /\ s = 0 -> "clean"
       [] r = r0 /\ s = 1 -> "fixed"
       [] r = r1 /\ s = 0 -> "failed"
       [] r = r1 /\ s = 1 -> "clean"
       [] r = r1 /\ s = 2 -> "failed"
       [] OTHER           -> "no-header"]]
=============================================================================
