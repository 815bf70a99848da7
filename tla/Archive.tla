-------------------------------- MODULE Archive --------------------------------
(***************************************************************************)
(* What the image directory promises to somebody who reads it, whichever   *)
(* tools run and whenever they are killed: the sectors that can be read    *)
(* only become more and better.  A track can be lost, as a whole, when its *)
(* file is cut short.                                                      *)
(***************************************************************************)
CONSTANTS Tracks, Sectors, Qualities

VARIABLES view,  \* what a reader gets of a sector: "nothing" or a quality
          lost   \* the tracks lost

Init == /\ view = [t \in Tracks |-> [s \in Sectors |-> "nothing"]]
        /\ lost = {}

Better(old, new) ==
  \/ new = old
  \/ old = "nothing" /\ new \in Qualities
  \/ old = "corrected" /\ new = "valid"

\* One save may publish the work on several tracks.
Improve ==
  /\ view' \in [Tracks -> [Sectors -> Qualities \cup {"nothing"}]]
  /\ \A t \in Tracks \ lost, s \in Sectors : Better(view[t][s], view'[t][s])
  /\ \A t \in lost : view'[t] = view[t]
  /\ lost' = lost

Lose ==
  /\ \E t \in Tracks \ lost :
       /\ lost' = lost \cup {t}
       /\ view' = [view EXCEPT ![t] = [s \in Sectors |-> "nothing"]]

Spec == Init /\ [][Improve \/ Lose]_<<view, lost>>
=============================================================================
