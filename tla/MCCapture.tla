------------------------------- MODULE MCCapture -------------------------------
(* Capture on a small buffer: the constants are in the configurations. *)
EXTENDS Capture
=============================================================================
