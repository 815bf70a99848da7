----------------------------- MODULE MCConsoleLink -----------------------------
(* ConsoleLink on small instances: the constants are in the configurations. *)
EXTENDS ConsoleLink
=============================================================================
