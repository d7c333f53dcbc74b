------------------------------- MODULE MCPage -------------------------------
(* Constant values for TLC. *)
EXTENDS MapShell

CONSTANTS a, b

ASSUME MapShellAssumption
=============================================================================
