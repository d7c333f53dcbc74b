----------------------------- MODULE MCAccounts -----------------------------
(* Constant values for TLC.  Two persons, of whom one may have two accounts  *)
(* in succession, and two requests.                                          *)
EXTENDS UserAccount

CONSTANTS k1, k2, s1, p1, p2
=============================================================================
