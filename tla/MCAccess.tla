------------------------------ MODULE MCAccess ------------------------------
(* Small instances of Access for TLC.                                      *)
EXTENDS Access, TLC

CONSTANTS u1, u2

AccessSymmetry == Permutations({u1, u2})
=============================================================================
