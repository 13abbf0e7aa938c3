---------------------------- MODULE MCTemplates ----------------------------
(* Small instances of Templates for TLC.                                   *)
EXTENDS Templates, TLC

CONSTANTS o1, o2, h1, h2

TemplatesSymmetry == Permutations({o1, o2}) \cup Permutations({h1, h2})
=============================================================================
