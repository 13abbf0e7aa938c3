---------------------------- MODULE MCSessions -----------------------------
(* Small instances of Sessions for TLC.                                    *)
EXTENDS Sessions, TLC

CONSTANTS t1, t2, c1, c2, h1, h2

SessionsSymmetry ==
  Permutations({t1, t2}) \cup Permutations({c1, c2}) \cup Permutations({h1, h2})
=============================================================================
