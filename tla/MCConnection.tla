--------------------------- MODULE MCConnection ----------------------------
(* Small instances of Connection for TLC.                                  *)
EXTENDS Connection, TLC

CONSTANTS o1, o2, n1, n2, h1, h2

TwoRequests        == 1 .. 2
ConnectionSymmetry == Permutations({o1, o2}) \cup Permutations({n1, n2})
                        \cup Permutations({h1, h2})
=============================================================================
