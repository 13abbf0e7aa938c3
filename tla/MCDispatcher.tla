---------------------------- MODULE MCDispatcher ----------------------------
(* Small instances of Dispatcher for TLC.                                  *)
EXTENDS Dispatcher, TLC

CONSTANTS m1, m2, c1, c2, w1, w2, r1, r2

\* Two processes with one worker each; the second may replace the first.
MCMsgs      == {m1, m2}
MCWorkers   == {w1, w2}
MCReplicas  == {r1, r2}
OneEach     == (w1 :> r1) @@ (w2 :> r2)
\* One process with two workers.
BothInOne   == (w1 :> r1) @@ (w2 :> r1)

OneChannel  == [m \in {m1, m2} |-> c1]
OneForOne   == [m \in {m1} |-> c1]
MsgSymmetry == Permutations({m1, m2})
=============================================================================
