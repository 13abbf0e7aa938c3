----------------------------- MODULE MCWebhooks -----------------------------
(* Small instances of Webhooks for TLC.                                    *)
EXTENDS Webhooks, TLC

CONSTANTS m1, m2, h1, h2

OneOfEach       == (m1 :> "marketing") @@ (m2 :> "utility")
OneFree         == [m \in {m1} |-> "free"]
HandlerSymmetry == Permutations({h1, h2})
=============================================================================
