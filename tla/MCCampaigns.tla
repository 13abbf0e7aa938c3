---------------------------- MODULE MCCampaigns ----------------------------
(* Small instances of Campaigns for TLC.                                   *)
EXTENDS Campaigns, TLC

CONSTANTS p1, p2, k1, k2

\* p2 is the phone of p1 without its ninth digit.
OnePerson == [p \in {p1, p2} |-> p1]
Prices == [c \in {"marketing", "utility"} |-> IF c = "marketing" THEN 2 ELSE 1]

CampaignsSymmetry == Permutations({k1, k2})
=============================================================================
