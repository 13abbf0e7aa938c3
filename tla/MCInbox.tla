------------------------------ MODULE MCInbox -------------------------------
(* Small instances of Inbox for TLC.                                       *)
EXTENDS Inbox, TLC

CONSTANTS p1, p2, h1

InboxSymmetry == Permutations({p1, p2})
=============================================================================
