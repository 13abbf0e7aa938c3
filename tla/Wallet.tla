------------------------------- MODULE Wallet -------------------------------
(***************************************************************************)
(* What the ledger of a wallet promises: the balance moves only together   *)
(* with a new entry of the ledger, by the amount of that entry, and no     *)
(* entry is written twice or taken back.  Module Billing implements it     *)
(* with one entry per purchase of credits.                                 *)
(***************************************************************************)
EXTENDS Integers

CONSTANTS
  Entries,   (* what the ledger may hold                                    *)
  Amount(_)  (* what each entry is worth, negative for a debit              *)

VARIABLES
  balance,
  ledger     (* the entries written so far                                  *)

Init == balance = 0 /\ ledger = {}

Post(e) ==
  /\ e \in Entries \ ledger
  /\ ledger'  = ledger \cup {e}
  /\ balance' = balance + Amount(e)

Next == \E e \in Entries : Post(e)

Spec == Init /\ [][Next]_<<balance, ledger>>
=============================================================================
