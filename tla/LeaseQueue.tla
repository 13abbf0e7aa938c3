----------------------------- MODULE LeaseQueue -----------------------------
(***************************************************************************)
(* What a queue of messages promises whose consumers hold leases: a message *)
(* is in the hands of one worker at a time, only the worker that has it     *)
(* delivers it and records what became of it, and what is recorded is what *)
(* is known of its delivery.  Nothing is said of how a lease is kept, of    *)
(* batches, retries or pauses.  Module Dispatcher implements it.            *)
(***************************************************************************)
EXTENDS Integers

CONSTANTS
  Msgs,      (* the messages of the queue                                   *)
  Workers    (* its consumers                                               *)

VARIABLES
  hands,     (* what each worker may still deliver or record                *)
  outcome,   (* what is recorded of each message, "none" before that        *)
  delivered  (* how many deliveries of each message are known               *)

Held == UNION {hands[w] : w \in Workers}

Init ==
  /\ hands     = [w \in Workers |-> {}]
  /\ outcome   = [m \in Msgs |-> "none"]
  /\ delivered = [m \in Msgs |-> 0]

\* A worker with empty hands takes what nobody has and nothing is recorded of.
Take(w, S) ==
  /\ hands[w] = {} /\ S \cap Held = {}
  /\ \A m \in S : outcome[m] = "none"
  /\ hands' = [hands EXCEPT ![w] = S]
  /\ UNCHANGED <<outcome, delivered>>

\* Once, as far as anybody knows.
Deliver(w, m) ==
  /\ m \in hands[w] /\ delivered[m] = 0
  /\ delivered' = [delivered EXCEPT ![m] = 1]
  /\ UNCHANGED <<hands, outcome>>

Settle(w, m) ==
  /\ m \in hands[w]
  /\ outcome' = [outcome EXCEPT ![m] = IF delivered[m] = 1 THEN "sent" ELSE "failed"]
  /\ hands'   = [hands EXCEPT ![w] = @ \ {m}]
  /\ UNCHANGED delivered

\* Given back or lost, with what was known of their delivery.
LetGo(S) ==
  /\ S \subseteq Held
  /\ hands'     = [w \in Workers |-> hands[w] \ S]
  /\ delivered' = [m \in Msgs |-> IF m \in S THEN 0 ELSE delivered[m]]
  /\ UNCHANGED outcome

\* Messages that nobody has and nobody will try again.
Expire(S) ==
  /\ S \cap Held = {}
  /\ \A m \in S : outcome[m] = "none" /\ delivered[m] = 0
  /\ outcome' = [m \in Msgs |-> IF m \in S THEN "failed" ELSE outcome[m]]
  /\ UNCHANGED <<hands, delivered>>

Next ==
  \/ \E w \in Workers : \/ \E S \in SUBSET Msgs : Take(w, S)
                        \/ \E m \in Msgs : Deliver(w, m) \/ Settle(w, m)
  \/ \E S \in SUBSET Msgs : LetGo(S) \/ Expire(S)

Spec == Init /\ [][Next]_<<hands, outcome, delivered>>
=============================================================================
