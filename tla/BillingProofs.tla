--------------------------- MODULE BillingProofs ---------------------------
(* The safety of Billing for every number of requests, webhooks, charges   *)
(* and failures, and the step simulation of Wallet.                        *)
EXTENDS Billing, TLAPS

(***************************************************************************)
(* Types.  An event of a payment names a charge; a handler past its reads  *)
(* works on an event; a request that writes a row has a charge.            *)
(***************************************************************************)
PaymentEvents ==
  [name : {"PAYMENT_CONFIRMED", "PAYMENT_RECEIVED", "PAYMENT_OVERDUE"}, charge : Charges]
Event == PaymentEvents \cup {Deletion}
Kinds == {"none", "subscription", "credit_topup"}

Rows ==
  /\ sub \in [status : Statuses, customer : Nat, psub : Nat, period : Nat, taxId : BOOLEAN]
  /\ payment \in [Charges -> [kind : Kinds, status : {"none", "pending", "paid", "overdue"}]]
  /\ balance \in Nat /\ topups \subseteq Charges
  /\ events \subseteq Event /\ processed \subseteq events

Provider ==
  /\ customers \in Nat /\ psubs \in Nat /\ failures \in Nat
  /\ charge \in [Charges -> [sub : 0 .. psubs,
       state : {"none", "pending", "overdue", "paid", "refunded"}]]

ClientType ==
  client \in [Clients ->
    [pc : {"idle", "lock", "customer", "subscribe", "commit", "charge", "row"},
     op : {"none", "activate", "buy"}, customer : Nat, psub : Nat, charge : Charges \cup {0}]]

HookType ==
  /\ hook \in [Hooks -> [pc : {"idle", "transaction"}, event : Event \cup {NoEvent},
                         period : Nat, kind : Kinds, verifiedOk : BOOLEAN, linked : BOOLEAN]]
  /\ \A h \in Hooks : hook[h].pc = "transaction" => hook[h].event \in events

History == granted \in [Charges -> Nat] /\ regressed \subseteq Charges /\ early \subseteq Charges

(***************************************************************************)
(* The lock of the subscription is held exactly by the request that is     *)
(* between its SELECT FOR UPDATE and its commit.                           *)
(***************************************************************************)
Inside == {"customer", "subscribe", "commit"}
LockInv ==
  /\ subLock \in Clients \cup {Nobody}
  /\ \A c \in Clients : client[c].pc \in Inside <=> subLock = c

TypeInv == Rows /\ Provider /\ ClientType /\ HookType /\ History /\ LockInv

LEMMA ChargeIds == 0 \notin Charges /\ Charges \subseteq Int
BY BillingAssumption DEF BillingAssumption

(* A new charge of the provider, which one it is and how it looks.         *)
LEMMA NewCharge ==
  ASSUME TypeInv, NEW s, New(s)
  PROVE  \E n \in Unused :
           /\ charge' = [charge EXCEPT ![n] = [sub |-> s, state |-> "pending"]]
           /\ \A k \in Charges : charge'[k] # charge[k] <=> k = n
<1>1. PICK n \in Unused :
        charge' = [charge EXCEPT ![n] = [sub |-> s, state |-> "pending"]]
  BY DEF New
<1>2. n \in Charges /\ charge[n].state = "none" /\ charge'[n].state = "pending"
  BY <1>1 DEF Unused, TypeInv, Provider
<1>3. \A k \in Charges \ {n} : charge'[k] = charge[k]
  BY <1>1 DEF TypeInv, Provider
<1> QED  BY <1>1, <1>2, <1>3

LEMMA NewProvider ==
  ASSUME TypeInv, NEW s \in 0 .. psubs', New(s), psubs' \in {psubs, psubs + 1},
         UNCHANGED <<customers, failures>>
  PROVE  Provider'
<1>1. PICK n \in Unused : charge' = [charge EXCEPT ![n] = [sub |-> s, state |-> "pending"]]
  BY NewCharge
<1>2. psubs' \in Nat /\ 0 .. psubs \subseteq 0 .. psubs'
  BY DEF TypeInv, Provider
<1> QED  BY <1>1, <1>2 DEF TypeInv, Provider, Unused

-----------------------------------------------------------------------------
LEMMA TypeInit == Init => TypeInv
<1> SUFFICES ASSUME Init PROVE TypeInv
  OBVIOUS
<1> USE DEF Init
<1>1. Rows
  <2>1. sub \in [status : Statuses, customer : Nat, psub : Nat, period : Nat, taxId : BOOLEAN]
    <3>1. PICK s \in {"none", "inactive"} :
            sub = [status |-> s, customer |-> 0, psub |-> 0, period |-> 0, taxId |-> FALSE]
      OBVIOUS
    <3> QED  BY <3>1 DEF Statuses
  <2>2. payment \in [Charges -> [kind : Kinds, status : {"none", "pending", "paid", "overdue"}]]
    BY DEF Kinds
  <2> QED  BY <2>1, <2>2 DEF Rows
<1>2. Provider /\ History
  BY DEF Provider, History
<1>3. ClientType
  BY DEF ClientType, NoClient
<1>4. HookType
  BY DEF HookType, NoHook, Kinds
<1>5. LockInv
  BY BillingAssumption DEF BillingAssumption, LockInv, NoClient, Inside
<1> QED  BY <1>1, <1>2, <1>3, <1>4, <1>5 DEF TypeInv

LEMMA TypeRequest ==
  ASSUME TypeInv, NEW c \in Clients, Request(c)
  PROVE  TypeInv'
<1> USE DEF TypeInv, Request, tables, asaas, history
<1>1. Rows'
  BY DEF Rows, Provisioned, Statuses
<1>2. Provider' /\ HookType' /\ History'
  BY DEF Provider, HookType, History, Event, PaymentEvents
<1>3. PICK op \in {"activate", "buy"} :
        client' = [client EXCEPT ![c] = [NoClient EXCEPT !.pc = "lock", !.op = op]]
  OBVIOUS
<1>4. ClientType'
  BY <1>3 DEF ClientType, NoClient
<1>5. LockInv'
  BY <1>3 DEF LockInv, ClientType, NoClient, Inside
<1> QED  BY <1>1, <1>2, <1>4, <1>5

LEMMA TypeLock ==
  ASSUME TypeInv, NEW c \in Clients, Lock(c)
  PROVE  TypeInv'
<1> USE DEF TypeInv, Lock, LockFree, tables, asaas, history, bounds
<1>1. Rows' /\ Provider' /\ HookType' /\ History'
  BY DEF Rows, Provider, HookType, History
<1>2. ClientType'
  BY DEF ClientType, Rows
<1>3. \A d \in Clients \ {c} : client'[d] = client[d] /\ client[d].pc \notin Inside
  BY BillingAssumption DEF BillingAssumption, ClientType, LockInv
<1>4. client'[c].pc \in Inside
  BY DEF ClientType, Inside
<1>5. LockInv'
  BY <1>3, <1>4 DEF LockInv
<1> QED  BY <1>1, <1>2, <1>5

LEMMA TypeCreateCustomer ==
  ASSUME TypeInv, NEW c \in Clients, CreateCustomer(c)
  PROVE  TypeInv'
<1> USE DEF TypeInv, CreateCustomer, tables, history, bounds
<1>1. Rows' /\ HookType' /\ History' /\ Provider'
  BY DEF Rows, Provider, HookType, History
<1>2. ClientType'
  BY DEF ClientType, Provider
<1>3. LockInv'
  BY DEF LockInv, ClientType, Inside
<1> QED  BY <1>1, <1>2, <1>3

LEMMA TypeCreateSubscription ==
  ASSUME TypeInv, NEW c \in Clients, CreateSubscription(c)
  PROVE  TypeInv'
<1> USE DEF TypeInv, CreateSubscription, tables, history, bounds
<1>1. Rows' /\ HookType' /\ History'
  BY DEF Rows, HookType, History
<1>2. Provider'
  <2>1. psubs' \in 0 .. psubs' /\ psubs' = psubs + 1
    BY DEF Provider
  <2> QED  BY <2>1, NewProvider DEF bounds
<1>3. PICK n \in FirstPayment :
        client' = [client EXCEPT ![c] =
          [@ EXCEPT !.pc = "commit", !.psub = psubs', !.charge = n]]
  OBVIOUS
<1>4. n \in Charges \cup {0} /\ psubs' \in Nat
  BY DEF FirstPayment, Provider
<1>5. ClientType'
  <2>1. [client[c] EXCEPT !.pc = "commit", !.psub = psubs', !.charge = n] \in
          [pc : {"idle", "lock", "customer", "subscribe", "commit", "charge", "row"},
           op : {"none", "activate", "buy"}, customer : Nat, psub : Nat,
           charge : Charges \cup {0}]
    BY <1>4 DEF ClientType
  <2> QED  BY <1>3, <2>1 DEF ClientType
<1>6. LockInv'
  BY <1>3 DEF LockInv, ClientType, Inside
<1> QED  BY <1>1, <1>2, <1>5, <1>6

LEMMA TypeCommit ==
  ASSUME TypeInv, NEW c \in Clients, Commit(c)
  PROVE  TypeInv'
<1> USE DEF TypeInv, Commit, asaas, history, bounds
<1>1. Rows'
  <2>1. sub' \in [status : Statuses, customer : Nat, psub : Nat, period : Nat, taxId : BOOLEAN]
    BY DEF Rows, ClientType, Provisioned, Statuses
  <2>2. payment' \in [Charges -> [kind : Kinds, status : {"none", "pending", "paid", "overdue"}]]
    BY DEF Rows, Kinds
  <2> QED  BY <2>1, <2>2 DEF Rows
<1>2. Provider' /\ HookType' /\ History'
  BY DEF Provider, HookType, History
<1>3. ClientType'
  BY DEF ClientType, NoClient
<1>4. subLock = c /\ subLock' = Nobody
  BY DEF LockInv, Inside, Released
<1>5. \A d \in Clients \ {c} : client'[d] = client[d] /\ client[d].pc \notin Inside
  BY <1>4 DEF ClientType, LockInv
<1>6. client'[c].pc \notin Inside
  BY DEF ClientType, NoClient, Inside
<1>7. LockInv'
  BY <1>4, <1>5, <1>6, BillingAssumption DEF BillingAssumption, LockInv
<1> QED  BY <1>1, <1>2, <1>3, <1>7

LEMMA TypeCreateCharge ==
  ASSUME TypeInv, NEW c \in Clients, CreateCharge(c)
  PROVE  TypeInv'
<1> USE DEF TypeInv, CreateCharge, tables, history, bounds
<1>1. Rows' /\ HookType' /\ History'
  BY DEF Rows, HookType, History
<1>2. Provider'
  <2>1. 0 \in 0 .. psubs'
    BY DEF Provider
  <2> QED  BY <2>1, NewProvider
<1>3. (CHOOSE n \in Charges : charge'[n] # charge[n]) \in Charges
  BY NewCharge DEF Unused
<1>4. PICK n \in Charges :
         client' = [client EXCEPT ![c].pc = "row", ![c].charge = n]
  BY <1>3
<1>5. ClientType' /\ client[c].pc = "charge" /\ client'[c].pc = "row"
  <2>1. ClientType /\ client[c].pc = "charge"
    OBVIOUS
  <2> HIDE DEF TypeInv, CreateCharge
  <2>2. client' = [client EXCEPT ![c] = [client[c] EXCEPT !.pc = "row", !.charge = n]]
    BY <1>4, <2>1 DEF ClientType
  <2> QED  BY <2>1, <2>2 DEF ClientType
<1>6. LockInv'
  <2>1. \A d \in Clients \ {c} : client'[d] = client[d]
    BY <1>4 DEF ClientType
  <2>2. UNCHANGED subLock /\ LockInv
    OBVIOUS
  <2> HIDE DEF TypeInv, CreateCharge
  <2> QED  BY <1>5, <2>1, <2>2 DEF LockInv, Inside
<1> QED  BY <1>1, <1>2, <1>5, <1>6

LEMMA TypeCreateRow ==
  ASSUME TypeInv, NEW c \in Clients, CreateRow(c)
  PROVE  TypeInv'
<1> USE DEF TypeInv, CreateRow, asaas, history, bounds
<1>1. Rows'
  BY DEF Rows, Kinds
<1>2. Provider' /\ HookType' /\ History'
  BY DEF Provider, HookType, History
<1>3. ClientType'
  BY ChargeIds DEF ClientType, NoClient
<1>4. LockInv'
  BY DEF LockInv, ClientType, NoClient, Inside
<1> QED  BY <1>1, <1>2, <1>3, <1>4

LEMMA TypeFail ==
  ASSUME TypeInv, NEW c \in Clients, Fail(c)
  PROVE  TypeInv'
<1> USE DEF TypeInv, Fail, tables, asaas, history
<1>1. Rows' /\ HookType' /\ History' /\ Provider'
  BY DEF Rows, Provider, HookType, History
<1>2. ClientType'
  BY DEF ClientType, NoClient
<1>3. \A d \in Clients \ {c} : client'[d] = client[d]
  BY DEF ClientType
<1>4. client'[c].pc \notin Inside
  BY DEF ClientType, NoClient, Inside
<1>5. LockInv'
  BY <1>3, <1>4, BillingAssumption DEF BillingAssumption, LockInv, Released
<1> QED  BY <1>1, <1>2, <1>5

-----------------------------------------------------------------------------
(* The provider's steps.                                                   *)

LEMMA TypeOfCharges ==
  ASSUME TypeInv, NEW n \in Charges, NEW state \in {"pending", "overdue", "paid", "refunded"},
         charge' = [charge EXCEPT ![n].state = state],
         NEW names \in SUBSET {"PAYMENT_CONFIRMED", "PAYMENT_RECEIVED", "PAYMENT_OVERDUE"},
         events' = events \cup [name : names, charge : {n}],
         early' \in SUBSET Charges, UNCHANGED <<customers, psubs, Outside>>
  PROVE  TypeInv'
<1> USE DEF TypeInv, Outside, tables, bounds
<1>1. [name : names, charge : {n}] \subseteq PaymentEvents
  BY DEF PaymentEvents
<1>2. Rows'
  BY <1>1 DEF Rows, Event
<1>3. Provider' /\ History'
  BY DEF Provider, History
<1>4. HookType'
  BY DEF HookType, Event
<1>5. ClientType' /\ LockInv'
  BY DEF ClientType, LockInv
<1> QED  BY <1>2, <1>3, <1>4, <1>5

LEMMA TypePay ==
  ASSUME TypeInv, NEW n \in Charges, Pay(n)
  PROVE  TypeInv'
<1> DEFINE names == {"PAYMENT_CONFIRMED", "PAYMENT_RECEIVED"}
<1>1. /\ charge' = [charge EXCEPT ![n].state = "paid"]
      /\ events' = events \cup [name : names, charge : {n}]
      /\ UNCHANGED <<customers, psubs, Outside>>
  BY DEF Pay, Emit
<1>2. early' \in SUBSET Charges
  BY DEF Pay, TypeInv, History
<1>3. names \in SUBSET {"PAYMENT_CONFIRMED", "PAYMENT_RECEIVED", "PAYMENT_OVERDUE"}
  OBVIOUS
<1> HIDE DEF names
<1> QED  BY <1>1, <1>2, <1>3, TypeOfCharges

LEMMA TypePassDue ==
  ASSUME TypeInv, NEW n \in Charges, PassDue(n)
  PROVE  TypeInv'
<1>1. /\ charge' = [charge EXCEPT ![n].state = "overdue"]
      /\ events' = events \cup [name : {"PAYMENT_OVERDUE"}, charge : {n}]
      /\ early' \in SUBSET Charges /\ UNCHANGED <<customers, psubs, Outside>>
  BY DEF PassDue, Emit, TypeInv, History
<1>2. {"PAYMENT_OVERDUE"} \in SUBSET {"PAYMENT_CONFIRMED", "PAYMENT_RECEIVED", "PAYMENT_OVERDUE"}
  OBVIOUS
<1> QED  BY <1>1, <1>2, TypeOfCharges

LEMMA TypeRefund ==
  ASSUME TypeInv, NEW n \in Charges, Refund(n)
  PROVE  TypeInv'
<1>1. events' = events \cup [name : {}, charge : {n}]
  BY DEF Refund
<1>2. early' \in SUBSET Charges
  BY DEF Refund, TypeInv, History
<1>3. charge' = [charge EXCEPT ![n].state = "refunded"] /\ UNCHANGED <<customers, psubs, Outside>>
  BY DEF Refund
<1>4. {} \in SUBSET {"PAYMENT_CONFIRMED", "PAYMENT_RECEIVED", "PAYMENT_OVERDUE"}
  OBVIOUS
<1> QED  BY <1>1, <1>2, <1>3, <1>4, TypeOfCharges

LEMMA TypeRenew ==
  ASSUME TypeInv, Renew
  PROVE  TypeInv'
<1> USE DEF TypeInv, Renew, Outside, tables, bounds
<1>1. PICK s \in 1 .. psubs : New(s)
  OBVIOUS
<1>2. s \in 0 .. psubs' /\ psubs' = psubs
  BY DEF Provider
<1>3. Provider'
  BY <1>1, <1>2, NewProvider
<1> QED  BY <1>3 DEF Rows, ClientType, HookType, History, LockInv

LEMMA TypeDelete ==
  ASSUME TypeInv, Delete
  PROVE  TypeInv'
<1> USE DEF TypeInv, Delete, Outside, tables, bounds
<1>1. events' = events \cup {Deletion}
  BY DEF Emit, Deletion
<1>2. Rows' /\ Provider' /\ ClientType' /\ HookType' /\ History' /\ LockInv'
  BY <1>1 DEF Rows, Provider, ClientType, HookType, History, LockInv, Event
<1> QED  BY <1>2

-----------------------------------------------------------------------------
(* The webhooks' steps.                                                    *)

LEMMA TypeReceive ==
  ASSUME TypeInv, NEW h \in Hooks, Receive(h)
  PROVE  TypeInv'
<1> USE DEF TypeInv, Receive, Known, tables, asaas, history, bounds
<1>1. PICK e \in events \ processed : hook' = [hook EXCEPT ![h] = LookUp(e)]
  OBVIOUS
<1>2. e \in Event /\ (e.charge # 0 => e.charge \in Charges)
  BY DEF Rows, Event, PaymentEvents, Deletion
<1>3. hook'[h] = LookUp(e) /\ \A g \in Hooks \ {h} : hook'[g] = hook[g]
  BY <1>1 DEF HookType
<1>4. LookUp(e) \in [pc : {"idle", "transaction"}, event : Event \cup {NoEvent},
                     period : Nat, kind : Kinds, verifiedOk : BOOLEAN, linked : BOOLEAN]
      /\ LookUp(e).event = e
  <2> DEFINE overdue == e.name = "PAYMENT_OVERDUE"
             confirmed == e.charge # 0 /\ ~overdue /\ Verified(e.charge)
  <2>1. overdue => e.charge # 0
    BY <1>2, ChargeIds DEF Event, PaymentEvents, Deletion
  <2>2. (IF confirmed THEN sub.period ELSE 0) \in Nat
    BY DEF Rows
  <2>3. (IF confirmed \/ overdue THEN payment[e.charge].kind ELSE "none") \in Kinds
    BY <1>2, <2>1 DEF Rows, Kinds
  <2>4. confirmed \in BOOLEAN /\ (confirmed /\ charge[e.charge].sub # 0) \in BOOLEAN
    OBVIOUS
  <2> QED  BY <1>2, <2>2, <2>3, <2>4 DEF LookUp
<1>5. HookType'
  BY <1>2, <1>3, <1>4 DEF HookType, Event, PaymentEvents
<1>6. Rows' /\ Provider' /\ ClientType' /\ History' /\ LockInv'
  BY DEF Rows, Provider, ClientType, History, LockInv, Event, PaymentEvents
<1> QED  BY <1>5, <1>6

(* A handler in its transaction works on an event; one that names a charge *)
(* names one of Charges.                                                   *)
LEMMA EventInHand ==
  ASSUME TypeInv, NEW h \in Hooks, hook[h].pc = "transaction"
  PROVE  /\ hook[h].event \in events /\ hook[h].event \in Event
         /\ hook[h].event.name # "SUBSCRIPTION_DELETED" => hook[h].event \in PaymentEvents
         /\ hook[h].event.name = "SUBSCRIPTION_DELETED" \/ hook[h].event.charge \in Charges
BY DEF TypeInv, HookType, Rows, Event, PaymentEvents, Deletion

(* What a transaction may do to the rows.                                  *)
LEMMA TransactionCases ==
  ASSUME TypeInv, NEW h \in Hooks, Transaction(h)
  PROVE  \/ Keep
         \/ HandleSubscriptionCanceled
         \/ /\ hook[h].event.charge \in Charges
            /\ hook[h].event \notin processed /\ processed' = processed \cup {hook[h].event}
            /\ \/ /\ hook[h].event.name = "PAYMENT_OVERDUE"
                  /\ HandlePaymentOverdue(h, hook[h].event.charge)
               \/ /\ hook[h].verifiedOk
                  /\ TopUp(hook[h].event.charge) \/ AddMonth(h, hook[h].event.charge)
BY EventInHand DEF Transaction, HandlePaymentConfirmed

LEMMA TypeTransaction ==
  ASSUME TypeInv, NEW h \in Hooks, Transaction(h)
  PROVE  TypeInv'
<1> DEFINE n == hook[h].event.charge
<1>1. /\ sub' \in [status : Statuses, customer : Nat, psub : Nat, period : Nat, taxId : BOOLEAN]
      /\ payment' \in [Charges -> [kind : Kinds,
                                   status : {"none", "pending", "paid", "overdue"}]]
      /\ balance' \in Nat /\ topups' \subseteq Charges
      /\ granted' \in [Charges -> Nat] /\ regressed' \subseteq Charges
  <2> USE DEF TypeInv, Rows, History, Set, Statuses, Kinds
  <2>1. CASE Keep
    BY <2>1 DEF Keep
  <2>2. CASE HandleSubscriptionCanceled
    BY <2>2 DEF HandleSubscriptionCanceled
  <2>3. CASE n \in Charges /\ HandlePaymentOverdue(h, n)
    BY <2>3 DEF HandlePaymentOverdue
  <2>4. CASE n \in Charges /\ TopUp(n)
    BY <2>4 DEF TopUp, Keep
  <2>5. CASE n \in Charges /\ AddMonth(h, n)
    <3>1. CASE payment[n].status = "paid"
      BY <2>5, <3>1, <2>1 DEF AddMonth
    <3>2. CASE payment[n].status # "paid"
      <4> USE <2>5, <3>2 DEF AddMonth
      <4>1. hook[h].period + 1 \in Nat
        BY DEF HookType
      <4>2. sub' \in [status : Statuses, customer : Nat, psub : Nat, period : Nat, taxId : BOOLEAN]
        BY <4>1
      <4>3. payment' \in [Charges -> [kind : Kinds,
                                     status : {"none", "pending", "paid", "overdue"}]]
        OBVIOUS
      <4> QED  BY <4>2, <4>3
    <3> QED  BY <3>1, <3>2
  <2> QED  BY <2>1, <2>2, <2>3, <2>4, <2>5, TransactionCases
<1> USE DEF TypeInv, Transaction, asaas, bounds
<1>2. Rows'
  BY <1>1, EventInHand DEF Rows, asaas
<1>3. History' /\ Provider' /\ ClientType' /\ LockInv'
  BY <1>1 DEF History, Provider, ClientType, LockInv
<1>4. HookType'
  BY DEF HookType, NoHook, Kinds, Event, PaymentEvents
<1> QED  BY <1>2, <1>3, <1>4

LEMMA TypeAbort ==
  ASSUME TypeInv, NEW h \in Hooks, Abort(h)
  PROVE  TypeInv'
<1> USE DEF TypeInv, Abort, Known, tables, asaas, history, bounds
<1>1. HookType'
  BY DEF HookType, NoHook, Kinds, Event, PaymentEvents
<1>2. Rows' /\ Provider' /\ ClientType' /\ History' /\ LockInv'
  BY DEF Rows, Provider, ClientType, History, LockInv, Event, PaymentEvents
<1> QED  BY <1>1, <1>2

LEMMA TypeStutter ==
  ASSUME TypeInv, UNCHANGED vars
  PROVE  TypeInv'
BY DEF TypeInv, Rows, Provider, ClientType, HookType, History, LockInv, Event, PaymentEvents,
       vars, tables, asaas, history, bounds

LEMMA TypeStep == TypeInv /\ [Next]_vars => TypeInv'
<1> SUFFICES ASSUME TypeInv, [Next]_vars PROVE TypeInv'
  OBVIOUS
<1>1. CASE \E c \in Clients : \/ Request(c) \/ Lock(c) \/ CreateCustomer(c)
                              \/ CreateSubscription(c) \/ Commit(c) \/ CreateCharge(c)
                              \/ CreateRow(c) \/ Fail(c)
  BY <1>1, TypeRequest, TypeLock, TypeCreateCustomer, TypeCreateSubscription, TypeCommit,
     TypeCreateCharge, TypeCreateRow, TypeFail
<1>2. CASE \E n \in Charges : Pay(n) \/ PassDue(n) \/ Refund(n)
  BY <1>2, TypePay, TypePassDue, TypeRefund
<1>3. CASE Renew \/ Delete
  BY <1>3, TypeRenew, TypeDelete
<1>4. CASE \E h \in Hooks : Receive(h) \/ Transaction(h) \/ Abort(h)
  BY <1>4, TypeReceive, TypeTransaction, TypeAbort
<1>5. CASE UNCHANGED vars
  BY <1>5, TypeStutter
<1> QED  BY <1>1, <1>2, <1>3, <1>4, <1>5 DEF Next

(***************************************************************************)
(* Every row, of the database and of the provider, keeps its type, and the *)
(* row lock of activateSubscription and buyCredits has one holder.         *)
(***************************************************************************)
THEOREM TypeCorrect == Spec => []TypeOK
<1>1. TypeInv => TypeOK
  <2> SUFFICES ASSUME TypeInv PROVE TypeOK
    OBVIOUS
  <2> USE DEF TypeInv
  <2>1. subLock \in {c \in Clients : client[c].pc \in {"customer", "subscribe", "commit"}}
                      \cup {Nobody}
    BY DEF LockInv, Inside
  <2> QED  BY <2>1 DEF TypeOK, Rows, Provider, Kinds
<1> QED  BY <1>1, TypeInit, TypeStep, PTL DEF Spec

-----------------------------------------------------------------------------
(* The wallet.                                                             *)

(* A step of Billing writes at most one new entry to the ledger, with its  *)
(* amount, or leaves ledger and balance alone.                             *)
LEMMA LedgerStep ==
  TypeInv /\ [Next]_vars => [Ledger!Next]_<<balance, topups>>
<1> SUFFICES ASSUME TypeInv, [Next]_vars PROVE [Ledger!Next]_<<balance, topups>>
  OBVIOUS
<1>1. CASE UNCHANGED <<balance, topups>>
  BY <1>1
<1>2. ASSUME NEW h \in Hooks, Transaction(h)
      PROVE  [Ledger!Next]_<<balance, topups>>
  <2> DEFINE n == hook[h].event.charge
  <2>1. CASE UNCHANGED <<balance, topups>>
    BY <2>1
  <2>2. CASE n \in Charges /\ TopUp(n)
    <3>1. CASE payment[n].status = "paid" \/ n \in topups
      BY <2>2, <3>1 DEF TopUp, Keep
    <3>2. CASE payment[n].status # "paid" /\ n \notin topups
      <4>1. Ledger!Post(n)
        BY <2>2, <3>2 DEF TopUp, Ledger!Post, OneCredit
      <4> QED  BY <2>2, <4>1 DEF Ledger!Next
    <3> QED  BY <3>1, <3>2
  <2>3. CASE Keep \/ HandleSubscriptionCanceled
    BY <2>1, <2>3 DEF Keep, HandleSubscriptionCanceled
  <2>4. CASE HandlePaymentOverdue(h, n) \/ AddMonth(h, n)
    BY <2>1, <2>4 DEF HandlePaymentOverdue, AddMonth, Keep
  <2> QED  BY <1>2, <2>2, <2>3, <2>4, TransactionCases
<1>3. CASE \E c \in Clients : \/ Request(c) \/ Lock(c) \/ CreateCustomer(c)
                              \/ CreateSubscription(c) \/ Commit(c) \/ CreateCharge(c)
                              \/ CreateRow(c) \/ Fail(c)
  BY <1>1, <1>3 DEF Request, Lock, CreateCustomer, CreateSubscription, Commit, CreateCharge,
     CreateRow, Fail, tables
<1>4. CASE \E n \in Charges : Pay(n) \/ PassDue(n) \/ Refund(n)
  BY <1>1, <1>4 DEF Pay, PassDue, Refund, Outside, tables
<1>5. CASE Renew \/ Delete
  BY <1>1, <1>5 DEF Renew, Delete, Outside, tables
<1>6. CASE \E h \in Hooks : Receive(h) \/ Abort(h)
  BY <1>1, <1>6 DEF Receive, Abort, Known, tables
<1>7. CASE UNCHANGED vars
  BY <1>1, <1>7 DEF vars, tables
<1> QED  BY <1>2, <1>3, <1>4, <1>5, <1>6, <1>7 DEF Next

(***************************************************************************)
(* Billing implements Wallet: the balance moves only with a new entry of   *)
(* the ledger, and no purchase is credited twice or taken back, whatever   *)
(* the provider repeats and however handlers interleave or fail.           *)
(***************************************************************************)
THEOREM WalletImplemented == Spec => CreditedOnce
<1>1. Init => Ledger!Init
  BY DEF Init, Ledger!Init
<1> QED  BY <1>1, TypeInit, TypeStep, LedgerStep, PTL DEF Spec, CreditedOnce, Ledger!Spec

-----------------------------------------------------------------------------
(* Months.                                                                 *)

(***************************************************************************)
(* A charge that is not paid, as its row says, has added no month, unless  *)
(* an OVERDUE took the row back; that happens once, because the event is   *)
(* then processed.                                                         *)
(***************************************************************************)
OverdueOf(n) == [name |-> "PAYMENT_OVERDUE", charge |-> n]

MonthInv ==
  \A n \in Charges :
    /\ granted[n] <= IF n \in regressed THEN 2 ELSE 1
    /\ payment[n].status # "paid" => granted[n] <= IF n \in regressed THEN 1 ELSE 0
    /\ n \in regressed => OverdueOf(n) \in processed
    /\ payment[n].kind = "none" => payment[n].status # "paid"

(* Steps that leave the months and every row that is written alone.        *)
LEMMA MonthKept ==
  ASSUME MonthInv, UNCHANGED <<payment, granted, regressed>>, processed \subseteq processed'
  PROVE  MonthInv'
BY DEF MonthInv, OverdueOf

(* A request writes the row of a charge that has none.                     *)
LEMMA MonthPending ==
  ASSUME TypeInv, MonthInv, NEW n \in Charges, payment[n].kind = "none",
         NEW kind \in {"subscription", "credit_topup"},
         payment' = [payment EXCEPT ![n] = [kind |-> kind, status |-> "pending"]],
         UNCHANGED <<granted, regressed, processed>>
  PROVE  MonthInv'
BY DEF TypeInv, Rows, MonthInv, OverdueOf

(* A charge that was not paid is, and at most one month comes with it.      *)
LEMMA MonthPaid ==
  ASSUME TypeInv, MonthInv, NEW n \in Charges, payment'[n].kind # "none",
         granted[n] <= IF n \in regressed THEN 1 ELSE 0,
         granted'[n] \in {granted[n], granted[n] + 1}, payment'[n].status = "paid",
         \A m \in Charges \ {n} : payment'[m] = payment[m] /\ granted'[m] = granted[m],
         regressed' = regressed, processed \subseteq processed'
  PROVE  MonthInv'
<1>1. granted[n] \in Nat
  BY DEF TypeInv, History
<1>2. \A m \in Charges : m \in regressed' => OverdueOf(m) \in processed'
  BY DEF MonthInv, OverdueOf
<1>3. granted'[n] <= IF n \in regressed' THEN 2 ELSE 1
  BY <1>1
<1> QED  BY <1>2, <1>3 DEF MonthInv

LEMMA MonthTransaction ==
  ASSUME TypeInv, MonthInv, NEW h \in Hooks, Transaction(h)
  PROVE  MonthInv'
<1> DEFINE n == hook[h].event.charge
<1> USE DEF TypeInv, Rows, History
<1>0. hook[h].pc = "transaction"
  BY DEF Transaction
<1>1. processed \subseteq processed'
  BY DEF Transaction
<1>2. CASE Keep \/ HandleSubscriptionCanceled
  BY <1>1, <1>2, MonthKept DEF Keep, HandleSubscriptionCanceled
<1>3. CASE /\ n \in Charges /\ hook[h].event \notin processed
           /\ processed' = processed \cup {hook[h].event}
           /\ hook[h].event.name = "PAYMENT_OVERDUE" /\ HandlePaymentOverdue(h, n)
  <2>1. hook[h].event = OverdueOf(n)
    BY <1>3, EventInHand DEF Transaction, PaymentEvents, OverdueOf
  <2>2. n \notin regressed
    BY <1>3, <2>1 DEF MonthInv
  <2>3. \A m \in Charges \ {n} : payment'[m] = payment[m] /\ (m \in regressed' <=> m \in regressed)
    BY <1>3 DEF HandlePaymentOverdue, Set
  <2>4. /\ payment'[n].status = "overdue" /\ granted' = granted
        /\ regressed' = IF payment[n].status = "paid" THEN regressed \cup {n} ELSE regressed
    BY <1>3 DEF HandlePaymentOverdue, Set
  <2> QED  BY <1>3, <2>1, <2>2, <2>3, <2>4 DEF MonthInv
<1>4. CASE n \in Charges /\ TopUp(n)
  <2>1. CASE payment[n].status = "paid"
    BY <1>1, <1>4, <2>1, MonthKept DEF TopUp, Keep
  <2>2. CASE payment[n].status # "paid"
    <3>1. /\ payment'[n] = [kind |-> "credit_topup", status |-> "paid"] /\ UNCHANGED <<granted, regressed>>
          /\ \A m \in Charges \ {n} : payment'[m] = payment[m]
      BY <1>4, <2>2 DEF TopUp, Set
    <3>2. granted[n] <= IF n \in regressed THEN 1 ELSE 0
      BY <1>4, <2>2 DEF MonthInv
    <3> QED  BY <1>1, <1>4, <3>1, <3>2, MonthPaid
  <2> QED  BY <2>1, <2>2
<1>5. CASE n \in Charges /\ AddMonth(h, n)
  <2>1. CASE payment[n].status = "paid"
    BY <1>1, <1>5, <2>1, MonthKept DEF AddMonth, Keep
  <2>2. CASE payment[n].status # "paid"
    <3>1. /\ payment'[n].kind # "none" /\ payment'[n].status = "paid"
          /\ granted'[n] = granted[n] + 1 /\ regressed' = regressed
          /\ \A m \in Charges \ {n} : payment'[m] = payment[m] /\ granted'[m] = granted[m]
      BY <1>5, <2>2 DEF AddMonth, Set
    <3>2. granted[n] <= IF n \in regressed THEN 1 ELSE 0
      BY <1>5, <2>2 DEF MonthInv
    <3> QED  BY <1>1, <1>5, <3>1, <3>2, MonthPaid
  <2> QED  BY <2>1, <2>2
<1> QED  BY <1>2, <1>3, <1>4, <1>5, TransactionCases

LEMMA MonthStep == TypeInv /\ MonthInv /\ [Next]_vars => MonthInv'
<1> SUFFICES ASSUME TypeInv, MonthInv, [Next]_vars PROVE MonthInv'
  OBVIOUS
<1>1. CASE \E c \in Clients : \/ Request(c) \/ Lock(c) \/ CreateCustomer(c)
                              \/ CreateSubscription(c) \/ CreateCharge(c) \/ Fail(c)
  BY <1>1, MonthKept DEF Request, Lock, CreateCustomer, CreateSubscription, CreateCharge, Fail,
     tables, history
<1>2. ASSUME NEW c \in Clients, Commit(c)
      PROVE  MonthInv'
  <2>1. UNCHANGED <<granted, regressed, processed>>
    BY <1>2 DEF Commit, history
  <2>2. CASE client[c].charge = 0
    BY <1>2, <2>1, <2>2, MonthKept DEF Commit
  <2>3. CASE client[c].charge # 0
    <3>1. client[c].charge \in Charges /\ payment[client[c].charge].kind = "none"
      BY <1>2, <2>3 DEF Commit, TypeInv, ClientType
    <3> QED  BY <1>2, <2>1, <2>3, <3>1, MonthPending DEF Commit
  <2> QED  BY <2>2, <2>3
<1>3. ASSUME NEW c \in Clients, CreateRow(c)
      PROVE  MonthInv'
  <2>1. UNCHANGED <<granted, regressed, processed>>
    BY <1>3 DEF CreateRow, history
  <2>2. CASE client[c].charge \in Charges
    BY <1>3, <2>1, <2>2, MonthPending DEF CreateRow
  <2>3. CASE client[c].charge \notin Charges
    BY <1>3, <2>1, <2>3, MonthKept DEF CreateRow, TypeInv, Rows
  <2> QED  BY <2>2, <2>3
<1>4. CASE \E n \in Charges : Pay(n) \/ PassDue(n) \/ Refund(n)
  BY <1>4, MonthKept DEF Pay, PassDue, Refund, Outside, tables
<1>5. CASE Renew \/ Delete
  BY <1>5, MonthKept DEF Renew, Delete, Outside, tables
<1>6. CASE \E h \in Hooks : Receive(h) \/ Abort(h)
  BY <1>6, MonthKept DEF Receive, Abort, Known, tables, history
<1>7. CASE UNCHANGED vars
  BY <1>7, MonthKept DEF vars, tables, history
<1> QED  BY <1>1, <1>2, <1>3, <1>4, <1>5, <1>6, <1>7, MonthTransaction DEF Next

(***************************************************************************)
(* A charge adds one month, however often and in whatever order its        *)
(* events arrive, and a second only after a late OVERDUE.                  *)
(***************************************************************************)
THEOREM ChargesExtendOnce == Spec => []OneMonthPerCharge
<1>1. Init => MonthInv
  BY DEF Init, MonthInv
<1>2. MonthInv => OneMonthPerCharge
  BY DEF MonthInv, OneMonthPerCharge
<1> QED  BY <1>1, <1>2, TypeInit, TypeStep, MonthStep, PTL DEF Spec

-----------------------------------------------------------------------------
(* Refunds.                                                                *)

(***************************************************************************)
(* A charge that has moved anything has an event that was processed.  One  *)
(* that was refunded before that stays so at the provider, so no handler   *)
(* that looks at it from then on takes it for paid.                        *)
(***************************************************************************)
Moved(n)   == payment[n].status = "paid" \/ n \in topups \/ granted[n] > 0
Handled(n) == \E e \in processed : e.charge = n

RefundInv ==
  /\ \A n \in Charges : Moved(n) => Handled(n)
  /\ \A n \in early : /\ charge[n].state = "refunded" /\ ~Moved(n)
                      /\ \A h \in Hooks : hook[h].pc = "transaction" /\ hook[h].event.charge = n
                                            => ~hook[h].verifiedOk

(* Steps that move nothing, refund nothing and let no handler look.        *)
LEMMA RefundKept ==
  ASSUME TypeInv, RefundInv, UNCHANGED <<topups, granted, early>>, processed \subseteq processed',
         \A n \in Charges : payment'[n].status = "paid" => payment[n].status = "paid",
         \A n \in Charges : charge[n].state = "refunded" => charge'[n].state = "refunded",
         \A h \in Hooks : hook'[h].pc = "idle" \/ hook'[h] = hook[h]
  PROVE  RefundInv'
<1>1. early \subseteq Charges
  BY DEF TypeInv, History
<1>2. \A n \in Charges : Moved(n)' => Moved(n)
  BY DEF Moved
<1>3. \A n \in Charges : Handled(n) => Handled(n)'
  BY DEF Handled
<1> QED  BY <1>1, <1>2, <1>3 DEF RefundInv

LEMMA RefundOfCharge ==
  ASSUME TypeInv, RefundInv, NEW n \in Charges, Refund(n)
  PROVE  RefundInv'
<1> USE DEF TypeInv, Refund, Outside, tables, bounds
<1>1. UNCHANGED <<payment, topups, granted, processed, hook>>
  OBVIOUS
<1>2. \A m \in Charges : (Moved(m)' <=> Moved(m)) /\ (Handled(m)' <=> Handled(m))
  BY <1>1 DEF Moved, Handled
<1>3. \A m \in early : charge'[m].state = "refunded"
  BY DEF RefundInv, Provider, History
<1>4. CASE early' = early
  BY <1>1, <1>2, <1>3, <1>4 DEF RefundInv, History
<1>5. CASE early' # early
  <2>1. n \notin {e.charge : e \in processed \cup {hook[h].event : h \in Hooks}}
    BY <1>5
  <2>2. ~Handled(n) /\ \A h \in Hooks : hook[h].event.charge # n
    BY <2>1 DEF Handled
  <2>3. ~Moved(n)
    BY <2>2 DEF RefundInv
  <2>4. early' = early \cup {n} /\ charge'[n].state = "refunded"
    BY <1>5 DEF Provider
  <2> QED  BY <1>1, <1>2, <1>3, <2>2, <2>3, <2>4 DEF RefundInv, History
<1> QED  BY <1>4, <1>5

LEMMA RefundReceive ==
  ASSUME TypeInv, RefundInv, NEW h \in Hooks, Receive(h)
  PROVE  RefundInv'
<1> USE DEF TypeInv, Receive, Known, tables, asaas, history, bounds
<1>1. UNCHANGED <<payment, topups, granted, processed, charge, early>>
  OBVIOUS
<1>2. \A m \in Charges : (Moved(m)' <=> Moved(m)) /\ (Handled(m)' <=> Handled(m))
  BY <1>1 DEF Moved, Handled
<1>3. \A g \in Hooks \ {h} : hook'[g] = hook[g]
  BY DEF HookType
<1>4. PICK e \in events \ processed : hook' = [hook EXCEPT ![h] = LookUp(e)]
  OBVIOUS
<1>5. \A n \in early : hook'[h].event.charge = n => ~hook'[h].verifiedOk
  <2> SUFFICES ASSUME NEW n \in early, hook'[h].event.charge = n PROVE ~hook'[h].verifiedOk
    OBVIOUS
  <2>1. hook'[h] = LookUp(e) /\ LookUp(e).event = e
    BY <1>4 DEF HookType, LookUp
  <2>2. e.charge = n /\ n # 0
    BY <2>1, ChargeIds DEF History
  <2>3. hook'[h].verifiedOk => charge[n].state = "paid"
    <3>1. LookUp(e).verifiedOk => Verified(e.charge)
      BY ZenonT(20) DEF LookUp
    <3> QED  BY <2>1, <2>2, <3>1 DEF Verified
  <2>4. charge[n].state = "refunded"
    BY DEF RefundInv
  <2> QED  BY <2>3, <2>4
<1> QED  BY <1>1, <1>2, <1>3, <1>5 DEF RefundInv, History

LEMMA RefundTransaction ==
  ASSUME TypeInv, RefundInv, NEW h \in Hooks, Transaction(h)
  PROVE  RefundInv'
<1> DEFINE n == hook[h].event.charge
<1> USE DEF TypeInv, Rows, History
<1>0. hook[h].pc = "transaction"
  BY DEF Transaction
<1>1. /\ processed \subseteq processed' /\ UNCHANGED <<charge, early>>
      /\ \A g \in Hooks : hook'[g].pc = "idle" \/ hook'[g] = hook[g]
  BY DEF Transaction, HookType, NoHook, asaas
<1>2. CASE Keep \/ HandleSubscriptionCanceled
  BY <1>1, <1>2, RefundKept DEF Keep, HandleSubscriptionCanceled
<1>3. CASE n \in Charges /\ HandlePaymentOverdue(h, n)
  <2>1. \A m \in Charges : payment'[m].status = "paid" => payment[m].status = "paid"
    BY <1>3 DEF HandlePaymentOverdue, Set
  <2> QED  BY <1>1, <1>3, <2>1, RefundKept DEF HandlePaymentOverdue
<1>4. CASE /\ n \in Charges /\ processed' = processed \cup {hook[h].event}
           /\ hook[h].verifiedOk
           /\ TopUp(n) \/ AddMonth(h, n)
  <2>1. n \notin early
    BY <1>0, <1>4 DEF RefundInv
  <2>2. \E e \in processed' : e.charge = n
    BY <1>4
  <2>3. \A m \in Charges : m # n => (Moved(m)' <=> Moved(m))
    BY <1>4 DEF Moved, TopUp, AddMonth, Keep, Set
  <2>4. \A m \in Charges : Moved(m)' => Handled(m)'
    <3> SUFFICES ASSUME NEW m \in Charges, Moved(m)' PROVE \E e \in processed' : e.charge = m
      BY DEF Handled
    <3> QED  BY <1>1, <2>2, <2>3 DEF RefundInv, Handled
  <2>5. \A m \in early : m \in Charges /\ ~Moved(m)'
    <3> SUFFICES ASSUME NEW m \in early PROVE m \in Charges /\ ~Moved(m)'
      OBVIOUS
    <3> QED  BY <2>1, <2>3 DEF RefundInv
  <2> QED  BY <1>1, <2>4, <2>5 DEF RefundInv
<1> QED  BY <1>2, <1>3, <1>4, TransactionCases

LEMMA RefundStep == TypeInv /\ RefundInv /\ [Next]_vars => RefundInv'
<1> SUFFICES ASSUME TypeInv, RefundInv, [Next]_vars PROVE RefundInv'
  OBVIOUS
<1> USE DEF TypeInv, tables, asaas, history, bounds
<1>1. ASSUME NEW c \in Clients,
             \/ Request(c) \/ Lock(c) \/ CreateCustomer(c) \/ Fail(c)
      PROVE  RefundInv'
  BY <1>1, RefundKept DEF Request, Lock, CreateCustomer, Fail
<1>2. ASSUME NEW c \in Clients, NEW s, New(s), CreateSubscription(c) \/ CreateCharge(c)
      PROVE  RefundInv'
  <2>1. \A n \in Charges : charge[n].state = "refunded" => charge'[n].state = "refunded"
    BY <1>2, NewCharge DEF Provider, Unused
  <2> QED  BY <1>2, <2>1, RefundKept DEF CreateSubscription, CreateCharge
<1>3. ASSUME NEW c \in Clients, Commit(c) \/ CreateRow(c)
      PROVE  RefundInv'
  <2>1. \A n \in Charges : payment'[n].status = "paid" => payment[n].status = "paid"
    BY <1>3 DEF Commit, CreateRow, Rows
  <2> QED  BY <1>3, <2>1, RefundKept DEF Commit, CreateRow
<1>4. ASSUME NEW n \in Charges, Pay(n) \/ PassDue(n)
      PROVE  RefundInv'
  <2>1. \A m \in Charges : charge[m].state = "refunded" => charge'[m].state = "refunded"
    BY <1>4 DEF Pay, PassDue, Provider
  <2> QED  BY <1>4, <2>1, RefundKept DEF Pay, PassDue, Outside
<1>5. CASE Renew
  <2>1. \A m \in Charges : charge[m].state = "refunded" => charge'[m].state = "refunded"
    BY <1>5, NewCharge DEF Renew, Provider, Unused
  <2> QED  BY <1>5, <2>1, RefundKept DEF Renew, Outside
<1>6. CASE Delete
  BY <1>6, RefundKept DEF Delete, Outside
<1>7. ASSUME NEW h \in Hooks, Abort(h)
      PROVE  RefundInv'
  <2>1. \A g \in Hooks : hook'[g].pc = "idle" \/ hook'[g] = hook[g]
    BY <1>7 DEF Abort, HookType, NoHook
  <2> QED  BY <1>7, <2>1, RefundKept DEF Abort, Known
<1>8. CASE UNCHANGED vars
  BY <1>8, RefundKept DEF vars
<1>9. ASSUME NEW c \in Clients, CreateSubscription(c) \/ CreateCharge(c)
      PROVE  RefundInv'
  BY <1>2, <1>9 DEF CreateSubscription, CreateCharge
<1> QED  BY <1>1, <1>3, <1>4, <1>5, <1>6, <1>7, <1>8, <1>9,
            RefundOfCharge, RefundReceive, RefundTransaction DEF Next

(***************************************************************************)
(* A confirmation that arrives after its payment was refunded moves        *)
(* nothing: no credit, no month, no row that says 'paid'.                  *)
(***************************************************************************)
THEOREM RefundsMoveNothing == Spec => []RefundedMovesNothing
<1>1. Init => RefundInv
  BY DEF Init, RefundInv, Moved
<1>2. TypeInv /\ RefundInv => RefundedMovesNothing
  BY DEF TypeInv, Rows, History, RefundInv, Moved, RefundedMovesNothing
<1> QED  BY <1>1, <1>2, TypeInit, TypeStep, RefundStep, PTL DEF Spec

-----------------------------------------------------------------------------
(* Customers and subscriptions at the provider.                            *)

(***************************************************************************)
(* What was created is in the row, or in the hands of the request that     *)
(* holds the lock and will write it there, or was lost by a failure.  A    *)
(* request creates only what the row, which nobody else can change         *)
(* meanwhile, does not name.                                               *)
(***************************************************************************)
HasCustomer ==
  sub.customer # 0 \/ \E c \in Clients : client[c].pc \in {"subscribe", "commit"}
HasSub ==
  sub.psub # 0 \/ \E c \in Clients : client[c].pc = "commit" /\ client[c].psub # 0

InHand(c) ==
  /\ client[c].pc = "customer"  => sub.customer = 0 /\ client[c].psub = sub.psub
  /\ client[c].pc = "subscribe" => sub.psub = 0 /\ client[c].customer # 0
  /\ client[c].pc = "commit"    => /\ client[c].customer # 0
                                   /\ sub.psub # 0 => client[c].psub # 0

ProviderInv ==
  /\ \A c \in Clients : InHand(c)
  /\ customers <= failures + 1 /\ (~HasCustomer => customers <= failures)
  /\ psubs <= failures + 1 /\ (~HasSub => psubs <= failures)

LEMMA OneInside ==
  ASSUME TypeInv, NEW c \in Clients, client[c].pc \in Inside
  PROVE  \A d \in Clients \ {c} : client[d].pc \notin Inside
BY DEF TypeInv, LockInv

(* Steps outside the part that the lock protects.                          *)
LEMMA ProviderKept ==
  ASSUME TypeInv, ProviderInv, UNCHANGED <<customers, psubs, failures>>,
         sub'.customer = sub.customer, sub'.psub = sub.psub,
         \A c \in Clients : \/ client'[c] = client[c]
                            \/ client[c].pc \notin Inside /\ client'[c].pc \notin Inside
  PROVE  ProviderInv'
<1>1. \A c \in Clients : InHand(c)'
  BY DEF ProviderInv, InHand, Inside
<1>2. HasCustomer' <=> HasCustomer
  BY DEF HasCustomer, Inside
<1>3. HasSub' <=> HasSub
  BY DEF HasSub, Inside
<1> QED  BY <1>1, <1>2, <1>3 DEF ProviderInv

LEMMA ProviderLock ==
  ASSUME TypeInv, ProviderInv, NEW c \in Clients, Lock(c)
  PROVE  ProviderInv'
<1> USE DEF TypeInv, ClientType, Lock, LockFree, bounds, asaas
<1>1. \A d \in Clients : client[d].pc \notin Inside
  BY BillingAssumption DEF BillingAssumption, LockInv
<1>2. \A d \in Clients \ {c} : client'[d] = client[d]
  OBVIOUS
<1>3. /\ client'[c].customer = sub.customer /\ client'[c].psub = sub.psub
      /\ client'[c].pc = IF sub.customer = 0 THEN "customer"
                         ELSE IF client[c].op = "activate" /\ sub.psub = 0 THEN "subscribe"
                         ELSE "commit"
  OBVIOUS
<1>4. \A d \in Clients : InHand(d)'
  BY <1>1, <1>2, <1>3 DEF InHand, Inside
<1>5. (HasCustomer' <=> HasCustomer) /\ (HasSub' <=> HasSub)
  BY <1>1, <1>2, <1>3 DEF HasCustomer, HasSub, Inside
<1> QED  BY <1>4, <1>5 DEF ProviderInv

LEMMA ProviderCreateCustomer ==
  ASSUME TypeInv, ProviderInv, NEW c \in Clients, CreateCustomer(c)
  PROVE  ProviderInv'
<1> USE DEF TypeInv, ClientType, Provider, CreateCustomer, bounds
<1>1. \A d \in Clients \ {c} : client[d].pc \notin Inside /\ client'[d] = client[d]
  BY OneInside DEF Inside
<1>2. /\ client'[c].customer # 0 /\ client'[c].psub = client[c].psub
      /\ client'[c].pc = IF client[c].op = "activate" /\ client[c].psub = 0 THEN "subscribe"
                         ELSE "commit"
  OBVIOUS
<1>3. sub.customer = 0 /\ client[c].psub = sub.psub
  BY DEF ProviderInv, InHand
<1>4. \A d \in Clients : InHand(d)'
  BY <1>1, <1>2, <1>3 DEF InHand, Inside
<1>5. ~HasCustomer /\ HasCustomer' /\ (HasSub' <=> HasSub)
  BY <1>1, <1>2, <1>3 DEF HasCustomer, HasSub, Inside
<1> QED  BY <1>4, <1>5 DEF ProviderInv

LEMMA ProviderCreateSubscription ==
  ASSUME TypeInv, ProviderInv, NEW c \in Clients, CreateSubscription(c)
  PROVE  ProviderInv'
<1> USE DEF TypeInv, ClientType, Provider, CreateSubscription, bounds
<1>1. \A d \in Clients \ {c} : client[d].pc \notin Inside /\ client'[d] = client[d]
  BY OneInside DEF Inside
<1>2. /\ client'[c].customer = client[c].customer /\ client'[c].psub # 0
      /\ client'[c].pc = "commit"
  OBVIOUS
<1>3. sub.psub = 0 /\ client[c].customer # 0
  BY DEF ProviderInv, InHand
<1>4. \A d \in Clients : InHand(d)'
  BY <1>1, <1>2, <1>3 DEF InHand, Inside
<1>5. HasCustomer' /\ HasCustomer /\ ~HasSub /\ HasSub'
  BY <1>1, <1>2, <1>3 DEF HasCustomer, HasSub, Inside
<1> QED  BY <1>4, <1>5 DEF ProviderInv

LEMMA ProviderCommit ==
  ASSUME TypeInv, ProviderInv, NEW c \in Clients, Commit(c)
  PROVE  ProviderInv'
<1> USE DEF TypeInv, ClientType, Commit, asaas, bounds
<1>1. \A d \in Clients \ {c} : client[d].pc \notin Inside /\ client'[d] = client[d]
  BY OneInside DEF Inside
<1>2. client'[c].pc \notin Inside
  BY DEF NoClient, Inside
<1>3. sub'.customer = client[c].customer /\ sub'.psub = client[c].psub
  BY DEF Rows, Provisioned
<1>4. client[c].customer # 0 /\ (sub.psub # 0 => client[c].psub # 0)
  BY DEF ProviderInv, InHand
<1>5. \A d \in Clients : InHand(d)'
  BY <1>1, <1>2 DEF InHand, Inside
<1>6. HasCustomer /\ HasCustomer' /\ (HasSub' <=> HasSub)
  BY <1>1, <1>2, <1>3, <1>4 DEF HasCustomer, HasSub, Inside
<1> QED  BY <1>5, <1>6 DEF ProviderInv

LEMMA ProviderFail ==
  ASSUME TypeInv, ProviderInv, NEW c \in Clients, Fail(c)
  PROVE  ProviderInv'
<1> USE DEF TypeInv, ClientType, Provider, Fail, asaas
<1>1. \A d \in Clients \ {c} : client'[d] = client[d]
  OBVIOUS
<1>2. client'[c].pc = "idle"
  BY DEF NoClient
<1>3. \A d \in Clients : InHand(d)'
  BY <1>1, <1>2 DEF ProviderInv, InHand
<1> QED  BY <1>3 DEF ProviderInv

LEMMA ProviderStep == TypeInv /\ ProviderInv /\ [Next]_vars => ProviderInv'
<1> SUFFICES ASSUME TypeInv, ProviderInv, [Next]_vars PROVE ProviderInv'
  OBVIOUS
<1> USE DEF TypeInv
<1>1. ASSUME NEW c \in Clients, Request(c)
      PROVE  ProviderInv'
  <2>1. sub'.customer = sub.customer /\ sub'.psub = sub.psub
    BY <1>1 DEF Request, Rows, Provisioned
  <2>2. PICK op \in {"activate", "buy"} :
          client' = [client EXCEPT ![c] = [NoClient EXCEPT !.pc = "lock", !.op = op]]
    BY <1>1 DEF Request
  <2>3. client'[c].pc = "lock" /\ client[c].pc = "idle"
    BY <1>1, <2>2 DEF Request, ClientType, NoClient
  <2>4. \A d \in Clients \ {c} : client'[d] = client[d]
    BY <2>2 DEF ClientType
  <2> QED  BY <1>1, <2>1, <2>3, <2>4, ProviderKept DEF Request, asaas, Inside
<1>2. ASSUME NEW c \in Clients, CreateCharge(c) \/ CreateRow(c)
      PROVE  ProviderInv'
  <2>1. \A d \in Clients \ {c} : client'[d] = client[d]
    BY <1>2 DEF CreateCharge, CreateRow, ClientType
  <2>2. client[c].pc \notin Inside /\ client'[c].pc \notin Inside
    BY <1>2 DEF CreateCharge, CreateRow, ClientType, NoClient, Inside
  <2> QED  BY <1>2, <2>1, <2>2, ProviderKept DEF CreateCharge, CreateRow, asaas, bounds
<1>3. CASE \E n \in Charges : Pay(n) \/ PassDue(n) \/ Refund(n)
  BY <1>3, ProviderKept DEF Pay, PassDue, Refund, Outside, bounds
<1>4. CASE Renew \/ Delete
  BY <1>4, ProviderKept DEF Renew, Delete, Outside, bounds
<1>5. ASSUME NEW h \in Hooks, Receive(h) \/ Abort(h)
      PROVE  ProviderInv'
  BY <1>5, ProviderKept DEF Receive, Abort, Known, asaas, bounds
<1>6. ASSUME NEW h \in Hooks, Transaction(h)
      PROVE  ProviderInv'
  <2>1. sub'.customer = sub.customer /\ sub'.psub = sub.psub
    BY <1>6, TransactionCases DEF Keep, HandleSubscriptionCanceled, HandlePaymentOverdue,
       TopUp, AddMonth, Rows
  <2> QED  BY <1>6, <2>1, ProviderKept DEF Transaction, asaas, bounds
<1>7. CASE UNCHANGED vars
  BY <1>7, ProviderKept DEF vars, asaas, bounds
<1> QED  BY <1>1, <1>2, <1>3, <1>4, <1>5, <1>6, <1>7, ProviderLock, ProviderCreateCustomer,
            ProviderCreateSubscription, ProviderCommit, ProviderFail DEF Next

(***************************************************************************)
(* However many requests run, whatever buttons they came from, the         *)
(* provider has one customer and one subscription of the organization, and *)
(* at most one more of each for every request that was rolled back.        *)
(***************************************************************************)
THEOREM NothingTwiceAtProvider == Spec => []NoDuplicateAtProvider
<1>1. Init => ProviderInv
  <2> SUFFICES ASSUME Init PROVE ProviderInv
    OBVIOUS
  <2>1. \A c \in Clients : InHand(c)
    BY DEF Init, InHand, NoClient
  <2>2. customers = 0 /\ psubs = 0 /\ failures = 0
    BY DEF Init
  <2> QED  BY <2>1, <2>2 DEF ProviderInv
<1>2. TypeInv /\ ProviderInv => NoDuplicateAtProvider
  BY DEF TypeInv, Provider, ProviderInv, NoDuplicateAtProvider
<1> QED  BY <1>1, <1>2, TypeInit, TypeStep, ProviderStep, PTL DEF Spec
=============================================================================
