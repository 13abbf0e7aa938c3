------------------------------ MODULE Billing ------------------------------
(***************************************************************************)
(* Payments of one organization (billing.service.ts, asaas.provider.ts).   *)
(*                                                                         *)
(* Requests of the customer, who activates the subscription or buys        *)
(* credits, hold the row lock of the subscription while they call the      *)
(* provider, and a rollback does not undo what the provider did.  A        *)
(* webhook's handler reads the subscription and the payment, asks the      *)
(* provider, and only then runs its transaction, which is one step: it     *)
(* locks every row it reads, and what PostgreSQL aborts is Abort.          *)
(*                                                                         *)
(* The provider creates charges, is paid, and delivers each of its events  *)
(* any number of times and in any order.  Charges are paid before the      *)
(* period ends: now() is never past currentPeriodEnd, which is counted in  *)
(* months since the start.                                                 *)
(***************************************************************************)
EXTENDS Integers, FiniteSets

CONSTANTS
  Clients,      (* requests of the customer at the same time                *)
  Hooks,        (* webhooks handled at the same time                        *)
  Charges,      (* bound: ids of charges                                    *)
  Nobody,       (* a lock without holder                                    *)
  Late,         (* bound: charges that may fall due before they are paid    *)
  Refundable,   (* bound: charges that may be refunded                      *)
  MaxRequests,  (* bound: requests of the customer                          *)
  MaxFailures   (* bound: requests that fail after the lock                 *)

ASSUME BillingAssumption ==
  /\ Charges \subseteq Nat \ {0}
  /\ Nobody \notin Clients
  /\ Late \cup Refundable \subseteq Charges
  /\ MaxRequests \in Nat /\ MaxFailures \in Nat

VARIABLES
  \* subscriptions, payments, wallets, wallet_transactions, subscription_events
  sub,         (* the row of the organization, and organizations.cpf_cnpj   *)
  payment,     (* the row of each charge, kind "none" if there is none      *)
  balance,     (* balance_cents, in purchases                               *)
  topups,      (* payment_id of the ledger's rows with reason 'topup'       *)
  processed,   (* provider_event_id of subscription_events                  *)
  subLock,     (* who holds the row lock of the subscription                *)
  \* the provider
  customers,   (* how many customers the organization has there             *)
  psubs,       (* how many subscriptions                                    *)
  charge,      (* sub: its subscription, 0 for a single charge; state       *)
  events,      (* what it has to deliver                                    *)
  \* processes
  client,      (* pc, op and the ids its transaction works with             *)
  hook,        (* pc, event, and what the handler knows                     *)
  \* history
  failures,    (* requests that failed after the lock                       *)
  requests,    (* requests so far                                           *)
  granted,     (* months that each charge added to the period               *)
  regressed,   (* charges that an OVERDUE took back from 'paid'             *)
  early        (* charges refunded before anything was recorded of them     *)

tables   == <<payment, balance, topups, processed>>
asaas    == <<customers, psubs, charge, events>>
history  == <<granted, regressed, early>>
bounds   == <<failures, requests>>
vars     == <<sub, tables, subLock, asaas, client, hook, history, bounds>>

NoClient == [pc |-> "idle", op |-> "none", customer |-> 0, psub |-> 0, charge |-> 0]
NoEvent  == [name |-> "none", charge |-> 0]
NoHook   == [pc |-> "idle", event |-> NoEvent, period |-> 0, kind |-> "none",
             verifiedOk |-> FALSE, linked |-> FALSE]
-----------------------------------------------------------------------------
(* activateSubscription and buyCredits.                                    *)

\* Mutant of LockFree: a plain SELECT, without FOR UPDATE.
MutLockFreePlain(c) == client[c].pc = "lock"

\* FOR UPDATE on the row of the subscription.
LockFree(c) == client[c].pc = "lock" /\ subLock = Nobody

Released(c) == IF subLock = c THEN Nobody ELSE subLock

\* resolveTaxId, in production: without a document of its own, or one kept from
\* an earlier request, a request is refused.
Documented(given) == given \/ sub.taxId

\* The row exists since the sign-up.  Otherwise activateSubscription creates it
\* before the lock, and buyCredits in its transaction, where the unique index
\* of the organization takes the place of the lock.
Provisioned == IF sub.status = "none" THEN [sub EXCEPT !.status = "inactive"] ELSE sub

Request(c) ==
  /\ client[c].pc = "idle" /\ requests < MaxRequests
  /\ \E op \in {"activate", "buy"}, given \in BOOLEAN :
       /\ Documented(given)
       /\ client' = [client EXCEPT ![c] = [NoClient EXCEPT !.pc = "lock", !.op = op]]
       /\ sub' = [IF op = "activate" THEN Provisioned ELSE sub EXCEPT !.taxId = TRUE]
  /\ requests' = requests + 1
  /\ UNCHANGED <<tables, subLock, asaas, hook, history, failures>>

Lock(c) ==
  /\ LockFree(c)
  /\ subLock' = c
  /\ client' = [client EXCEPT ![c].customer = sub.customer, ![c].psub = sub.psub,
       ![c].pc = IF sub.customer = 0 THEN "customer"
                 ELSE IF client[c].op = "activate" /\ sub.psub = 0 THEN "subscribe"
                 ELSE "commit"]
  /\ UNCHANGED <<sub, tables, asaas, hook, history, bounds>>

CreateCustomer(c) ==
  /\ client[c].pc = "customer"
  /\ customers' = customers + 1
  /\ client' = [client EXCEPT ![c].customer = customers',
       ![c].pc = IF client[c].op = "activate" /\ client[c].psub = 0 THEN "subscribe"
                 ELSE "commit"]
  /\ UNCHANGED <<sub, tables, subLock, psubs, charge, events, hook, history,
                 bounds>>

Unused == {n \in Charges : charge[n].state = "none"}
New(s) == \E n \in Unused :
            /\ \A k \in Unused : n <= k
            /\ charge' = [charge EXCEPT ![n] = [sub |-> s, state |-> "pending"]]

\* fetchFirstPayment: the charge that the provider creates along with the
\* subscription, which may not be seen yet.
FirstPayment == {0} \cup {n \in Charges : charge'[n] # charge[n]}

CreateSubscription(c) ==
  /\ client[c].pc = "subscribe"
  /\ psubs' = psubs + 1
  /\ New(psubs')
  /\ \E n \in FirstPayment :
       client' = [client EXCEPT ![c] =
         [@ EXCEPT !.pc = "commit", !.psub = psubs', !.charge = n]]
  /\ UNCHANGED <<sub, tables, subLock, customers, events, hook, history,
                 bounds>>

\* The row of the first charge is unique: if a webhook created it meanwhile,
\* the transaction can only roll back.
Commit(c) ==
  /\ client[c].pc = "commit"
  /\ client[c].charge # 0 => payment[client[c].charge].kind = "none"
  /\ payment' = IF client[c].charge = 0 THEN payment
                ELSE [payment EXCEPT ![client[c].charge] =
                        [kind |-> "subscription", status |-> "pending"]]
  /\ sub' = [Provisioned EXCEPT !.customer = client[c].customer, !.psub = client[c].psub]
  /\ subLock' = Released(c)
  /\ client' = [client EXCEPT ![c] = IF client[c].op = "activate" THEN NoClient
                                     ELSE [NoClient EXCEPT !.pc = "charge", !.op = "buy"]]
  /\ UNCHANGED <<balance, topups, processed, asaas, hook, history, bounds>>

CreateCharge(c) ==
  /\ client[c].pc = "charge"
  /\ New(0)
  /\ client' = [client EXCEPT ![c].pc = "row",
                  ![c].charge = CHOOSE n \in Charges : charge'[n] # charge[n]]
  /\ UNCHANGED <<sub, tables, subLock, customers, psubs, events, hook, history,
                 bounds>>

CreateRow(c) ==
  /\ client[c].pc = "row"
  /\ payment[client[c].charge].kind = "none"
  /\ payment' = [payment EXCEPT ![client[c].charge] =
                   [kind |-> "credit_topup", status |-> "pending"]]
  /\ client' = [client EXCEPT ![c] = NoClient]
  /\ UNCHANGED <<sub, balance, topups, processed, subLock, asaas, hook, history,
                 bounds>>

\* An error of the provider, a timeout of the transaction or a crash: what the
\* provider did remains.
Fail(c) ==
  /\ client[c].pc \notin {"idle", "lock"} /\ failures < MaxFailures
  /\ failures' = failures + 1
  /\ subLock' = Released(c)
  /\ client' = [client EXCEPT ![c] = NoClient]
  /\ UNCHANGED <<sub, tables, asaas, hook, history, requests>>
-----------------------------------------------------------------------------
(* The provider.                                                           *)

Outside == <<sub, tables, subLock, client, hook, granted, regressed, bounds>>

Emit(names, n) == events' = events \cup [name : names, charge : {n}]

\* Both events of a payment, which are delivered apart.
Pay(n) ==
  /\ charge[n].state \in {"pending", "overdue"}
  /\ charge' = [charge EXCEPT ![n].state = "paid"]
  /\ Emit({"PAYMENT_CONFIRMED", "PAYMENT_RECEIVED"}, n)
  /\ UNCHANGED <<customers, psubs, early, Outside>>

PassDue(n) ==
  /\ n \in Late /\ charge[n].state = "pending"
  /\ charge' = [charge EXCEPT ![n].state = "overdue"]
  /\ Emit({"PAYMENT_OVERDUE"}, n)
  /\ UNCHANGED <<customers, psubs, early, Outside>>

Refund(n) ==
  /\ n \in Refundable /\ charge[n].state = "paid"
  /\ charge' = [charge EXCEPT ![n].state = "refunded"]
  /\ early' = IF n \in {e.charge : e \in processed \cup {hook[h].event : h \in Hooks}}
              THEN early ELSE early \cup {n}
  /\ UNCHANGED <<customers, psubs, events, Outside>>

Deletion == [name |-> "SUBSCRIPTION_DELETED", charge |-> 0]

\* The next charge of a subscription.
Renew ==
  /\ Deletion \notin events
  /\ \E s \in 1 .. psubs : New(s)
  /\ UNCHANGED <<customers, psubs, events, early, Outside>>

Delete ==
  /\ psubs > 0
  /\ Emit({Deletion.name}, 0)
  /\ UNCHANGED <<customers, psubs, charge, early, Outside>>
-----------------------------------------------------------------------------
(* processProviderEvent.                                                   *)

Known == <<sub, tables, subLock, asaas, client, history, bounds>>

\* Mutant of Verified: the type of the event is believed.
MutVerifiedBelieve(n) == TRUE

\* getPayment: what the provider says now.
Verified(n) == charge[n].state = "paid"

\* What the transaction will use of what was read: the rest is not kept.
LookUp(e) ==
  LET overdue == e.name = "PAYMENT_OVERDUE"
      confirmed == e.charge # 0 /\ ~overdue /\ Verified(e.charge)
  IN [pc |-> "transaction", event |-> e,
      period |-> IF confirmed THEN sub.period ELSE 0,
      kind |-> IF confirmed \/ overdue THEN payment[e.charge].kind ELSE "none",
      verifiedOk |-> confirmed,
      linked |-> confirmed /\ charge[e.charge].sub # 0]

\* The reads before the transaction: the subscription, the payment, and for a
\* confirmation the provider's own view.  They are one step, because a row
\* only appears and a verified payment only ceases to be one: what separate
\* reads can see, one read at some moment sees, or the handler does nothing.
\* Every charge names the organization, so its events resolve to it.  One that
\* is recorded already, or does not resolve, changes nothing: a stutter.
Receive(h) ==
  /\ hook[h].pc = "idle"
  /\ \E e \in events \ processed : hook' = [hook EXCEPT ![h] = LookUp(e)]
  /\ UNCHANGED Known

Set(n, kind, status) == payment' = [payment EXCEPT ![n] = [kind |-> kind, status |-> status]]
Keep == UNCHANGED <<sub, payment, balance, topups, granted, regressed>>

\* Mutant of TopUp: without the unique index on the ledger's payment_id.
MutTopUpNoIndex(n) ==
  IF payment[n].status = "paid" THEN Keep
  ELSE /\ Set(n, "credit_topup", "paid")
       /\ topups'  = topups \cup {n}
       /\ balance' = balance + 1
       /\ UNCHANGED <<sub, granted, regressed>>

\* Credits once: by the status of the payment, and by the ledger.
TopUp(n) ==
  IF payment[n].status = "paid" THEN Keep
  ELSE /\ Set(n, "credit_topup", "paid")
       /\ topups'  = topups \cup {n}
       /\ balance' = IF n \in topups THEN balance ELSE balance + 1
       /\ UNCHANGED <<sub, granted, regressed>>

\* Mutant of AddMonth: DO UPDATE without WHERE status <> 'paid'.
MutAddMonthAlways(h, n) ==
  /\ Set(n, "subscription", "paid")
  /\ sub' = [sub EXCEPT !.status = "active", !.period = hook[h].period + 1]
  /\ granted' = [granted EXCEPT ![n] = @ + 1]
  /\ UNCHANGED <<balance, topups, regressed>>

\* The period grows from the copy read at the start.
AddMonth(h, n) ==
  IF payment[n].status = "paid" THEN Keep
  ELSE /\ Set(n, IF payment[n].kind = "none" THEN "subscription" ELSE payment[n].kind, "paid")
       /\ sub' = [sub EXCEPT !.status = "active", !.period = hook[h].period + 1]
       /\ granted' = [granted EXCEPT ![n] = @ + 1]
       /\ UNCHANGED <<balance, topups, regressed>>

HandlePaymentConfirmed(h, n) ==
  IF hook[h].kind = "credit_topup" THEN TopUp(n)
  ELSE IF hook[h].kind = "subscription" \/ hook[h].linked THEN AddMonth(h, n)
  ELSE Keep

\* The row is created if it did not exist when the handler looked; if it does
\* now, the transaction fails.
HandlePaymentOverdue(h, n) ==
  /\ hook[h].kind = "none" => payment[n].kind = "none"
  /\ Set(n, IF hook[h].kind = "none" THEN "subscription" ELSE payment[n].kind, "overdue")
  /\ sub' = IF hook[h].kind = "credit_topup" THEN sub
            ELSE [sub EXCEPT !.status = "past_due"]
  /\ regressed' = IF payment[n].status = "paid" THEN regressed \cup {n} ELSE regressed
  /\ UNCHANGED <<balance, topups, granted>>

HandleSubscriptionCanceled ==
  /\ sub' = [sub EXCEPT !.status = "canceled"]
  /\ UNCHANGED <<payment, balance, topups, granted, regressed>>

\* The transaction, once per event; the foreign key waits for the row lock.
Transaction(h) ==
  /\ hook[h].pc = "transaction" /\ subLock = Nobody
  /\ LET e == hook[h].event IN
     /\ processed' = processed \cup {e}
     /\ IF e \in processed THEN Keep
        ELSE CASE e.name = "PAYMENT_OVERDUE" -> HandlePaymentOverdue(h, e.charge)
               [] e.name = "SUBSCRIPTION_DELETED" -> HandleSubscriptionCanceled
               [] OTHER -> IF hook[h].verifiedOk THEN HandlePaymentConfirmed(h, e.charge)
                           ELSE Keep
  /\ hook' = [hook EXCEPT ![h] = NoHook]
  /\ UNCHANGED <<subLock, asaas, client, early, bounds>>

\* The provider cannot be asked, a deadlock, a crash: the event comes again.
Abort(h) ==
  /\ hook[h].pc # "idle"
  /\ hook' = [hook EXCEPT ![h] = NoHook]
  /\ UNCHANGED Known
-----------------------------------------------------------------------------
\* A new organization, with or without its row.
Init ==
  /\ sub \in {[status |-> s, customer |-> 0, psub |-> 0, period |-> 0, taxId |-> FALSE] :
               s \in {"none", "inactive"}}
  /\ payment = [n \in Charges |-> [kind |-> "none", status |-> "none"]]
  /\ balance = 0 /\ topups = {} /\ processed = {}
  /\ subLock = Nobody
  /\ customers = 0 /\ psubs = 0
  /\ charge = [n \in Charges |-> [sub |-> 0, state |-> "none"]]
  /\ events = {}
  /\ client = [c \in Clients |-> NoClient]
  /\ hook = [h \in Hooks |-> NoHook]
  /\ failures = 0 /\ requests = 0
  /\ granted = [n \in Charges |-> 0]
  /\ regressed = {} /\ early = {}

Next ==
  \/ \E c \in Clients : \/ Request(c) \/ Lock(c) \/ CreateCustomer(c)
                        \/ CreateSubscription(c) \/ Commit(c) \/ CreateCharge(c)
                        \/ CreateRow(c) \/ Fail(c)
  \/ \E n \in Charges : Pay(n) \/ PassDue(n) \/ Refund(n)
  \/ Renew \/ Delete
  \/ \E h \in Hooks : Receive(h) \/ Transaction(h) \/ Abort(h)

Spec == Init /\ [][Next]_vars
-----------------------------------------------------------------------------
(* Properties.                                                             *)

Statuses == {"none", "inactive", "active", "past_due", "canceled"}

\* Every variable keeps its type, and the lock is held inside transactions.
TypeOK ==
  /\ sub \in [status : Statuses, customer : Nat, psub : Nat, period : Nat, taxId : BOOLEAN]
  /\ payment \in [Charges -> [kind : {"none", "subscription", "credit_topup"},
                              status : {"none", "pending", "paid", "overdue"}]]
  /\ balance \in Nat /\ topups \subseteq Charges
  /\ processed \subseteq events
  /\ subLock \in {c \in Clients : client[c].pc \in {"customer", "subscribe", "commit"}}
                   \cup {Nobody}
  /\ charge \in [Charges -> [sub : 0 .. psubs,
       state : {"none", "pending", "overdue", "paid", "refunded"}]]
  /\ customers \in Nat /\ psubs \in Nat

OneCredit(n) == 1
Ledger == INSTANCE Wallet WITH Entries <- Charges, Amount <- OneCredit, ledger <- topups

\* However many events the provider sends of one purchase, in whatever order
\* and however their handlers interleave or fail, the wallet receives it once,
\* in the step that writes it to the ledger, and never gives it back.
CreditedOnce == Ledger!Spec

\* A charge adds one month to the period, whether one or two events confirm
\* it; a second one only when a late OVERDUE took its row back from 'paid'.
OneMonthPerCharge ==
  \A n \in Charges : granted[n] <= IF n \in regressed THEN 2 ELSE 1

\* A charge refunded before any handler dealt with it moves no money,
\* although its confirmation is still delivered.
RefundedMovesNothing ==
  \A n \in early : payment[n].status # "paid" /\ n \notin topups /\ granted[n] = 0

\* Double clicks, on either button, create one customer and one subscription
\* at the provider: a second comes only from a request that was rolled back.
NoDuplicateAtProvider ==
  /\ customers <= 1 + failures
  /\ psubs <= 1 + failures

\* The comment on handlePaymentConfirmed: a payment is one of the subscription
\* only on positive evidence, never by exclusion, so a purchase of credits
\* whose row was never written does not extend the subscription.
OnlySubscriptionChargesExtend == \A n \in Charges : granted[n] > 0 => charge[n].sub # 0
=============================================================================
