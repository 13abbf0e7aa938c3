------------------------------ MODULE Webhooks ------------------------------
(***************************************************************************)
(* The gateway's handling of Meta's callbacks (webhooks.service.ts), for   *)
(* one channel of one organization.                                        *)
(*                                                                         *)
(* Every HTTP request of Meta is a handler.  A handler reads the row of    *)
(* its message once and then writes, one statement after another, on the   *)
(* strength of that copy; between two of its statements another handler,   *)
(* the dispatcher, the customer (who reconnects the channel or buys        *)
(* credits) or time may act, and an error may end it.  Only the debit of   *)
(* the wallet is a transaction, with row locks.                            *)
(*                                                                         *)
(* The dispatcher is reduced to what it does to a row: claim, post, record *)
(* the wamid, retry or give up (see module Dispatcher).  Meta delivers     *)
(* every callback any number of times and in any order.                    *)
(***************************************************************************)
EXTENDS Integers, FiniteSets

CONSTANTS
  Msgs,            (* rows of outbound_messages of the channel              *)
  Handlers,        (* requests that the gateway handles at the same time    *)
  category,        (* pricing of each message: "marketing", "utility" or    *)
                   (* "free", which Meta does not bill                      *)
  Fates,           (* what Meta may do with an accepted message             *)
  MaxAttempts,     (* max_attempts of every message                         *)
  PauseRateLimit,  (* 15 minutes                                            *)
  PauseAccount,    (* 30 minutes                                            *)
  MaxHandling,     (* longest time a handler takes                          *)
  Price,           (* billing.usagePriceCents                               *)
  InitialBalance,  (* balance_cents of the wallet                           *)
  InitialQuota,    (* free_marketing_remaining of the subscription          *)
  Credit,          (* cents of one purchase of credits                      *)
  NoOne,           (* a lock without holder, a handler without message      *)
  Reports,         (* bound: which statuses Meta reports                    *)
  MaxSends,        (* bound: how often a message is accepted by Meta        *)
  MaxRetries,      (* bound: transient failures of a message                *)
  MaxCredits,      (* bound: purchases of credits                           *)
  MaxCount,        (* bound: where the counters saturate                    *)
  Others           (* bound: which other actors take part, of "clock" (time *)
                   (* passes), "customer" (reconnects) and "account"        *)
                   (* (alerts of Meta)                                      *)

ASSUME WebhooksAssumption ==
  /\ category \in [Msgs -> {"marketing", "utility", "free"}]
  /\ Fates \subseteq {"delivered", "ratelimit", "conta", "mensagem"}
  /\ MaxAttempts \in Nat \ {0}
  /\ PauseRateLimit \in Nat /\ PauseAccount \in Nat /\ MaxHandling \in Nat
  /\ 2 * MaxHandling < PauseRateLimit /\ PauseRateLimit <= PauseAccount
  /\ Price \in Nat /\ InitialBalance \in Nat /\ InitialQuota \in Nat /\ Credit \in Nat
  /\ NoOne \notin Handlers /\ NoOne \notin Msgs
  /\ Reports \subseteq {"sent", "delivered", "read", "failed"}
  /\ Others \subseteq {"clock", "customer", "account"}
  /\ MaxSends \in Nat /\ MaxRetries \in Nat /\ MaxCredits \in Nat /\ MaxCount \in Nat

VARIABLES
  \* outbound_messages
  status,      (* status                                                    *)
  attempts,    (* attempts                                                  *)
  wait,        (* next_attempt_at - now()                                   *)
  wamid,       (* wa_message_id: the number of the send it names, 0 if null *)
  delivered,   (* delivered_at IS NOT NULL                                  *)
  read,        (* read_at IS NOT NULL                                       *)
  billed,      (* billing_recorded_at IS NOT NULL                           *)
  \* whatsapp_channels
  pausedFor,   (* paused_until - now()                                      *)
  alert,       (* alert_type: "none", "dispatcher_pause" or "meta"          *)
  saving,      (* saveChannel is between its statements                     *)
  \* campaigns
  counted,     (* what each message added to the campaign's counters        *)
  \* wallets, subscriptions, wallet_transactions
  balance,     (* balance_cents                                             *)
  quota,       (* free_marketing_remaining                                  *)
  debits,      (* sends whose wamid has a row of kind 'debit'               *)
  ledger,      (* history: opening balance, plus credits, minus debits      *)
  covered,     (* history: debits that the included quota paid for          *)
  walletLock,  (* who holds the row lock of the wallet                      *)
  subLock,     (* who holds the row lock of the subscription                *)
  \* the dispatcher and Meta
  inHand,      (* what the dispatcher's worker has done with a row          *)
  sends,       (* how often Meta accepted the message                       *)
  fate,        (* what Meta does with each send                             *)
  retries,     (* history: attempts spent on transient failures             *)
  \* one handler
  hpc,         (* its next statement                                        *)
  event,       (* the status of the callback                                *)
  seen,        (* msg: the row as findFirst returned it                     *)
  until,       (* ate - now() of pausarCanalPorErro                         *)
  busy,        (* how long it has been running                              *)
  tx,          (* usouCota and currentBalance of its transaction            *)
  credits      (* bound: purchases so far                                   *)

rows       == <<status, attempts, wait, wamid, delivered, read, billed>>
channel    == <<pausedFor, alert, saving>>
money      == <<balance, quota, debits, ledger, covered, credits>>
locks      == <<walletLock, subLock>>
dispatcher == <<inHand, sends, fate, retries>>
handler    == <<event, seen, until, busy, tx>>
vars       == <<rows, channel, counted, money, locks, dispatcher, hpc, handler>>

NoEvent == [msg |-> NoOne, kind |-> "none", class |-> "none", priced |-> FALSE]
NoRow   == [wamid |-> 0, status |-> "none", attempts |-> 0, delivered |-> FALSE,
            read |-> FALSE, billed |-> FALSE]
NoTx    == [usouCota |-> FALSE, currentBalance |-> 0]

Smaller(a, b) == IF a < b THEN a ELSE b
Larger(a, b)  == IF a < b THEN b ELSE a
Minus1(n)     == IF n > 0 THEN n - 1 ELSE 0
-----------------------------------------------------------------------------
(* The dispatcher, as far as callbacks can tell.                           *)

Claim(m) ==
  /\ status[m] = "queued" /\ wait[m] = 0 /\ pausedFor = 0
  /\ inHand[m] = "no" /\ sends[m] < MaxSends
  /\ status'   = [status EXCEPT ![m] = "sending"]
  /\ attempts' = [attempts EXCEPT ![m] = @ + 1]
  /\ inHand'   = [inHand EXCEPT ![m] = "claimed"]
  /\ UNCHANGED <<wait, wamid, delivered, read, billed, channel, counted, money, locks,
                 sends, fate, retries, hpc, handler>>

\* Meta accepts the message and decides what will become of it.
Post(m) ==
  /\ inHand[m] = "claimed"
  /\ \E f \in Fates : fate' = [fate EXCEPT ![<<m, sends[m] + 1>>] = f]
  /\ sends'  = [sends EXCEPT ![m] = @ + 1]
  /\ inHand' = [inHand EXCEPT ![m] = "posted"]
  /\ UNCHANGED <<rows, channel, counted, money, locks, retries, hpc, handler>>

\* Its guard is the worker's lock on the row.
MarkSent(m) ==
  /\ inHand[m] = "posted"
  /\ IF status[m] = "sending"
     THEN /\ status' = [status EXCEPT ![m] = "sent"]
          /\ wamid'  = [wamid EXCEPT ![m] = sends[m]]
     ELSE UNCHANGED <<status, wamid>>
  /\ inHand' = [inHand EXCEPT ![m] = "no"]
  /\ UNCHANGED <<attempts, wait, delivered, read, billed, channel, counted, money, locks,
                 sends, fate, retries, hpc, handler>>

\* A transient failure: rescheduled, or failed once the attempts are used up.
Retry(m) ==
  /\ inHand[m] = "claimed" /\ retries[m] < MaxRetries
  /\ retries' = [retries EXCEPT ![m] = @ + 1]
  /\ status'  = [status EXCEPT ![m] =
                   IF @ # "sending" THEN @
                   ELSE IF attempts[m] >= MaxAttempts THEN "failed" ELSE "queued"]
  /\ wait'   = [wait EXCEPT ![m] = IF status'[m] = "queued" THEN Larger(@, 1) ELSE @]
  /\ inHand' = [inHand EXCEPT ![m] = "no"]
  /\ UNCHANGED <<attempts, wamid, delivered, read, billed, channel, counted, money,
                 locks, sends, fate, hpc, handler>>

Secs(class) == IF class = "ratelimit" THEN PauseRateLimit ELSE PauseAccount

\* A POST refused for the channel: the first pause pushes what is queued, no
\* pause shortens another, and the message goes back with its attempt.
Refuse(m) ==
  /\ inHand[m] = "claimed"
  /\ \E class \in Fates \cap {"ratelimit", "conta"} :
       /\ pausedFor' = Larger(pausedFor, Secs(class))
       /\ alert' = IF class = "conta" THEN "dispatcher_pause" ELSE alert
  /\ wait' = [n \in Msgs |-> IF n # m /\ status[n] = "queued" /\ pausedFor = 0
                             THEN Larger(wait[n], pausedFor') ELSE wait[n]]
  /\ IF status[m] = "sending"
     THEN /\ status'   = [status EXCEPT ![m] = "queued"]
          /\ attempts' = [attempts EXCEPT ![m] = Minus1(@)]
     ELSE UNCHANGED <<status, attempts>>
  /\ inHand' = [inHand EXCEPT ![m] = "no"]
  /\ UNCHANGED <<wamid, delivered, read, billed, saving, counted, money, locks, sends, fate,
                 retries, hpc, handler>>

\* The alert of a pause that is over goes away.
LimparPausasVencidas ==
  /\ alert = "dispatcher_pause" /\ pausedFor = 0
  /\ alert' = "none"
  /\ UNCHANGED <<rows, pausedFor, saving, counted, money, locks, dispatcher, hpc, handler>>
-----------------------------------------------------------------------------
(* The handler of a status: handleStatus.                                  *)

Goto(h, l) == hpc' = [hpc EXCEPT ![h] = l]

\* The request is over, or has failed.
Finish(h) ==
  /\ Goto(h, "idle")
  /\ event' = [event EXCEPT ![h] = NoEvent]
  /\ seen'  = [seen EXCEPT ![h] = NoRow]
  /\ until' = [until EXCEPT ![h] = 0]
  /\ busy'  = [busy EXCEPT ![h] = 0]
  /\ tx'    = [tx EXCEPT ![h] = NoTx]

ContinueAt(h, l) == IF l = "idle" THEN Finish(h) ELSE Goto(h, l) /\ UNCHANGED handler

\* What Meta reports of an accepted message.
Kinds(f) ==
  Reports \cap (CASE f = "none"      -> {}
                  [] f = "delivered" -> {"sent", "delivered", "read"}
                  [] OTHER           -> {"sent", "failed"})

\* findFirst({waMessageId, channelId})
Found(m, k) == wamid[m] = k

\* Mutant of bloqueiaCanal: the list of account errors is out of date.
MutBloqueiaOnlyRate(class) == class = "ratelimit"

bloqueiaCanal(class) == class \in {"ratelimit", "conta"}

Receive(h) ==
  /\ hpc[h] = "idle"
  /\ \E m \in Msgs, k \in 1..MaxSends : \E kind \in Kinds(fate[<<m, k>>]), priced \in BOOLEAN :
       /\ Found(m, k)
       /\ priced => fate[<<m, k>>] = "delivered"
       /\ event' = [event EXCEPT ![h] =
            [msg |-> m, kind |-> kind, class |-> fate[<<m, k>>], priced |-> priced]]
       /\ seen' = [seen EXCEPT ![h] =
            [wamid |-> wamid[m], status |-> status[m], attempts |-> attempts[m],
             delivered |-> delivered[m], read |-> read[m], billed |-> billed[m]]]
       /\ LET pauses == kind = "failed" /\ bloqueiaCanal(fate[<<m, k>>]) IN
          /\ Goto(h, IF pauses THEN "pause" ELSE "update")
          /\ until' = [until EXCEPT ![h] = IF pauses THEN Secs(fate[<<m, k>>]) ELSE 0]
  /\ UNCHANGED <<rows, channel, counted, money, locks, dispatcher, busy, tx>>

\* pausarCanalPorErro, first statement: the pause, which replaces any other.
PausarCanal(h) ==
  /\ hpc[h] = "pause"
  /\ pausedFor' = until[h]
  /\ alert' = IF event[h].class = "conta" THEN "dispatcher_pause" ELSE alert
  /\ Goto(h, "push")
  /\ UNCHANGED <<rows, saving, counted, money, locks, dispatcher, handler>>

\* Second statement: what is queued waits for the end of the pause.
PushQueued(h) ==
  /\ hpc[h] = "push"
  /\ wait' = [m \in Msgs |-> IF status[m] = "queued" THEN Larger(wait[m], until[h])
                                                     ELSE wait[m]]
  /\ Goto(h, IF seen[h].attempts >= MaxAttempts THEN "update" ELSE "requeue")
  /\ UNCHANGED <<status, attempts, wamid, delivered, read, billed, channel, counted, money,
                 locks, dispatcher, handler>>

\* Mutant of NextAttempt: the message may go at once.
MutNextAttemptNow(h) == 0

\* nextAttemptAt: ate
NextAttempt(h) == until[h]

\* Math.max(msg.attempts - 1, 0)
Undone(n) == Minus1(n)

\* Third statement: the message goes back to the queue, by its id alone.
Requeue(h) ==
  LET m == event[h].msg IN
  /\ hpc[h] = "requeue"
  /\ status'   = [status EXCEPT ![m] = "queued"]
  /\ wait'     = [wait EXCEPT ![m] = NextAttempt(h)]
  /\ attempts' = [attempts EXCEPT ![m] = Undone(seen[h].attempts)]
  /\ wamid'    = [wamid EXCEPT ![m] = 0]
  /\ Finish(h)
  /\ UNCHANGED <<delivered, read, billed, channel, counted, money, locks, dispatcher>>

\* The counter that this event raises, judged by the copy of the row.
Raises(h) ==
  LET s == seen[h] IN
  CASE event[h].kind = "delivered" -> ~s.delivered
    [] event[h].kind = "read"      -> ~s.read
    [] event[h].kind = "failed"    -> s.status # "failed"
    [] OTHER                       -> FALSE

\* Where recordPricing starts, if the event has a price not yet recorded.
Prices(h) ==
  IF ~event[h].priced \/ seen[h].billed THEN "idle"
  ELSE IF category[event[h].msg] = "free" THEN "free"
  ELSE IF category[event[h].msg] = "marketing" THEN "quota" ELSE "wallet"

\* Mutant of Recorded: the row says that it was billed before the debit.
MutRecordedEarly(h) ==
  IF event[h].priced THEN [billed EXCEPT ![event[h].msg] = TRUE] ELSE billed

\* handleStatus leaves billing_recorded_at to recordPricing.
Recorded(h) == billed

Update(h) ==
  LET m == event[h].msg
      k == event[h].kind IN
  /\ hpc[h] = "update"
  /\ status'    = [status EXCEPT ![m] = k]
  /\ delivered' = [delivered EXCEPT ![m] = @ \/ k = "delivered"]
  /\ read'      = [read EXCEPT ![m] = @ \/ k = "read"]
  /\ billed'    = Recorded(h)
  /\ ContinueAt(h, IF Raises(h) THEN "count" ELSE Prices(h))
  /\ UNCHANGED <<attempts, wait, wamid, channel, counted, money, locks, dispatcher>>

Count(h) ==
  LET m == event[h].msg IN
  /\ hpc[h] = "count"
  /\ counted' = [counted EXCEPT ![m][event[h].kind] = Smaller(@ + 1, MaxCount)]
  /\ ContinueAt(h, Prices(h))
  /\ UNCHANGED <<rows, channel, money, locks, dispatcher>>
-----------------------------------------------------------------------------
(* recordPricing.                                                          *)

\* Meta did not bill the message.
RecordFree(h) ==
  /\ hpc[h] = "free"
  /\ billed' = [billed EXCEPT ![event[h].msg] = TRUE]
  /\ Finish(h)
  /\ UNCHANGED <<status, attempts, wait, wamid, delivered, read, channel, counted, money,
                 locks, dispatcher>>

\* Mutants of Lockable: SELECT without FOR UPDATE.
MutLockableAlways(lock) == TRUE

\* SELECT ... FOR UPDATE waits for the holder of the row.
Lockable(lock) == lock = NoOne

\* The transaction begins: is there a unit of the included quota left?
LockSubscription(h) ==
  /\ hpc[h] = "quota" /\ Lockable(subLock)
  /\ subLock' = h
  /\ tx' = [tx EXCEPT ![h].usouCota = quota > 0]
  /\ Goto(h, "wallet")
  /\ UNCHANGED <<rows, channel, counted, money, walletLock, dispatcher, event, seen, until,
                 busy>>

LockWallet(h) ==
  /\ hpc[h] = "wallet" /\ Lockable(walletLock)
  /\ walletLock' = h
  /\ tx' = [tx EXCEPT ![h].currentBalance = balance]
  /\ Goto(h, "debit")
  /\ UNCHANGED <<rows, channel, counted, money, subLock, dispatcher, event, seen, until,
                 busy>>

ReleaseLocks(h) ==
  /\ walletLock' = IF walletLock = h THEN NoOne ELSE walletLock
  /\ subLock'    = IF subLock = h THEN NoOne ELSE subLock

\* Mutant of Inserted: the INSERT has no ON CONFLICT clause, nor an index.
MutInsertedAlways(send) == TRUE

\* ON CONFLICT (organization_id, wa_message_id) WHERE kind = 'debit' DO NOTHING
Inserted(send) == send \notin debits

\* Math.max(currentBalance - cobrarCents, 0)
Clamped(n) == Larger(n, 0)

\* The rest of the transaction, whose writes appear together when it commits.
Debit(h) ==
  LET m          == event[h].msg
      send       == <<m, seen[h].wamid>>
      cobrar     == IF tx[h].usouCota THEN 0 ELSE Price
      newBalance == Clamped(tx[h].currentBalance - cobrar)
      deducted   == tx[h].currentBalance - newBalance IN
  /\ hpc[h] = "debit"
  /\ quota' = IF tx[h].usouCota THEN quota - 1 ELSE quota
  /\ IF Inserted(send)
     THEN /\ debits'  = debits \cup {send}
          /\ ledger'  = ledger - deducted
          /\ balance' = newBalance
          /\ covered' = IF tx[h].usouCota THEN covered + 1 ELSE covered
     ELSE UNCHANGED <<debits, ledger, balance, covered>>
  /\ billed' = [billed EXCEPT ![m] = TRUE]
  /\ ReleaseLocks(h)
  /\ Finish(h)
  /\ UNCHANGED <<status, attempts, wait, wamid, delivered, read, channel, counted, credits,
                 dispatcher>>

\* A statement fails, or the process stops: an open transaction is undone.
Abort(h) ==
  /\ hpc[h] # "idle"
  /\ Finish(h)
  /\ ReleaseLocks(h)
  /\ UNCHANGED <<rows, channel, counted, money, dispatcher>>

HandlerStep(h) ==
  \/ Receive(h) \/ PausarCanal(h) \/ PushQueued(h) \/ Requeue(h)
  \/ Update(h) \/ Count(h)
  \/ RecordFree(h) \/ LockSubscription(h) \/ LockWallet(h) \/ Debit(h)
  \/ Abort(h)
-----------------------------------------------------------------------------
(* The other actors.                                                       *)

\* handleAccountAlert: an alert of Meta, or the news that one was resolved.
AccountAlert ==
  /\ "account" \in Others
  /\ alert' \in {"meta", "none"}
  /\ UNCHANGED <<rows, pausedFor, saving, counted, money, locks, dispatcher, hpc, handler>>

\* saveChannel: the customer reconnects, which ends the pause...
SaveChannel ==
  /\ "customer" \in Others /\ ~saving
  /\ saving' = TRUE
  /\ pausedFor' = 0
  /\ UNCHANGED <<rows, alert, counted, money, locks, dispatcher, hpc, handler>>

\* ...and then its alert, unless the request fails in between.
ClearPauseAlert ==
  /\ saving
  /\ saving' = FALSE
  /\ alert' \in {alert, IF alert = "dispatcher_pause" THEN "none" ELSE alert}
  /\ UNCHANGED <<rows, pausedFor, counted, money, locks, dispatcher, hpc, handler>>

\* handlePaymentConfirmed of a purchase: a relative increment under the lock.
TopUp ==
  /\ credits < MaxCredits /\ walletLock = NoOne
  /\ credits' = credits + 1
  /\ balance' = balance + Credit
  /\ ledger'  = ledger + Credit
  /\ UNCHANGED <<rows, channel, counted, quota, debits, covered, locks, dispatcher, hpc,
                 handler>>

Tick ==
  /\ "clock" \in Others
  /\ \A h \in Handlers : hpc[h] # "idle" => busy[h] < MaxHandling
  /\ wait' = [m \in Msgs |-> Minus1(wait[m])]
  /\ pausedFor' = Minus1(pausedFor)
  /\ until' = [h \in Handlers |-> Minus1(until[h])]
  /\ busy'  = [h \in Handlers |-> IF hpc[h] # "idle" THEN busy[h] + 1 ELSE 0]
  /\ UNCHANGED <<status, attempts, wamid, delivered, read, billed, alert, saving, counted,
                 money, locks, dispatcher, hpc, event, seen, tx>>

Init ==
  /\ status    = [m \in Msgs |-> "queued"]
  /\ attempts  = [m \in Msgs |-> 0]
  /\ wait      = [m \in Msgs |-> 0]
  /\ wamid     = [m \in Msgs |-> 0]
  /\ delivered = [m \in Msgs |-> FALSE]
  /\ read      = [m \in Msgs |-> FALSE]
  /\ billed    = [m \in Msgs |-> FALSE]
  /\ pausedFor = 0
  /\ alert     = "none"
  /\ saving    = FALSE
  /\ counted   = [m \in Msgs |-> [delivered |-> 0, read |-> 0, failed |-> 0]]
  /\ balance   = InitialBalance
  /\ quota     = InitialQuota
  /\ debits    = {}
  /\ ledger    = InitialBalance
  /\ covered   = 0
  /\ walletLock = NoOne
  /\ subLock   = NoOne
  /\ inHand    = [m \in Msgs |-> "no"]
  /\ sends     = [m \in Msgs |-> 0]
  /\ fate      = [s \in Msgs \X (1..MaxSends) |-> "none"]
  /\ retries   = [m \in Msgs |-> 0]
  /\ hpc       = [h \in Handlers |-> "idle"]
  /\ event     = [h \in Handlers |-> NoEvent]
  /\ seen      = [h \in Handlers |-> NoRow]
  /\ until     = [h \in Handlers |-> 0]
  /\ busy      = [h \in Handlers |-> 0]
  /\ tx        = [h \in Handlers |-> NoTx]
  /\ credits   = 0

Next ==
  \/ \E m \in Msgs : Claim(m) \/ Post(m) \/ MarkSent(m) \/ Retry(m) \/ Refuse(m)
  \/ \E h \in Handlers : HandlerStep(h)
  \/ LimparPausasVencidas \/ AccountAlert \/ SaveChannel \/ ClearPauseAlert
  \/ TopUp \/ Tick

Spec == Init /\ [][Next]_vars
-----------------------------------------------------------------------------
RowTypes ==
  /\ status \in [Msgs -> {"queued", "sending", "sent", "delivered", "read", "failed"}]
  /\ attempts \in [Msgs -> Nat]
  /\ wait \in [Msgs -> Nat]
  /\ wamid \in [Msgs -> 0..MaxSends]
  /\ delivered \in [Msgs -> BOOLEAN]
  /\ read \in [Msgs -> BOOLEAN]
  /\ billed \in [Msgs -> BOOLEAN]

SharedTypes ==
  /\ pausedFor \in Nat
  /\ alert \in {"none", "dispatcher_pause", "meta"}
  /\ saving \in BOOLEAN
  /\ counted \in [Msgs -> [delivered : 0..MaxCount, read : 0..MaxCount, failed : 0..MaxCount]]
  /\ balance \in Nat
  /\ quota \in Int
  /\ debits \subseteq Msgs \X (1..MaxSends)
  /\ ledger \in Int
  /\ covered \in Nat
  /\ walletLock \in Handlers \cup {NoOne}
  /\ subLock \in Handlers \cup {NoOne}
  /\ inHand \in [Msgs -> {"no", "claimed", "posted"}]
  /\ sends \in [Msgs -> 0..MaxSends]
  /\ fate \in [Msgs \X (1..MaxSends) -> Fates \cup {"none"}]
  /\ retries \in [Msgs -> 0..MaxRetries]
  /\ credits \in 0..MaxCredits

HandlerTypes ==
  /\ hpc \in [Handlers -> {"idle", "pause", "push", "requeue", "update", "count", "free",
                           "quota", "wallet", "debit"}]
  /\ event \in [Handlers -> [msg : Msgs \cup {NoOne},
                             kind : {"none", "sent", "delivered", "read", "failed"},
                             class : Fates \cup {"none"}, priced : BOOLEAN]]
  /\ seen \in [Handlers -> [wamid : 0..MaxSends,
                            status : {"none", "queued", "sending", "sent", "delivered",
                                      "read", "failed"},
                            attempts : Nat, delivered : BOOLEAN, read : BOOLEAN,
                            billed : BOOLEAN]]
  /\ until \in [Handlers -> Nat]
  /\ busy \in [Handlers -> 0..MaxHandling]
  /\ tx \in [Handlers -> [usouCota : BOOLEAN, currentBalance : Nat]]

TypeOK == RowTypes /\ SharedTypes /\ HandlerTypes

(***************************************************************************)
(* The wallet reconciles with its ledger: debits written as absolute        *)
(* balances never undo a purchase or another debit of that moment           *)
(* (recordPricing: "para que o livro-razão reconcilie").                    *)
(***************************************************************************)
LedgerReconciles == balance = ledger

(***************************************************************************)
(* The wallet never pays twice for one send, however often and however      *)
(* concurrently its callbacks arrive ("nem uma corrida entre reentregas     *)
(* concorrentes do webhook da Meta debite duas vezes a mesma mensagem").    *)
(***************************************************************************)
ChargedOncePerSend ==
  ledger >= InitialBalance + Credit * credits - Price * (Cardinality(debits) - covered)

(***************************************************************************)
(* Two callbacks never take the last unit of the included quota together    *)
(* (recordPricing: the row of the subscription is locked).                  *)
(***************************************************************************)
QuotaNotOverdrawn == quota >= 0

(***************************************************************************)
(* A message is recorded as billed exactly when its debit is in the ledger: *)
(* no failure leaves one without the other, in spite of redeliveries.       *)
(***************************************************************************)
BilledIffDebited ==
  \A m \in Msgs : category[m] # "free" =>
    (billed[m] <=> \E k \in 1..MaxSends : <<m, k>> \in debits)

(***************************************************************************)
(* The requeue of pausarCanalPorErro, which only knows the id of the row,   *)
(* is harmless, however its callbacks are redelivered and reordered: it     *)
(* never pulls a row from under a worker that has it in hand, and never     *)
(* brings back a message that Meta has delivered since.  It rests on the    *)
(* message waiting for the end of the pause.                                *)
(***************************************************************************)
RequeueIsSafe ==
  \A m \in Msgs :
    /\ inHand[m] # "no" => status[m] = "sending"
    /\ \A k \in 1..MaxSends : fate[<<m, k>>] = "delivered" => k = sends[m]

(***************************************************************************)
(* A refusal of the channel costs the message nothing ("não foi a mensagem  *)
(* que falhou: devolve a tentativa", "em vez de queimá-la"): it gives back  *)
(* only its own attempt, however many handlers process it, and the message  *)
(* fails only for a refusal of its own or for exhausted attempts.           *)
(***************************************************************************)
RefusalIsFree ==
  \A m \in Msgs :
    /\ status[m] = "queued" => attempts[m] = retries[m]
    /\ status[m] = "failed" =>
         \/ attempts[m] >= MaxAttempts
         \/ \E k \in 1..MaxSends : fate[<<m, k>>] = "mensagem"

(***************************************************************************)
(* What PauseChannel of the dispatcher guarantees ("nunca encurte uma pausa *)
(* longa já em vigor") and pausarCanalPorErro promises to mirror ("O efeito *)
(* precisa ser o mesmo"): an error of the channel never ends a pause early. *)
(***************************************************************************)
PauseNeverShortened ==
  [][(\E h \in Handlers : hpc[h] = "pause" /\ hpc'[h] = "push") => pausedFor' >= pausedFor]_vars

(***************************************************************************)
(* What recordPricing says of the quota: one billed message takes one unit  *)
(* (migration 008: "Decrementada a cada mensagem de marketing tarifada").   *)
(***************************************************************************)
QuotaReconciles == quota = InitialQuota - covered

(***************************************************************************)
(* What handleStatus says of the counters: they rise on the first           *)
(* transition only, and a redelivery does not count twice.                  *)
(***************************************************************************)
CountsFirstTransition ==
  \A m \in Msgs : /\ counted[m].delivered <= 1
                  /\ counted[m].read <= 1
                  /\ counted[m].failed <= 1

(***************************************************************************)
(* What pausarCanalPorErro says of a refused message: it is back in the     *)
(* queue.  A row without a wamid has not been sent.                         *)
(***************************************************************************)
RefusedGoesBack == \A m \in Msgs : status[m] = "sent" => wamid[m] # 0
=============================================================================
