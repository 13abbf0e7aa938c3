--------------------------- MODULE WebhooksProofs ---------------------------
(* The wallet, the included quota and the requeue of Webhooks, for every   *)
(* number of messages, handlers, callbacks and purchases.                  *)
EXTENDS Webhooks, FiniteSetTheorems, TLAPS

(***************************************************************************)
(* What the locks of recordPricing guarantee: the handler that is about to  *)
(* debit holds the wallet and has read its present balance; the one that    *)
(* will use a unit of the quota holds the subscription, and the unit is     *)
(* still there.                                                            *)
(***************************************************************************)
LockTypes ==
  /\ hpc \in [Handlers -> {"idle", "pause", "push", "requeue", "update", "count", "free",
                           "quota", "wallet", "debit"}]
  /\ tx \in [Handlers -> [usouCota : BOOLEAN, currentBalance : Nat]]
  /\ balance \in Nat /\ quota \in Int /\ ledger \in Int

WalletInv ==
  \A h \in Handlers : hpc[h] = "debit" =>
    walletLock = h /\ tx[h].currentBalance = balance

QuotaInv ==
  \A h \in Handlers : tx[h].usouCota => subLock = h /\ quota > 0

MoneyInv == LockTypes /\ WalletInv /\ QuotaInv /\ LedgerReconciles /\ QuotaNotOverdrawn

LEMMA InitMoney == Init => MoneyInv
BY WebhooksAssumption DEF WebhooksAssumption, Init, MoneyInv, LockTypes, WalletInv, QuotaInv,
   LedgerReconciles, QuotaNotOverdrawn, NoTx

(* Steps that leave the money, the locks and the transactions alone and    *)
(* bring no handler to its debit.                                          *)
LEMMA OutsideMoney ==
  ASSUME MoneyInv, UNCHANGED <<balance, quota, ledger, walletLock, subLock, tx>>,
         LockTypes',
         \A h \in Handlers : hpc'[h] = "debit" => hpc[h] = "debit"
  PROVE  MoneyInv'
BY DEF MoneyInv, LockTypes, WalletInv, QuotaInv, LedgerReconciles, QuotaNotOverdrawn

(* The end of a request that has no transaction or undoes it.              *)
LEMMA FinishMoney ==
  ASSUME MoneyInv, NEW h \in Handlers, Finish(h),
         UNCHANGED <<balance, quota, ledger>>,
         ReleaseLocks(h) \/ UNCHANGED locks
  PROVE  MoneyInv'
<1> USE DEF MoneyInv, LockTypes, LedgerReconciles, QuotaNotOverdrawn, Finish, Goto, NoTx
<1>1. LockTypes'
  OBVIOUS
<1>2. \A g \in Handlers \ {h} : hpc'[g] = hpc[g] /\ tx'[g] = tx[g]
  OBVIOUS
<1>3. hpc'[h] = "idle" /\ tx'[h].usouCota = FALSE
  OBVIOUS
<1>4. WalletInv'
  BY <1>2, <1>3 DEF WalletInv, ReleaseLocks, locks
<1>5. QuotaInv'
  BY <1>2, <1>3 DEF QuotaInv, ReleaseLocks, locks
<1> QED  BY <1>1, <1>4, <1>5

(* Going on to another statement outside the transaction.                  *)
LEMMA GotoMoney ==
  ASSUME MoneyInv, NEW h \in Handlers,
         NEW l \in {"idle", "pause", "push", "requeue", "update", "count", "free", "quota",
                    "wallet"},
         Goto(h, l), UNCHANGED <<balance, quota, ledger, walletLock, subLock, tx>>
  PROVE  MoneyInv'
BY OutsideMoney DEF Goto, MoneyInv, LockTypes

LEMMA ContinueMoney ==
  ASSUME MoneyInv, NEW h \in Handlers,
         NEW l \in {"idle", "count", "free", "quota", "wallet"},
         ContinueAt(h, l), UNCHANGED <<balance, quota, ledger, walletLock, subLock>>
  PROVE  MoneyInv'
<1>1. CASE l = "idle"
  BY <1>1, FinishMoney DEF ContinueAt, locks
<1>2. CASE l # "idle"
  BY <1>2, GotoMoney DEF ContinueAt, handler
<1> QED  BY <1>1, <1>2

LEMMA PricesType ==
  ASSUME NEW h
  PROVE  Prices(h) \in {"idle", "count", "free", "quota", "wallet"}
BY DEF Prices

LEMMA LockSubscriptionMoney ==
  ASSUME MoneyInv, NEW h \in Handlers, LockSubscription(h)
  PROVE  MoneyInv'
<1> USE DEF MoneyInv, LockTypes, LedgerReconciles, QuotaNotOverdrawn, LockSubscription, Goto,
            money
<1>1. \A g \in Handlers \ {h} : hpc'[g] = hpc[g] /\ tx'[g] = tx[g]
  OBVIOUS
<1>2. hpc'[h] = "wallet" /\ tx'[h].usouCota = (quota > 0)
  OBVIOUS
<1>3. LockTypes'
  <2>1. PICK b \in BOOLEAN : tx' = [tx EXCEPT ![h] = [@ EXCEPT !.usouCota = b]]
    <3>1. (quota > 0) \in BOOLEAN
      OBVIOUS
    <3> QED  BY <3>1
  <2>2. tx' \in [Handlers -> [usouCota : BOOLEAN, currentBalance : Nat]]
    BY <2>1, Zenon
  <2> QED  BY <2>2
<1>4. WalletInv'
  BY <1>1, <1>2 DEF WalletInv
<1>5. \A g \in Handlers : ~tx[g].usouCota
  BY WebhooksAssumption DEF WebhooksAssumption, QuotaInv, Lockable
<1>6. QuotaInv'
  BY <1>1, <1>2, <1>5 DEF QuotaInv
<1> QED  BY <1>3, <1>4, <1>6

LEMMA LockWalletMoney ==
  ASSUME MoneyInv, NEW h \in Handlers, LockWallet(h)
  PROVE  MoneyInv'
<1> USE DEF MoneyInv, LockTypes, LedgerReconciles, QuotaNotOverdrawn, LockWallet, Goto, money
<1>1. \A g \in Handlers \ {h} : hpc'[g] = hpc[g] /\ tx'[g] = tx[g]
  OBVIOUS
<1>2. /\ hpc'[h] = "debit" /\ walletLock' = h
      /\ tx'[h].currentBalance = balance' /\ tx'[h].usouCota = tx[h].usouCota
  OBVIOUS
<1>3. LockTypes'
  OBVIOUS
<1>4. \A g \in Handlers : hpc[g] # "debit"
  BY WebhooksAssumption DEF WebhooksAssumption, WalletInv, Lockable
<1>5. WalletInv'
  BY <1>1, <1>2, <1>4 DEF WalletInv
<1>6. QuotaInv'
  BY <1>1, <1>2 DEF QuotaInv
<1> QED  BY <1>3, <1>5, <1>6

LEMMA ClampedBounds ==
  ASSUME NEW a \in Nat, NEW b \in Nat
  PROVE  Clamped(a - b) \in Nat
BY DEF Clamped, Larger

LEMMA DebitMoney ==
  ASSUME MoneyInv, NEW h \in Handlers, Debit(h)
  PROVE  MoneyInv'
<1> DEFINE cobrar == IF tx[h].usouCota THEN 0 ELSE Price
           nb == Clamped(tx[h].currentBalance - cobrar)
<1> USE DEF MoneyInv, LockTypes
<1>1. hpc[h] = "debit" /\ walletLock = h /\ tx[h].currentBalance = balance
  BY DEF WalletInv, Debit
<1>2. cobrar \in Nat
  BY WebhooksAssumption DEF WebhooksAssumption
<1>3. nb \in Nat
  BY <1>2, ClampedBounds
<1>4. \/ balance' = nb /\ ledger' = ledger - (tx[h].currentBalance - nb)
      \/ balance' = balance /\ ledger' = ledger
  BY DEF Debit
<1>5. balance' \in Nat /\ ledger' \in Int /\ balance' = ledger'
  <2> HIDE DEF nb
  <2> QED BY <1>1, <1>3, <1>4 DEF LedgerReconciles
<1>6. \A g \in Handlers \ {h} : hpc'[g] = hpc[g] /\ tx'[g] = tx[g]
  BY DEF Debit, Finish, Goto
<1>7. hpc'[h] = "idle" /\ tx'[h].usouCota = FALSE
  BY DEF Debit, Finish, Goto, NoTx
<1>8. \A g \in Handlers \ {h} : hpc[g] # "debit"
  BY <1>1 DEF WalletInv
<1>9. WalletInv'
  BY <1>6, <1>7, <1>8 DEF WalletInv
<1>10. quota' \in Int /\ quota' >= 0 /\ quota' = IF tx[h].usouCota THEN quota - 1 ELSE quota
  BY DEF Debit, QuotaInv, QuotaNotOverdrawn
<1>11. QuotaInv'
  <2> SUFFICES ASSUME NEW g \in Handlers, tx'[g].usouCota
               PROVE  subLock' = g /\ quota' > 0
    BY DEF QuotaInv
  <2>1. g # h /\ tx[g].usouCota /\ subLock = g /\ quota > 0
    BY <1>6, <1>7 DEF QuotaInv
  <2>2. ~tx[h].usouCota
    BY <2>1 DEF QuotaInv
  <2> QED  BY <2>1, <2>2, <1>10 DEF Debit, ReleaseLocks
<1>12. LockTypes'
  BY <1>5, <1>10 DEF Debit, Finish, Goto, NoTx
<1> QED
  BY <1>5, <1>9, <1>10, <1>11, <1>12 DEF LedgerReconciles, QuotaNotOverdrawn

LEMMA HandlerMoney ==
  ASSUME MoneyInv, NEW h \in Handlers, HandlerStep(h)
  PROVE  MoneyInv'
<1> USE DEF money, locks
<1>1. CASE Receive(h)
  <2>1. PICK l \in {"pause", "update"} : Goto(h, l)
    BY <1>1 DEF Receive
  <2> QED  BY <1>1, <2>1, GotoMoney DEF Receive
<1>2. CASE PausarCanal(h)
  BY <1>2, GotoMoney DEF PausarCanal, handler
<1>3. CASE PushQueued(h)
  <2>1. PICK l \in {"update", "requeue"} : Goto(h, l)
    BY <1>3 DEF PushQueued
  <2> QED  BY <1>3, <2>1, GotoMoney DEF PushQueued, handler
<1>4. CASE Requeue(h)
  BY <1>4, FinishMoney DEF Requeue
<1>5. CASE Update(h)
  <2>1. PICK l \in {"idle", "count", "free", "quota", "wallet"} : ContinueAt(h, l)
    BY <1>5, PricesType DEF Update
  <2> QED  BY <1>5, <2>1, ContinueMoney DEF Update
<1>6. CASE Count(h)
  <2>1. PICK l \in {"idle", "count", "free", "quota", "wallet"} : ContinueAt(h, l)
    BY <1>6, PricesType DEF Count
  <2> QED  BY <1>6, <2>1, ContinueMoney DEF Count
<1>7. CASE RecordFree(h)
  BY <1>7, FinishMoney DEF RecordFree
<1>8. CASE LockSubscription(h)
  BY <1>8, LockSubscriptionMoney
<1>9. CASE LockWallet(h)
  BY <1>9, LockWalletMoney
<1>10. CASE Debit(h)
  BY <1>10, DebitMoney
<1>11. CASE Abort(h)
  BY <1>11, FinishMoney DEF Abort
<1> QED
  BY <1>1, <1>2, <1>3, <1>4, <1>5, <1>6, <1>7, <1>8, <1>9, <1>10, <1>11 DEF HandlerStep

(* A purchase takes the lock of the wallet, so no handler is at its debit. *)
LEMMA TopUpMoney ==
  ASSUME MoneyInv, TopUp
  PROVE  MoneyInv'
<1>1. \A h \in Handlers : hpc[h] # "debit"
  BY WebhooksAssumption DEF WebhooksAssumption, TopUp, MoneyInv, WalletInv
<1> QED
  BY <1>1, WebhooksAssumption DEF WebhooksAssumption, TopUp, MoneyInv, LockTypes, WalletInv,
     QuotaInv, LedgerReconciles, QuotaNotOverdrawn, locks, handler

LEMMA NextMoney ==
  ASSUME MoneyInv, [Next]_vars
  PROVE  MoneyInv'
<1>1. ASSUME NEW m \in Msgs, Claim(m) \/ Post(m) \/ MarkSent(m) \/ Retry(m) \/ Refuse(m)
      PROVE  MoneyInv'
  <2>1. UNCHANGED <<balance, quota, ledger, walletLock, subLock, tx, hpc>>
    BY <1>1 DEF Claim, Post, MarkSent, Retry, Refuse, money, locks, handler
  <2> QED  BY <2>1, OutsideMoney DEF MoneyInv, LockTypes
<1>2. ASSUME NEW h \in Handlers, HandlerStep(h)
      PROVE  MoneyInv'
  BY <1>2, HandlerMoney
<1>3. CASE LimparPausasVencidas \/ AccountAlert \/ SaveChannel \/ ClearPauseAlert \/ Tick
           \/ UNCHANGED vars
  <2>1. UNCHANGED <<balance, quota, ledger, walletLock, subLock, tx, hpc>>
    BY <1>3 DEF LimparPausasVencidas, AccountAlert, SaveChannel, ClearPauseAlert, Tick, money,
       locks, handler, vars
  <2> QED  BY <2>1, OutsideMoney DEF MoneyInv, LockTypes
<1>4. CASE TopUp
  BY <1>4, TopUpMoney
<1> QED
  BY <1>1, <1>2, <1>3, <1>4 DEF Next

THEOREM MoneyInvariant == Spec => []MoneyInv
<1>1. MoneyInv /\ [Next]_vars => MoneyInv'
  BY NextMoney
<1> QED  BY InitMoney, <1>1, PTL DEF Spec

(***************************************************************************)
(* The balance of the wallet is what its ledger adds up to, whatever        *)
(* callbacks, failures and purchases interleave (recordPricing and          *)
(* handlePaymentConfirmed).                                                *)
(***************************************************************************)
THEOREM LedgerIsExact == Spec => []LedgerReconciles
<1>1. MoneyInv => LedgerReconciles
  BY DEF MoneyInv
<1> QED  BY MoneyInvariant, <1>1, PTL

(***************************************************************************)
(* Concurrent callbacks never overdraw the included quota (recordPricing).  *)
(***************************************************************************)
THEOREM QuotaIsNeverOverdrawn == Spec => []QuotaNotOverdrawn
<1>1. MoneyInv => QuotaNotOverdrawn
  BY DEF MoneyInv
<1> QED  BY MoneyInvariant, <1>1, PTL
-----------------------------------------------------------------------------
(* What was paid for.                                                      *)

PaidInv ==
  /\ IsFiniteSet(debits) /\ covered \in Nat /\ credits \in Nat
  /\ ChargedOncePerSend

LEMMA TimesSucc ==
  ASSUME NEW p \in Int, NEW n \in Int
  PROVE  p * (n + 1) = p * n + p /\ p * n \in Int
OBVIOUS

LEMMA DeductedBounds ==
  ASSUME NEW a \in Nat, NEW b \in Nat
  PROVE  a - Clamped(a - b) <= b
BY DEF Clamped, Larger

LEMMA DebitPaid ==
  ASSUME MoneyInv, PaidInv, NEW h \in Handlers, Debit(h)
  PROVE  PaidInv'
<1> DEFINE cobrar == IF tx[h].usouCota THEN 0 ELSE Price
           nb == Clamped(tx[h].currentBalance - cobrar)
           send == <<event[h].msg, seen[h].wamid>>
           open == Cardinality(debits) - covered
<1> USE DEF PaidInv
<1>1. /\ Price \in Nat /\ Credit \in Nat /\ InitialBalance \in Nat /\ cobrar \in Nat
      /\ tx[h].currentBalance \in Nat /\ ledger \in Int /\ Cardinality(debits) \in Nat
  BY WebhooksAssumption, FS_CardinalityType DEF WebhooksAssumption, MoneyInv, LockTypes
<1>2. nb \in Nat /\ tx[h].currentBalance - nb <= cobrar
  BY <1>1, ClampedBounds, DeductedBounds
<1>3. CASE send \in debits
  BY <1>3 DEF Debit, Inserted, ChargedOncePerSend
<1>4. CASE send \notin debits
  <2>1. /\ debits' = debits \cup {send}
        /\ ledger' = ledger - (tx[h].currentBalance - nb)
        /\ covered' = IF tx[h].usouCota THEN covered + 1 ELSE covered
        /\ credits' = credits
    BY <1>4 DEF Debit, Inserted
  <2>2. IsFiniteSet(debits') /\ Cardinality(debits') = Cardinality(debits) + 1
    BY <1>4, <2>1, FS_AddElement
  <2>3. covered' \in Nat
    BY <2>1
  <2>4. ledger' >= ledger - cobrar /\ ledger' \in Int
    <3> HIDE DEF nb, cobrar
    <3> QED BY <1>1, <1>2, <2>1
  <2>5. Price * (Cardinality(debits') - covered') = Price * open + cobrar /\ Price * open \in Int
    <3>1. CASE tx[h].usouCota
      <4>1. Cardinality(debits') - covered' = open /\ open \in Int
        BY <1>1, <2>1, <2>2, <3>1
      <4>2. Price * open \in Int
        BY <1>1, <4>1, TimesSucc
      <4>3. cobrar = 0
        BY <3>1
      <4> HIDE DEF open, cobrar
      <4> QED  BY <4>1, <4>2, <4>3
    <3>2. CASE ~tx[h].usouCota
      <4>1. Cardinality(debits') - covered' = open + 1 /\ open \in Int
        BY <1>1, <2>1, <2>2, <3>2
      <4>2. Price * (open + 1) = Price * open + Price /\ Price * open \in Int
        BY <1>1, <4>1, TimesSucc
      <4>3. cobrar = Price
        BY <3>2
      <4>4. Price * (Cardinality(debits') - covered') = Price * (open + 1)
        BY <4>1
      <4> HIDE DEF open, cobrar
      <4> QED  BY <4>2, <4>3, <4>4
    <3> QED  BY <3>1, <3>2
  <2>6. ledger >= InitialBalance + Credit * credits - Price * open
    BY DEF ChargedOncePerSend
  <2>7. Credit * credits \in Int
    BY <1>1, TimesSucc
  <2>8. ledger' >= InitialBalance + Credit * credits - (Price * open + cobrar)
    <3> HIDE DEF open, cobrar
    <3> QED BY <1>1, <2>4, <2>5, <2>6, <2>7
  <2>9. ChargedOncePerSend'
    BY <2>1, <2>5, <2>8 DEF ChargedOncePerSend
  <2> QED  BY <2>1, <2>2, <2>3, <2>9
<1> QED  BY <1>3, <1>4

LEMMA TopUpPaid ==
  ASSUME MoneyInv, PaidInv, TopUp
  PROVE  PaidInv'
<1> DEFINE owed == Price * (Cardinality(debits) - covered)
<1> USE DEF PaidInv
<1>1. /\ Price \in Nat /\ Credit \in Nat /\ InitialBalance \in Nat /\ ledger \in Int
      /\ Cardinality(debits) - covered \in Int
  BY WebhooksAssumption, FS_CardinalityType DEF WebhooksAssumption, MoneyInv, LockTypes
<1>2. owed \in Int /\ Credit * credits \in Int /\ Credit * (credits + 1) = Credit * credits + Credit
  BY <1>1, TimesSucc
<1>3. /\ credits' = credits + 1 /\ ledger' = ledger + Credit
      /\ debits' = debits /\ covered' = covered
  BY DEF TopUp
<1>4. ledger >= InitialBalance + Credit * credits - owed
  BY DEF ChargedOncePerSend
<1>5. ledger' >= InitialBalance + Credit * (credits + 1) - owed
  <2> HIDE DEF owed
  <2> QED BY <1>1, <1>2, <1>3, <1>4
<1> QED  BY <1>3, <1>5 DEF ChargedOncePerSend

LEMMA NextPaid ==
  ASSUME MoneyInv, PaidInv, [Next]_vars
  PROVE  PaidInv'
<1>1. ASSUME UNCHANGED money
      PROVE  PaidInv'
  BY <1>1 DEF money, PaidInv, ChargedOncePerSend
<1>2. ASSUME NEW h \in Handlers, HandlerStep(h)
      PROVE  PaidInv'
  <2>1. CASE Debit(h)
    BY <2>1, DebitPaid
  <2>2. CASE ~Debit(h)
    <3>1. UNCHANGED money
      BY <1>2, <2>2 DEF HandlerStep, Receive, PausarCanal, PushQueued, Requeue, Update, Count,
         RecordFree, LockSubscription, LockWallet, Abort
    <3> QED  BY <1>1, <3>1
  <2> QED  BY <2>1, <2>2
<1>3. ASSUME NEW m \in Msgs, Claim(m) \/ Post(m) \/ MarkSent(m) \/ Retry(m) \/ Refuse(m)
      PROVE  PaidInv'
  BY <1>1, <1>3 DEF Claim, Post, MarkSent, Retry, Refuse
<1>4. CASE LimparPausasVencidas \/ AccountAlert \/ SaveChannel \/ ClearPauseAlert \/ Tick
           \/ UNCHANGED vars
  BY <1>1, <1>4 DEF LimparPausasVencidas, AccountAlert, SaveChannel, ClearPauseAlert, Tick, vars
<1>5. CASE TopUp
  BY <1>5, TopUpPaid
<1> QED
  BY <1>2, <1>3, <1>4, <1>5 DEF Next

LEMMA InitPaid == Init => PaidInv
<1> SUFFICES ASSUME Init PROVE PaidInv
  OBVIOUS
<1>1. IsFiniteSet(debits) /\ Cardinality(debits) = 0
  BY FS_EmptySet DEF Init
<1>2. /\ InitialBalance \in Int /\ Credit * 0 = 0 /\ Price * (0 - 0) = 0
      /\ covered = 0 /\ credits = 0 /\ ledger = InitialBalance
  BY WebhooksAssumption DEF WebhooksAssumption, Init
<1>3. ChargedOncePerSend
  BY <1>1, <1>2 DEF ChargedOncePerSend
<1> QED  BY <1>1, <1>2, <1>3 DEF PaidInv

(***************************************************************************)
(* The wallet never pays twice for one send (recordPricing: the unique      *)
(* debit per wamid), however many handlers process its callbacks.           *)
(***************************************************************************)
THEOREM NoSendIsPaidTwice == Spec => []ChargedOncePerSend
<1>1. MoneyInv /\ PaidInv /\ [Next]_vars => PaidInv'
  BY NextPaid
<1>2. PaidInv => ChargedOncePerSend
  BY DEF PaidInv
<1> QED  BY InitPaid, MoneyInvariant, <1>1, <1>2, PTL DEF Spec
-----------------------------------------------------------------------------
(***************************************************************************)
(* Types, and what a handler is about: a request in progress has found a    *)
(* message by the wamid of one of its sends, and only what Meta did not     *)
(* bill is recorded as free.                                               *)
(***************************************************************************)
Busy(h) ==
  /\ hpc[h] = "idle" => busy[h] = 0
  /\ hpc[h] # "idle" => /\ event[h].msg \in Msgs /\ event[h].kind # "none"
                        /\ seen[h].wamid \in 1..MaxSends
  /\ hpc[h] = "free" => category[event[h].msg] = "free"
  /\ hpc[h] = "count" => event[h].kind \in {"delivered", "read", "failed"}

ClaimedMaySend == \A m \in Msgs : inHand[m] = "claimed" => sends[m] < MaxSends

TypeInv == TypeOK /\ (\A h \in Handlers : Busy(h)) /\ ClaimedMaySend

LEMMA TypeInit == Init => TypeInv
<1> SUFFICES ASSUME Init PROVE TypeInv
  OBVIOUS
<1> USE WebhooksAssumption DEF WebhooksAssumption, Init
<1>1. RowTypes
  BY DEF RowTypes
<1>2. SharedTypes
  <2>1. /\ pausedFor \in Nat /\ balance \in Nat /\ quota \in Int /\ ledger \in Int /\ covered \in Nat
        /\ alert \in {"none", "dispatcher_pause", "meta"}
        /\ walletLock \in Handlers \cup {NoOne} /\ subLock \in Handlers \cup {NoOne}
    OBVIOUS
  <2>5. debits \subseteq Msgs \X (1..MaxSends) /\ saving \in BOOLEAN
    BY Zenon
  <2>6. credits \in 0..MaxCredits
    OBVIOUS
  <2>2. counted \in [Msgs -> [delivered : 0..MaxCount, read : 0..MaxCount, failed : 0..MaxCount]]
    OBVIOUS
  <2>3. /\ inHand \in [Msgs -> {"no", "claimed", "posted"}]
        /\ sends \in [Msgs -> 0..MaxSends] /\ retries \in [Msgs -> 0..MaxRetries]
    OBVIOUS
  <2>4. fate \in [Msgs \X (1..MaxSends) -> Fates \cup {"none"}]
    OBVIOUS
  <2> QED  BY <2>1, <2>2, <2>3, <2>4, <2>5, <2>6 DEF SharedTypes
<1>3. HandlerTypes
  BY DEF HandlerTypes, NoEvent, NoRow, NoTx
<1> QED  BY <1>1, <1>2, <1>3 DEF TypeInv, TypeOK, Busy, ClaimedMaySend

(* The dispatcher's steps.                                                 *)
LEMMA TypeDispatcher ==
  ASSUME TypeInv, NEW m \in Msgs, Claim(m) \/ Post(m) \/ MarkSent(m) \/ Retry(m) \/ Refuse(m)
  PROVE  TypeInv'
<1> USE WebhooksAssumption DEF WebhooksAssumption, TypeInv, TypeOK
<1>1. HandlerTypes' /\ \A h \in Handlers : Busy(h)'
  BY DEF HandlerTypes, Busy, handler, Claim, Post, MarkSent, Retry, Refuse
<1>2. CASE Claim(m)
  <2>1. RowTypes'
    BY <1>2 DEF RowTypes, Claim
  <2>2. SharedTypes' /\ ClaimedMaySend'
    BY <1>2 DEF SharedTypes, ClaimedMaySend, Claim, channel, money, locks
  <2> QED  BY <1>1, <2>1, <2>2
<1>3. CASE Post(m)
  <2>1. RowTypes'
    BY <1>3 DEF RowTypes, Post, rows
  <2>2. sends[m] + 1 \in 1..MaxSends
    BY <1>3 DEF Post, ClaimedMaySend, SharedTypes
  <2>3. PICK f \in Fates : fate' = [fate EXCEPT ![<<m, sends[m] + 1>>] = f]
    BY <1>3 DEF Post
  <2>4. fate' \in [Msgs \X (1..MaxSends) -> Fates \cup {"none"}]
    BY <2>3 DEF SharedTypes
  <2>5. SharedTypes' /\ ClaimedMaySend'
    BY <1>3, <2>2, <2>4 DEF SharedTypes, ClaimedMaySend, Post, channel, money, locks
  <2> QED  BY <1>1, <2>1, <2>5
<1>4. CASE MarkSent(m)
  <2>1. RowTypes'
    BY <1>4 DEF RowTypes, SharedTypes, MarkSent
  <2>2. SharedTypes' /\ ClaimedMaySend'
    BY <1>4 DEF SharedTypes, ClaimedMaySend, MarkSent, channel, money, locks
  <2> QED  BY <1>1, <2>1, <2>2
<1>5. CASE Retry(m)
  <2>1. RowTypes'
    BY <1>5 DEF RowTypes, Retry, Larger
  <2>2. SharedTypes' /\ ClaimedMaySend'
    BY <1>5 DEF SharedTypes, ClaimedMaySend, Retry, channel, money, locks
  <2> QED  BY <1>1, <2>1, <2>2
<1>6. CASE Refuse(m)
  <2>1. pausedFor' \in Nat /\ alert' \in {"none", "dispatcher_pause", "meta"}
    BY <1>6 DEF Refuse, Secs, Larger, SharedTypes
  <2>2. RowTypes'
    <3>1. \A n \in Msgs : Larger(wait[n], pausedFor') \in Nat
      BY <2>1 DEF RowTypes, Larger
    <3>2. wait' \in [Msgs -> Nat]
      BY <1>6, <3>1 DEF RowTypes, Refuse
    <3>3. attempts' \in [Msgs -> Nat] /\ status' \in [Msgs -> {"queued", "sending", "sent", "delivered", "read", "failed"}]
      BY <1>6 DEF RowTypes, Refuse, Minus1
    <3> QED  BY <1>6, <3>2, <3>3 DEF RowTypes, Refuse
  <2>3. SharedTypes' /\ ClaimedMaySend'
    BY <1>6, <2>1 DEF SharedTypes, ClaimedMaySend, Refuse, money, locks
  <2> QED  BY <1>1, <2>2, <2>3
<1> QED  BY <1>2, <1>3, <1>4, <1>5, <1>6

LEMMA TypeFinish ==
  ASSUME TypeInv, NEW h \in Handlers, Finish(h)
  PROVE  HandlerTypes' /\ \A g \in Handlers : Busy(g)'
<1> USE WebhooksAssumption DEF WebhooksAssumption, TypeInv, TypeOK, Finish, Goto
<1>1. HandlerTypes'
  BY DEF HandlerTypes, NoEvent, NoRow, NoTx
<1>2. hpc'[h] = "idle" /\ busy'[h] = 0
  BY DEF HandlerTypes
<1>3. \A g \in Handlers \ {h} : /\ hpc'[g] = hpc[g] /\ busy'[g] = busy[g]
                                /\ event'[g] = event[g] /\ seen'[g] = seen[g]
  BY DEF HandlerTypes
<1>4. \A g \in Handlers \ {h} : Busy(g)'
  BY <1>3 DEF Busy
<1>5. Busy(h)'
  BY <1>2 DEF Busy
<1> QED  BY <1>1, <1>4, <1>5

LEMMA TypeGoto ==
  ASSUME TypeInv, NEW h \in Handlers, hpc[h] # "idle",
         NEW l \in {"push", "requeue", "update", "count", "free", "quota", "wallet", "debit"},
         Goto(h, l), UNCHANGED <<event, seen, until, busy>>,
         tx' \in [Handlers -> [usouCota : BOOLEAN, currentBalance : Nat]],
         l = "free" => category[event[h].msg] = "free",
         l = "count" => event[h].kind \in {"delivered", "read", "failed"}
  PROVE  HandlerTypes' /\ \A g \in Handlers : Busy(g)'
<1> USE DEF TypeInv, TypeOK, Goto
<1>1. HandlerTypes'
  BY DEF HandlerTypes
<1>2. \A g \in Handlers \ {h} : hpc'[g] = hpc[g]
  BY DEF HandlerTypes
<1>3. \A g \in Handlers \ {h} : Busy(g)'
  BY <1>2 DEF Busy
<1>4. Busy(h)'
  BY DEF Busy
<1> QED  BY <1>1, <1>3, <1>4

LEMMA TypeContinue ==
  ASSUME TypeInv, NEW h \in Handlers, hpc[h] # "idle",
         ContinueAt(h, Prices(h)) \/ (Raises(h) /\ ContinueAt(h, "count"))
  PROVE  HandlerTypes' /\ \A g \in Handlers : Busy(g)'
<1>0. tx \in [Handlers -> [usouCota : BOOLEAN, currentBalance : Nat]]
  BY DEF TypeInv, TypeOK, HandlerTypes
<1>1. CASE Raises(h) /\ ContinueAt(h, "count")
  <2>1. event[h].kind \in {"delivered", "read", "failed"}
    BY <1>1 DEF Raises
  <2>2. Goto(h, "count") /\ UNCHANGED handler
    BY <1>1 DEF ContinueAt
  <2> QED  BY <1>0, <2>1, <2>2, TypeGoto DEF handler
<1>2. CASE ContinueAt(h, Prices(h)) /\ Prices(h) # "idle"
  <2>1. PICK l \in {"free", "quota", "wallet"} : l = Prices(h)
    BY <1>2 DEF Prices
  <2>2. Goto(h, l) /\ UNCHANGED handler
    BY <1>2, <2>1 DEF ContinueAt
  <2>3. l = "free" => category[event[h].msg] = "free"
    BY <2>1 DEF Prices
  <2> QED  BY <1>0, <2>2, <2>3, TypeGoto DEF handler
<1>3. CASE ContinueAt(h, Prices(h)) /\ Prices(h) = "idle"
  BY <1>3, TypeFinish DEF ContinueAt
<1> QED  BY <1>1, <1>2, <1>3

\* A callback is about a send that the row names, and a failure that blocks
\* the channel starts with the pause.
Reads(h, m, k, kind, priced, l, u) ==
  /\ hpc[h] = "idle" /\ wamid[m] = k /\ kind \in Kinds(fate[<<m, k>>])
  /\ event' = [event EXCEPT ![h] =
       [msg |-> m, kind |-> kind, class |-> fate[<<m, k>>], priced |-> priced]]
  /\ seen' = [seen EXCEPT ![h] =
       [wamid |-> wamid[m], status |-> status[m], attempts |-> attempts[m],
        delivered |-> delivered[m], read |-> read[m], billed |-> billed[m]]]
  /\ l = "pause" <=> kind = "failed" /\ bloqueiaCanal(fate[<<m, k>>])
  /\ u = IF l = "pause" THEN Secs(fate[<<m, k>>]) ELSE 0
  /\ hpc' = [hpc EXCEPT ![h] = l]
  /\ until' = [until EXCEPT ![h] = u]

LEMMA ReceiveReads ==
  ASSUME NEW h \in Handlers, Receive(h)
  PROVE  \E m \in Msgs, k \in 1..MaxSends, kind \in {"sent", "delivered", "read", "failed"},
            priced \in BOOLEAN, l \in {"pause", "update"} : \E u : Reads(h, m, k, kind, priced, l, u)
<1>1. PICK m \in Msgs, k \in 1..MaxSends : \E kind \in Kinds(fate[<<m, k>>]), priced \in BOOLEAN :
       /\ Found(m, k)
       /\ priced => fate[<<m, k>>] = "delivered"
       /\ event' = [event EXCEPT ![h] =
            [msg |-> m, kind |-> kind, class |-> fate[<<m, k>>], priced |-> priced]]
       /\ seen' = [seen EXCEPT ![h] =
            [wamid |-> wamid[m], status |-> status[m], attempts |-> attempts[m],
             delivered |-> delivered[m], read |-> read[m], billed |-> billed[m]]]
       /\ LET pauses == kind = "failed" /\ bloqueiaCanal(fate[<<m, k>>]) IN
          /\ Goto(h, IF pauses THEN "pause" ELSE "update")
          /\ until' = [until EXCEPT ![h] = IF pauses THEN Secs(fate[<<m, k>>]) ELSE 0]
  BY DEF Receive
<1>2. PICK kind \in Kinds(fate[<<m, k>>]), priced \in BOOLEAN :
       /\ Found(m, k)
       /\ event' = [event EXCEPT ![h] =
            [msg |-> m, kind |-> kind, class |-> fate[<<m, k>>], priced |-> priced]]
       /\ seen' = [seen EXCEPT ![h] =
            [wamid |-> wamid[m], status |-> status[m], attempts |-> attempts[m],
             delivered |-> delivered[m], read |-> read[m], billed |-> billed[m]]]
       /\ LET pauses == kind = "failed" /\ bloqueiaCanal(fate[<<m, k>>]) IN
          /\ Goto(h, IF pauses THEN "pause" ELSE "update")
          /\ until' = [until EXCEPT ![h] = IF pauses THEN Secs(fate[<<m, k>>]) ELSE 0]
  BY <1>1
<1>3. hpc[h] = "idle" /\ wamid[m] = k /\ kind \in {"sent", "delivered", "read", "failed"}
  BY <1>2, WebhooksAssumption DEF WebhooksAssumption, Receive, Found, Kinds
<1>4. \E l \in {"pause", "update"} : \E u : Reads(h, m, k, kind, priced, l, u)
  <2>1. CASE kind = "failed" /\ bloqueiaCanal(fate[<<m, k>>])
    <3>1. hpc' = [hpc EXCEPT ![h] = "pause"] /\ until' = [until EXCEPT ![h] = Secs(fate[<<m, k>>])]
      BY <1>2, <2>1 DEF Goto
    <3>2. Reads(h, m, k, kind, priced, "pause", Secs(fate[<<m, k>>]))
      BY <1>2, <1>3, <2>1, <3>1 DEF Reads
    <3> QED  BY <3>2
  <2>2. CASE ~(kind = "failed" /\ bloqueiaCanal(fate[<<m, k>>]))
    <3>1. hpc' = [hpc EXCEPT ![h] = "update"] /\ until' = [until EXCEPT ![h] = 0]
      BY <1>2, <2>2 DEF Goto
    <3>2. Reads(h, m, k, kind, priced, "update", 0)
      BY <1>2, <1>3, <2>2, <3>1 DEF Reads
    <3> QED  BY <3>2
  <2> QED  BY <2>1, <2>2
<1>5. \E n \in Msgs, i \in 1..MaxSends, c \in {"sent", "delivered", "read", "failed"},
        v \in BOOLEAN, l \in {"pause", "update"} : \E u : Reads(h, n, i, c, v, l, u)
  BY <1>3, <1>4
<1> QED  BY <1>5

LEMMA TypeReceive ==
  ASSUME TypeInv, NEW h \in Handlers, Receive(h)
  PROVE  TypeInv'
<1> USE DEF TypeInv, TypeOK
<1>a. PICK m \in Msgs, k \in 1..MaxSends, kind \in {"sent", "delivered", "read", "failed"},
           priced \in BOOLEAN, l \in {"pause", "update"} : \E u : Reads(h, m, k, kind, priced, l, u)
  BY ReceiveReads
<1>b. PICK u : Reads(h, m, k, kind, priced, l, u)
  BY <1>a
<1>1. /\ hpc[h] = "idle" /\ wamid[m] = k /\ kind \in Kinds(fate[<<m, k>>])
      /\ event' = [event EXCEPT ![h] =
           [msg |-> m, kind |-> kind, class |-> fate[<<m, k>>], priced |-> priced]]
      /\ seen' = [seen EXCEPT ![h] =
           [wamid |-> wamid[m], status |-> status[m], attempts |-> attempts[m],
            delivered |-> delivered[m], read |-> read[m], billed |-> billed[m]]]
      /\ l = "pause" <=> kind = "failed" /\ bloqueiaCanal(fate[<<m, k>>])
      /\ u = IF l = "pause" THEN Secs(fate[<<m, k>>]) ELSE 0
      /\ hpc' = [hpc EXCEPT ![h] = l]
      /\ until' = [until EXCEPT ![h] = u]
  BY <1>b DEF Reads
<1>3. u \in Nat /\ fate[<<m, k>>] \in Fates \cup {"none"}
  BY <1>1, WebhooksAssumption DEF WebhooksAssumption, Secs, SharedTypes
<1>4. UNCHANGED <<rows, channel, counted, money, locks, dispatcher, busy, tx>>
  BY DEF Receive
<1>5. HandlerTypes'
  <2>1. event' \in [Handlers -> [msg : Msgs \cup {NoOne},
                                 kind : {"none", "sent", "delivered", "read", "failed"},
                                 class : Fates \cup {"none"}, priced : BOOLEAN]]
    BY <1>1, <1>3 DEF HandlerTypes
  <2>2. [wamid |-> wamid[m], status |-> status[m], attempts |-> attempts[m],
         delivered |-> delivered[m], read |-> read[m], billed |-> billed[m]]
          \in [wamid : 0..MaxSends,
               status : {"none", "queued", "sending", "sent", "delivered", "read", "failed"},
               attempts : Nat, delivered : BOOLEAN, read : BOOLEAN, billed : BOOLEAN]
    BY DEF RowTypes
  <2>3. seen' \in [Handlers -> [wamid : 0..MaxSends,
                            status : {"none", "queued", "sending", "sent", "delivered",
                                      "read", "failed"},
                            attempts : Nat, delivered : BOOLEAN, read : BOOLEAN,
                            billed : BOOLEAN]]
    <3> DEFINE r == [wamid |-> wamid[m], status |-> status[m], attempts |-> attempts[m],
                     delivered |-> delivered[m], read |-> read[m], billed |-> billed[m]]
    <3>1. seen' = [seen EXCEPT ![h] = r]
      BY <1>1
    <3>2. r \in [wamid : 0..MaxSends,
                 status : {"none", "queued", "sending", "sent", "delivered", "read", "failed"},
                 attempts : Nat, delivered : BOOLEAN, read : BOOLEAN, billed : BOOLEAN]
      BY <2>2
    <3> HIDE DEF r
    <3> QED  BY <3>1, <3>2 DEF HandlerTypes
  <2>4. hpc' \in [Handlers -> {"idle", "pause", "push", "requeue", "update", "count", "free",
                               "quota", "wallet", "debit"}]
        /\ until' \in [Handlers -> Nat]
    BY <1>1, <1>3 DEF HandlerTypes
  <2> QED  BY <1>4, <2>1, <2>3, <2>4 DEF HandlerTypes
<1>6. RowTypes' /\ SharedTypes' /\ ClaimedMaySend'
  BY <1>4 DEF RowTypes, SharedTypes, ClaimedMaySend, rows, channel, money, locks, dispatcher
<1>7. \A g \in Handlers \ {h} : Busy(g)'
  <2>1. \A g \in Handlers \ {h} : hpc'[g] = hpc[g] /\ event'[g] = event[g] /\ seen'[g] = seen[g]
    BY <1>1 DEF HandlerTypes
  <2> QED  BY <1>4, <2>1 DEF Busy
<1>8. Busy(h)'
  <2>1. hpc'[h] = l /\ event'[h].msg = m /\ event'[h].kind = kind /\ seen'[h].wamid = k
    BY <1>1 DEF HandlerTypes
  <2> QED  BY <2>1 DEF Busy
<1> QED  BY <1>5, <1>6, <1>7, <1>8

LEMMA TypeHandlerStep ==
  ASSUME TypeInv, MoneyInv, NEW h \in Handlers, HandlerStep(h)
  PROVE  TypeInv'
<1> USE DEF TypeInv, TypeOK
<1>0. hpc[h] # "idle" => event[h].msg \in Msgs /\ seen[h].wamid \in 1..MaxSends
  BY DEF Busy
<1>1. CASE PausarCanal(h)
  <2>1. HandlerTypes' /\ \A g \in Handlers : Busy(g)'
    BY <1>1, TypeGoto DEF PausarCanal, handler, HandlerTypes
  <2>2. RowTypes' /\ SharedTypes' /\ ClaimedMaySend'
    BY <1>1 DEF PausarCanal, rows, money, locks, dispatcher, RowTypes, SharedTypes,
       HandlerTypes, ClaimedMaySend
  <2> QED  BY <2>1, <2>2
<1>2. CASE PushQueued(h)
  <2>1. PICK l \in {"update", "requeue"} : Goto(h, l)
    BY <1>2 DEF PushQueued
  <2>2. HandlerTypes' /\ \A g \in Handlers : Busy(g)'
    BY <1>2, <2>1, TypeGoto DEF PushQueued, handler, HandlerTypes
  <2>3. \A m \in Msgs : Larger(wait[m], until[h]) \in Nat
    BY DEF Larger, RowTypes, HandlerTypes
  <2>4. wait' \in [Msgs -> Nat]
    BY <1>2, <2>3 DEF PushQueued, RowTypes
  <2>5. RowTypes' /\ SharedTypes' /\ ClaimedMaySend'
    BY <1>2, <2>4 DEF PushQueued, channel, money, locks, dispatcher, RowTypes, SharedTypes,
       ClaimedMaySend
  <2> QED  BY <2>2, <2>5
<1>3. CASE Requeue(h)
  <2>1. HandlerTypes' /\ \A g \in Handlers : Busy(g)'
    BY <1>3, TypeFinish DEF Requeue
  <2>2. Minus1(seen[h].attempts) \in Nat /\ until[h] \in Nat
    BY DEF HandlerTypes, Minus1
  <2>3. RowTypes'
    BY <1>0, <1>3, <2>2, WebhooksAssumption DEF WebhooksAssumption, Requeue, NextAttempt, Undone,
       RowTypes
  <2>4. SharedTypes' /\ ClaimedMaySend'
    BY <1>3 DEF Requeue, channel, money, locks, dispatcher, SharedTypes, ClaimedMaySend
  <2> QED  BY <2>1, <2>3, <2>4
<1>4. CASE Update(h)
  <2>1. HandlerTypes' /\ \A g \in Handlers : Busy(g)'
    BY <1>4, TypeContinue DEF Update
  <2>2. delivered' \in [Msgs -> BOOLEAN] /\ read' \in [Msgs -> BOOLEAN]
    <3>1. \A a \in BOOLEAN : (a \/ event[h].kind = "delivered") \in BOOLEAN
                             /\ (a \/ event[h].kind = "read") \in BOOLEAN
      BY Zenon
    <3> QED  BY <1>4, <3>1, Zenon DEF Update, RowTypes
  <2>3. status' \in [Msgs -> {"queued", "sending", "sent", "delivered", "read", "failed"}]
    <3>1. event[h].kind # "none"
      BY <1>4 DEF Update, Busy
    <3> QED  BY <1>4, <3>1 DEF Update, RowTypes, HandlerTypes
  <2>4. RowTypes'
    BY <1>4, <2>2, <2>3 DEF Update, Recorded, RowTypes
  <2>5. SharedTypes' /\ ClaimedMaySend'
    BY <1>4 DEF Update, channel, money, locks, dispatcher, SharedTypes, ClaimedMaySend
  <2> QED  BY <2>1, <2>4, <2>5
<1>5. CASE Count(h)
  <2>1. HandlerTypes' /\ \A g \in Handlers : Busy(g)'
    BY <1>5, TypeContinue DEF Count
  <2>2. event[h].kind \in {"delivered", "read", "failed"}
    BY <1>5 DEF Count, Busy
  <2>3. counted[event[h].msg][event[h].kind] \in 0..MaxCount
    BY <1>0, <1>5, <2>2 DEF Count, SharedTypes
  <2>4. Smaller(counted[event[h].msg][event[h].kind] + 1, MaxCount) \in 0..MaxCount
    BY <2>3, WebhooksAssumption DEF WebhooksAssumption, Smaller
  <2>5. PICK c \in 0..MaxCount :
          counted' = [counted EXCEPT ![event[h].msg] = [counted[event[h].msg]
                                                          EXCEPT ![event[h].kind] = c]]
    BY <1>5, <2>4 DEF Count
  <2>6. counted' \in [Msgs -> [delivered : 0..MaxCount, read : 0..MaxCount, failed : 0..MaxCount]]
    BY <1>0, <1>5, <2>2, <2>5 DEF Count, SharedTypes
  <2>7. RowTypes' /\ SharedTypes' /\ ClaimedMaySend'
    BY <1>5, <2>6 DEF Count, rows, channel, money, locks, dispatcher, RowTypes, SharedTypes,
       ClaimedMaySend
  <2> QED  BY <2>1, <2>7
<1>6. CASE RecordFree(h)
  <2>1. HandlerTypes' /\ \A g \in Handlers : Busy(g)'
    BY <1>6, TypeFinish DEF RecordFree
  <2>2. RowTypes' /\ SharedTypes' /\ ClaimedMaySend'
    BY <1>6 DEF RecordFree, channel, money, locks, dispatcher, RowTypes, SharedTypes,
       ClaimedMaySend
  <2> QED  BY <2>1, <2>2
<1>7. CASE LockSubscription(h)
  <2>1. (quota > 0) \in BOOLEAN
    BY DEF SharedTypes
  <2>2. PICK b \in BOOLEAN : tx' = [tx EXCEPT ![h] = [@ EXCEPT !.usouCota = b]]
    BY <1>7, <2>1 DEF LockSubscription
  <2>3. tx' \in [Handlers -> [usouCota : BOOLEAN, currentBalance : Nat]]
    BY <2>2, Zenon DEF HandlerTypes
  <2>4. HandlerTypes' /\ \A g \in Handlers : Busy(g)'
    BY <1>7, <2>3, TypeGoto DEF LockSubscription
  <2>5. RowTypes' /\ SharedTypes' /\ ClaimedMaySend'
    BY <1>7 DEF LockSubscription, rows, channel, money, dispatcher, RowTypes, SharedTypes,
       ClaimedMaySend
  <2> QED  BY <2>4, <2>5
<1>8. CASE LockWallet(h)
  <2>1. tx' = [tx EXCEPT ![h] = [tx[h] EXCEPT !.currentBalance = balance]]
    BY <1>8 DEF LockWallet
  <2>2. tx' \in [Handlers -> [usouCota : BOOLEAN, currentBalance : Nat]]
    BY <2>1 DEF HandlerTypes, SharedTypes
  <2>3. HandlerTypes' /\ \A g \in Handlers : Busy(g)'
    BY <1>8, <2>2, TypeGoto DEF LockWallet
  <2>4. RowTypes' /\ SharedTypes' /\ ClaimedMaySend'
    BY <1>8 DEF LockWallet, rows, channel, money, dispatcher, RowTypes, SharedTypes,
       ClaimedMaySend
  <2> QED  BY <2>3, <2>4
<1>9. CASE Debit(h)
  <2>1. HandlerTypes' /\ \A g \in Handlers : Busy(g)'
    BY <1>9, TypeFinish DEF Debit
  <2>2. tx[h].currentBalance \in Nat /\ Price \in Nat
    BY WebhooksAssumption DEF WebhooksAssumption, HandlerTypes
  <2>3. \A c \in {0, Price} : Clamped(tx[h].currentBalance - c) \in Nat
    BY <2>2 DEF Clamped, Larger
  <2>4. balance' \in Nat /\ ledger' \in Int /\ covered' \in Nat /\ quota' \in Int
    BY <1>9, <2>2, <2>3 DEF Debit, SharedTypes
  <2>5. debits' \subseteq Msgs \X (1..MaxSends)
    BY <1>0, <1>9 DEF Debit, SharedTypes
  <2>6. walletLock' \in Handlers \cup {NoOne} /\ subLock' \in Handlers \cup {NoOne}
    BY <1>9 DEF Debit, ReleaseLocks, SharedTypes
  <2>7. RowTypes' /\ SharedTypes' /\ ClaimedMaySend'
    BY <1>9, <2>4, <2>5, <2>6 DEF Debit, channel, dispatcher, RowTypes, SharedTypes,
       ClaimedMaySend
  <2> QED  BY <2>1, <2>7
<1>10. CASE Abort(h)
  <2>1. HandlerTypes' /\ \A g \in Handlers : Busy(g)'
    BY <1>10, TypeFinish DEF Abort
  <2>2. walletLock' \in Handlers \cup {NoOne} /\ subLock' \in Handlers \cup {NoOne}
    BY <1>10 DEF Abort, ReleaseLocks, SharedTypes
  <2>3. RowTypes' /\ SharedTypes' /\ ClaimedMaySend'
    BY <1>10, <2>2 DEF Abort, rows, channel, money, dispatcher, RowTypes, SharedTypes,
       ClaimedMaySend
  <2> QED  BY <2>1, <2>3
<1> QED
  BY <1>1, <1>2, <1>3, <1>4, <1>5, <1>6, <1>7, <1>8, <1>9, <1>10, TypeReceive DEF HandlerStep

(* The customer, Meta's alerts and time.                                   *)
LEMMA TypeOthers ==
  ASSUME TypeInv,
         LimparPausasVencidas \/ AccountAlert \/ SaveChannel \/ ClearPauseAlert \/ TopUp \/ Tick
  PROVE  TypeInv'
<1> USE WebhooksAssumption DEF WebhooksAssumption, TypeInv, TypeOK
<1>1. CASE LimparPausasVencidas \/ AccountAlert \/ SaveChannel \/ ClearPauseAlert \/ TopUp
  <2>1. RowTypes' /\ HandlerTypes' /\ ClaimedMaySend' /\ \A h \in Handlers : Busy(h)'
    BY <1>1 DEF LimparPausasVencidas, AccountAlert, SaveChannel, ClearPauseAlert, TopUp, rows,
       dispatcher, handler, RowTypes, HandlerTypes, ClaimedMaySend, Busy
  <2>2. /\ counted' = counted /\ fate' = fate /\ sends' = sends /\ inHand' = inHand
        /\ retries' = retries /\ debits' = debits /\ quota' = quota /\ covered' = covered
        /\ walletLock' = walletLock /\ subLock' = subLock
    BY <1>1 DEF LimparPausasVencidas, AccountAlert, SaveChannel, ClearPauseAlert, TopUp,
       dispatcher, money, locks
  <2>3. pausedFor' \in Nat /\ alert' \in {"none", "dispatcher_pause", "meta"}
    BY <1>1 DEF LimparPausasVencidas, AccountAlert, SaveChannel, ClearPauseAlert, TopUp,
       channel, SharedTypes
  <2>4. saving' \in BOOLEAN
    BY <1>1, Zenon DEF LimparPausasVencidas, AccountAlert, SaveChannel, ClearPauseAlert, TopUp,
       channel, SharedTypes
  <2>5. balance' \in Nat /\ ledger' \in Int /\ credits' \in 0..MaxCredits
    BY <1>1 DEF LimparPausasVencidas, AccountAlert, SaveChannel, ClearPauseAlert, TopUp,
       money, SharedTypes
  <2>6. SharedTypes'
    BY <2>2, <2>3, <2>4, <2>5 DEF SharedTypes
  <2> QED  BY <2>1, <2>6
<1>2. CASE Tick
  <2>1. /\ wait' \in [Msgs -> Nat] /\ pausedFor' \in Nat /\ until' \in [Handlers -> Nat]
    BY <1>2 DEF Tick, Minus1, RowTypes, SharedTypes, HandlerTypes
  <2>2. \A h \in Handlers : (IF hpc[h] # "idle" THEN busy[h] + 1 ELSE 0) \in 0..MaxHandling
    BY <1>2 DEF Tick, HandlerTypes
  <2>3. busy' \in [Handlers -> 0..MaxHandling]
    BY <1>2, <2>2 DEF Tick
  <2>4. \A h \in Handlers : Busy(h)'
    BY <1>2 DEF Tick, HandlerTypes, Busy
  <2>5. RowTypes' /\ HandlerTypes'
    BY <1>2, <2>1, <2>3 DEF Tick, RowTypes, HandlerTypes
  <2>6. SharedTypes' /\ ClaimedMaySend'
    BY <1>2, <2>1 DEF Tick, money, locks, dispatcher, SharedTypes, ClaimedMaySend
  <2> QED  BY <2>4, <2>5, <2>6
<1> QED  BY <1>1, <1>2

LEMMA TypeStep == TypeInv /\ MoneyInv /\ [Next]_vars => TypeInv'
<1> SUFFICES ASSUME TypeInv, MoneyInv, [Next]_vars  PROVE TypeInv'
  OBVIOUS
<1>1. CASE UNCHANGED vars
  BY <1>1 DEF TypeInv, TypeOK, RowTypes, SharedTypes, HandlerTypes, Busy, ClaimedMaySend, vars,
     rows, channel, money, locks, dispatcher, handler
<1> QED  BY <1>1, TypeDispatcher, TypeHandlerStep, TypeOthers DEF Next

(* Every variable stays in its type: a status, a wamid and a class of      *)
(* error are always of the sets that the schema and Meta define, and a     *)
(* handler never outlives its allowance.                                   *)
THEOREM TypeCorrect == Spec => []TypeOK
<1>1. TypeInv => TypeOK
  BY DEF TypeInv
<1> QED  BY <1>1, TypeInit, TypeStep, MoneyInvariant, PTL DEF Spec
-----------------------------------------------------------------------------
(* Only recordPricing touches billing_recorded_at, and where the message   *)
(* is not free it does so with the debit.                                  *)
LEMMA BilledStep ==
  ASSUME TypeInv, BilledIffDebited, [Next]_vars
  PROVE  BilledIffDebited'
<1> USE DEF TypeInv, TypeOK
<1>1. CASE billed' = billed /\ debits' = debits
  BY <1>1 DEF BilledIffDebited
<1>2. ASSUME NEW h \in Handlers, RecordFree(h)
      PROVE  BilledIffDebited'
  <2>1. category[event[h].msg] = "free" /\ debits' = debits
    BY <1>2 DEF RecordFree, Busy, money
  <2>2. \A m \in Msgs : category[m] # "free" => billed'[m] = billed[m]
    BY <1>2, <2>1 DEF RecordFree, RowTypes
  <2> QED  BY <2>1, <2>2 DEF BilledIffDebited
<1>3. ASSUME NEW h \in Handlers, Debit(h)
      PROVE  BilledIffDebited'
  <2>1. PICK m \in Msgs, j \in 1..MaxSends : m = event[h].msg /\ j = seen[h].wamid
    BY <1>3 DEF Debit, Busy
  <2>2. billed' = [billed EXCEPT ![m] = TRUE] /\ debits' = debits \cup {<<m, j>>}
    BY <1>3, <2>1 DEF Debit, Inserted
  <2>3. billed'[m] /\ <<m, j>> \in debits'
    BY <2>2 DEF RowTypes
  <2>4. \A n \in Msgs \ {m} : billed'[n] = billed[n]
    BY <2>2 DEF RowTypes
  <2>5. \A n \in Msgs \ {m}, k \in 1..MaxSends : <<n, k>> \in debits' <=> <<n, k>> \in debits
    BY <2>2
  <2> QED  BY <2>3, <2>4, <2>5 DEF BilledIffDebited
<1>4. ASSUME NEW h \in Handlers, HandlerStep(h), ~RecordFree(h), ~Debit(h)
      PROVE  billed' = billed /\ debits' = debits
  BY <1>4 DEF HandlerStep, Receive, PausarCanal, PushQueued, Requeue, Update, Recorded, Count,
     LockSubscription, LockWallet, Abort, rows, money
<1>5. ASSUME NEW m \in Msgs, Claim(m) \/ Post(m) \/ MarkSent(m) \/ Retry(m) \/ Refuse(m)
      PROVE  billed' = billed /\ debits' = debits
  BY <1>5 DEF Claim, Post, MarkSent, Retry, Refuse, rows, money
<1>6. CASE LimparPausasVencidas \/ AccountAlert \/ SaveChannel \/ ClearPauseAlert \/ TopUp
           \/ Tick \/ UNCHANGED vars
  BY <1>1, <1>6 DEF LimparPausasVencidas, AccountAlert, SaveChannel, ClearPauseAlert, TopUp,
     Tick, vars, rows, money
<1> QED  BY <1>1, <1>2, <1>3, <1>4, <1>5, <1>6 DEF Next

(***************************************************************************)
(* A message is recorded as billed exactly when its debit is in the ledger  *)
(* (recordPricing writes both in one transaction), whatever fails and       *)
(* however often Meta reports the price.                                    *)
(***************************************************************************)
THEOREM BilledAlwaysDebited == Spec => []BilledIffDebited
<1>1. Init => BilledIffDebited
  BY DEF Init, BilledIffDebited
<1>2. Spec => []TypeInv
  BY TypeInit, TypeStep, MoneyInvariant, PTL DEF Spec
<1>3. TypeInv /\ BilledIffDebited /\ [Next]_vars => BilledIffDebited'
  BY BilledStep
<1> QED  BY <1>1, <1>2, <1>3, PTL DEF Spec
-----------------------------------------------------------------------------
(***************************************************************************)
(* Why a handler may write a row by its id alone.  The row cannot have      *)
(* moved on to another send while a handler writes about its last one:      *)
(* the first of them that requeued it made it wait for the end of the       *)
(* pause, and no request lives that long.                                   *)
(***************************************************************************)
RowFits(m) ==
  /\ inHand[m] # "no" <=> status[m] = "sending"
  /\ status[m] \in {"queued", "sending"} => wamid[m] = 0
  /\ wamid[m] # 0 => wamid[m] = sends[m] /\ attempts[m] = retries[m] + 1
  /\ status[m] = "queued" => attempts[m] = retries[m]
  /\ status[m] = "sending" => attempts[m] = retries[m] + 1
  /\ status[m] = "failed" => \/ attempts[m] >= MaxAttempts
                             \/ \E k \in 1..MaxSends : fate[<<m, k>>] = "mensagem"
  /\ \A k \in 1..MaxSends : fate[<<m, k>>] = "delivered" =>
       k = sends[m] /\ status[m] # "queued" /\ inHand[m] # "claimed"

Pausing(h) == hpc[h] \in {"pause", "push", "requeue"}
Writing(h) == Pausing(h) \/ hpc[h] = "update"

HandlerFits(h) ==
  LET m == event[h].msg IN
  /\ Writing(h) =>
       /\ seen[h].wamid = sends[m] /\ seen[h].attempts = retries[m] + 1
       /\ event[h].class = fate[<<m, sends[m]>>]
       /\ status[m] # "sending"
       /\ status[m] = "queued" => wait[m] + busy[h] >= PauseRateLimit - MaxHandling
       /\ seen[h].attempts >= MaxAttempts => attempts[m] >= MaxAttempts
  /\ Pausing(h) => /\ until[h] + busy[h] >= PauseRateLimit
                   /\ event[h].class \in {"ratelimit", "conta"}
  /\ hpc[h] = "requeue" => seen[h].attempts < MaxAttempts
  /\ hpc[h] = "update" /\ event[h].kind = "failed" =>
       event[h].class = "mensagem" \/ seen[h].attempts >= MaxAttempts

RowsFit     == \A m \in Msgs : RowFits(m)
HandlersFit == \A h \in Handlers : HandlerFits(h)

LEMMA RefusalInit == Init => RowsFit /\ HandlersFit
<1> SUFFICES ASSUME Init PROVE RowsFit /\ HandlersFit
  OBVIOUS
<1>1. RowsFit
  BY WebhooksAssumption DEF WebhooksAssumption, Init, RowsFit, RowFits
<1>2. HandlersFit
  BY DEF Init, HandlersFit, HandlerFits, Pausing, Writing
<1> QED  BY <1>1, <1>2

(* A row that a step leaves alone.                                         *)
LEMMA RowKept ==
  ASSUME NEW m \in Msgs, RowFits(m),
         status'[m] = status[m], attempts'[m] = attempts[m], wamid'[m] = wamid[m],
         inHand'[m] = inHand[m], sends'[m] = sends[m], retries'[m] = retries[m],
         \A k \in 1..MaxSends : fate'[<<m, k>>] = fate[<<m, k>>]
  PROVE  RowFits(m)'
BY DEF RowFits

(* A handler whose row a step leaves alone, or makes wait longer.          *)
LEMMA HandlerKept ==
  ASSUME TypeInv, TypeInv', NEW h \in Handlers, HandlerFits(h),
         hpc'[h] = hpc[h], event'[h] = event[h], seen'[h] = seen[h],
         until'[h] + busy'[h] >= until[h] + busy[h],
         Writing(h) =>
           LET m == event[h].msg IN
           /\ sends'[m] = sends[m] /\ retries'[m] = retries[m]
           /\ fate'[<<m, sends[m]>>] = fate[<<m, sends[m]>>]
           /\ status'[m] # "sending"
           /\ status'[m] = "queued" => wait'[m] + busy'[h] >= PauseRateLimit - MaxHandling
           /\ seen[h].attempts >= MaxAttempts => attempts'[m] >= MaxAttempts
  PROVE  HandlerFits(h)'
<1> USE WebhooksAssumption DEF WebhooksAssumption
<1>1. /\ until[h] \in Nat /\ until'[h] \in Nat /\ busy[h] \in Nat /\ busy'[h] \in Nat
  BY DEF TypeInv, TypeOK, HandlerTypes
<1>2. Writing(h)' = Writing(h) /\ Pausing(h)' = Pausing(h)
  BY DEF Writing, Pausing
<1> QED  BY <1>1, <1>2 DEF HandlerFits

(* No handler writes about a row that the dispatcher has, or may take.     *)
LEMMA NoWriters ==
  ASSUME TypeInv, HandlersFit, NEW m \in Msgs,
         status[m] = "sending" \/ (status[m] = "queued" /\ wait[m] = 0)
  PROVE  \A h \in Handlers : Writing(h) => event[h].msg # m
<1> SUFFICES ASSUME NEW h \in Handlers, Writing(h), event[h].msg = m
             PROVE  FALSE
  OBVIOUS
<1>1. busy[h] \in 0..MaxHandling
  BY DEF TypeInv, TypeOK, HandlerTypes
<1>2. /\ status[m] # "sending"
      /\ status[m] = "queued" => wait[m] + busy[h] >= PauseRateLimit - MaxHandling
  BY DEF HandlersFit, HandlerFits
<1> QED  BY <1>1, <1>2, WebhooksAssumption DEF WebhooksAssumption

(* The other handlers, when one of them leaves the rows alone.             *)
LEMMA OthersFit ==
  ASSUME TypeInv, TypeInv', RowsFit, HandlersFit, NEW h \in Handlers,
         UNCHANGED <<status, attempts, wait, wamid, dispatcher>>,
         \A g \in Handlers \ {h} : /\ hpc'[g] = hpc[g] /\ event'[g] = event[g]
                                   /\ seen'[g] = seen[g] /\ until'[g] = until[g]
                                   /\ busy'[g] = busy[g]
  PROVE  RowsFit' /\ \A g \in Handlers \ {h} : HandlerFits(g)'
<1>1. RowsFit'
  BY RowKept DEF RowsFit, dispatcher
<1>2. ASSUME NEW g \in Handlers \ {h}  PROVE HandlerFits(g)'
  BY <1>2 DEF HandlersFit, HandlerFits, Writing, Pausing, dispatcher
<1> QED  BY <1>1, <1>2

(* A handler that has no row to write any more.                            *)
LEMMA RefusalLeaves ==
  ASSUME TypeInv, TypeInv', RowsFit, HandlersFit, NEW h \in Handlers,
         UNCHANGED <<status, attempts, wait, wamid, dispatcher>>,
         \A g \in Handlers \ {h} : /\ hpc'[g] = hpc[g] /\ event'[g] = event[g]
                                   /\ seen'[g] = seen[g] /\ until'[g] = until[g]
                                   /\ busy'[g] = busy[g],
         hpc'[h] \notin {"pause", "push", "requeue", "update"}
  PROVE  RowsFit' /\ HandlersFit'
<1>1. HandlerFits(h)'
  BY DEF HandlerFits, Writing, Pausing
<1> QED  BY <1>1, OthersFit DEF HandlersFit

(* The dispatcher: a claimed row has no writers, and a refusal makes the   *)
(* other rows wait longer.                                                 *)
LEMMA RefusalDispatcher ==
  ASSUME TypeInv, TypeInv', RowsFit, HandlersFit, NEW m \in Msgs,
         Claim(m) \/ Post(m) \/ MarkSent(m) \/ Retry(m) \/ Refuse(m)
  PROVE  RowsFit' /\ HandlersFit'
<1> USE WebhooksAssumption DEF WebhooksAssumption, TypeInv, TypeOK, RowTypes, SharedTypes
<1>1. status[m] = "sending" \/ (status[m] = "queued" /\ wait[m] = 0)
  BY DEF RowsFit, RowFits, Claim, Post, MarkSent, Retry, Refuse
<1>2. \A h \in Handlers : Writing(h) => event[h].msg # m
  BY <1>1, NoWriters
<1>3. \A n \in Msgs \ {m} : /\ status'[n] = status[n] /\ attempts'[n] = attempts[n]
                            /\ wamid'[n] = wamid[n] /\ inHand'[n] = inHand[n]
                            /\ sends'[n] = sends[n] /\ retries'[n] = retries[n]
                            /\ wait'[n] >= wait[n]
  <2>1. CASE Claim(m) \/ MarkSent(m) \/ Retry(m)
    BY <2>1 DEF Claim, MarkSent, Retry, rows
  <2>2. CASE Post(m)
    BY <2>2 DEF Post, rows
  <2>3. CASE Refuse(m)
    BY <2>3 DEF Refuse, Larger
  <2> QED  BY <2>1, <2>2, <2>3
<1>4. \A n \in Msgs \ {m}, k \in 1..MaxSends : fate'[<<n, k>>] = fate[<<n, k>>]
  <2>1. CASE fate' = fate
    BY <2>1
  <2>2. CASE Post(m)
    <3>1. PICK f \in Fates : fate' = [fate EXCEPT ![<<m, sends[m] + 1>>] = f]
      BY <2>2 DEF Post
    <3> QED  BY <3>1
  <2> QED  BY <2>1, <2>2 DEF Claim, MarkSent, Retry, Refuse
<1>5. \A n \in Msgs \ {m} : RowFits(n)'
  BY <1>3, <1>4, RowKept DEF RowsFit
<1>6. RowFits(m)'
  <2>0. RowFits(m)
    BY DEF RowsFit
  <2>1. CASE Claim(m)
    BY <2>0, <2>1 DEF Claim, RowFits
  <2>2. CASE Post(m)
    <3>1. PICK f \in Fates : fate' = [fate EXCEPT ![<<m, sends[m] + 1>>] = f]
      BY <2>2 DEF Post
    <3>2. sends[m] + 1 \in 1..MaxSends
      BY <2>2 DEF Post, ClaimedMaySend
    <3>3. \A k \in 1..MaxSends : k # sends[m] + 1 => fate'[<<m, k>>] # "delivered"
      BY <2>0, <2>2, <3>1 DEF Post, RowFits
    <3>4. /\ status'[m] = "sending" /\ wamid'[m] = 0 /\ inHand'[m] = "posted"
          /\ attempts'[m] = retries'[m] + 1 /\ sends'[m] = sends[m] + 1
      BY <2>0, <2>2 DEF Post, RowFits, rows
    <3> QED  BY <3>3, <3>4 DEF RowFits
  <2>3. CASE MarkSent(m)
    <3>1. /\ status'[m] = "sent" /\ wamid'[m] = sends'[m] /\ inHand'[m] = "no"
          /\ attempts'[m] = retries'[m] + 1
      BY <2>0, <2>3 DEF MarkSent, RowFits
    <3> QED  BY <2>0, <2>3, <3>1 DEF MarkSent, RowFits
  <2>4. CASE Retry(m)
    <3>1. /\ status'[m] = IF attempts[m] >= MaxAttempts THEN "failed" ELSE "queued"
          /\ attempts'[m] = attempts[m] /\ retries'[m] = attempts[m]
          /\ wamid'[m] = 0 /\ inHand'[m] = "no" /\ sends' = sends /\ fate' = fate
      BY <2>0, <2>4 DEF Retry, RowFits
    <3>2. \A k \in 1..MaxSends : fate'[<<m, k>>] # "delivered"
      BY <2>0, <2>4 DEF Retry, RowFits
    <3> QED  BY <3>1, <3>2 DEF RowFits
  <2>5. CASE Refuse(m)
    <3>1. /\ status'[m] = "queued" /\ attempts'[m] = retries'[m]
          /\ wamid'[m] = 0 /\ inHand'[m] = "no"
      BY <2>0, <2>5 DEF Refuse, RowFits, Minus1
    <3>2. \A k \in 1..MaxSends : fate'[<<m, k>>] # "delivered"
      BY <2>0, <2>5 DEF Refuse, RowFits
    <3> QED  BY <3>1, <3>2 DEF RowFits
  <2> QED  BY <2>1, <2>2, <2>3, <2>4, <2>5
<1>7. \A h \in Handlers : HandlerFits(h)'
  <2> SUFFICES ASSUME NEW h \in Handlers  PROVE HandlerFits(h)'
    OBVIOUS
  <2>1. UNCHANGED <<hpc, event, seen, until, busy>>
    BY DEF Claim, Post, MarkSent, Retry, Refuse, handler
  <2>2. Writing(h) => event[h].msg \in Msgs \ {m} /\ sends[event[h].msg] \in 1..MaxSends
    BY <1>2 DEF Busy, Writing, Pausing, HandlersFit, HandlerFits
  <2>3. busy[h] \in Nat /\ until[h] \in Nat
    BY DEF HandlerTypes
  <2>4. Writing(h) =>
          LET n == event[h].msg IN
          /\ status[n] # "sending"
          /\ status[n] = "queued" => wait[n] + busy[h] >= PauseRateLimit - MaxHandling
          /\ seen[h].attempts >= MaxAttempts => attempts[n] >= MaxAttempts
    BY DEF HandlersFit, HandlerFits
  <2>5. Writing(h) =>
          LET n == event[h].msg IN
          /\ sends'[n] = sends[n] /\ retries'[n] = retries[n]
          /\ fate'[<<n, sends[n]>>] = fate[<<n, sends[n]>>]
          /\ status'[n] # "sending"
          /\ status'[n] = "queued" => wait'[n] + busy'[h] >= PauseRateLimit - MaxHandling
          /\ seen[h].attempts >= MaxAttempts => attempts'[n] >= MaxAttempts
    BY <1>3, <1>4, <2>1, <2>2, <2>3, <2>4
  <2>6. HandlerFits(h)
    BY DEF HandlersFit
  <2> QED  BY <2>1, <2>3, <2>5, <2>6, HandlerKept
<1> QED  BY <1>5, <1>6, <1>7 DEF RowsFit, HandlersFit

(* One handler's statement leaves the others where they are.               *)
LEMMA OneMoves ==
  ASSUME TypeInv, NEW h \in Handlers,
         \/ Finish(h)
         \/ \E l : Goto(h, l) /\ UNCHANGED <<event, seen, until, busy>>
  PROVE  \A g \in Handlers \ {h} : /\ hpc'[g] = hpc[g] /\ event'[g] = event[g]
                                   /\ seen'[g] = seen[g] /\ until'[g] = until[g]
                                   /\ busy'[g] = busy[g]
BY DEF TypeInv, TypeOK, HandlerTypes, Finish, Goto

LEMMA ContinueMoves ==
  ASSUME TypeInv, NEW h \in Handlers,
         ContinueAt(h, Prices(h)) \/ ContinueAt(h, "count")
  PROVE  /\ Finish(h) \/ \E l : Goto(h, l) /\ UNCHANGED <<event, seen, until, busy>>
         /\ hpc'[h] \in {"idle", "count", "free", "quota", "wallet"}
<1>1. hpc \in [Handlers -> {"idle", "pause", "push", "requeue", "update", "count", "free",
                            "quota", "wallet", "debit"}]
  BY DEF TypeInv, TypeOK, HandlerTypes
<1>2. PICK l \in {"idle", "count", "free", "quota", "wallet"} : ContinueAt(h, l)
  BY DEF Prices
<1>3. CASE l = "idle"
  BY <1>1, <1>2, <1>3 DEF ContinueAt, Finish, Goto
<1>4. CASE l # "idle"
  BY <1>1, <1>2, <1>4 DEF ContinueAt, Goto, handler
<1> QED  BY <1>3, <1>4

LEMMA RefusalReceive ==
  ASSUME TypeInv, TypeInv', RowsFit, HandlersFit, NEW h \in Handlers, Receive(h)
  PROVE  RowsFit' /\ HandlersFit'
<1> USE DEF TypeInv, TypeOK
<1>a. PICK m \in Msgs, k \in 1..MaxSends, kind \in {"sent", "delivered", "read", "failed"},
           priced \in BOOLEAN, l \in {"pause", "update"} : \E u : Reads(h, m, k, kind, priced, l, u)
  BY ReceiveReads
<1>b. PICK u : Reads(h, m, k, kind, priced, l, u)
  BY <1>a
<1>1. /\ hpc[h] = "idle" /\ wamid[m] = k /\ kind \in Kinds(fate[<<m, k>>])
      /\ event' = [event EXCEPT ![h] =
           [msg |-> m, kind |-> kind, class |-> fate[<<m, k>>], priced |-> priced]]
      /\ seen' = [seen EXCEPT ![h] =
           [wamid |-> wamid[m], status |-> status[m], attempts |-> attempts[m],
            delivered |-> delivered[m], read |-> read[m], billed |-> billed[m]]]
      /\ l = "pause" <=> kind = "failed" /\ bloqueiaCanal(fate[<<m, k>>])
      /\ u = IF l = "pause" THEN Secs(fate[<<m, k>>]) ELSE 0
      /\ hpc' = [hpc EXCEPT ![h] = l]
      /\ until' = [until EXCEPT ![h] = u]
  BY <1>b DEF Reads
<1>2. UNCHANGED <<status, attempts, wait, wamid, dispatcher, busy>>
  BY DEF Receive, rows
<1>3. \A g \in Handlers \ {h} : /\ hpc'[g] = hpc[g] /\ event'[g] = event[g]
                                /\ seen'[g] = seen[g] /\ until'[g] = until[g]
                                /\ busy'[g] = busy[g]
  BY <1>1, <1>2 DEF HandlerTypes
<1>4. /\ hpc'[h] = l /\ event'[h].msg = m /\ event'[h].kind = kind
      /\ event'[h].class = fate[<<m, k>>]
      /\ seen'[h].wamid = k /\ seen'[h].attempts = attempts[m] /\ until'[h] = u
      /\ busy'[h] = 0
  BY <1>1, <1>2 DEF HandlerTypes, Busy
<1>5. /\ k = sends[m] /\ attempts[m] = retries[m] + 1
      /\ status[m] \notin {"queued", "sending"}
  BY <1>1 DEF RowsFit, RowFits
<1>6. /\ l = "pause" => /\ u >= PauseRateLimit
                        /\ fate[<<m, k>>] \in {"ratelimit", "conta"}
      /\ l = "update" /\ kind = "failed" => fate[<<m, k>>] = "mensagem"
  BY <1>1, WebhooksAssumption DEF WebhooksAssumption, Secs, bloqueiaCanal, Kinds, SharedTypes
<1>7. u \in Nat
  BY <1>4 DEF HandlerTypes
<1>8. HandlerFits(h)'
  BY <1>1, <1>2, <1>4, <1>5, <1>6, <1>7, WebhooksAssumption
  DEF WebhooksAssumption, HandlerFits, Writing, Pausing, dispatcher
<1> QED  BY <1>2, <1>3, <1>8, OthersFit DEF HandlersFit

LEMMA RefusalPause ==
  ASSUME TypeInv, TypeInv', RowsFit, HandlersFit, NEW h \in Handlers, PausarCanal(h)
  PROVE  RowsFit' /\ HandlersFit'
<1>1. UNCHANGED <<status, attempts, wait, wamid, dispatcher, event, seen, until, busy>>
  BY DEF PausarCanal, rows, handler
<1>2. hpc[h] = "pause" /\ hpc'[h] = "push"
  BY DEF PausarCanal, Goto, TypeInv, TypeOK, HandlerTypes
<1>3. \A g \in Handlers \ {h} : hpc'[g] = hpc[g]
  BY DEF PausarCanal, Goto, TypeInv, TypeOK, HandlerTypes
<1>4. HandlerFits(h)'
  BY <1>1, <1>2 DEF HandlersFit, HandlerFits, Writing, Pausing, dispatcher
<1> QED  BY <1>1, <1>3, <1>4, OthersFit DEF HandlersFit

LEMMA RefusalPush ==
  ASSUME TypeInv, TypeInv', RowsFit, HandlersFit, NEW h \in Handlers, PushQueued(h)
  PROVE  RowsFit' /\ HandlersFit'
<1> USE WebhooksAssumption DEF WebhooksAssumption
<1>1. UNCHANGED <<status, attempts, wamid, dispatcher, event, seen, until, busy>>
  BY DEF PushQueued, handler
<1>2. RowsFit'
  BY <1>1, RowKept DEF RowsFit, dispatcher
<1>3. \A m \in Msgs : wait[m] \in Nat /\ wait'[m] \in Nat /\ wait'[m] >= wait[m]
  BY DEF PushQueued, Larger, TypeInv, TypeOK, RowTypes, HandlerTypes
<1>4. \A g \in Handlers : /\ Writing(g) => event[g].msg \in Msgs
                          /\ busy[g] \in Nat /\ until[g] \in Nat
  BY DEF TypeInv, TypeOK, HandlerTypes, Busy, Writing, Pausing
<1>5. \A g \in Handlers \ {h} : hpc'[g] = hpc[g]
  BY DEF PushQueued, Goto, TypeInv, TypeOK, HandlerTypes
<1>6. ASSUME NEW g \in Handlers \ {h}  PROVE HandlerFits(g)'
  BY <1>1, <1>3, <1>4, <1>5 DEF HandlersFit, HandlerFits, Writing, Pausing, dispatcher
<1>7. /\ hpc[h] = "push"
      /\ hpc'[h] = IF seen[h].attempts >= MaxAttempts THEN "update" ELSE "requeue"
  BY DEF PushQueued, Goto, TypeInv, TypeOK, HandlerTypes
<1>8. seen[h].attempts \in Nat
  BY DEF TypeInv, TypeOK, HandlerTypes
<1>9. HandlerFits(h)'
  BY <1>1, <1>3, <1>4, <1>7, <1>8 DEF HandlersFit, HandlerFits, Writing, Pausing, dispatcher
<1> QED  BY <1>2, <1>6, <1>9 DEF HandlersFit

(* The message goes back with what the other handlers of this send need:   *)
(* it waits, and none of them takes it for a message that has failed.      *)
LEMMA RefusalRequeue ==
  ASSUME TypeInv, TypeInv', RowsFit, HandlersFit, NEW h \in Handlers, Requeue(h)
  PROVE  RowsFit' /\ HandlersFit'
<1> USE WebhooksAssumption DEF WebhooksAssumption, TypeInv, TypeOK, RowTypes, SharedTypes
<1>1. PICK m \in Msgs : m = event[h].msg
  BY DEF Requeue, Busy
<1>2. /\ sends[m] \in 1..MaxSends /\ seen[h].attempts = retries[m] + 1
      /\ fate[<<m, sends[m]>>] \in {"ratelimit", "conta"}
      /\ status[m] # "sending" /\ seen[h].attempts < MaxAttempts
      /\ until[h] + busy[h] >= PauseRateLimit
  BY <1>1 DEF HandlersFit, HandlerFits, Writing, Pausing, Requeue, Busy
<1>3. /\ status' = [status EXCEPT ![m] = "queued"]
      /\ wait' = [wait EXCEPT ![m] = until[h]]
      /\ attempts' = [attempts EXCEPT ![m] = retries[m]]
      /\ wamid' = [wamid EXCEPT ![m] = 0]
      /\ UNCHANGED dispatcher
  <2>1. Undone(seen[h].attempts) = retries[m]
    BY <1>2 DEF Undone, Minus1
  <2> QED  BY <1>1, <2>1 DEF Requeue, NextAttempt
<1>4. RowFits(m)'
  <2>1. /\ status'[m] = "queued" /\ wamid'[m] = 0 /\ attempts'[m] = retries'[m]
        /\ inHand'[m] = "no"
    BY <1>2, <1>3 DEF RowFits, RowsFit, dispatcher
  <2>2. \A k \in 1..MaxSends : fate[<<m, k>>] # "delivered"
    <3>1. \A k \in 1..MaxSends : fate[<<m, k>>] = "delivered" => k = sends[m]
      BY DEF RowFits, RowsFit
    <3>2. fate[<<m, sends[m]>>] # "delivered"
      BY <1>2
    <3> HIDE DEF TypeInv, TypeOK, RowTypes, SharedTypes
    <3> QED  BY <3>1, <3>2
  <2>3. fate' = fate
    BY <1>3 DEF dispatcher
  <2> QED  BY <2>1, <2>2, <2>3 DEF RowFits
<1>5. \A n \in Msgs \ {m} : RowFits(n)'
  BY <1>3, RowKept DEF RowsFit, dispatcher
<1>6. /\ hpc'[h] = "idle"
      /\ \A g \in Handlers \ {h} : /\ hpc'[g] = hpc[g] /\ event'[g] = event[g]
                                   /\ seen'[g] = seen[g] /\ until'[g] = until[g]
                                   /\ busy'[g] = busy[g]
  BY OneMoves DEF Requeue, Finish, Goto, HandlerTypes
<1>7. ASSUME NEW g \in Handlers \ {h}  PROVE HandlerFits(g)'
  <2>1. /\ busy[g] \in 0..MaxHandling /\ busy[h] \in 0..MaxHandling
        /\ until[h] \in Nat /\ until[g] \in Nat
    BY DEF HandlerTypes
  <2>2. CASE event[g].msg = m
    <3>1. Writing(g) => ~(seen[g].attempts >= MaxAttempts)
      BY <1>2, <2>2 DEF HandlersFit, HandlerFits
    <3>2. Writing(g) => wait'[m] + busy'[g] >= PauseRateLimit - MaxHandling
      BY <1>2, <1>3, <1>6, <2>1
    <3>3. /\ status'[m] = "queued" /\ sends' = sends /\ retries' = retries /\ fate' = fate
      BY <1>3 DEF dispatcher
    <3>4. HandlerFits(g) /\ until'[g] + busy'[g] >= until[g] + busy[g]
      BY <1>6, <2>1 DEF HandlersFit
    <3>5. Writing(g) =>
            LET n == event[g].msg IN
            /\ sends'[n] = sends[n] /\ retries'[n] = retries[n]
            /\ fate'[<<n, sends[n]>>] = fate[<<n, sends[n]>>]
            /\ status'[n] # "sending"
            /\ status'[n] = "queued" => wait'[n] + busy'[g] >= PauseRateLimit - MaxHandling
            /\ seen[g].attempts >= MaxAttempts => attempts'[n] >= MaxAttempts
      BY <2>2, <3>1, <3>2, <3>3
    <3> QED  BY <1>6, <3>4, <3>5, HandlerKept
  <2>3. CASE event[g].msg # m
    <3>1. Writing(g) => event[g].msg \in Msgs
      BY DEF Busy, Writing, Pausing
    <3>2. Writing(g) => /\ status'[event[g].msg] = status[event[g].msg]
                        /\ wait'[event[g].msg] = wait[event[g].msg]
                        /\ attempts'[event[g].msg] = attempts[event[g].msg]
      BY <1>3, <2>3, <3>1
    <3>3. sends' = sends /\ retries' = retries /\ fate' = fate
      BY <1>3 DEF dispatcher
    <3>4. HandlerFits(g) /\ until'[g] + busy'[g] >= until[g] + busy[g]
      BY <1>6, <2>1 DEF HandlersFit
    <3>5. Writing(g) =>
            LET n == event[g].msg IN
            /\ status[n] # "sending"
            /\ status[n] = "queued" => wait[n] + busy[g] >= PauseRateLimit - MaxHandling
            /\ seen[g].attempts >= MaxAttempts => attempts[n] >= MaxAttempts
      BY <3>4 DEF HandlerFits
    <3>6. Writing(g) =>
            LET n == event[g].msg IN
            /\ sends'[n] = sends[n] /\ retries'[n] = retries[n]
            /\ fate'[<<n, sends[n]>>] = fate[<<n, sends[n]>>]
            /\ status'[n] # "sending"
            /\ status'[n] = "queued" => wait'[n] + busy'[g] >= PauseRateLimit - MaxHandling
            /\ seen[g].attempts >= MaxAttempts => attempts'[n] >= MaxAttempts
      BY <1>6, <3>2, <3>3, <3>5
    <3> QED  BY <1>6, <3>4, <3>6, HandlerKept
  <2> QED  BY <2>2, <2>3
<1>8. HandlerFits(h)'
  BY <1>6 DEF HandlerFits, Writing, Pausing
<1> QED  BY <1>4, <1>5, <1>7, <1>8 DEF RowsFit, HandlersFit

LEMMA RefusalUpdate ==
  ASSUME TypeInv, TypeInv', RowsFit, HandlersFit, NEW h \in Handlers, Update(h)
  PROVE  RowsFit' /\ HandlersFit'
<1> USE WebhooksAssumption DEF WebhooksAssumption, TypeInv, TypeOK, RowTypes, SharedTypes
<1>1. PICK m \in Msgs : m = event[h].msg
  BY DEF Update, Busy
<1>2. /\ sends[m] \in 1..MaxSends /\ event[h].class = fate[<<m, sends[m]>>]
      /\ status[m] # "sending" /\ event[h].kind \in {"sent", "delivered", "read", "failed"}
      /\ event[h].kind = "failed" => \/ fate[<<m, sends[m]>>] = "mensagem"
                                     \/ attempts[m] >= MaxAttempts
  BY <1>1 DEF HandlersFit, HandlerFits, Writing, Pausing, Update, Busy, HandlerTypes
<1>3. /\ status' = [status EXCEPT ![m] = event[h].kind]
      /\ UNCHANGED <<attempts, wait, wamid, dispatcher>>
  BY <1>1 DEF Update
<1>4. RowFits(m)'
  <2>1. /\ status'[m] = event[h].kind /\ attempts'[m] = attempts[m] /\ wamid'[m] = wamid[m]
        /\ inHand'[m] = "no" /\ sends' = sends /\ retries' = retries /\ fate' = fate
    BY <1>2, <1>3 DEF RowFits, RowsFit, dispatcher
  <2>2. status'[m] \notin {"queued", "sending"}
    BY <1>2, <2>1
  <2>3. status'[m] = "failed" => \/ attempts'[m] >= MaxAttempts
                                \/ \E k \in 1..MaxSends : fate'[<<m, k>>] = "mensagem"
    BY <1>2, <2>1
  <2>4. /\ wamid[m] # 0 => wamid[m] = sends[m] /\ attempts[m] = retries[m] + 1
        /\ \A k \in 1..MaxSends : fate[<<m, k>>] = "delivered" => k = sends[m]
    BY DEF RowFits, RowsFit
  <2> HIDE DEF TypeInv, TypeOK, RowTypes, SharedTypes
  <2> QED  BY <2>1, <2>2, <2>3, <2>4 DEF RowFits
<1>5. \A n \in Msgs \ {m} : RowFits(n)'
  BY <1>3, RowKept DEF RowsFit, dispatcher
<1>6. /\ Finish(h) \/ \E l : Goto(h, l) /\ UNCHANGED <<event, seen, until, busy>>
      /\ hpc'[h] \in {"idle", "count", "free", "quota", "wallet"}
  BY ContinueMoves DEF Update
<1>7. \A g \in Handlers \ {h} : /\ hpc'[g] = hpc[g] /\ event'[g] = event[g]
                                /\ seen'[g] = seen[g] /\ until'[g] = until[g]
                                /\ busy'[g] = busy[g]
  BY <1>6, OneMoves
<1>8. ASSUME NEW g \in Handlers \ {h}  PROVE HandlerFits(g)'
  <2>0. Writing(g) => event[g].msg \in Msgs
    BY DEF Busy, Writing, Pausing
  <2>1. Writing(g) => \/ status'[event[g].msg] = status[event[g].msg]
                      \/ status'[event[g].msg] \notin {"queued", "sending"}
    BY <1>2, <1>3, <2>0
  <2>2. HandlerFits(g)
    BY DEF HandlersFit
  <2>3. Writing(g) =>
          LET n == event[g].msg IN
          /\ sends'[n] = sends[n] /\ retries'[n] = retries[n]
          /\ fate'[<<n, sends[n]>>] = fate[<<n, sends[n]>>]
          /\ wait'[n] = wait[n] /\ attempts'[n] = attempts[n]
    BY <1>3 DEF dispatcher
  <2>4. Writing(g) =>
          LET n == event[g].msg IN
          /\ status[n] # "sending"
          /\ status[n] = "queued" => wait[n] + busy[g] >= PauseRateLimit - MaxHandling
          /\ seen[g].attempts >= MaxAttempts => attempts[n] >= MaxAttempts
    BY <2>2 DEF HandlerFits
  <2>5. Writing(g) =>
          LET n == event[g].msg IN
          /\ sends'[n] = sends[n] /\ retries'[n] = retries[n]
          /\ fate'[<<n, sends[n]>>] = fate[<<n, sends[n]>>]
          /\ status'[n] # "sending"
          /\ status'[n] = "queued" => wait'[n] + busy'[g] >= PauseRateLimit - MaxHandling
          /\ seen[g].attempts >= MaxAttempts => attempts'[n] >= MaxAttempts
    <3> HIDE DEF TypeInv, TypeOK, RowTypes, SharedTypes
    <3>1. busy'[g] = busy[g]
      BY <1>7
    <3> QED  BY <2>1, <2>3, <2>4, <3>1
  <2>6. until'[g] + busy'[g] >= until[g] + busy[g]
    BY <1>7 DEF HandlerTypes
  <2> QED  BY <1>7, <2>2, <2>5, <2>6, HandlerKept
<1>9. HandlerFits(h)'
  BY <1>6 DEF HandlerFits, Writing, Pausing
<1> QED  BY <1>4, <1>5, <1>8, <1>9 DEF RowsFit, HandlersFit

LEMMA RefusalHandler ==
  ASSUME TypeInv, TypeInv', RowsFit, HandlersFit, NEW h \in Handlers, HandlerStep(h)
  PROVE  RowsFit' /\ HandlersFit'
<1>1. CASE Count(h)
  <2>1. UNCHANGED <<status, attempts, wait, wamid, dispatcher>> /\ ContinueAt(h, Prices(h))
    BY <1>1 DEF Count, rows
  <2> QED  BY <2>1, ContinueMoves, OneMoves, RefusalLeaves
<1>2. CASE RecordFree(h) \/ Debit(h) \/ Abort(h)
  <2>1. UNCHANGED <<status, attempts, wait, wamid, dispatcher>> /\ Finish(h)
    BY <1>2 DEF RecordFree, Debit, Abort, rows
  <2>2. hpc'[h] = "idle"
    BY <2>1 DEF Finish, Goto, TypeInv, TypeOK, HandlerTypes
  <2> QED  BY <2>1, <2>2, OneMoves, RefusalLeaves
<1>3. CASE LockSubscription(h) \/ LockWallet(h)
  <2>1. PICK l \in {"wallet", "debit"} : Goto(h, l)
    BY <1>3 DEF LockSubscription, LockWallet
  <2>2. UNCHANGED <<status, attempts, wait, wamid, dispatcher, event, seen, until, busy>>
    BY <1>3 DEF LockSubscription, LockWallet, rows
  <2>3. hpc'[h] = l
    BY <2>1 DEF Goto, TypeInv, TypeOK, HandlerTypes
  <2> QED  BY <2>1, <2>2, <2>3, OneMoves, RefusalLeaves
<1> QED
  BY <1>1, <1>2, <1>3, RefusalReceive, RefusalPause, RefusalPush, RefusalRequeue, RefusalUpdate
  DEF HandlerStep

LEMMA RefusalStep ==
  ASSUME TypeInv, TypeInv', RowsFit, HandlersFit, [Next]_vars
  PROVE  RowsFit' /\ HandlersFit'
<1>1. CASE LimparPausasVencidas \/ AccountAlert \/ SaveChannel \/ ClearPauseAlert \/ TopUp
           \/ UNCHANGED vars
  <2>1. UNCHANGED <<status, attempts, wait, wamid, dispatcher, hpc, event, seen, until, busy>>
    BY <1>1 DEF LimparPausasVencidas, AccountAlert, SaveChannel, ClearPauseAlert, TopUp, vars,
       rows, handler
  <2>2. RowsFit'
    BY <2>1, RowKept DEF RowsFit, dispatcher
  <2>3. HandlersFit'
    BY <2>1 DEF HandlersFit, HandlerFits, Writing, Pausing, dispatcher
  <2> QED  BY <2>2, <2>3
<1>2. CASE Tick
  <2>1. UNCHANGED <<status, attempts, wamid, dispatcher, hpc, event, seen>>
    BY <1>2 DEF Tick
  <2>2. RowsFit'
    BY <2>1, RowKept DEF RowsFit, dispatcher
  <2>3. ASSUME NEW h \in Handlers, Writing(h)  PROVE HandlerFits(h)'
    <3>1. /\ event[h].msg \in Msgs /\ busy[h] \in Nat /\ until[h] \in Nat
          /\ busy'[h] = busy[h] + 1 /\ until'[h] \in Nat /\ until'[h] >= until[h] - 1
      BY <1>2, <2>3 DEF Tick, Minus1, TypeInv, TypeOK, HandlerTypes, Busy, Writing, Pausing
    <3>2. /\ wait[event[h].msg] \in Nat /\ wait'[event[h].msg] \in Nat
          /\ wait'[event[h].msg] >= wait[event[h].msg] - 1
      BY <1>2, <3>1 DEF Tick, Minus1, TypeInv, TypeOK, RowTypes
    <3> QED  BY <2>1, <2>3, <3>1, <3>2, WebhooksAssumption
             DEF WebhooksAssumption, HandlersFit, HandlerFits, Writing, Pausing, dispatcher
  <2>4. ASSUME NEW h \in Handlers, ~Writing(h)  PROVE HandlerFits(h)'
    BY <2>1, <2>4 DEF HandlerFits, Writing, Pausing
  <2> QED  BY <2>2, <2>3, <2>4 DEF HandlersFit
<1> QED  BY <1>1, <1>2, RefusalDispatcher, RefusalHandler DEF Next

LEMMA RefusalInvariant == Spec => [](TypeInv /\ RowsFit /\ HandlersFit)
<1>1. Spec => []TypeInv
  BY TypeInit, TypeStep, MoneyInvariant, PTL DEF Spec
<1>2. TypeInv /\ TypeInv' /\ RowsFit /\ HandlersFit /\ [Next]_vars => RowsFit' /\ HandlersFit'
  BY RefusalStep
<1> QED  BY <1>1, <1>2, RefusalInit, PTL DEF Spec

(***************************************************************************)
(* The requeue of pausarCanalPorErro never pulls a row from under the       *)
(* worker that has it in hand and never brings back a delivered message,    *)
(* for every number of messages, handlers and redeliveries.                 *)
(***************************************************************************)
THEOREM RequeueIsAlwaysSafe == Spec => []RequeueIsSafe
<1>1. RowsFit => RequeueIsSafe
  BY DEF RowsFit, RowFits, RequeueIsSafe
<1> QED  BY <1>1, RefusalInvariant, PTL

(***************************************************************************)
(* A refusal of the channel gives back the attempt it took, and a message   *)
(* fails only for a refusal of its own or for exhausted attempts.           *)
(***************************************************************************)
THEOREM RefusalsAreFree == Spec => []RefusalIsFree
<1>1. RowsFit => RefusalIsFree
  BY DEF RowsFit, RowFits, RefusalIsFree
<1> QED  BY <1>1, RefusalInvariant, PTL
=============================================================================
