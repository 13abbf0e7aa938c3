# Zaplane: TLA+ models, model checking and proofs

Zaplane is a multi-tenant platform that sends WhatsApp messages through Meta's
Cloud API: companies connect their numbers, sync message templates, import
contacts, start campaigns, follow the delivery of every message and pay a
subscription plus a prepaid wallet.  This directory holds its formal models.
Source paths below are relative to the repository; `store.go`,
`worker.go` are under `services/dispatcher/internal/`.

Contents: [1 The system](#1-the-system) · [2 Plan](#2-plan) ·
[3 The models](#3-the-models) · [4 Runs](#4-runs) ·
[5 Divergences](#5-divergences) · [6 Proofs](#6-proofs) · [7 Not modelled](#7-not-modelled)

## 1 The system

Three backend services and a web client share one PostgreSQL database.

```
 web client ──HTTP──> gateway (NestJS) ──SQL──> PostgreSQL <──SQL── dispatcher (Go, n replicas)
                        ^        |                                        |
          webhooks of   |        | Graph API: templates, channels         | Graph API: POST /messages
          Meta and the  |        v                                        v
          payment provider ─── Meta, payment provider <───────────────────┘
```

The dispatcher never talks to the gateway: the queue is the table
`outbound_messages`, and a pause of a channel is a column of
`whatsapp_channels`.  Everything two actors can get wrong together they get
wrong through rows of the database, so rows are the shared state of the models
and one SQL statement (or one transaction) is one atomic step.

### Inventory

| Component | Source (`services/…`) | State it keeps | Operations | What makes it correct |
|---|---|---|---|---|
| Worker pool, lease, reaper | `dispatcher/internal/store`, `worker`, `cmd/dispatcher` | `status`, `attempts`, `locked_by`, `locked_at`, `next_attempt_at`; the local batch of each worker; the process context | claim, renew, post, mark sent / failed / rescheduled, pause, give back, reap, SIGTERM | exclusive lease, no known duplicate, no leak, no lost message, exact counters, free deploys and pauses |
| Error classes, Graph client | `dispatcher/internal/whatsapp` | none | classify an answer of Meta | every answer ends in exactly one outcome |
| Channel cache, token | `dispatcher/internal/worker` | cached channel and token with a TTL | lookup, invalidate | a stale token is not kept after an auth error |
| Rate limiter | `dispatcher/internal/ratelimit/limiter.go` | token bucket per channel | wait | rate per channel |
| Webhooks of Meta | `api-gateway/src/webhooks` | status, counters, pause, alert, ledger, quota of the wallet | delivery status, pause and requeue, debit by billed message, account alert, inbound | redelivered and reordered events are counted and debited once; a pause of the channel holds |
| Billing | `api-gateway/src/billing` | subscription, payments, wallet, ledger, provider events | activate, buy credits, provider events (confirmed, received, overdue, cancelled) | a purchase credits once; a charge extends the period once; nothing is created twice at the provider |
| Subscription guard | `api-gateway/src/common/guards/subscription.guard.ts` | 60 s cache | check, degrade an overdue subscription | an answer is that of the subscription of the last minute |
| Throttling | `api-gateway/src/common/throttler` | fixed window per key | increment, block, sweep | who has a session is refused only for his own requests |
| Campaigns | `api-gateway/src/campaigns`, `web/src/screens/Campanhas.jsx` | campaign status, rows | create (rows of the queue in chunks), cancel | who opted out receives nothing; a cancelled campaign stops; no duplicate without a lost answer |
| Messages, quota | `api-gateway/src/messages`, `common/quota.service.ts` | daily usage | single template, free text, check the quota | the daily quota of recipients |
| Contacts, privacy | `api-gateway/src/contacts`, `privacy` | consent, deletion | create, import, opt-out, remove, erase | an import never restores a consent |
| Channels | `api-gateway/src/channels` | credentials, WABA, pause, alert | manual connection, embedded signup, reconnect, disconnect | reconnecting restores the channel without erasing Meta's account alert |
| Assisted connection | `api-gateway/src/channels/assisted`, `web/src/screens/conexao/ConectarNumeroWizard.jsx` | connection requests and their states; slots of Meta | start, resend code, verify, cancel, report of orphan numbers | one open request per organization and number; slots, codes and PINs are not wasted; an orphan of the report is one |
| Templates | `api-gateway/src/templates` | rows that track templates of Meta | sync, create, submit | no organization sees or sends the template of another one of its WABA |
| Authentication, web session | `api-gateway/src/auth`, `web/src/api/client.js`, `web/src/auth/AuthContext.jsx` | refresh tokens, password-reset tokens, the session of each tab | login, refresh, logout, forgot and reset password; shared renewal in the client | a reset ends every session; the panel itself never causes a reuse |
| Conversations | `api-gateway/src/conversations`, `web/src/screens/Conversas.jsx` | received messages, window of 24 h, selection, polling, composer | receive, open, poll, answer | a text goes to whom it was typed for; the window is that of Meta |
| Lists, members, metrics | `api-gateway/src/…` | rows | queries and single writes | – |
| Importer | `services/importer` (Python) | none | parse a spreadsheet | – |
| Schema | `src/db/migrations` (not under services) | – | unique indexes and checks the code relies on | – |

### How they interact

* A campaign or a single message **inserts** rows with `status = 'queued'`.
* A dispatcher replica **claims** rows (`FOR UPDATE SKIP LOCKED`), POSTs them to
  Meta and writes the outcome.  Replicas race with each other, with their own
  reapers and with the webhooks, always through guarded `UPDATE`s.
* Meta calls the gateway back, at least once and in any order, with `delivered`,
  `read` or `failed` for a `wamid`; a `failed` with a channel error **pauses the
  channel and puts the message back in the queue**, and a billable status
  **debits the wallet**.
* The payment provider delivers its events, at least once and in any order, to
  webhooks that ask it back before they believe a confirmation; the requests of the
  customer meanwhile hold the row lock of the subscription while they call it.
* Every request of the panel passes the rate limit and the guard of the subscription,
  whose caches live in the memory of one process.
* The panel holds a pair of tokens, renews it once for all its requests, and shares
  `localStorage` with its other tabs.
* The dispatcher, the webhooks and the reconnection all write `paused_until` of a
  channel; the dispatcher also clears pauses that have expired.

### Hard behaviours

1. *A lease kept by time.* A worker owns a batch for as long as `locked_at` is
   younger than `STUCK_AFTER_SEC`; it re-stamps the batch while it works
   through it. Nothing but arithmetic on clocks separates a slow worker from a dead one.
2. *Late writers.* A worker that stalled writes outcomes for rows which others
   have since claimed, finished or failed.
3. *Two-statement operations with no transaction.* `ReapStale`, the pause of a
   channel, `MarkSent` and its counter, the handler of a webhook: a crash or
   another actor fits between any two of them.
4. *SIGTERM at any control point*, with a message already in Meta's hands or not.
5. *Answers lost by the network*, of Meta and of the database: it is not known
   whether the effect took place.
6. *At-least-once, unordered events* of Meta and of the payment provider,
   handled concurrently by several gateway processes that read, decide and then write.
7. *External effects that no rollback undoes*: a customer or a charge at the payment
   provider, a number or a template at Meta, between two statements of a handler.
8. *Answers of the network that the panel does not wait for any more*: a renewal, a load
   of another conversation, a submission that is submitted again.
9. *Caches* (subscription 60 s, webhook secret 5 min, channel and token) that may
   be stale when used.

`PROJECT.json` lists each hazard at its line, with the properties that cover it.

## 2 Plan

Order of work, most important behaviour first.  Each model has an `MC` module
with its small instances; modules with proofs have no `RECURSIVE` operator and
state their parameters as `CONSTANTS` with a named assumption.

| # | Modules | About | State |
|---|---|---|---|
| 1 | `Dispatcher`, `MCDispatcher`, `DispatcherProofs` | queue, lease, renewal, pause, shutdown, reaper | done and proved |
| 2 | `Webhooks`, `MCWebhooks`, `WebhooksProofs` | status callbacks, pause and requeue, wallet debit, account alert, against an abstract dispatcher | done and proved |
| 3 | `Wallet`, `Billing`, `MCBilling`, `BillingProofs` | payments: the customer's requests, the provider and its webhooks; `Billing` implements the abstract `Wallet` | done and proved |
| 4 | `Campaigns`, `MCCampaigns`, `CampaignsProofs` | how messages enter the queue: consent, balance, quota, chunks, cancellation | done and proved |
| 5 | `Connection`, `MCConnection`, `ConnectionProofs` | assisted connection of a number, with its wizard and the report of orphans | done and proved |
| 6 | `Sessions`, `MCSessions`, `SessionsAccessProofs` | rotation of refresh tokens, password reset, the session of the web client | done and proved |
| 7 | `Templates`, `MCTemplates`, `TemplatesProofs` | templates of organizations that share a WABA; which WABA an organization works in | done and proved |
| 8 | `AccessPromise`, `Access`, `MCAccess`, `SessionsAccessProofs` | rate limit and subscription guard with their caches, against billing | done and proved |
| 9 | `Inbox`, `MCInbox`, `InboxProofs` | what customers write, the 24-hour window, the conversation on screen | done and proved |
| 10 | `LeaseQueue` | the abstract queue (in nobody's hands, in one worker's, recorded) that `Dispatcher` implements | done and proved |

Composition. The components meet in rows of the database, so a model carries of its
neighbours what they do to the rows it shares: `Webhooks` a small dispatcher (claim, POST,
`MarkSent`), `Campaigns` the claims, outcomes and debits of its rows, `Access` the writes of
billing to the subscription, `Connection` and `Inbox` and `Sessions` the screens of the web client that
call them. `Billing` composes the customer's requests, the provider and the webhooks, and instantiates `Wallet`.

Two abstract specifications say what a component promises: `LeaseQueue`, which the dispatcher implements, and `Wallet`, which billing implements.
Every invariant, action property and refinement of a run is a theorem (section 6).

## 3 The models

### The dispatcher

`Dispatcher.tla` models `store.go`, `worker.go` (the loop, `processarLote`, `process`,
`tratarErroDeCanal`, `marcarFalha`, `pausarCanal`, `devolver`), the reaper goroutine and the shutdown of `main.go`.

**State.** `status`, `attempts`, `lockedBy` are the columns of the row.
`locked_at` and `next_attempt_at` only matter relative to `now()`: `age` is how old the
lock is, `wait` how long until the next attempt, `pausedFor` how long the channel
stays paused.  A worker is a program counter `pc` plus the local variables of
`processarLote` (`batch` = the unvisited tail `msgs[i:]`, `pausados`, `perdidas`, the
clock of `renovarApos`) and of `process` (`cur`, `answer`).  `ctx` is the process's context,
`reaper` says whether a reaper is between the two statements of `ReapStale`.
`counted`, `accepted`, `spent` (POSTs that the channel did not refuse), `torn` (claims whose answer a SIGTERM cancelled)
and `orphans` are history, read by the properties only.

**Actions.** One per statement or handler step:

| Action | Code |
|---|---|
| `ClaimBatch`, `ClaimLost` | `ClaimBatch`, and the same with its answer lost, to the network or to the SIGTERM that cancels it |
| `Skip`, `Start` | the iteration of `processarLote`: message already lost, channel already paused, or go on |
| `RenewAndStart`, `RenewFails`, `ReturnBatch` | `renovarPosse` with `RenovarPosse`, its failure, and the `devolver` that follows |
| `Interrupted`, `Stop` | `ctx.Err()` at the top of an iteration and before the POST; the loop's end |
| `ChannelUnusable`, `Post` | channel or token not available; the POST and its answer (accepted, refused, accepted with the answer lost) |
| `MarkSent`, `MarkFailed`, `Count`, `Reschedule` | the outcomes, the counter as a separate statement |
| `PauseChannel`, `PushQueued`, `ReleaseCurrent`, `ReturnChannel` | `pausarCanal`: pause, push the queue of the channel, give back the message and the rest |
| `ReapExhausted`, `ReapRest`, `ReapFails` | `ReapStale`, statement by statement |
| `Sigterm`, `Crash`, `Tick` | the environment |

Every statement may fail (bounded by `MaxDbFailures`), before or after it took effect where
the code cannot tell.

**Time.** `Tick` advances every clock by one and is enabled at any moment, except that under
`Punctual` a live worker with a batch takes at most `MaxStep` ticks between two
passages of the renewal check.  With `RenewAfter + MaxStep <= StuckAfter` this is what
the comment of `config.go` (lines 22-25) asks of the operator: a threshold above the worst legitimate send.  The code
*assumes* it and does not enforce it: the Graph call has a timeout, but `GetChannel` has no
deadline of its own.  With `Punctual = FALSE` workers stall as long as they like; the properties of the
`stall` run hold even then.

**Constants.** `RenewAfter` is `limiarRenovacao()`, a third of the reaper's threshold; the code also
has a floor of 10 s, and nothing checks that `STUCK_AFTER_SEC` leaves room above it: the assumption is the operator's.

**Abstract.** `LeaseQueue.tla` says what the rest of the system may take the dispatcher for: a message is in the hands of one worker at a
time, who takes it, delivers it at most once as far as anybody knows, and records `sent` exactly if it knows of the delivery; messages are let go together with what was
known of them, and expire only from nobody's hands. `Dispatcher` implements it (`QueueImplemented`, `INSTANCE LeaseQueue WITH ...`): `hands` is what a live worker may
still POST or record (`HandsOf`), `outcome` a final status (`OutcomeOf`), `delivered` the history `accepted`. A claim is a `Take`, a POST that is answered a `Deliver`,
`MarkSent` and `MarkFailed` a `Settle`; a reschedule, a release, a pause, a failed statement, SIGTERM and a crash are `LetGo`; the first statement of the reaper is
`Expire`; ticks, renewals, counters and the return of orphans to the queue change none of it.

### Webhooks of Meta

`Webhooks.tla` models `handleStatus`, `pausarCanalPorErro`, `recordPricing`, `handleAccountAlert`
(`webhooks.service.ts`), the classes of `meta-error-codes.ts`, `saveChannel` (`channels.service.ts`), `LimparPausasVencidas`
(`store.go`) and the purchase of credits as the other writer of the wallet.

*Handlers.* A handler is one HTTP request. `Receive` is its only read: the row, found by wamid, goes into `seen`,
and every later decision (`Raises`, `Prices`, the attempts that `Requeue` gives back) is taken on that copy, as in the code.
Each statement is an action: `PausarCanal`, `PushQueued`, `Requeue`, `Update`, `Count`, `RecordFree`. The transaction of
`recordPricing` is `LockSubscription`, `LockWallet`, `Debit`: the `FOR UPDATE` locks are state, what is read under them is kept in `tx`, and the writes
appear with the commit.  `Abort` ends a handler anywhere and undoes an open transaction.

*Meta* (external). A send is numbered; `fate` is what becomes of it.  Its statuses may be delivered at any time, in any order, any number of
times: a callback whose wamid is in no row is dropped, as in the code.

*The dispatcher* is the abstraction that `LeaseQueue` and section 6 justify: at most one worker has a row in hand. `Claim`, `Post`, `MarkSent`, `Retry`,
`Refuse` are what it does to a row; lost answers, crashes and the reaper are in `Dispatcher` only.

*Time.* A handler takes at most `MaxHandling` ticks and `2 * MaxHandling < PauseRateLimit`: requests last well under the 15 minutes of a pause.
Without it, a handler that sleeps through a whole pause could requeue a message that is being sent again.  The factor 2 is the argument of `RequeueIsSafe`:
the handler that requeues took its `ate` at most `MaxHandling` before, and a handler that still holds the old copy read it before the requeue.

### Payments

`Billing.tla` models `billing.service.ts` and `asaas.provider.ts` for one organization.

*State.* The rows (`sub`, `payment`, `balance`, the ledger `topups`, `processed` events), the lock of the
subscription's row, the provider (`customers`, `psubs`, `charge`, the `events` it has to deliver), and a program counter
with its copies for every request of the customer (`client`) and every webhook in progress (`hook`). The period is counted in months.

*Requests.* `Request` is the validation with `resolveTaxId`; `Lock` the `SELECT … FOR UPDATE`, where the request copies what
the row names and decides what is missing; `CreateCustomer`, `CreateSubscription` (with `fetchFirstPayment`, which may come too early), and
`Commit` with the row of the first charge. A purchase goes on with `CreateCharge` and `CreateRow`, outside the transaction. `Fail`
rolls the database back anywhere and leaves the provider as it is.

*Webhooks.* `Receive` is what `processProviderEvent` reads before its transaction, the provider's own view of the payment included; `Transaction` the
rest, one step because it locks every row it reads. Its cases are `TopUp`, `AddMonth` (the upsert with `WHERE status <> 'paid'`,
on the period read before), `HandlePaymentOverdue` and `HandleSubscriptionCanceled`. `Abort` ends a handler; the event comes again.

*Provider* (external). `Pay`, `PassDue`, `Refund`, `Renew`, `Delete`. Both events of a payment are emitted with it, and every event is
delivered any number of times, in any order.

*Abstract.* `Wallet.tla` says what a ledger promises. `Billing` implements it with one entry per purchase (`CreditedOnce`, an `INSTANCE` with
`ledger <- topups`): a step of the code is one `Post` or leaves wallet and ledger alone.

### Campaigns, messages and contacts

`Campaigns.tla` models how rows get into the queue. A request is a handler with no transaction: `Submit` (or `Look`, for a single message) reads
the contacts and suppresses, `Estimate` takes the price, `Balance` and `Quota` check, `Create` writes the campaign, `EnqueueChunk` its rows, `Finish` the final update, each a
step; `Refuse` and `Die` end it. `Import`, `OptOut`, `Remove`, `Erase` change the consent meanwhile; `CancelRows` and `CancelStatus` are the
two statements of a cancellation. The screen submits again only as its button allows (`MaySubmit`), after `LoseAnswer`.

*Numbers.* `People` are phones as they are stored, and `Normal` is `normalizeBrPhone`: `contacts.create` stores a number as it was typed, a single message looks up and is sent to
its `Normal`, a campaign is sent to the number as stored. A person may thereby have two contacts, with two consents. The instance gives the person both.

*Money.* `Fee` is the price of the template's category for the recipients that the plan does not include. What is billed is another matter: `Deliver` takes any category, as the callback
reports it, against what the plan includes by then, or nothing at all (`DeliverFree`). A repeated callback may take two units of the plan, as `Webhooks` shows.

*Rows.* `Claim`, `Retry`, `Reject`, `Accept` are the dispatcher; `Fail`, `Deliver` and `Refused` what Meta says of a message that it accepted. A handler of a refusal keeps
its row in `refusing` until `Requeue`, which writes `queued` by id whatever the row has become, and once more if the callback was delivered twice. While a row is in `refusing`
nobody claims it, because the pause outlives the handler: that is `RequeueIsSafe`, proved of `Webhooks`.

The history `overlapped`, `exposed`, `repriced` and `stopped` says where the code gives no guarantee: two checks of the quota at a time, a balance checked with rows that are not
billed yet or may come back, a message billed otherwise than it was estimated, and rows that are out of the queue at a cancellation.

### Assisted connection

`Connection.tla` has the screen of each organization, the handlers of the API, the two tables, and Meta. `Enviar` and
the steps behind it (`Insert`, `Add`, `Update` and their failures) are `iniciar`; `Reenviar` (`Sms`, `Count`), `Confirmar`
(`Check`, `Verify`, `Mark`, `Register`, `CreateChannel`, `Close`) and `Cancelar` the other calls. Every await is a boundary between two
steps, every late write is by id, and `Die` ends a handler at any of them. The unique indexes of migration 013 are guards (`Indexed`). Meta adds a number
once, and a slot never comes back. `Orphan` is the query of `reconciliacao.service.ts`.

*Who calls.* A tab waits for one call, but nothing in the API makes the calls of an organization wait for each other. The screen is that of the tab that calls next: `Leave` is a second tab or
user who calls while a call is in progress, a reload, or an answer that does not come. So two `reenviar` may both pass the check of the codes, and two `iniciar` that of the slots; `slips` counts
such calls, and `failed` tells a lost answer or a death from a mere second tab.

*Other channels.* `Manual` is `saveChannel`, behind `connectManual` and `esExchange`: it makes a row for a number that the token can read, verified and registered or not, or takes over the row of its own organization
and keeps its PIN. Rows of the assisted connection are those with a PIN. When `verificar` finds a row it did not make, `CreateChannel` closes on one of its own organization, and
`CreateRefused` ends the request over one of another, with the number registered at Meta.

### Sessions

`Sessions.tla` has the tokens of one user and every tab of his browser. A key is a pair of tokens; an access token may expire before any
request (`Unauthorized`). `Find`, `Consume`, `Issue` are the statements of `refresh`. Reuse is detected in `Find` alone: `Consume`
revokes the token by its id, without another look, so two renewals that both found it valid both go on; `Login`, `Logout` with `Revoke`, `Forgot`, `SendLink`, `CheckLink`, `ResetPassword` the rest of `auth.service.ts`. A tab renews once for
all its calls (`Renews`), copies `localStorage` only on `Load`, and clears it as `client.js` does; `Lose` is an answer that does not arrive.

### Templates

`Templates.tla` has what Meta holds in each WABA, the rows per owner and name, and the channels of each organization, oldest first, because
the oldest active one decides its WABA. A name is modelled by its prefix alone, which is all that `meta-nome.ts` looks at. `Sync`
and `SyncConnected` read the WABA and `Apply` then runs once per template, in any order, on the copy; `Create`, `Insert`, `Submit`, `Record`
are creation and submission. `ConnectManual`, `EsExchange`, `Disconnect` change the WABA in between, `Manage`, `Review`, `Delete` are
the WhatsApp Manager. `legacy` marks organizations with rows from before migration 014.

### Access

`Access.tla` is what a request meets first. `Ask` is the throttler (`Tracker`, `Increment` with its window and its block) and the guard up
to its first await, `Answer` the decision on the row that was read, `Degrade` and `StoreDegraded` the lazy write of `past_due`
and the entry that follows it. `Confirm`, `Overdue` and `Cancel` are the writes of billing to the row. Several users share one address. The history `asked` keeps the requests of each
user in the length of a window. What a customer can tell of it (what was paid, what he asked, what he was answered) and the
properties about that are in `AccessPromise.tla`, which `Access` extends. `MaxHandling` bounds the
time between two steps of a request: the code has no such bound, and one that slept past it would cache an old row for as long again; the property says so.

### Conversations

`Inbox.tla`: a customer writes (`Write`), Meta delivers until a handler has finished (`Insert`, `OptOut`, `Acknowledge`, `Fail`). The screen
selects (`Select`), polls (`Poll`), loads (`Serve`, `Arrive`, `LoseLoad`); `Alive` is the flag that `useResource` closes over. An answer that arrived is
rendered by a step of its own (`Render`), as React does it: a click may come first. Each event of Meta has a number (`id`): two messages of one customer at one instant are two events. A contact is found by
its number with the ninth digit (`Found`): one that was typed without it (`CreateTyped`) is not, until an import or a second creation stores the number in full (`Import`). `Type`, `Enviar`, `SendText`, `Sent` are the
composer and `sendText`. Time is discrete, `WindowLength` stands for 24 hours, and webhooks are late by `MaxDelay` at most.

## 4 Runs

Every run expects no error.

| Run | Bounds | Shows |
|---|---|---|
| `dispatcher_lease` | 2 messages, 2 replicas of one worker (one may be signalled or killed), 1 failed statement, 1 blocking answer, 2 claims per row, `StuckAfter = 1` | `LeaseHeld`, `NoKnownDuplicate`, `HeldOrOrphan`, `DeployAndPauseAreFree` (but for a claim that SIGTERM cancels), and that `LeaseQueue` is implemented (`QueueImplemented`) |
| `dispatcher_stall` | 2 messages, 2 workers in one process that never dies, any stall, 3 claims per row | `CountedOnce`, `FinalIsFinal`, `OnlyHolderOrReaper` without any assumption on time |
| `dispatcher_live` | 1 message, 2 replicas, 2 attempts and 4 claims, 1 failed statement, 1 block | `EveryMessageSettles`, `SigtermStops` |
| `webhooks_billing` | 2 billed messages (one of marketing, with one unit of quota left), 2 handlers, 1 purchase, a balance below one price | `LedgerReconciles`, `ChargedOncePerSend`, `QuotaNotOverdrawn`, `BilledIffDebited` under concurrent redelivery and failing handlers |
| `webhooks_queue` | 1 message, 3 sends, 1 transient failure, 2 handlers, clock, reconnections, alerts | `RequeueIsSafe`, `RefusalIsFree` |
| `billing` | 2 requests at a time and 2 in all, 2 webhooks at a time, 2 charges of which one may fall due and one be refunded, 1 failure | `OneMonthPerCharge`, `RefundedMovesNothing`, `NoDuplicateAtProvider`, and that `Wallet` is implemented (`CreditedOnce`) |
| `campaigns` | 2 phones of one person, 2 requests of any kind, chunks of 1, quota 1, 2 categories with prices 2 and 1, 1 message included, credit 1, 1 surprise (`MaxSurprises`: a change of the base, a lost answer, a death or a refusal of the channel) | `OptOutHolds`, `CancelStops`, `QuotaHolds`, `UnpaidOnlyIfExposed`, `DuplicatesNeedMishap` |
| `connection` | 2 organizations, 2 numbers, 2 handlers, 2 requests, 2 codes of each kind, 1 burned slot, 1 surprise (`MaxSurprises`: a call left to another tab, a lost answer, a death or a number connected by hand) | uniqueness in `TypeOK`, `ChannelIsReady`, `SlotsBounded`, `CodesAndPinAgree`, `OrphansStay` |
| `sessions` | 2 tabs, 2 calls, 2 handlers, 3 pairs of tokens, 1 link, 1 mishap | `EndedStayEnded`, `SessionsSurvive` |
| `templates` | 2 organizations and the platform, 2 handlers, 2 templates, 3 changes, 1 mishap | `RowsAreOwned` |
| `access` | 2 users of one address, `CacheTtl = 1`, window of 2 with a limit of 1, a month of 2 and a grace of 1, clock to 4, 2 webhooks, 3 requests, 1 restart | `AccessFollowsPayment`, `RefusedForOwnRequests` |
| `inbox` | 2 customers, 1 handler, a window of 1 and a delay of 1, clock to 2, 1 contact, typed or in full, 1 message, 2 loads, 1 text, 1 mishap | `RightConversation`, `WindowFollowsCustomer`, `KeywordIsNotLost` |

*Why the bounds are enough.* The conflicts of the queue are between one holder of a row, one
successor and one reaper: two workers and the reapers of two replicas are all three. Two
messages are what it takes to have a message in hand while another of the same batch
waits, which is where renewal, loss and the return of a channel's rest happen.
`StuckAfter = MaxStep = 1` with `RenewAfter = 0` is the tightest setting that the
assumption allows: a message is renewed as soon as any time has passed, and a tick too late makes it stale; each claim, failure and pause beyond the bound only repeats a state
of the smaller counters (`MaxClaims` lets a row exhaust its attempts and be claimed
again).  The lease, outcome and counter properties do not depend on these bounds: they are proved for all values (section 6).

The webhooks need two handlers (one acts on a copy the other made stale), two messages for two debits of one wallet, and
three sends of one message to see a delivered one followed by another send.  Redelivery is not bounded.

Payments race in pairs: two buttons, two webhooks of one charge, a webhook and a request. Two charges allow a purchase next to a
subscription, and redelivery is not bounded; the properties are proved for all numbers.
A campaign is the smallest thing that has a first and a last chunk, so two people and chunks of one; two requests are what
quota, balance and a second submission need. The two phones are those of one person, which is the case in which the formats of a number differ. Surprises share one bound because each is a different way
to reach the same few races: the instance tries every kind at every point, one at a time, and the properties are proved for any number of them. The connection needs a second organization for the indexes to refuse, a second number for
the cap of slots, and two requests to see a number tried, cancelled and tried again, or tried by both organizations. Sessions need a second tab for a shared key, a second call for the shared
renewal, and a third key to tell a renewed one from a copy. Templates need two organizations in one WABA, and three changes of channel or template in between. For `access`
the clock reaches past the month, the grace and the cache. In `inbox` one message of a customer opens and, at time 2, closes the window; two loads
are what a superseded one needs. Each mishap is a crash or a lost answer at any step; a second one repeats the recovery of the first.

*Symmetry* is over messages, requests, users, handlers and so on in runs of invariants and step properties; every property is symmetric in them.
Nothing liveness depends on is symmetric. `CHECK_DEADLOCK FALSE` is in the configurations where the bounds exhaust everything anybody may do, or
where the system may rest: no request, no event, no message.

*Fairness.* The dispatcher's `FairSpec` has weak fairness of each worker's next step, of each reaper and of `Tick`:
the Go runtime schedules the goroutines of a live process, the reaper's ticker fires, time passes. Nothing
is assumed of `Sigterm`, `Crash`, Meta's answers or the database's failures, and a dead process takes
no step.  `Stable` is the replica that survives: without one, messages wait in the queue,
as they should. The other modules state safety only: what they wait for (a payment, a click, a code by SMS) nobody owes them.

## 5 Divergences

Some comments and documents say more than the code does. Where the statement can be written as a formula it is kept in
its module, next to the properties, and TLC refutes it when it takes the place of the properties of the configuration named here.

| Statement | Configuration | What the code says, and does |
|---|---|---|
| `Dispatcher!ExhaustedNeverCirculates` | `DispatcherStall.cfg` | The comment of `ReapStale` (`store.go:354`) says that rows that have exhausted `max_attempts` become final failures, "otherwise they would circulate forever". The method is two statements, each with its own `now()`: a row that crosses the threshold between them is not seen by the first and is put back in the queue by the second (`store.go:387`), and is sent once more than `max_attempts`. |
| `Webhooks!QuotaReconciles` | `WebhooksBilling.cfg`, `InitialQuota = 2` | `recordPricing` (`webhooks.service.ts:492`) decrements the included quota before the `INSERT … ON CONFLICT` that makes the debit idempotent. Two concurrent deliveries of one callback both pass the check of `billing_recorded_at`; the second inserts nothing and still commits its decrement. Lines 418-421 and migration 008 (line 22) say that the quota is decremented once per billed marketing message. The last unit is safe: `QuotaNotOverdrawn` holds. |
| `Webhooks!CountsFirstTransition` | `WebhooksQueue.cfg`, `MaxCount = 2` | The guard of `failedCount` is the status in the row, which any later callback overwrites: `failed`, a late `sent`, `failed` again count two failures. With two handlers it happens to every counter, since both read before either writes. `webhooks.service.ts:286-291` says that redelivery does not count twice. |
| `Webhooks!RefusedGoesBack` | `WebhooksQueue.cfg` | A handler of `sent` that read the row before `pausarCanalPorErro` requeued it, and writes after, leaves a row in `sent` without a wamid: out of the queue and out of reach of every callback, where `webhooks.service.ts:341-342` says that the message goes back to the queue. |
| `Webhooks!PauseNeverShortened` (action) | `WebhooksQueue.cfg` | The callback's pause (`webhooks.service.ts:371`) is an assignment, the dispatcher's a `GREATEST`: a 15-minute pause for the rate replaces a 30-minute one for the account, which `store.go:174-175` rules out and `webhooks.service.ts:344-347` promises to mirror. |
| `Dispatcher!DeployIsFree` | `DispatcherLease.cfg` | The comment of `ReleaseBatch` (`store.go:322-325`) says that a deploy may not consume the customer's quota of retries. A SIGTERM that cancels a `ClaimBatch` in flight (`worker.go:165`) makes the loop return without the rows; if the statement had committed, each of them has spent an attempt that nobody made, and the reaper gives the row back but not the attempt. |
| `Billing!OnlySubscriptionChargesExtend` | `Billing.cfg` | A charge of credits whose row was never written (a crash between the provider and the `INSERT`) resolves to the organization by its reference, finds a subscription with its customer and extends it (`billing.service.ts:719-760`); the comment at 605-614 says that a payment is one of the subscription only on positive evidence. |
| `Campaigns!OneFormat` | `Campaigns.cfg` | `phone.util.ts:1-8` says that inbound messages, contacts and sends use one format, with the ninth digit. `contacts.create` does not (`contacts.service.ts:12-18`, 46-57): the contact that opted out under the number as typed is not found by the hash of the normalized one (`messages.service.ts:46-51`), and the template is sent; of two contacts of one person a campaign looks at each by itself. |
| `Campaigns!WithdrawnStays` (action) | `Campaigns.cfg` | `cancel` withdraws "only what is still in the queue" (`campaigns.service.ts:216`), but what it withdrew may come back: `pausarCanalPorErro` (`webhooks.service.ts:395-410`) writes `queued` by id, so a second delivery of a refusal that was read before puts a canceled row back in the queue, and it is sent. Rows that Meta had accepted at the cancellation come back in the same way. |
| `Campaigns!EstimateIsCeiling` | `Campaigns.cfg` | `assertBalanceFor` "guarantees that the ceiling exists" (`billing.service.ts:128`), and `campaigns.service.ts:82` calls the estimate a ceiling. It is the price of the template's category (`billing.service.ts:161-180`); the debit takes the category of the callback, or the default price (`webhooks.service.ts:440-448`), so a message may go unpaid with nothing else in progress. |
| `Campaigns!NoOrphan` | `Campaigns.cfg` | The rows of a list come from a raw query with the names of the columns: no row has a `phone`, the payload cannot be built, and the campaign stays `queuing` without a message although every check had passed (`campaigns.service.ts:92-94` says that checking first avoids that). The same rows pass the suppression of opt-outs. |
| `Campaigns!OneExtraMessage` | `Campaigns.cfg`, `Credit = 2`, `Included = 0` | The comment of `assertBalanceFor` (`billing.service.ts:128-131`) says that a stale read lets one more message through at worst; a whole campaign passes on the balance that another one is about to use. |
| `Connection!RowMeansReady` | `Connection.cfg` | Migration 013 (lines 4-7) and `assisted.service.ts:463` say that a row of `whatsapp_channels` is a number that is verified, registered and ready. `connectManual` and `esExchange` make rows through `saveChannel` (`channels.service.ts:374-413`), which asks for none of it. |
| `Connection!UsersShareLimits` | `Connection.cfg` | The limits of `iniciar` are counted in the database so that they hold for all the users of an organization together (`assisted.service.ts:135-141`). They are counted before the row of the request exists (157-167) and the slot only counts once the number is recorded (294-302): calls of two users overlap, and each takes one. |
| `Connection!CodesAreLimited` | `Connection.cfg` | `MAX_SMS_24H` (`assisted.service.ts:16`, 343) limits the codes of a request; two `reenviar` that overlap both pass the check and both send. |
| `Connection!UnwarnedCancelIsFree` | `Connection.cfg` | The wizard (`ConectarNumeroWizard.jsx:34-38`) cancels a request in `criando` without a warning, because its number does not exist at Meta yet; between Meta's acceptance and the update (`assisted.service.ts:261-302`) it does. |
| `Sessions!NetworkKeepsSession` (action) | `Sessions.cfg` | `renovarSessao` (`client.js:58`) says that a network failure does not end the session; `request()` (84-90) clears it whenever the renewal gave no token. |

Further observations, each reachable in its model and excluded from a property by a named history variable or a one-sided bound:

* *Payments.* Two confirmations handled together both start from the period that was read first, and a month that was paid for is lost
  (`billing.service.ts:695-703`). A late `OVERDUE` takes a paid row back, and the next event of the payment then grants a second month (636-658; `regressed`).
  `provider_subscription_id` is never cleared, so a cancelled subscription cannot be activated again (229-234).
* *Campaigns.* A cancellation between the chunks and the final update is overwritten by `sending` (`campaigns.service.ts:129`), and
  chunks written after it are sent; a message that was in flight at a cancellation may be sent afterwards (`stopped`). A campaign that is scheduled is never picked up. A contact that opted out and was deleted may still receive a single template.
  Two requests that are checked at the same time may exceed the daily quota (`overlapped`).
* *Connection.* Two overlapping verifications count one code and may register with a PIN that is not the one kept (`assisted.service.ts:400-410`; `raced`).
  Calls that die before the counter (343-363) send codes that are never counted. A number that another organization connects by hand while its code is verified is registered at Meta and then refused (487-500).
* *Sessions.* A refresh past its checks survives a reset (`auth.service.ts:179-181`; `straddled`). Two links may be open
  when two requests for one overlap (145-161). Two tabs with one key, or a logout during a renewal, end every session (`excused`). Two registrations with one address both pass the check (40-58) and the index refuses one.
* *Templates.* The case that `templates.service.ts:370-371` calls unreachable is reached by a change of channel. `findFirst` by `metaTemplateId`
  may find the row of another organization. A template that was deleted and created again conflicts with the old row on every synchronization.
* *Access.* A customer who pays before the period ends may be refused for up to a minute on a cached row. A block ends with its window, although `limpar` keeps blocked keys.
* *Conversations.* An interval that is shorter than the answer cancels every load (`Conversas.jsx:83-94`). An answer that arrived is rendered under the conversation selected since (96-98; `crossed`), and
  the answer to a text of A clears the draft of B (106-119). The keyword of somebody who is not a contact yet is ignored (`webhooks.service.ts:572-592`), and so is that of a contact stored without the ninth digit (`Inbox!OneFormat`, refuted under `Inbox.cfg`: it is the statement of `phone.util.ts` again).
* *Dispatcher.* With a stalled worker (`Punctual = FALSE`) `HeldOrOrphan` fails, so the comment at `store.go:350-352` ("only what really
  is orphaned gets here") holds exactly as long as the assumption on time does.

## 6 Proofs

TLAPS checks all proofs. They hold for every value of the constants that satisfies the named assumption of the module
(`ConstantsAssumption`, `WebhooksAssumption` and so on): any number of messages, workers, requests, handlers, users or organizations, any
number of failures. Every invariant, action property and refinement that a run checks is also proved; the run shows that its cases occur, and looks for
counterexamples first. Each proof follows one pattern: types with what a control point implies for the local copies of its handler, then
the strengthening that is inductive, one lemma per action or per group of actions with the same effect, and temporal logic only at the end.

`DispatcherProofs.tla`, under `ConstantsAssumption`:

| Theorem | States | Needs |
|---|---|---|
| `TypeCorrect` | `Spec => []TypeOK` | – |
| `OutcomeIsFinal` | `FinalIsFinal` | – |
| `OnlyTheHolderReleases` | `OnlyHolderOrReaper` | – |
| `CountersAreExact` | `Spec => []CountedOnce` | – |
| `LeaseIsExclusive` | `Spec => []LeaseHeld` | `Punctual` |
| `NoDuplicateDelivery` | `Spec => []NoKnownDuplicate` | `Punctual` |
| `NoLeakNoFalseOrphan` | `Spec => []HeldOrOrphan` | `Punctual` |
| `DeployAndPauseCostNothing` | `Spec => []DeployAndPauseAreFree` | `Punctual` |
| `DispatcherIsALeaseQueue` | `Spec => QueueImplemented`: the refinement of `LeaseQueue` | `Punctual` |
| `OutcomeIsTrue` | `Spec => [](RecordInv /\ DeliveryInv)` | `Punctual` |

`WebhooksProofs.tla`, for every set of messages and handlers, under `WebhooksAssumption`:

| Theorem | States |
|---|---|
| `LedgerIsExact` | `Spec => []LedgerReconciles` |
| `QuotaIsNeverOverdrawn` | `Spec => []QuotaNotOverdrawn` |
| `NoSendIsPaidTwice` | `Spec => []ChargedOncePerSend` |
| `TypeCorrect` | `Spec => []TypeOK` |
| `BilledAlwaysDebited` | `Spec => []BilledIffDebited` |
| `RequeueIsAlwaysSafe` | `Spec => []RequeueIsSafe` |
| `RefusalsAreFree` | `Spec => []RefusalIsFree` |

*Type correctness.* `TypeOK` alone is not inductive: `MarkSent` reads `channelOf[cur[w]]`, so
`cur[w]` must be a message wherever the program counter says there is one.  `LocalOK` adds that: each control point
with the local variables that are set there, and that the current message is not in the batch any more.

*Counters.* The increment is a separate statement after the guarded update.  `CountInv` adds that a worker
about to count has a final row that nobody counted yet and nobody else is about to count; it is inductive with no assumption on
time, because only the update that makes the row final leads to `count`.

*The lease.* `LeaseHeld` depends on ages: it fails the moment a reaper takes a row from a live
worker.  The invariant is `TimelyAt /\ HeldAt`: what a live worker has in hand is its own row, with an age not above the time since
the last renewal (or the claim) plus nothing, and that time is at most `RenewAfter + step`.  The guard of `Tick` keeps
`step <= MaxStep`, so with `RenewAfter + MaxStep <= StuckAfter` no such row is ever `Stale`, and every
other statement is guarded by `Own`.

*No known duplicate.* Once the lease is exclusive, `DeliveryInv` says where an acceptance that nobody lost can be: none
yet, or one and the row is `sent`, or one and the worker that received it is between the answer and `MarkSent`.

*No leak, no false orphan.* `HeldOrOrphan` says where a row in `sending` is; what keeps it true says more (`HolderInv`): the row is in
the batch or in hand, is not among `perdidas`, belongs to a paused channel only while the rest of that channel is going back, and is no older
than the last renewal. `LockedInv` adds that such a row names a worker at all. A row leaves the invariant only through `orphans`, which a failed statement fills.

*Free deploys and pauses.* Attempts are charged by the claim and given back by the release, so `SpentInv` keeps the books of a row by where it
is: one attempt ahead of the sends and of the claims that were torn while it waits in a batch or was refused by the channel, level with them otherwise. A torn claim is booked in the step in which SIGTERM cancels it. A row of a renewal that was interrupted
may be in `orphans` and must go back before the reaper sees it, which again is the arithmetic of `RenewAfter` and `MaxStep` (`SpentLocal`).

*The abstract queue.* The step simulation (`QueueStep`) is by what an action does to the hands: the steps of a worker that deliver and record nothing take nothing into its hands either (`QuietHands`), so each of
them is a `LetGo`, be it of nothing (`QuietStep`, `LetGoStep`); so is a crash (`CrashStep`). What remains is `TakeStep`, `DeliverStep`, `SettleStep`, `ReapStep`. `LeaseInv` makes hands disjoint and keeps
the reaper away from them; `DeliveryInv` says that what is let go had no known delivery left to record, or is forgotten with it. What a `Settle` writes is right
because of `RecordInv`: a worker that knows of an acceptance knows of one that happened, a row is `sent` only with one and `failed` only without. `RecordInv` is in turn
proved from the refinement (`QueueKnowledge`): a queue only changes what is recorded in a `Settle` or an `Expire`, and what is known of a message in somebody's hands
only by a `Deliver`. `OutcomeIsTrue` states the result for a reader of the table: up to answers that were lost, the recorded outcome is what happened.

*The money of the webhooks.* `MoneyInv` says what the two row locks give: the handler about to debit holds the wallet and its copy of
the balance is the present one (`WalletInv`), and one that will use a unit of the quota holds the subscription while a unit is left
(`QuotaInv`). It is inductive together with the two properties, because `Debit` writes an absolute balance and a relative
quota. `PaidInv` adds that the set of debited sends is finite: each new debit adds one send or one covered send, and deducts at most `Price`.
None of these rest on time or on the number of redeliveries.

*The requeue.* `RequeueIsSafe` and `RefusalIsFree` are about a write by id alone on the strength of a copy, and only time makes it safe. The invariant (`RowsFit`,
`HandlersFit`) says that the copy of a handler that will still write is that of the present send, and that, if another handler requeued the row meanwhile, the row has to
wait for longer than this handler can last: `wait + busy >= PauseRateLimit - MaxHandling`. A claim of the row would need `wait = 0`, so `busy >=
PauseRateLimit - MaxHandling > MaxHandling`: this is where `2 * MaxHandling < PauseRateLimit` is used, and only there.

`BillingProofs.tla`, for every set of requests, webhooks and charges and any number of failures, under `BillingAssumption` (charges are numbered from one on, `Nobody` is no request):

| Theorem | States |
|---|---|
| `TypeCorrect` | `Spec => []TypeOK` |
| `WalletImplemented` | `Spec => CreditedOnce`: the refinement of `Wallet` |
| `ChargesExtendOnce` | `Spec => []OneMonthPerCharge` |
| `RefundsMoveNothing` | `Spec => []RefundedMovesNothing` |
| `NothingTwiceAtProvider` | `Spec => []NoDuplicateAtProvider` |

*Payments.* `TypeInv` adds to `TypeOK` that an event names a charge, that a handler in its transaction has an event of the provider,
and that the lock is held exactly by the request between its `SELECT` and its commit. *The refinement* maps the ledger to `topups`: only `TopUp` changes either, and it posts
an entry that is not there yet or leaves both alone. *Months*: `MonthInv` bounds the grants of a charge whose row is not `paid` by those its `OVERDUE` took back, because
`AddMonth` looks at the row again inside its transaction; the copy from before only chooses the case. *Refunds*: a charge that moved anything has a
processed event, and the provider never calls a refunded charge paid again; so one that was refunded before any handler dealt with it has moved nothing,
and no handler that looks at it afterwards takes it for paid (`RefundInv`). *The provider*: a customer that was created is in the row, or in the hands of
the request that holds the lock, or was lost by a failure (`ProviderInv`, and the same for the subscription), and the holder of the lock creates only what the row does not name.

`CampaignsProofs.tla`, for every set of phones and requests, every way of normalizing them, every quota, plan, credit and prices, under `CampaignsAssumption`:

| Theorem | States |
|---|---|
| `TypeCorrect` | `Spec => []TypeOK` |
| `CanceledIsStopped` | `Spec => []CancelStops` |
| `OptOutIsKept` | `Spec => []OptOutHolds` |
| `NoDuplicateWithoutMishap` | `Spec => []DuplicatesNeedMishap` |
| `QuotaIsKept` | `Spec => []QuotaHolds` |
| `UnpaidNeedsExposure` | `Spec => []UnpaidOnlyIfExposed` |

*Queue.* `Flow` says what a request has written by the step it is at. *Cancellation*: nothing fills a request that `stopped` speaks of, and a row that is not in `stopped` was read by no handler of a refusal and will not be, for only an accepted row is (`StopInv`). *Consent*: of those
who had opted out when the request began, a campaign has chosen nobody unless its rows are broken, and a single message only a contact that was removed since
(`OutInv`). *Duplicates* are counted: `WantedInv` bounds the campaigns that are in the queue or on their way by the mishaps, plus one while the screen waits. *Quota* and *balance* need what is
going to be written as well as what is: `QuotaInv` counts the people of the request past its check whose rows come later, and says that without
`overlapped` there is one such request; `PaidInv` likewise says that, while nothing is `exposed` or `repriced`, one request at a time spends and the
balance and the plan together pay for all that it still has to be billed (`Cost`, a price times the recipients beyond the plan: `FeeIsCost`).

`ConnectionProofs.tla`, for every set of organizations, phones and calls, under `ConnectionAssumption`:

| Theorem | States |
|---|---|
| `TypeCorrect` | `Spec => []TypeOK`, with the uniqueness of live requests |
| `ChannelIsAlwaysReady` | `Spec => []ChannelIsReady` |
| `CodesAndPinAlwaysAgree` | `Spec => []CodesAndPinAgree` |
| `OrphansAlwaysStay` | `Spec => OrphansStay` |
| `SlotsAreBounded` | `Spec => []SlotsBounded` |

*The number.* Late writes go by id and may bring a canceled request back, so uniqueness rests on every one of them leaving the status of a row that is
not alive or passing the index (`Fits`, `AliveOnce`). `Reserved` orders what Meta and the rows have of a number (added, recorded, verified, registered, a channel) and says that one
request at most has recorded it, which is what makes copies comparable. Rows without a PIN, which are connected by hand, are left out of that order, and none of its parts looks at them but the closing of a
request on a row of its own organization. *Codes and PIN*: without overlapping verifications at most one handler of a request is between
its read and its last write (`Alone`), so its copy of the counter and the PIN is the row's (`Clean`). *Orphans*: a number that no live handler has a hold of can only
be taken by one that adds it, and Meta does not add it twice; a connection by hand is the exception that `OrphansStay` names. *Slots* are counted in two sums (`SlotInv`): the slots that lead nowhere, with the calls that may yet take one, and those
that no request records, which the call that the screen waits for explains, or one that was left, lost its answer or died (`slips`). *SMS*: likewise, with the calls that may still send (`SmsInv`).

`SessionsAccessProofs.tla`, for `Sessions` under `SessionsAssumption`, and for `Access`, which it instantiates as `A` (the two have names in common; the properties are those of `AccessPromise`), under `A!AccessAssumption`:

| Theorem | States |
|---|---|
| `TypeCorrect` | `Spec => []TypeOK` |
| `EndedHolds` | `Spec => []EndedStayEnded` |
| `SessionsSurviveAlways` | `Spec => []SessionsSurvive` |
| `AnswersFollowPayment` | `A!Spec => []AccessFollowsPayment` |
| `RefusalsAreOnesOwn` | `A!Spec => []RefusedForOwnRequests` |

*Sessions.* Ended keys stay out of every refresh that is past its checks (`EndedInv`). That the panel causes no reuse is a matter of holders
(`OneHolder`): a key belongs to one tab with its own renewal, or to one logout, or to storage alone, and is valid unless its renewal is consuming it.

*Access.* A row, a copy of a request and an entry of the cache are as the webhooks left the subscription at some moment late enough, up to the lazy degradation, which only ever meets
a subscription that has lapsed and grants nothing either way (`GuardInv` with `Alike` and `Seen`); the entry may be older than the copy it was made of by the time of one request. *Throttling*: the hits of an
open window are at most the user's own requests within it, and only hits beyond the limit block (`ThrottleInv`).

`TemplatesProofs.tla`, for every set of organizations, handlers and templates, under `TemplatesAssumption`: `TypeCorrect` (`Spec => []TypeOK`) and
`RowsAreOwnedAlways` (`Spec => []RowsAreOwned`). What a handler read is stale when it is used, but a template of Meta never changes its name or its WABA: `OwnedInv` says that every copy that
may still be written, and every row, tracks a template of that name that its owner can send.

`InboxProofs.tla`, for every set of customers and handlers and every length of the window, under `InboxAssumption`:

| Theorem | States |
|---|---|
| `TypesHold` | the types of the server and of the screen |
| `TextsGoWhereTyped` | `Spec => []RightConversation` |
| `WindowIsOfACustomer` | `Spec => []WindowFollowsCustomer` |
| `KeywordIsKept` | `Spec => []KeywordIsNotLost` |

*Conversations.* Only loads that are alive reach the screen, and they are of the selection (`ShownInv`); a draft is empty or of the selection, and a text keeps the address it left with
(`DraftInv`). What was received is no later than what was written plus the delay, and so is every answer on its way (`WindowInv`). A keyword that has not taken effect is carried by
an event that no handler is about to acknowledge (`KeywordInv`); the proof did not go through while two messages of one instant were one event, since the handler of the
first then acknowledged the second. Events have been numbered since.

*What the proofs asked of the models.* A history is a set of records rather than a count to be folded (`Access`), a choice of a fresh element is a `CHOOSE` over the unused ones (`Connection`), and the
assumptions say that the model values of one type are distinct from the others and that the sets that are counted are finite. None of it excludes an instance of the runs.

*Model-checked only.* Liveness (`EveryMessageSettles`, `SigtermStops`), which needs fairness and is beyond the prover, and with it every question about `ENABLED`.
That the cases a theorem speaks of do occur is also the runs' to show. No theorem is an induction over data: the models need none.
`TypeOK` of `Dispatcher`, `Billing`, `Webhooks`, `Campaigns` and `Templates` is proved and not a property of a run; the runs spend their properties on what could be wrong.

## 7 Not modelled

Components:

* *Rate limiter* of the dispatcher: a token bucket of `golang.org/x/time/rate` per channel. Its wait is part of the time between two steps.
* *Decryption, guards, encryption, mail, configuration, bootstrap*: pure functions, stateless checks, I/O and wiring.
* *Importer*: string processing without state.
* *Lists, members, metrics, the list of conversations*: queries and single-statement writes, with no protocol of their own.
* *Screens* of the web client other than the session, the wizard, the conversations and the buttons of campaigns and billing: rendering and forms.
* *Schema*: the unique indexes and checks the code relies on are guards of the modelled statements.

Inside the models:

* The resolution of tokens is the outcome "channel unusable"; the cache of channels is not modelled, so a stale token is just one way to get the answer `auth`.
* The classification of Meta's error codes is a choice among its classes.
* Deletion of rows and the cancelling of campaigns are not in `Dispatcher`; `Campaigns` has the cancelling.
* Claims return any non-empty set of ready rows up to `BatchSize`: the order by priority and creation is left out, since
  no property depends on it (and `SKIP LOCKED` does not keep it anyway).
* `Webhooks` has one channel and one organization with a wallet (registration creates it); the branches for another organization's message or a null
  wamid are unreachable from `handleStatus`. Signatures and secret caches are left out. Every message is taken to belong to a campaign.
* `MaxCount` is 0 or 1 where the counters are not the question: they then stay out of the state.
* `Reports` and `Others` choose which statuses and which other actors an instance has: `webhooks_billing` needs no clock (the money does not depend on time) and
  leaves it out to afford two messages.
* `Billing` has one organization; charges are paid before the period ends, so that a period grows from `currentPeriodEnd` and never from `now()`.
  The other branch, and the grace that `Overdue` gives, are in `Access`, where time passes.
* `Campaigns`: the day of the quota does not end. `Connection`: the 24 hours of its limits do not pass; the minute between two codes does.
  `Sessions`: the 30 days of a refresh token and the hour of a link do not pass. In each case the limit is thereby at its tightest, or the property would only be weaker.
* `Campaigns` leaves the waiting of a refused row to `Webhooks`, and takes from it (`RequeueIsSafe`) that nobody claims a row while a handler that read it is about to requeue it. Meta is taken to say one
  thing of an accepted message, after that: delivered, failed or refused.
* `Connection`: what a connection by hand needs (a token that can read the number) is not modelled, so any organization may connect any number whose row is free; which WABA the number is in makes no
  difference to the row. The checks of `iniciar` are one step: an overlap of two calls is one that comes between those checks and a later write.
* `Inbox` and `Campaigns` have two formats of a number, with and without the ninth digit; other ways of typing one number are the same to `normalizeBR`, or are other numbers.
* `Templates`: texts, categories and the variables of a template are left out; a name is its prefix.
* `Access` is one process: with several, each has its own window and cache, so limits and staleness are per process.
