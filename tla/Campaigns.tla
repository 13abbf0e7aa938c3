----------------------------- MODULE Campaigns -----------------------------
(***************************************************************************)
(* How messages enter the queue of one organization: campaigns, single     *)
(* templates and free texts (campaigns.service.ts, messages.service.ts,    *)
(* quota.service.ts), the base of contacts they read (contacts.service.ts, *)
(* privacy.service.ts) and the screen that creates and cancels campaigns   *)
(* (Campanhas.jsx).                                                        *)
(*                                                                         *)
(* A request reads the contacts, then checks the balance, then the daily   *)
(* quota, then writes the campaign and its rows, with no transaction       *)
(* around them: each is a step.  The channel and the template are chosen   *)
(* with the contacts; one that is missing or not approved refuses the      *)
(* request.  Of the Dispatcher and of Meta's callbacks there is what they   *)
(* do to a row and to the wallet; how they do it is the concern of modules *)
(* Dispatcher and Webhooks.  The quota's day does not end.                 *)
(***************************************************************************)
EXTENDS Integers, FiniteSets

CONSTANTS
  People,       (* phones as they are stored; contacts are unique by phone  *)
  Normal,       (* normalizeBrPhone: the phone with its ninth digit         *)
  Requests,     (* requests, and the campaigns they create                  *)
  Nothing,      (* no request is waited for                                 *)
  Chunk,        (* CHUNK                                                    *)
  DailyQuota,   (* orgDailyQuota                                            *)
  Categories,   (* categories of templates, and of what Meta bills          *)
  Marketing,    (* the category of which the plan includes some messages    *)
  PriceOf,      (* usagePriceByCategory, with its default                   *)
  Included,     (* free_marketing_remaining at first                        *)
  Credit,       (* balance_cents at first                                   *)
  MaxSurprises  (* bound: changes of the base of contacts, answers lost,    *)
                (* requests that die and refusals of a channel, together    *)

ASSUME CampaignsAssumption ==
  /\ Nothing \notin Requests
  /\ IsFiniteSet(People) /\ IsFiniteSet(Requests)
  /\ Chunk \in Nat \ {0}
  /\ Normal \in [People -> People]
  /\ Marketing \in Categories
  /\ PriceOf \in [Categories -> Nat]
  /\ {DailyQuota, Included, Credit, MaxSurprises} \subseteq Nat

VARIABLES
  refused,      (* history: who has ever opted out or been erased           *)
  contact,      (* consent of the row of each phone, and "deleted_at"       *)
  status,       (* campaigns.status                                         *)
  row,          (* status of the outbound_messages of a request             *)
  refusing,     (* rows that a handler of a channel's refusal has read      *)
  free,         (* subscriptions.free_marketing_remaining                   *)
  balance,      (* wallets.balance_cents                                    *)
  request,      (* the handler of each request                              *)
  cancel,       (* the handler of DELETE /campaigns/:id                     *)
  wizard,       (* the request that the screen NovaCampanha waits for       *)
  subject,      (* sujeitaACota: the organization shares Zaplane's WABA     *)
  \* history
  outAt,        (* who had ever opted out when the request began            *)
  stopped,      (* rows not in the queue when a full campaign was canceled  *)
  overlapped,   (* a quota was checked while another request was enqueueing *)
  exposed,      (* a balance was checked with rows not yet billed           *)
  repriced,     (* a message was billed otherwise than it was estimated     *)
  unpaid,       (* messages billed for which the balance was too low        *)
  changes, mishaps, refusals

base    == <<contact, refused>>
queue   == <<status, row>>
money   == <<free, balance, repriced, unpaid>>
history == <<outAt, stopped, overlapped, exposed>>
bounds  == <<changes, mishaps, refusals>>
vars    == <<base, queue, refusing, money, request, cancel, wizard, subject, history, bounds>>

NoRequest == [pc |-> "idle", single |-> FALSE, eligible |-> {}, later |-> FALSE,
              broken |-> FALSE, category |-> Marketing, fee |-> 0]
Failed    == [NoRequest EXCEPT !.pc = "failed"]
Done(k)   == [NoRequest EXCEPT !.pc = "done", !.category = request[k].category]
NoRows    == [p \in People |-> "none"]
Surprise  == changes + mishaps + refusals < MaxSurprises
Running   == {k \in Requests : request[k].pc \notin {"idle", "done", "failed"}}
-----------------------------------------------------------------------------
(* The base of contacts.                                                   *)

OptedOut(p) == contact[p] \in {"opted_out", "opted_out_deleted"}
Present     == {p \in People : contact[p] \in {"unknown", "granted", "opted_out"}}

Change(p, value) ==
  /\ Surprise
  /\ changes' = changes + 1
  /\ contact' = [contact EXCEPT ![p] = value]
  /\ refused' = IF value \in {"opted_out", "opted_out_deleted"} THEN refused \cup {p}
                ELSE refused
  /\ UNCHANGED <<queue, refusing, money, request, cancel, wizard, subject, history, mishaps,
                 refusals>>

\* Mutant of Upserted: the update takes the consent of the file.
MutUpsertedConsent(p, consent) == IF contact[p] \in {"deleted", "opted_out_deleted"}
                                  THEN contact[p] ELSE consent

\* create and importFile: an upsert by the phone as it was typed, without its
\* ninth digit too, or as the Importer normalized it.  The update leaves consent,
\* opt-out and deletion alone.
Upserted(p, consent) == IF contact[p] = "absent" THEN consent ELSE contact[p]

Import(p) == \E consent \in {"unknown", "granted"} : Change(p, Upserted(p, consent))

\* optOut of a contact, and the keyword of handleInbound.
OptOut(p) ==
  contact[p] # "absent" /\ Change(p, IF p \in Present THEN "opted_out" ELSE "opted_out_deleted")

\* remove: a soft delete.
Remove(p) == p \in Present /\ Change(p, IF OptedOut(p) THEN "opted_out_deleted" ELSE "deleted")

\* deleteSubject.
Erase(p) == contact[p] # "absent" /\ Change(p, "opted_out_deleted")
-----------------------------------------------------------------------------
(* The screen: one campaign is wanted, and an error lets the user retry.   *)

\* Mutant of MaySubmit: the button is not disabled while a request is pending.
MutMaySubmitAlways == wizard # Nothing => request[wizard].pc # "done"

\* disabled={create.pending}, and the screen is left when a campaign is made.
MaySubmit == wizard # Nothing => request[wizard].pc = "failed"

LoseAnswer ==
  /\ wizard # Nothing /\ Surprise
  /\ mishaps' = mishaps + 1
  /\ wizard' = Nothing
  /\ UNCHANGED <<base, queue, refusing, money, request, cancel, subject, history, changes,
                 refusals>>
-----------------------------------------------------------------------------
(* CampaignsService.create, MessagesService.sendSingle and sendText.       *)

Base == <<base, refusing, money, cancel, subject, stopped, bounds>>

\* A request begins with its first read of the contacts.
Begin(k, started) ==
  /\ request[k].pc = "idle"
  /\ request' = [request EXCEPT ![k] = started]
  /\ outAt' = [outAt EXCEPT ![k] = refused]
  /\ UNCHANGED <<Base, queue, overlapped, exposed>>

\* Suppression: opt-out always, consent for marketing.
Eligible(audience, marketing) ==
  {p \in audience : contact[p] # "opted_out" /\ (marketing => contact[p] = "granted")}

\* The audience of a list comes from a raw query, whose rows have the names of
\* the columns: no row is opted out, none has consent and none has a phone.
Submit(k) ==
  /\ MaySubmit
  /\ wizard' = k
  /\ \E audience \in SUBSET Present, list, later \in BOOLEAN, category \in Categories :
       Begin(k, [NoRequest EXCEPT !.pc = "estimate", !.later = later, !.broken = list,
                 !.category = category,
                 !.eligible = IF ~list THEN Eligible(audience, category = Marketing)
                              ELSE IF category = Marketing THEN {} ELSE audience])

\* The contact is looked up by the normalized phone, among those not deleted, and
\* the message goes to that phone.  A text is free and has no quota.
Look(m) ==
  /\ \E p \in People, text \in BOOLEAN, category \in Categories : Begin(m,
       IF contact[Normal[p]] = "opted_out" THEN Failed
       ELSE [NoRequest EXCEPT !.pc = IF text THEN "text" ELSE "estimate", !.single = TRUE,
                              !.eligible = {Normal[p]}, !.category = category])
  /\ UNCHANGED wizard

Handler == <<Base, wizard, outAt>>

\* What others may still have to pay: a row that is not billed yet or that comes
\* back to the queue, or a request past its estimate.
Pending(k) == {p \in People : row[k][p] \in {"queued", "sending", "sent"}} \cup refusing[k]
Owed(k) ==
  \/ \E j \in Requests : Pending(j) # {}
  \/ \E j \in Requests \ {k} : request[j].pc \in {"balance", "quota", "chunk", "insert"}

\* estimatePlatformFee: the price of the template's category, less what the plan
\* still includes.
Fee(k) ==
  LET n        == Cardinality(request[k].eligible)
      cotaUsed == IF request[k].category # Marketing THEN 0 ELSE IF free < n THEN free ELSE n
  IN (n - cotaUsed) * PriceOf[request[k].category]

Estimate(k) ==
  /\ request[k].pc = "estimate"
  /\ request' = [request EXCEPT ![k].pc = "balance", ![k].fee = Fee(k)]
  /\ exposed' = (exposed \/ Owed(k))
  /\ UNCHANGED <<Handler, queue, overlapped>>

\* Mutant of Covered: any credit will do.
MutCoveredAny(k) == request[k].fee = 0 \/ balance > 0

\* assertBalanceFor: the balance is read without lock, and nothing is kept.
Covered(k) == balance >= request[k].fee

Balance(k) ==
  /\ request[k].pc = "balance" /\ Covered(k)
  /\ request' = [request EXCEPT ![k].pc = "quota", ![k].fee = 0]
  /\ exposed' = (exposed \/ Owed(k))
  /\ UNCHANGED <<Handler, queue, overlapped>>

Used == {p \in People : \E k \in Requests : row[k][p] \notin {"none", "failed"}}

Enqueueing(k) == \E j \in Requests \ {k} : request[j].pc \in {"chunk", "insert"}

\* Mutant of WithinQuota: only what was sent counts.
MutWithinQuotaSent(k) ==
  subject => Cardinality(request[k].eligible)
    + Cardinality({p \in People : \E j \in Requests : row[j][p] \in {"sent", "delivered"}})
    <= DailyQuota

\* garantirCota.
WithinQuota(k) ==
  subject => Cardinality(request[k].eligible) + Cardinality(Used) <= DailyQuota

Quota(m) ==
  /\ request[m].single /\ request[m].pc = "quota" /\ WithinQuota(m)
  /\ request' = [request EXCEPT ![m].pc = "insert"]
  /\ overlapped' = (overlapped \/ Enqueueing(m))
  /\ UNCHANGED <<Handler, queue, exposed>>

\* buildTemplatePayload: a row without phone is an error.
Unaddressed(k) == request[k].broken

\* A campaign checks the quota if it is to enqueue now, and is written at once:
\* nobody knows it in between.  Without recipients, or for later, there is
\* nothing to enqueue.
Create(k) ==
  /\ ~request[k].single /\ request[k].pc = "quota"
  /\ LET none == request[k].eligible = {} \/ request[k].later IN
     /\ none \/ WithinQuota(k)
     /\ status' = [status EXCEPT ![k] = IF request[k].later THEN "scheduled" ELSE "queuing"]
     /\ request' = [request EXCEPT ![k] =
          IF none THEN Done(k)
          ELSE IF Unaddressed(k) THEN Failed ELSE [@ EXCEPT !.pc = "chunk"]]
     /\ overlapped' = (overlapped \/ (~none /\ Enqueueing(k)))
  /\ UNCHANGED <<Handler, row, exposed>>

\* Any check that fails: channel, template, balance or quota.
Refuse(k) ==
  /\ \/ request[k].pc \in {"estimate", "balance"}
     \/ request[k].pc = "quota" /\ ~WithinQuota(k) /\ ~request[k].later
  /\ request' = [request EXCEPT ![k] = Failed]
  /\ UNCHANGED <<Handler, queue, overlapped, exposed>>

Left(k) == {p \in request[k].eligible : row[k][p] = "none"}

\* createMany, in chunks.
EnqueueChunk(k) ==
  /\ request[k].pc = "chunk"
  /\ \E part \in SUBSET Left(k) :
       /\ IF Cardinality(Left(k)) <= Chunk THEN part = Left(k) ELSE Cardinality(part) = Chunk
       /\ row' = [row EXCEPT ![k] = [p \in People |-> IF p \in part THEN "queued" ELSE @[p]]]
  /\ request' = [request EXCEPT ![k].pc =
       IF Cardinality(Left(k)) <= Chunk THEN "finish" ELSE "chunk"]
  /\ UNCHANGED <<Handler, status, overlapped, exposed>>

Finish(k) ==
  /\ request[k].pc = "finish"
  /\ status' = [status EXCEPT ![k] = "sending"]
  /\ request' = [request EXCEPT ![k] = Done(k)]
  /\ UNCHANGED <<Handler, row, overlapped, exposed>>

Enqueue(m) ==
  /\ request[m].pc \in {"insert", "text"}
  /\ row' = [row EXCEPT ![m] = [p \in People |->
       IF p \notin request[m].eligible THEN "none"
       ELSE IF request[m].pc = "text" THEN "text" ELSE "queued"]]
  /\ request' = [request EXCEPT ![m] = Done(m)]
  /\ UNCHANGED <<Handler, status, overlapped, exposed>>

\* The process or the database fails under the request.
Die(k) ==
  /\ k \in Running /\ Surprise
  /\ mishaps' = mishaps + 1
  /\ request' = [request EXCEPT ![k] = [Failed EXCEPT !.category = request[k].category]]
  /\ UNCHANGED <<base, queue, refusing, money, cancel, wizard, subject, history, changes,
                 refusals>>
-----------------------------------------------------------------------------
(* CampaignsService.cancel: the rows, then the campaign.  The button is     *)
(* shown for a campaign that is being sent.                                *)

\* Mutant of Withdrawn: only the campaign is marked.
MutWithdrawnNone(k) == row[k]

Withdrawn(k) == [p \in People |-> IF row[k][p] = "queued" THEN "canceled" ELSE row[k][p]]

\* podeCancelar, and the status that cancel accepts.
Cancelable(k) == status[k] \in {"queuing", "sending"}

CancelRows(k) ==
  /\ Cancelable(k) /\ cancel[k] = "idle"
  /\ cancel' = [cancel EXCEPT ![k] = "status"]
  /\ row' = [row EXCEPT ![k] = Withdrawn(k)]
  /\ stopped' = [stopped EXCEPT ![k] = IF k \in Running THEN @
       ELSE {p \in People : row[k][p] \in {"sending", "sent"}} \cup refusing[k]]
  /\ UNCHANGED <<base, status, refusing, money, request, wizard, subject, outAt, overlapped,
                 exposed, bounds>>

CancelStatus(k) ==
  /\ cancel[k] = "status"
  /\ cancel' = [cancel EXCEPT ![k] = "idle"]
  /\ status' = [status EXCEPT ![k] = "canceled"]
  /\ UNCHANGED <<base, row, refusing, money, request, wizard, subject, history, bounds>>
-----------------------------------------------------------------------------
(* The Dispatcher and the callbacks of Meta, which tell of a message that it *)
(* was accepted, then one thing: delivered, failed, or refused by its channel. *)

Others == <<base, status, request, cancel, wizard, subject, history, changes, mishaps>>

Becomes(k, p, from, to) ==
  /\ row[k][p] = from /\ p \notin refusing[k]
  /\ row' = [row EXCEPT ![k][p] = to]
  /\ UNCHANGED <<Others, refusing, refusals>>

\* A row that a handler has read waits for the end of the pause, and the handler
\* ends before (RequeueIsSafe, of Webhooks).
Claim(k, p)  == Becomes(k, p, "queued", "sending") /\ UNCHANGED money
Retry(k, p)  == Becomes(k, p, "sending", "queued") /\ UNCHANGED money
Reject(k, p) == Becomes(k, p, "sending", "failed") /\ UNCHANGED money
Accept(k, p) == Becomes(k, p, "sending", "sent")   /\ UNCHANGED money

\* A failed callback, of the message itself or with its attempts used up.
Fail(k, p)   == Becomes(k, p, "sent", "failed")    /\ UNCHANGED money

\* Meta does not bill every message.
DeliverFree(k, p) == Becomes(k, p, "sent", "delivered") /\ UNCHANGED money

\* recordPricing: the category is that of the callback, not of the template.  A
\* repeated callback may take one unit more of the plan (QuotaReconciles).
Deliver(k, p) ==
  /\ Becomes(k, p, "sent", "delivered")
  /\ \E category \in Categories, units \in {1, 2} :
       /\ IF category = Marketing /\ free > 0
          THEN units <= free /\ free' = free - units /\ UNCHANGED <<balance, unpaid>>
          ELSE /\ units = 1 /\ UNCHANGED free
               /\ balance' = IF balance > PriceOf[category] THEN balance - PriceOf[category] ELSE 0
               /\ unpaid'  = IF balance < PriceOf[category] THEN unpaid + 1 ELSE unpaid
       /\ repriced' = (repriced \/ category # request[k].category \/ units # 1)

\* A callback that refuses the message for its channel: a handler reads the row.
Refused(k, p) ==
  /\ row[k][p] = "sent" /\ p \notin refusing[k]
  /\ Surprise /\ refusals' = refusals + 1
  /\ refusing' = [refusing EXCEPT ![k] = @ \cup {p}]
  /\ UNCHANGED <<Others, row, money>>

\* pausarCanalPorErro puts the row back in the queue by its id, whatever it is by
\* then; another delivery of the callback may have read it too.
Requeue(k, p) ==
  /\ p \in refusing[k]
  /\ row' = [row EXCEPT ![k][p] = "queued"]
  /\ refusing' \in {refusing, [refusing EXCEPT ![k] = @ \ {p}]}
  /\ UNCHANGED <<Others, money, refusals>>
-----------------------------------------------------------------------------
Init ==
  /\ contact \in [People -> {"absent", "granted", "opted_out"}]
  /\ refused = {p \in People : OptedOut(p)}
  /\ status = [k \in Requests |-> "none"]
  /\ row = [k \in Requests |-> NoRows]
  /\ refusing = [k \in Requests |-> {}]
  /\ free = Included /\ balance = Credit
  /\ request = [k \in Requests |-> NoRequest]
  /\ cancel = [k \in Requests |-> "idle"]
  /\ wizard = Nothing /\ subject \in BOOLEAN
  /\ outAt = [k \in Requests |-> {}]
  /\ stopped = [k \in Requests |-> People]
  /\ overlapped = FALSE /\ exposed = FALSE /\ repriced = FALSE
  /\ unpaid = 0 /\ changes = 0 /\ mishaps = 0 /\ refusals = 0

Next ==
  \/ \E p \in People : Import(p) \/ OptOut(p) \/ Remove(p) \/ Erase(p)
  \/ \E k \in Requests : \/ Submit(k) \/ Look(k) \/ Estimate(k) \/ Balance(k) \/ Quota(k)
                         \/ Refuse(k) \/ Create(k) \/ EnqueueChunk(k) \/ Finish(k)
                         \/ Enqueue(k) \/ Die(k) \/ CancelRows(k) \/ CancelStatus(k)
  \/ LoseAnswer
  \/ \E k \in Requests, p \in People :
       \/ Claim(k, p) \/ Retry(k, p) \/ Reject(k, p) \/ Accept(k, p) \/ Fail(k, p)
       \/ DeliverFree(k, p) \/ Deliver(k, p) \/ Refused(k, p) \/ Requeue(k, p)

Spec == Init /\ [][Next]_vars
-----------------------------------------------------------------------------
(* Properties.                                                             *)

TypeOK ==
  /\ contact \in [People -> {"absent", "unknown", "granted", "opted_out", "deleted",
                             "opted_out_deleted"}]
  /\ status \in [Requests -> {"none", "scheduled", "queuing", "sending", "canceled"}]
  /\ row \in [Requests -> [People -> {"none", "queued", "sending", "sent",
                                      "delivered", "failed", "canceled", "text"}]]
  /\ refusing \in [Requests -> SUBSET People]
  /\ free \in Nat /\ balance \in Nat
  /\ \A k \in Requests : request[k].eligible \subseteq People
  /\ wizard \in Requests \cup {Nothing}

\* A number whose contact has opted out receives nothing from a request that
\* arrives afterwards, whatever is imported, edited or deleted in between: the
\* suppression of create, and the look-up of a single send for a contact that
\* is still in the base.  A person with a contact under each format of his number
\* has two numbers here.
OptOutHolds ==
  \A k \in Requests : \A p \in outAt[k] :
    row[k][p] # "none" => status[k] = "none" /\ contact[p] = "opted_out_deleted"

\* Once a campaign is filled, canceling it leaves nothing to send but the rows
\* that were out of the queue at that moment: in a worker's hands, accepted by
\* Meta, or read by a handler of a refusal, which takes them back to the queue.
CancelStops ==
  \A k \in Requests : \A p \in People \ stopped[k] :
    row[k][p] \notin {"queued", "sending"}

\* The quota of distinct recipients is kept by every sequence of requests of
\* which no two are checked and enqueued at the same time.
QuotaHolds ==
  subject /\ ~overlapped =>
    Cardinality({p \in People : \E k \in Requests :
                   row[k][p] \notin {"none", "failed", "text"}}) <= DailyQuota

\* A message goes unpaid only if a request was admitted against a balance or a
\* plan that other rows were still going to use, or if Meta billed a message in
\* another category than that of its template, or for two units of the plan.
\* Even then the wallet does not go below zero.
UnpaidOnlyIfExposed == (unpaid > 0 => exposed \/ repriced) /\ balance >= 0

\* A phone is enqueued twice by one intended campaign only when an answer was
\* lost or a request died and the user tried again.
DuplicatesNeedMishap ==
  \A p \in People :
    Cardinality({k \in Requests : status[k] # "none" /\ row[k][p] # "none"}) <= 1 + mishaps
-----------------------------------------------------------------------------
(* Statements of the code that do not hold.                                *)

\* phone.util.ts, of normalizeBrPhone: "garantindo que inbound, contatos e envios
\* usem o mesmo formato".  Who has opted out, and is in the base, receives nothing.
OneFormat ==
  \A k \in Requests : \A p \in outAt[k], q \in People :
    Normal[q] = Normal[p] /\ contact[p] = "opted_out" => row[k][q] = "none"

\* The comment in cancel, "cancela só o que ainda está na fila": what a
\* cancellation withdrew from the queue stays out of it.
WithdrawnStays ==
  [][\A k \in Requests, p \in People : row[k][p] = "canceled" => row'[k][p] = "canceled"]_vars

\* The comment on assertBalanceFor: "aqui só garantimos que o teto existe".
EstimateIsCeiling == unpaid > 0 => exposed

\* The comment on assertBalanceFor: a stale read allows one message more at
\* worst, even if every message is billed as it was estimated.
OneExtraMessage == ~repriced => unpaid <= 1

\* The comment in create: checking first avoids a campaign left 'queuing'
\* without any message.
NoOrphan ==
  \A k \in Requests :
    status[k] = "queuing" /\ k \notin Running /\ mishaps = 0 => row[k] # NoRows
=============================================================================
