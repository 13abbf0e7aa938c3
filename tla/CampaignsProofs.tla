--------------------------- MODULE CampaignsProofs ---------------------------
(* The properties of Campaigns, for every value of its constants.            *)
EXTENDS Campaigns, FiniteSetTheorems, TLAPS

LEMMA Slack ==
  ASSUME NEW a \in Nat, NEW b \in Nat, NEW m \in Nat, NEW u \in Nat, NEW n \in Nat,
         NEW v \in Nat, a <= b, b <= m + u, n + v >= m + u
  PROVE  a <= n + v
  OBVIOUS

LEMMA SlackStays ==
  ASSUME NEW m \in Nat, NEW u \in Nat, NEW v \in Nat, v >= u
  PROVE  m + v >= m + u
  OBVIOUS

USE CampaignsAssumption
USE DEF base, queue, money, history, bounds

-----------------------------------------------------------------------------
(* Types, and how a request goes from one step to the next.                *)

PCs      == {"idle", "estimate", "balance", "quota", "chunk", "finish", "insert", "text",
             "done", "failed"}
Handlers == [pc : PCs, single : BOOLEAN, eligible : SUBSET People, later : BOOLEAN,
             broken : BOOLEAN, category : Categories, fee : Nat]
Consents == {"absent", "unknown", "granted", "opted_out", "deleted", "opted_out_deleted"}
Statuses == {"none", "scheduled", "queuing", "sending", "canceled"}
Cells    == {"none", "queued", "sending", "sent", "delivered", "failed", "canceled", "text"}

Types ==
  /\ contact \in [People -> Consents]
  /\ refused \subseteq People
  /\ status \in [Requests -> Statuses]
  /\ row \in [Requests -> [People -> Cells]]
  /\ refusing \in [Requests -> SUBSET People]
  /\ free \in Nat /\ balance \in Nat /\ repriced \in BOOLEAN /\ unpaid \in Nat
  /\ request \in [Requests -> Handlers]
  /\ cancel \in [Requests -> {"idle", "status"}]
  /\ wizard \in Requests \cup {Nothing} /\ subject \in BOOLEAN
  /\ outAt \in [Requests -> SUBSET People] /\ stopped \in [Requests -> SUBSET People]
  /\ overlapped \in BOOLEAN /\ exposed \in BOOLEAN
  /\ changes \in Nat /\ mishaps \in Nat /\ refusals \in Nat

Before  == {"idle", "estimate", "balance", "quota", "insert", "text"}
Filling == {"chunk", "finish"}

\* What a request has written, by the step it is at, and what a handler of a
\* refusal may have read.
FlowOf(k) ==
  /\ request[k].pc \in Before => row[k] = NoRows /\ status[k] = "none"
  /\ request[k].pc \in {"insert", "text"} => request[k].single
  /\ request[k].pc \in Filling =>
       ~request[k].single /\ ~request[k].broken /\ status[k] # "none"
  /\ request[k].single => request[k].pc \in Before
  /\ cancel[k] = "status" => status[k] # "none"
  /\ \A p \in refusing[k] : row[k][p] \in {"sent", "queued", "canceled"}

\* The screen waits for a campaign that has begun.
WizardFits == wizard # Nothing => request[wizard].pc # "idle" /\ ~request[wizard].single

Flow == (\A k \in Requests : FlowOf(k)) /\ WizardFits
-----------------------------------------------------------------------------
(* What each step does to the request k, and to no other.                  *)

\* Nothing of the other requests changes.
Only(k) ==
  \A j \in Requests \ {k} :
    /\ request'[j] = request[j] /\ row'[j] = row[j] /\ status'[j] = status[j]
    /\ cancel'[j] = cancel[j] /\ outAt'[j] = outAt[j] /\ stopped'[j] = stopped[j]
    /\ refusing'[j] = refusing[j]

\* The request moves to l, and keeps what it has chosen.
Goes(k, l) == request'[k] = [request[k] EXCEPT !.pc = l]

LEMMA NoRequestType == NoRequest \in Handlers /\ Failed \in Handlers /\ Failed.pc = "failed"
                       /\ ~Failed.single /\ Failed.eligible = {} /\ ~Failed.broken
  BY DEF NoRequest, Failed, Handlers, PCs

LEMMA DoneFacts ==
  ASSUME Types, NEW k \in Requests
  PROVE  /\ Done(k) \in Handlers /\ Done(k).pc = "done" /\ ~Done(k).single
         /\ Done(k).eligible = {} /\ ~Done(k).broken /\ Done(k).category = request[k].category
  BY DEF Types, NoRequest, Done, Handlers, PCs

LEMMA BeginEffect ==
  ASSUME Types, NEW k \in Requests, NEW r \in Handlers, Begin(k, r)
  PROVE  /\ request[k].pc = "idle" /\ request'[k] = r /\ outAt'[k] = refused
         /\ request' \in [Requests -> Handlers] /\ outAt' \in [Requests -> SUBSET People]
         /\ Only(k)
         /\ UNCHANGED <<Base, queue, overlapped, exposed>>
  BY DEF Begin, Types, Only, Base

LEMMA SubmitEffect ==
  ASSUME Types, NEW k \in Requests, Submit(k)
  PROVE  /\ MaySubmit /\ wizard' = k
         /\ request[k].pc = "idle" /\ outAt'[k] = refused
         /\ request'[k].pc = "estimate" /\ ~request'[k].single
         /\ \A p \in request'[k].eligible : request'[k].broken \/ contact[p] # "opted_out"
         /\ request'[k].eligible \subseteq Present
         /\ request' \in [Requests -> Handlers] /\ outAt' \in [Requests -> SUBSET People]
         /\ Only(k)
         /\ UNCHANGED <<Base, queue, overlapped, exposed>>
  <1>1. PICK audience \in SUBSET Present, list \in BOOLEAN, later \in BOOLEAN,
             category \in Categories :
       Begin(k, [NoRequest EXCEPT !.pc = "estimate", !.later = later, !.broken = list,
                 !.category = category,
                 !.eligible = IF ~list THEN Eligible(audience, category = Marketing)
                              ELSE IF category = Marketing THEN {} ELSE audience])
    BY DEF Submit
  <1> DEFINE e == IF ~list THEN Eligible(audience, category = Marketing)
                  ELSE IF category = Marketing THEN {} ELSE audience
             r == [NoRequest EXCEPT !.pc = "estimate", !.later = later, !.broken = list,
                                    !.category = category, !.eligible = e]
  <1>2. e \subseteq Present /\ \A p \in e : list \/ contact[p] # "opted_out"
    BY DEF Eligible, Present
  <1>3. e \subseteq People
    BY <1>2 DEF Present
  <1>4. Begin(k, r)
    BY <1>1
  <1> HIDE DEF e
  <1>5. /\ r \in Handlers /\ r.pc = "estimate" /\ ~r.single /\ r.eligible = e
        /\ r.broken = list
    BY <1>3 DEF Handlers, PCs, NoRequest
  <1> HIDE DEF r
  <1>6. /\ request[k].pc = "idle" /\ request'[k] = r /\ outAt'[k] = refused
        /\ request' \in [Requests -> Handlers] /\ outAt' \in [Requests -> SUBSET People]
        /\ Only(k)
        /\ UNCHANGED <<Base, queue, overlapped, exposed>>
    BY <1>4, <1>5, BeginEffect
  <1>7. MaySubmit /\ wizard' = k
    BY DEF Submit
  <1>8. QED
    BY <1>2, <1>5, <1>6, <1>7

LEMMA LookEffect ==
  ASSUME Types, NEW k \in Requests, Look(k)
  PROVE  /\ request[k].pc = "idle" /\ outAt'[k] = refused
         /\ \/ request'[k] = Failed
            \/ /\ request'[k].pc \in {"text", "estimate"} /\ request'[k].single
               /\ ~request'[k].broken
               /\ \A p \in request'[k].eligible : contact[p] # "opted_out"
         /\ request' \in [Requests -> Handlers] /\ outAt' \in [Requests -> SUBSET People]
         /\ Only(k)
         /\ UNCHANGED <<Base, queue, overlapped, exposed, wizard>>
  <1>1. PICK p \in People, text \in BOOLEAN, category \in Categories : Begin(k,
       IF contact[Normal[p]] = "opted_out" THEN Failed
       ELSE [NoRequest EXCEPT !.pc = IF text THEN "text" ELSE "estimate", !.single = TRUE,
                              !.eligible = {Normal[p]}, !.category = category])
    BY DEF Look
  <1>2. UNCHANGED wizard
    BY DEF Look
  <1> DEFINE r == [NoRequest EXCEPT !.pc = IF text THEN "text" ELSE "estimate", !.single = TRUE,
                              !.eligible = {Normal[p]}, !.category = category]
  <1>3. /\ r \in Handlers /\ r.pc \in {"text", "estimate"} /\ r.single /\ ~r.broken
        /\ r.eligible = {Normal[p]}
    BY DEF NoRequest, Handlers, PCs
  <1> HIDE DEF r
  <1>4. CASE contact[Normal[p]] = "opted_out"
    <2>1. Begin(k, Failed)
      BY <1>1, <1>4
    <2>2. QED
      BY <2>1, <1>2, BeginEffect, NoRequestType
  <1>5. CASE contact[Normal[p]] # "opted_out"
    <2>1. Begin(k, r)
      BY <1>1, <1>5 DEF r
    <2>2. QED
      BY <2>1, <1>2, <1>3, <1>5, BeginEffect
  <1>6. QED
    BY <1>4, <1>5

LEMMA MoveType ==
  ASSUME Types, NEW k \in Requests, NEW l \in PCs, request' = [request EXCEPT ![k].pc = l]
  PROVE  /\ request' \in [Requests -> Handlers] /\ Goes(k, l)
         /\ \A j \in Requests \ {k} : request'[j] = request[j]
  <1>1. request[k] \in Handlers /\ request \in [Requests -> Handlers]
    BY DEF Types
  <1>2. [request[k] EXCEPT !.pc = l] \in Handlers
    BY <1>1 DEF Handlers
  <1>3. QED
    BY <1>1, <1>2 DEF Goes

\* What the request's messages will cost: n of a category, when the plan still
\* includes f.
Charge(n, f, c) == IF c # Marketing THEN n ELSE IF f < n THEN n - f ELSE 0
Cost(n, c)      == Charge(n, free, c) * PriceOf[c]

LEMMA FeeIsCost ==
  ASSUME Types, NEW k \in Requests
  PROVE  /\ Fee(k) = Cost(Cardinality(request[k].eligible), request[k].category)
         /\ Fee(k) \in Nat
  <1>1. request[k].eligible \subseteq People /\ request[k].category \in Categories
    BY DEF Types, Handlers
  <1>2. Cardinality(request[k].eligible) \in Nat
    BY <1>1, FS_Subset, FS_CardinalityType
  <1> DEFINE n == Cardinality(request[k].eligible)
             c == request[k].category
             cotaUsed == IF c # Marketing THEN 0 ELSE IF free < n THEN free ELSE n
  <1>3. free \in Nat /\ PriceOf[c] \in Nat
    BY <1>1 DEF Types
  <1>4. Fee(k) = (n - cotaUsed) * PriceOf[c]
    BY DEF Fee
  <1> HIDE DEF n, c
  <1>5. n \in Nat
    BY <1>2 DEF n
  <1>6. n - cotaUsed = Charge(n, free, c) /\ Charge(n, free, c) \in Nat
    BY <1>3, <1>5 DEF Charge
  <1>7. Charge(n, free, c) * PriceOf[c] \in Nat
    BY <1>3, <1>6
  <1>8. QED
    BY <1>4, <1>6, <1>7 DEF Cost, n, c

LEMMA EstimateEffect ==
  ASSUME Types, NEW k \in Requests, Estimate(k)
  PROVE  /\ request[k].pc = "estimate" /\ request'[k].pc = "balance"
         /\ request'[k].fee = Fee(k)
         /\ request'[k].single = request[k].single /\ request'[k].eligible = request[k].eligible
         /\ request'[k].broken = request[k].broken /\ request'[k].category = request[k].category
         /\ exposed' \in BOOLEAN /\ (exposed => exposed') /\ (~exposed' => ~Owed(k))
         /\ request' \in [Requests -> Handlers] /\ Only(k)
         /\ UNCHANGED <<Handler, queue, overlapped>>
  <1> DEFINE r == [request[k] EXCEPT !.pc = "balance", !.fee = Fee(k)]
  <1>1. /\ request[k].pc = "estimate"
        /\ request' = [request EXCEPT ![k] = r]
        /\ exposed' = (exposed \/ Owed(k))
        /\ UNCHANGED <<Handler, queue, overlapped>>
    BY DEF Estimate
  <1>2. request[k] \in Handlers /\ request \in [Requests -> Handlers] /\ exposed \in BOOLEAN
    BY DEF Types
  <1>3. Fee(k) \in Nat
    BY FeeIsCost
  <1>4. /\ r \in Handlers /\ r.pc = "balance" /\ r.fee = Fee(k)
        /\ r.single = request[k].single /\ r.eligible = request[k].eligible
        /\ r.broken = request[k].broken /\ r.category = request[k].category
    BY <1>2, <1>3 DEF Handlers, PCs
  <1> HIDE DEF r
  <1>5. /\ request' \in [Requests -> Handlers] /\ request'[k] = r
        /\ \A j \in Requests \ {k} : request'[j] = request[j]
    BY <1>1, <1>2, <1>4
  <1>6. Only(k)
    BY <1>1, <1>5 DEF Only, Handler, Base
  <1>7. exposed' \in BOOLEAN /\ (exposed => exposed') /\ (~exposed' => ~Owed(k))
    BY <1>1
  <1>8. QED
    BY <1>1, <1>4, <1>5, <1>6, <1>7

LEMMA BalanceEffect ==
  ASSUME Types, NEW k \in Requests, Balance(k)
  PROVE  /\ request[k].pc = "balance" /\ Covered(k) /\ request'[k].pc = "quota"
         /\ request'[k].single = request[k].single /\ request'[k].eligible = request[k].eligible
         /\ request'[k].broken = request[k].broken /\ request'[k].category = request[k].category
         /\ exposed' \in BOOLEAN /\ (exposed => exposed')
         /\ request' \in [Requests -> Handlers] /\ Only(k)
         /\ UNCHANGED <<Handler, queue, overlapped>>
  <1> DEFINE r == [request[k] EXCEPT !.pc = "quota", !.fee = 0]
  <1>1. /\ request[k].pc = "balance" /\ Covered(k)
        /\ request' = [request EXCEPT ![k] = r]
        /\ exposed' = (exposed \/ Owed(k))
        /\ UNCHANGED <<Handler, queue, overlapped>>
    BY DEF Balance
  <1>2. request[k] \in Handlers /\ request \in [Requests -> Handlers] /\ exposed \in BOOLEAN
    BY DEF Types
  <1>3. /\ r \in Handlers /\ r.pc = "quota"
        /\ r.single = request[k].single /\ r.eligible = request[k].eligible
        /\ r.broken = request[k].broken /\ r.category = request[k].category
    BY <1>2 DEF Handlers, PCs
  <1> HIDE DEF r
  <1>4. /\ request' \in [Requests -> Handlers] /\ request'[k] = r
        /\ \A j \in Requests \ {k} : request'[j] = request[j]
    BY <1>1, <1>2, <1>3
  <1>5. Only(k)
    BY <1>1, <1>4 DEF Only, Handler, Base
  <1>6. exposed' \in BOOLEAN /\ (exposed => exposed')
    BY <1>1
  <1>7. QED
    BY <1>1, <1>3, <1>4, <1>5, <1>6

LEMMA QuotaEffect ==
  ASSUME Types, NEW k \in Requests, Quota(k)
  PROVE  /\ request[k].pc = "quota" /\ request[k].single /\ WithinQuota(k) /\ Goes(k, "insert")
         /\ overlapped' \in BOOLEAN /\ (overlapped => overlapped')
         /\ ~overlapped' => ~Enqueueing(k)
         /\ request' \in [Requests -> Handlers] /\ Only(k)
         /\ UNCHANGED <<Handler, queue, exposed>>
  <1>1. /\ request[k].single /\ request[k].pc = "quota" /\ WithinQuota(k)
        /\ request' = [request EXCEPT ![k].pc = "insert"]
        /\ overlapped' = (overlapped \/ Enqueueing(k))
        /\ UNCHANGED <<Handler, queue, exposed>>
    BY DEF Quota
  <1>2. "insert" \in PCs
    BY DEF PCs
  <1>3. /\ request' \in [Requests -> Handlers] /\ Goes(k, "insert")
        /\ \A j \in Requests \ {k} : request'[j] = request[j]
    BY <1>1, <1>2, MoveType
  <1>4. Only(k)
    BY <1>1, <1>3 DEF Only, Handler, Base
  <1>5. overlapped' \in BOOLEAN
    BY <1>1
  <1>6. QED
    BY <1>1, <1>3, <1>4, <1>5

\* A campaign ends without a message, fails on a row, or goes on to enqueue.
LEMMA CreateEffect ==
  ASSUME Types, NEW k \in Requests, Create(k)
  PROVE  /\ request[k].pc = "quota" /\ ~request[k].single
         /\ \/ /\ request'[k] = Done(k) /\ UNCHANGED overlapped
            \/ /\ request[k].broken /\ request'[k] = Failed
            \/ /\ ~request[k].broken /\ Goes(k, "chunk") /\ WithinQuota(k)
               /\ ~overlapped' => ~Enqueueing(k)
         /\ overlapped' \in BOOLEAN /\ (overlapped => overlapped')
         /\ status' \in [Requests -> Statuses] /\ status'[k] \in {"scheduled", "queuing"}
         /\ request' \in [Requests -> Handlers] /\ Only(k)
         /\ UNCHANGED <<Handler, row, exposed>>
  <1> DEFINE none == request[k].eligible = {} \/ request[k].later
             s == IF request[k].later THEN "scheduled" ELSE "queuing"
             r == IF none THEN Done(k)
                  ELSE IF Unaddressed(k) THEN Failed ELSE [request[k] EXCEPT !.pc = "chunk"]
  <1>1. /\ ~request[k].single /\ request[k].pc = "quota"
        /\ none \/ WithinQuota(k)
        /\ status' = [status EXCEPT ![k] = s]
        /\ request' = [request EXCEPT ![k] = r]
        /\ overlapped' = (overlapped \/ (~none /\ Enqueueing(k)))
        /\ UNCHANGED <<Handler, row, exposed>>
    BY DEF Create
  <1>2. request[k] \in Handlers /\ request \in [Requests -> Handlers]
    BY DEF Types
  <1>3. r \in Handlers
    BY <1>2, NoRequestType, DoneFacts DEF Handlers, PCs
  <1>4. s \in {"scheduled", "queuing"}
    OBVIOUS
  <1>5. \/ none /\ r = Done(k)
        \/ ~none /\ request[k].broken /\ r = Failed
        \/ ~none /\ ~request[k].broken /\ r = [request[k] EXCEPT !.pc = "chunk"]
    BY DEF Unaddressed
  <1> HIDE DEF none, r, s
  <1>6. overlapped' \in BOOLEAN /\ (overlapped => overlapped')
    BY <1>1
  <1>7. status \in [Requests -> Statuses]
    BY DEF Types
  <1>8. status' \in [Requests -> Statuses] /\ status'[k] = s
    BY <1>1, <1>4, <1>7 DEF Statuses
  <1>9. request' \in [Requests -> Handlers] /\ request'[k] = r
    BY <1>1, <1>2, <1>3
  <1>10. Only(k)
    BY <1>1, <1>2, <1>7 DEF Only, Handler, Base
  <1>11. overlapped \in BOOLEAN
    BY DEF Types
  <1>12. \/ /\ request'[k] = Done(k) /\ UNCHANGED overlapped
         \/ /\ request[k].broken /\ request'[k] = Failed
         \/ /\ ~request[k].broken /\ Goes(k, "chunk") /\ WithinQuota(k)
            /\ ~overlapped' => ~Enqueueing(k)
    <2>1. none => UNCHANGED overlapped
      BY <1>1, <1>11
    <2>2. ~none => WithinQuota(k) /\ (~overlapped' => ~Enqueueing(k))
      BY <1>1
    <2>3. QED
      BY <2>1, <2>2, <1>5, <1>9 DEF Goes
  <1>13. QED
    BY <1>1, <1>4, <1>6, <1>8, <1>9, <1>10, <1>12

LEMMA RefuseEffect ==
  ASSUME Types, NEW k \in Requests, Refuse(k)
  PROVE  /\ request[k].pc \in {"estimate", "balance", "quota"} /\ request'[k] = Failed
         /\ request' \in [Requests -> Handlers] /\ Only(k)
         /\ UNCHANGED <<Handler, queue, overlapped, exposed>>
  BY NoRequestType DEF Refuse, Types, Only, Handler, Base

LEMMA DieEffect ==
  ASSUME Types, NEW k \in Requests, Die(k)
  PROVE  /\ request[k].pc \notin {"idle", "done", "failed"} /\ request'[k].pc = "failed"
         /\ ~request'[k].single /\ request'[k].eligible = {} /\ ~request'[k].broken
         /\ request'[k].category = request[k].category
         /\ mishaps' = mishaps + 1
         /\ request' \in [Requests -> Handlers] /\ Only(k)
         /\ UNCHANGED <<base, queue, refusing, money, cancel, wizard, subject, history, changes,
                        refusals>>
  <1> DEFINE r == [Failed EXCEPT !.category = request[k].category]
  <1>1. request[k] \in Handlers /\ request \in [Requests -> Handlers]
    BY DEF Types
  <1>2. /\ r \in Handlers /\ r.pc = "failed" /\ ~r.single /\ r.eligible = {} /\ ~r.broken
        /\ r.category = request[k].category
    BY <1>1 DEF Failed, NoRequest, Handlers, PCs
  <1>3. /\ request[k].pc \notin {"idle", "done", "failed"} /\ mishaps' = mishaps + 1
        /\ request' = [request EXCEPT ![k] = r]
        /\ UNCHANGED <<base, queue, refusing, money, cancel, wizard, subject, history, changes,
                       refusals>>
    BY DEF Die, Running
  <1> HIDE DEF r
  <1>4. request' \in [Requests -> Handlers] /\ request'[k] = r
        /\ \A j \in Requests \ {k} : request'[j] = request[j]
    BY <1>1, <1>2, <1>3
  <1>5. Only(k)
    BY <1>3, <1>4 DEF Only
  <1>6. QED
    BY <1>2, <1>3, <1>4, <1>5

\* A chunk turns blank rows of the audience into queued ones.
LEMMA ChunkEffect ==
  ASSUME Types, NEW k \in Requests, EnqueueChunk(k)
  PROVE  /\ request[k].pc = "chunk" /\ (Goes(k, "chunk") \/ Goes(k, "finish"))
         /\ row' \in [Requests -> [People -> Cells]]
         /\ \A p \in People : \/ row'[k][p] = row[k][p]
                              \/ p \in Left(k) /\ row'[k][p] = "queued"
         /\ request' \in [Requests -> Handlers] /\ Only(k)
         /\ UNCHANGED <<Handler, status, overlapped, exposed>>
  <1>1. PICK part \in SUBSET Left(k) :
          row' = [row EXCEPT ![k] = [p \in People |-> IF p \in part THEN "queued" ELSE @[p]]]
    BY DEF EnqueueChunk
  <1>2. row \in [Requests -> [People -> Cells]] /\ row[k] \in [People -> Cells]
    BY DEF Types
  <1> DEFINE f == [p \in People |-> IF p \in part THEN "queued" ELSE row[k][p]]
  <1>3. f \in [People -> Cells]
    BY <1>2 DEF Cells
  <1>4. row' = [row EXCEPT ![k] = f]
    BY <1>1, <1>2
  <1>5. \A p \in People : f[p] = row[k][p] \/ (p \in Left(k) /\ f[p] = "queued")
    OBVIOUS
  <1> HIDE DEF f
  <1>6. row' \in [Requests -> [People -> Cells]] /\ row'[k] = f
        /\ \A j \in Requests \ {k} : row'[j] = row[j]
    BY <1>2, <1>3, <1>4
  <1>7. PICK l \in {"finish", "chunk"} : request' = [request EXCEPT ![k].pc = l]
    <2>1. request' = [request EXCEPT ![k].pc =
                        IF Cardinality(Left(k)) <= Chunk THEN "finish" ELSE "chunk"]
      BY DEF EnqueueChunk
    <2>2. CASE Cardinality(Left(k)) <= Chunk
      BY <2>1, <2>2
    <2>3. CASE ~(Cardinality(Left(k)) <= Chunk)
      BY <2>1, <2>3
    <2>4. QED
      BY <2>2, <2>3
  <1>8. l \in PCs
    BY DEF PCs
  <1>9. /\ request' \in [Requests -> Handlers] /\ Goes(k, l)
        /\ \A j \in Requests \ {k} : request'[j] = request[j]
    BY <1>7, <1>8, MoveType
  <1>10. request[k].pc = "chunk" /\ UNCHANGED <<Handler, status, overlapped, exposed>>
    BY DEF EnqueueChunk
  <1>11. Only(k)
    BY <1>6, <1>9, <1>10 DEF Only, Handler, Base
  <1>12. QED
    BY <1>5, <1>6, <1>7, <1>9, <1>10, <1>11

LEMMA FinishEffect ==
  ASSUME Types, NEW k \in Requests, Finish(k)
  PROVE  /\ request[k].pc = "finish" /\ request'[k] = Done(k)
         /\ status' \in [Requests -> Statuses] /\ status'[k] = "sending"
         /\ request' \in [Requests -> Handlers] /\ Only(k)
         /\ UNCHANGED <<Handler, row, overlapped, exposed>>
  <1>1. /\ request[k].pc = "finish"
        /\ status' = [status EXCEPT ![k] = "sending"]
        /\ request' = [request EXCEPT ![k] = Done(k)]
        /\ UNCHANGED <<Handler, row, overlapped, exposed>>
    BY DEF Finish
  <1>2. request \in [Requests -> Handlers] /\ status \in [Requests -> Statuses]
    BY DEF Types
  <1>3. /\ request' \in [Requests -> Handlers] /\ request'[k] = Done(k)
        /\ \A j \in Requests \ {k} : request'[j] = request[j]
    BY <1>1, <1>2, DoneFacts
  <1>4. status' \in [Requests -> Statuses] /\ status'[k] = "sending"
        /\ \A j \in Requests \ {k} : status'[j] = status[j]
    BY <1>1, <1>2 DEF Statuses
  <1>5. Only(k)
    BY <1>1, <1>3, <1>4 DEF Only, Handler, Base
  <1>6. QED
    BY <1>1, <1>3, <1>4, <1>5

\* The row of a single message is written.
LEMMA EnqueueEffect ==
  ASSUME Types, NEW k \in Requests, Enqueue(k)
  PROVE  /\ request[k].pc \in {"insert", "text"}
         /\ request'[k] = Done(k)
         /\ row' \in [Requests -> [People -> Cells]]
         /\ \A p \in People :
              row'[k][p] = IF p \notin request[k].eligible THEN "none"
                           ELSE IF request[k].pc = "text" THEN "text" ELSE "queued"
         /\ request' \in [Requests -> Handlers] /\ Only(k)
         /\ UNCHANGED <<Handler, status, overlapped, exposed>>
  <1> DEFINE f == [p \in People |->
                     IF p \notin request[k].eligible THEN "none"
                     ELSE IF request[k].pc = "text" THEN "text" ELSE "queued"]
             r == Done(k)
  <1>1. /\ request[k].pc \in {"insert", "text"}
        /\ row' = [row EXCEPT ![k] = f]
        /\ request' = [request EXCEPT ![k] = r]
        /\ UNCHANGED <<Handler, status, overlapped, exposed>>
    BY DEF Enqueue
  <1>2. row \in [Requests -> [People -> Cells]] /\ request \in [Requests -> Handlers]
    BY DEF Types
  <1>3. f \in [People -> Cells]
    BY DEF Cells
  <1>4. r \in Handlers
    BY DoneFacts
  <1>5. \A p \in People :
          f[p] = IF p \notin request[k].eligible THEN "none"
                 ELSE IF request[k].pc = "text" THEN "text" ELSE "queued"
    OBVIOUS
  <1> HIDE DEF f, r
  <1>6. row' \in [Requests -> [People -> Cells]] /\ row'[k] = f
        /\ \A j \in Requests \ {k} : row'[j] = row[j]
    BY <1>1, <1>2, <1>3
  <1>7. request' \in [Requests -> Handlers] /\ request'[k] = r
        /\ \A j \in Requests \ {k} : request'[j] = request[j]
    BY <1>1, <1>2, <1>4
  <1>8. Only(k)
    BY <1>1, <1>6, <1>7 DEF Only, Handler, Base
  <1>9. QED
    BY <1>1, <1>5, <1>6, <1>7, <1>8 DEF r

LEMMA CancelRowsEffect ==
  ASSUME Types, NEW k \in Requests, CancelRows(k)
  PROVE  /\ Cancelable(k) /\ cancel'[k] = "status"
         /\ cancel' \in [Requests -> {"idle", "status"}]
         /\ row' \in [Requests -> [People -> Cells]]
         /\ \A p \in People :
              row'[k][p] = IF row[k][p] = "queued" THEN "canceled" ELSE row[k][p]
         /\ stopped' \in [Requests -> SUBSET People]
         /\ stopped'[k] = IF k \in Running THEN stopped[k]
                          ELSE {p \in People : row[k][p] \in {"sending", "sent"}}
                               \cup refusing[k]
         /\ Only(k)
         /\ UNCHANGED <<base, status, refusing, money, request, wizard, subject, outAt,
                        overlapped, exposed, bounds>>
  <1> DEFINE f == Withdrawn(k)
             s == IF k \in Running THEN stopped[k]
                  ELSE {p \in People : row[k][p] \in {"sending", "sent"}} \cup refusing[k]
  <1>1. row \in [Requests -> [People -> Cells]] /\ row[k] \in [People -> Cells]
        /\ cancel \in [Requests -> {"idle", "status"}] /\ stopped \in [Requests -> SUBSET People]
        /\ refusing[k] \subseteq People
    BY DEF Types
  <1>2. /\ Cancelable(k)
        /\ cancel' = [cancel EXCEPT ![k] = "status"]
        /\ row' = [row EXCEPT ![k] = f]
        /\ stopped' = [stopped EXCEPT ![k] = s]
        /\ UNCHANGED <<base, status, refusing, money, request, wizard, subject, outAt,
                       overlapped, exposed, bounds>>
    BY <1>1 DEF CancelRows
  <1>3. f \in [People -> Cells]
        /\ \A p \in People : f[p] = IF row[k][p] = "queued" THEN "canceled" ELSE row[k][p]
    BY <1>1 DEF Withdrawn, Cells
  <1>4. s \in SUBSET People
    BY <1>1
  <1> HIDE DEF f, s
  <1>5. row' \in [Requests -> [People -> Cells]] /\ row'[k] = f
        /\ \A j \in Requests \ {k} : row'[j] = row[j]
    BY <1>1, <1>2, <1>3
  <1>6. stopped' \in [Requests -> SUBSET People] /\ stopped'[k] = s
        /\ \A j \in Requests \ {k} : stopped'[j] = stopped[j]
    BY <1>1, <1>2, <1>4
  <1>7. cancel' \in [Requests -> {"idle", "status"}] /\ cancel'[k] = "status"
        /\ \A j \in Requests \ {k} : cancel'[j] = cancel[j]
    BY <1>1, <1>2
  <1>8. Only(k)
    BY <1>2, <1>5, <1>6, <1>7 DEF Only
  <1>9. QED
    BY <1>2, <1>3, <1>5, <1>6, <1>7, <1>8 DEF s

LEMMA CancelStatusEffect ==
  ASSUME Types, NEW k \in Requests, CancelStatus(k)
  PROVE  /\ cancel[k] = "status" /\ cancel'[k] = "idle" /\ status'[k] = "canceled"
         /\ cancel' \in [Requests -> {"idle", "status"}]
         /\ status' \in [Requests -> Statuses]
         /\ Only(k)
         /\ UNCHANGED <<base, row, refusing, money, request, wizard, subject, history, bounds>>
  BY DEF CancelStatus, Types, Only, Statuses

LEMMA BecomesEffect ==
  ASSUME Types, NEW k \in Requests, NEW q \in People, NEW from, NEW to \in Cells,
         Becomes(k, q, from, to)
  PROVE  /\ row[k][q] = from /\ q \notin refusing[k] /\ row'[k][q] = to
         /\ \A p \in People \ {q} : row'[k][p] = row[k][p]
         /\ row' \in [Requests -> [People -> Cells]]
         /\ Only(k)
         /\ UNCHANGED <<Others, refusing, refusals>>
  <1>1. row \in [Requests -> [People -> Cells]] /\ row[k] \in [People -> Cells]
    BY DEF Types
  <1> DEFINE f == [row[k] EXCEPT ![q] = to]
  <1>2. /\ row[k][q] = from /\ q \notin refusing[k]
        /\ row' = [row EXCEPT ![k] = f]
        /\ UNCHANGED <<Others, refusing, refusals>>
    BY <1>1 DEF Becomes
  <1>3. f \in [People -> Cells] /\ f[q] = to /\ \A p \in People \ {q} : f[p] = row[k][p]
    BY <1>1
  <1> HIDE DEF f
  <1>4. row' \in [Requests -> [People -> Cells]] /\ row'[k] = f
        /\ \A j \in Requests \ {k} : row'[j] = row[j]
    BY <1>1, <1>2, <1>3
  <1>5. Only(k)
    BY <1>2, <1>4 DEF Only, Others
  <1>6. QED
    BY <1>2, <1>3, <1>4, <1>5

\* The Dispatcher and the callbacks at the row of q.
Work(k, q) == \/ Claim(k, q) \/ Retry(k, q) \/ Reject(k, q) \/ Accept(k, q) \/ Fail(k, q)
              \/ DeliverFree(k, q) \/ Deliver(k, q) \/ Refused(k, q) \/ Requeue(k, q)

LEMMA DeliverEffect ==
  ASSUME Types, NEW k \in Requests, NEW q \in People, Deliver(k, q)
  PROVE  /\ free' \in Nat /\ balance' \in Nat /\ unpaid' \in Nat /\ repriced' \in BOOLEAN
         /\ repriced => repriced'
         /\ ~repriced' =>
              LET c == request[k].category IN
              IF c = Marketing /\ free > 0
              THEN free' = free - 1 /\ UNCHANGED <<balance, unpaid>>
              ELSE /\ UNCHANGED free
                   /\ balance' = IF balance > PriceOf[c] THEN balance - PriceOf[c] ELSE 0
                   /\ unpaid'  = IF balance < PriceOf[c] THEN unpaid + 1 ELSE unpaid
  <1>1. /\ free \in Nat /\ balance \in Nat /\ unpaid \in Nat /\ repriced \in BOOLEAN
    BY DEF Types
  <1>2. PICK category \in Categories, units \in {1, 2} :
       /\ IF category = Marketing /\ free > 0
          THEN units <= free /\ free' = free - units /\ UNCHANGED <<balance, unpaid>>
          ELSE /\ units = 1 /\ UNCHANGED free
               /\ balance' = IF balance > PriceOf[category] THEN balance - PriceOf[category] ELSE 0
               /\ unpaid'  = IF balance < PriceOf[category] THEN unpaid + 1 ELSE unpaid
       /\ repriced' = (repriced \/ category # request[k].category \/ units # 1)
    BY DEF Deliver
  <1>3. PriceOf[category] \in Nat
    OBVIOUS
  <1>4. /\ free' \in Nat /\ balance' \in Nat /\ unpaid' \in Nat
    <2>1. CASE category = Marketing /\ free > 0
      BY <1>1, <1>2, <2>1
    <2>2. CASE ~(category = Marketing /\ free > 0)
      <3>1. free' = free /\ unpaid' \in {unpaid, unpaid + 1}
        BY <1>2, <2>2
      <3>2. balance' = IF balance > PriceOf[category] THEN balance - PriceOf[category] ELSE 0
        BY <1>2, <2>2
      <3>3. balance' \in Nat
        BY <1>1, <1>3, <3>2
      <3>4. QED
        BY <1>1, <3>1, <3>3
    <2>3. QED
      BY <2>1, <2>2
  <1>5. repriced' \in BOOLEAN /\ (repriced => repriced')
    BY <1>2
  <1>6. ASSUME ~repriced' PROVE category = request[k].category /\ units = 1
    BY <1>2, <1>6
  <1>7. QED
    BY <1>2, <1>4, <1>5, <1>6

\* A row on its way, or one that a handler has read, moves on or comes back; only
\* a delivery takes from the plan or the wallet.
LEMMA WorkEffect ==
  ASSUME Types, NEW k \in Requests, FlowOf(k), NEW q \in People, Work(k, q)
  PROVE  /\ row[k][q] \in {"queued", "sending", "sent"} \/ q \in refusing[k]
         /\ row[k][q] \in {"queued", "sending", "sent", "canceled"}
         /\ row'[k][q] \in {"queued", "sending", "sent", "delivered", "failed"}
         /\ q \in refusing'[k] => row'[k][q] \in {"sent", "queued"}
         /\ \A p \in People \ {q} :
              row'[k][p] = row[k][p] /\ (p \in refusing'[k] => p \in refusing[k])
         /\ row' \in [Requests -> [People -> Cells]]
         /\ refusing' \in [Requests -> SUBSET People]
         /\ \/ UNCHANGED money
            \/ Deliver(k, q) /\ row'[k][q] = "delivered" /\ q \notin refusing'[k]
         /\ refusals' \in Nat
         /\ Only(k)
         /\ UNCHANGED Others
  <1>1. /\ row \in [Requests -> [People -> Cells]] /\ row[k] \in [People -> Cells]
        /\ refusing \in [Requests -> SUBSET People] /\ refusals \in Nat
    BY DEF Types
  <1>2. CASE Refused(k, q)
    <2>1. /\ row[k][q] = "sent" /\ refusals' = refusals + 1
          /\ refusing' = [refusing EXCEPT ![k] = refusing[k] \cup {q}]
          /\ UNCHANGED <<Others, row, money>>
      BY <1>2 DEF Refused
    <2>2. /\ refusing' \in [Requests -> SUBSET People] /\ refusing'[k] = refusing[k] \cup {q}
          /\ \A j \in Requests \ {k} : refusing'[j] = refusing[j]
      BY <1>1, <2>1
    <2>3. Only(k)
      BY <2>1, <2>2 DEF Only, Others
    <2>4. QED
      BY <1>1, <2>1, <2>2, <2>3
  <1>3. CASE Requeue(k, q)
    <2> DEFINE f == [row[k] EXCEPT ![q] = "queued"]
    <2>1. /\ q \in refusing[k] /\ row' = [row EXCEPT ![k] = f]
          /\ refusing' \in {refusing, [refusing EXCEPT ![k] = refusing[k] \ {q}]}
          /\ UNCHANGED <<Others, money, refusals>>
      BY <1>1, <1>3 DEF Requeue
    <2>2. /\ f \in [People -> Cells] /\ f[q] = "queued"
          /\ \A p \in People \ {q} : f[p] = row[k][p]
      BY <1>1 DEF Cells
    <2> HIDE DEF f
    <2>3. row' \in [Requests -> [People -> Cells]] /\ row'[k] = f
          /\ \A j \in Requests \ {k} : row'[j] = row[j]
      BY <1>1, <2>1, <2>2
    <2>4. /\ refusing' \in [Requests -> SUBSET People] /\ refusing'[k] \subseteq refusing[k]
          /\ \A j \in Requests \ {k} : refusing'[j] = refusing[j]
      <3>1. CASE refusing' = refusing
        BY <1>1, <3>1
      <3>2. CASE refusing' = [refusing EXCEPT ![k] = refusing[k] \ {q}]
        BY <1>1, <3>2
      <3>3. QED
        BY <2>1, <3>1, <3>2
    <2>5. Only(k)
      BY <2>1, <2>3, <2>4 DEF Only, Others
    <2>6. row[k][q] \in {"sent", "queued", "canceled"}
      BY <2>1 DEF FlowOf
    <2>7. QED
      BY <1>1, <2>1, <2>2, <2>3, <2>4, <2>5, <2>6
  <1>4. CASE ~Refused(k, q) /\ ~Requeue(k, q)
    <2>1. PICK from \in {"queued", "sending", "sent"},
               to \in {"queued", "sending", "sent", "delivered", "failed"} :
            /\ Becomes(k, q, from, to)
            /\ UNCHANGED money \/ (Deliver(k, q) /\ to = "delivered")
      BY <1>4 DEF Work, Claim, Retry, Reject, Accept, Fail, DeliverFree, Deliver
    <2>2. to \in Cells
      BY DEF Cells
    <2>3. /\ row[k][q] = from /\ q \notin refusing[k] /\ row'[k][q] = to
          /\ \A p \in People \ {q} : row'[k][p] = row[k][p]
          /\ row' \in [Requests -> [People -> Cells]] /\ Only(k)
          /\ UNCHANGED <<Others, refusing, refusals>>
      BY <2>1, <2>2, BecomesEffect
    <2>4. QED
      BY <1>1, <2>1, <2>3
  <1>5. QED
    BY <1>2, <1>3, <1>4

LEMMA ChangeEffect ==
  ASSUME Types, NEW p \in People, Import(p) \/ OptOut(p) \/ Remove(p) \/ Erase(p)
  PROVE  /\ contact' \in [People -> Consents] /\ refused' \subseteq People
         /\ refused \subseteq refused' /\ changes' \in Nat
         /\ \A q \in People \ {p} : contact'[q] = contact[q] /\ (q \in refused' => q \in refused)
         /\ p \in refused' => p \in refused \/ OptedOut(p)'
         /\ OptedOut(p) => OptedOut(p)'
         /\ contact[p] = "opted_out_deleted" => contact'[p] = "opted_out_deleted"
         /\ UNCHANGED <<queue, refusing, money, request, cancel, wizard, subject, history, mishaps,
                        refusals>>
  <1>1. PICK value \in Consents :
          /\ Change(p, value)
          /\ OptedOut(p) => value \in {"opted_out", "opted_out_deleted"}
          /\ contact[p] = "opted_out_deleted" => value = "opted_out_deleted"
    <2>1. CASE Import(p)
      <3>1. PICK c \in {"unknown", "granted"} : Change(p, Upserted(p, c))
        BY <2>1 DEF Import
      <3>2. Upserted(p, c) \in Consents
        BY DEF Upserted, Consents, Types
      <3>3. /\ OptedOut(p) => Upserted(p, c) \in {"opted_out", "opted_out_deleted"}
            /\ contact[p] = "opted_out_deleted" => Upserted(p, c) = "opted_out_deleted"
        BY DEF Upserted, OptedOut
      <3>4. QED
        BY <3>1, <3>2, <3>3
    <2>2. CASE OptOut(p)
      <3>1. Change(p, IF p \in Present THEN "opted_out" ELSE "opted_out_deleted")
        BY <2>2 DEF OptOut
      <3>2. QED
        BY <3>1 DEF Present, Consents
    <2>3. CASE Remove(p)
      <3>1. Change(p, IF OptedOut(p) THEN "opted_out_deleted" ELSE "deleted")
        BY <2>3 DEF Remove
      <3>2. QED
        BY <3>1 DEF OptedOut, Consents
    <2>4. CASE Erase(p)
      <3>1. Change(p, "opted_out_deleted")
        BY <2>4 DEF Erase
      <3>2. QED
        BY <3>1 DEF OptedOut, Consents
    <2>5. QED
      BY <2>1, <2>2, <2>3, <2>4
  <1>2. contact' = [contact EXCEPT ![p] = value] /\ contact \in [People -> Consents]
    BY <1>1 DEF Change, Types
  <1>3. contact' \in [People -> Consents] /\ contact'[p] = value
        /\ \A q \in People \ {p} : contact'[q] = contact[q]
    BY <1>1, <1>2
  <1>4. /\ refused' = IF value \in {"opted_out", "opted_out_deleted"} THEN refused \cup {p}
                      ELSE refused
        /\ refused \subseteq People /\ changes' = changes + 1 /\ changes \in Nat
        /\ UNCHANGED <<queue, refusing, money, request, cancel, wizard, subject, history, mishaps,
                       refusals>>
    BY <1>1 DEF Change, Types
  <1>5. p \in refused' => p \in refused \/ OptedOut(p)'
    BY <1>3, <1>4 DEF OptedOut
  <1>6. OptedOut(p) => OptedOut(p)'
    BY <1>1, <1>3 DEF OptedOut
  <1>7. QED
    BY <1>1, <1>3, <1>4, <1>5, <1>6

-----------------------------------------------------------------------------
(* The types and the flow are kept.                                        *)

LEMMA TypesKept == Types /\ Flow /\ [Next]_vars => Types'
  <1> SUFFICES ASSUME Types, Flow, [Next]_vars PROVE Types'
    OBVIOUS
  <1>1. ASSUME NEW p \in People, Import(p) \/ OptOut(p) \/ Remove(p) \/ Erase(p) PROVE Types'
    BY <1>1, ChangeEffect DEF Types
  <1>2. ASSUME NEW k \in Requests, Submit(k) PROVE Types'
    BY <1>2, SubmitEffect DEF Types, Base
  <1>3. ASSUME NEW k \in Requests, Look(k) PROVE Types'
    BY <1>3, LookEffect DEF Types, Base
  <1>4. ASSUME NEW k \in Requests, Balance(k) PROVE Types'
    BY <1>4, BalanceEffect DEF Types, Handler, Base
  <1>5. ASSUME NEW k \in Requests, Quota(k) PROVE Types'
    BY <1>5, QuotaEffect DEF Types, Handler, Base
  <1>6. ASSUME NEW k \in Requests, Refuse(k) PROVE Types'
    BY <1>6, RefuseEffect DEF Types, Handler, Base
  <1>7. ASSUME NEW k \in Requests, Create(k) PROVE Types'
    BY <1>7, CreateEffect DEF Types, Handler, Base
  <1>8. ASSUME NEW k \in Requests, EnqueueChunk(k) PROVE Types'
    BY <1>8, ChunkEffect DEF Types, Handler, Base
  <1>9. ASSUME NEW k \in Requests, Finish(k) PROVE Types'
    BY <1>9, FinishEffect DEF Types, Handler, Base
  <1>10. ASSUME NEW k \in Requests, Enqueue(k) PROVE Types'
    BY <1>10, EnqueueEffect DEF Types, Handler, Base
  <1>11. ASSUME NEW k \in Requests, Die(k) PROVE Types'
    BY <1>11, DieEffect DEF Types
  <1>12. ASSUME NEW k \in Requests, CancelRows(k) PROVE Types'
    BY <1>12, CancelRowsEffect DEF Types
  <1>13. ASSUME NEW k \in Requests, CancelStatus(k) PROVE Types'
    BY <1>13, CancelStatusEffect DEF Types
  <1>14. CASE LoseAnswer
    BY <1>14 DEF LoseAnswer, Types
  <1>15. ASSUME NEW k \in Requests, NEW q \in People, Work(k, q) PROVE Types'
    <2>1. FlowOf(k)
      BY DEF Flow
    <2>2. UNCHANGED money \/ Deliver(k, q)
      BY <1>15, <2>1, WorkEffect
    <2>3. /\ free' \in Nat /\ balance' \in Nat /\ unpaid' \in Nat /\ repriced' \in BOOLEAN
      <3>1. CASE UNCHANGED money
        BY <3>1 DEF Types
      <3>2. CASE Deliver(k, q)
        BY <3>2, DeliverEffect
      <3>3. QED
        BY <2>2, <3>1, <3>2
    <2>4. QED
      BY <1>15, <2>1, <2>3, WorkEffect DEF Types, Others
  <1>16. ASSUME NEW k \in Requests, Estimate(k) PROVE Types'
    BY <1>16, EstimateEffect DEF Types, Handler, Base
  <1>17. CASE UNCHANGED vars
    BY <1>17 DEF vars, Types
  <1>18. QED
    BY <1>1, <1>2, <1>3, <1>4, <1>5, <1>6, <1>7, <1>8, <1>9, <1>10, <1>11, <1>12, <1>13,
       <1>14, <1>15, <1>16, <1>17 DEF Next, Work

\* A request of which nothing changes keeps its flow.
LEMMA FlowStays ==
  ASSUME NEW k \in Requests, FlowOf(k),
         request'[k] = request[k], row'[k] = row[k], status'[k] = status[k],
         cancel'[k] = cancel[k], refusing'[k] = refusing[k]
  PROVE  FlowOf(k)'
  BY DEF FlowOf, Before, Filling

\* Before its rows are written, a request has none, and no handler has read one.
LEMMA Unread ==
  ASSUME Types, NEW k \in Requests, FlowOf(k), request[k].pc \in Before
  PROVE  /\ row[k] = NoRows /\ refusing[k] = {}
         /\ \A p \in People : row[k][p] = "none"
  <1>1. row[k] = NoRows
    BY DEF FlowOf
  <1>2. \A p \in People : row[k][p] = "none"
    BY <1>1 DEF NoRows
  <1>3. refusing[k] \subseteq People
    BY DEF Types
  <1>4. \A p \in refusing[k] : row[k][p] \in {"sent", "queued", "canceled"}
    BY DEF FlowOf
  <1>5. refusing[k] = {}
    BY <1>2, <1>3, <1>4
  <1>6. QED
    BY <1>1, <1>2, <1>5

LEMMA OnlyFlow ==
  ASSUME NEW k \in Requests, \A j \in Requests : FlowOf(j), Only(k), FlowOf(k)'
  PROVE  \A j \in Requests : FlowOf(j)'
  <1> TAKE j \in Requests
  <1>1. CASE j = k
    BY <1>1
  <1>2. CASE j # k
    <2>1. /\ request'[j] = request[j] /\ row'[j] = row[j] /\ status'[j] = status[j]
          /\ cancel'[j] = cancel[j] /\ refusing'[j] = refusing[j]
      BY <1>2 DEF Only
    <2>2. QED
      BY <2>1, FlowStays
  <1>3. QED
    BY <1>1, <1>2

\* A step of a request that the screen waits for leaves it begun.
LEMMA WizardStays ==
  ASSUME NEW k \in Requests, Types, WizardFits, UNCHANGED wizard, Only(k),
         request'[k].pc # "idle", request[k].single \/ ~request'[k].single \/ request[k].pc = "idle"
  PROVE  WizardFits'
  <1> SUFFICES ASSUME wizard # Nothing
               PROVE  request'[wizard].pc # "idle" /\ ~request'[wizard].single
    BY DEF WizardFits
  <1>1. wizard \in Requests /\ request[wizard].pc # "idle" /\ ~request[wizard].single
    BY DEF Types, WizardFits
  <1>2. CASE wizard = k
    BY <1>1, <1>2
  <1>3. CASE wizard # k
    BY <1>1, <1>3 DEF Only
  <1>4. QED
    BY <1>2, <1>3

LEMMA GoesFacts ==
  ASSUME Types, NEW k \in Requests, NEW l, Goes(k, l)
  PROVE  /\ request'[k].pc = l /\ request'[k].single = request[k].single
         /\ request'[k].eligible = request[k].eligible /\ request'[k].broken = request[k].broken
         /\ request'[k].category = request[k].category
  <1>1. request[k] \in Handlers
    BY DEF Types
  <1>2. QED
    BY <1>1 DEF Goes, Handlers

LEMMA FlowKept == Types /\ Flow /\ [Next]_vars => Flow'
  <1> SUFFICES ASSUME Types, Flow, [Next]_vars PROVE Flow'
    OBVIOUS
  <1> USE DEF Before, Filling
  <1>a. (\A j \in Requests : FlowOf(j)) /\ WizardFits
    BY DEF Flow
  <1>b. ASSUME NEW k \in Requests, Only(k), FlowOf(k)', WizardFits' PROVE Flow'
    BY <1>a, <1>b, OnlyFlow DEF Flow
  <1>c. ASSUME UNCHANGED <<request, row, status, cancel, refusing>>, WizardFits' PROVE Flow'
    BY <1>a, <1>c, FlowStays DEF Flow
  <1>1. ASSUME NEW p \in People, Import(p) \/ OptOut(p) \/ Remove(p) \/ Erase(p) PROVE Flow'
    <2>1. UNCHANGED <<request, row, status, cancel, refusing, wizard>>
      BY <1>1, ChangeEffect
    <2>2. QED
      BY <2>1, <1>a, <1>c DEF WizardFits
  <1>2. ASSUME NEW k \in Requests, Submit(k) PROVE Flow'
    <2>1. /\ wizard' = k /\ request[k].pc = "idle" /\ request'[k].pc = "estimate"
          /\ ~request'[k].single /\ Only(k) /\ UNCHANGED <<row, status, cancel, refusing>>
      BY <1>2, SubmitEffect DEF Base
    <2>2. FlowOf(k)'
      BY <2>1, <1>a DEF FlowOf
    <2>3. WizardFits'
      BY <2>1 DEF WizardFits
    <2>4. QED
      BY <2>1, <2>2, <2>3, <1>b
  <1>3. ASSUME NEW k \in Requests, Look(k) PROVE Flow'
    <2>1. /\ request[k].pc = "idle" /\ Only(k) /\ UNCHANGED <<row, status, cancel, refusing, wizard>>
          /\ \/ request'[k] = Failed
             \/ request'[k].pc \in {"text", "estimate"} /\ request'[k].single
      BY <1>3, LookEffect DEF Base
    <2>2. FlowOf(k)'
      BY <2>1, <1>a, NoRequestType DEF FlowOf
    <2>3. request'[k].pc # "idle"
      BY <2>1, NoRequestType
    <2>4. WizardFits'
      BY <2>1, <2>3, <1>a, WizardStays
    <2>5. QED
      BY <2>1, <2>2, <2>4, <1>b
  <1>4. ASSUME NEW k \in Requests, Balance(k) PROVE Flow'
    <2>1. /\ request[k].pc = "balance" /\ request'[k].pc = "quota" /\ Only(k)
          /\ request'[k].single = request[k].single
          /\ UNCHANGED <<row, status, cancel, refusing, wizard>>
      BY <1>4, BalanceEffect DEF Handler, Base
    <2>2. FlowOf(k)'
      BY <2>1, <1>a DEF FlowOf
    <2>3. WizardFits'
      BY <2>1, <1>a, WizardStays
    <2>4. QED
      BY <2>1, <2>2, <2>3, <1>b
  <1>5. ASSUME NEW k \in Requests, Quota(k) PROVE Flow'
    <2>1. /\ request[k].pc = "quota" /\ request[k].single /\ Goes(k, "insert") /\ Only(k)
          /\ UNCHANGED <<row, status, cancel, refusing, wizard>>
      BY <1>5, QuotaEffect DEF Handler, Base
    <2>2. request'[k].pc = "insert" /\ request'[k].single = request[k].single
      BY <2>1, GoesFacts
    <2>3. FlowOf(k)'
      BY <2>1, <2>2, <1>a DEF FlowOf
    <2>4. WizardFits'
      BY <2>1, <2>2, <1>a, WizardStays
    <2>5. QED
      BY <2>1, <2>3, <2>4, <1>b
  <1>6. ASSUME NEW k \in Requests, Refuse(k) PROVE Flow'
    <2>1. /\ request'[k] = Failed /\ Only(k) /\ UNCHANGED <<row, status, cancel, refusing, wizard>>
      BY <1>6, RefuseEffect DEF Handler, Base
    <2>2. FlowOf(k)'
      BY <2>1, <1>a, NoRequestType DEF FlowOf
    <2>3. WizardFits'
      BY <2>1, <1>a, WizardStays, NoRequestType
    <2>4. QED
      BY <2>1, <2>2, <2>3, <1>b
  <1>7. ASSUME NEW k \in Requests, Create(k) PROVE Flow'
    <2>1. /\ request[k].pc = "quota" /\ ~request[k].single /\ Only(k)
          /\ status'[k] \in {"scheduled", "queuing"} /\ UNCHANGED <<row, cancel, refusing, wizard>>
          /\ \/ request'[k] = Done(k)
             \/ request'[k] = Failed
             \/ ~request[k].broken /\ Goes(k, "chunk")
      BY <1>7, CreateEffect DEF Handler, Base
    <2>2. /\ ~request'[k].single /\ request'[k].pc \in {"done", "failed", "chunk"}
          /\ request'[k].pc = "chunk" => ~request'[k].broken
      BY <2>1, NoRequestType, DoneFacts, GoesFacts
    <2>3. refusing[k] = {}
      BY <2>1, <1>a, Unread DEF Before
    <2>4. FlowOf(k)'
      BY <2>1, <2>2, <2>3, <1>a DEF FlowOf
    <2>5. WizardFits'
      BY <2>1, <2>2, <1>a, WizardStays
    <2>6. QED
      BY <2>1, <2>4, <2>5, <1>b
  <1>8. ASSUME NEW k \in Requests, EnqueueChunk(k) PROVE Flow'
    <2>1. Goes(k, "chunk") \/ Goes(k, "finish")
      BY <1>8, ChunkEffect
    <2>2. Only(k) /\ UNCHANGED <<status, cancel, refusing, wizard>>
      BY <1>8, ChunkEffect DEF Handler, Base
    <2>3. request[k].pc = "chunk"
      BY <1>8, ChunkEffect
    <2>4. /\ request'[k].pc \in Filling /\ request'[k].single = request[k].single
          /\ request'[k].broken = request[k].broken
      BY <2>1, GoesFacts
    <2>5. \A p \in refusing[k] : row'[k][p] = row[k][p]
      <3>1. refusing[k] \subseteq People /\ \A p \in refusing[k] : row[k][p] # "none"
        BY <1>a DEF FlowOf, Types
      <3>2. \A p \in People : row'[k][p] = row[k][p] \/ p \in Left(k)
        BY <1>8, ChunkEffect
      <3>3. QED
        BY <3>1, <3>2 DEF Left
    <2>6. FlowOf(k)'
      BY <2>2, <2>3, <2>4, <2>5, <1>a DEF FlowOf
    <2>7. WizardFits'
      BY <2>2, <2>4, <1>a, WizardStays
    <2>8. QED
      BY <2>2, <2>6, <2>7, <1>b
  <1>9. ASSUME NEW k \in Requests, Finish(k) PROVE Flow'
    <2>1. /\ request[k].pc = "finish" /\ request'[k] = Done(k) /\ Only(k)
          /\ status'[k] = "sending" /\ UNCHANGED <<row, cancel, refusing, wizard>>
      BY <1>9, FinishEffect DEF Handler, Base
    <2>2. request'[k].pc = "done" /\ ~request'[k].single
      BY <2>1, DoneFacts
    <2>3. FlowOf(k)'
      BY <2>1, <2>2, <1>a DEF FlowOf
    <2>4. WizardFits'
      BY <2>1, <2>2, <1>a, WizardStays
    <2>5. QED
      BY <2>1, <2>3, <2>4, <1>b
  <1>10. ASSUME NEW k \in Requests, Enqueue(k) PROVE Flow'
    <2>1. /\ request[k].pc \in {"insert", "text"} /\ Only(k)
          /\ request'[k].pc = "done" /\ ~request'[k].single
          /\ UNCHANGED <<status, cancel, refusing, wizard>>
      BY <1>10, EnqueueEffect, DoneFacts DEF Handler, Base
    <2>2. refusing[k] = {}
      BY <2>1, <1>a, Unread DEF Before
    <2>3. FlowOf(k)'
      BY <2>1, <2>2, <1>a DEF FlowOf
    <2>4. WizardFits'
      BY <2>1, <1>a, WizardStays
    <2>5. QED
      BY <2>1, <2>3, <2>4, <1>b
  <1>11. ASSUME NEW k \in Requests, Die(k) PROVE Flow'
    <2>1. /\ request'[k].pc = "failed" /\ ~request'[k].single /\ Only(k)
          /\ UNCHANGED <<row, status, cancel, refusing, wizard>>
      BY <1>11, DieEffect
    <2>2. FlowOf(k)'
      BY <2>1, <1>a DEF FlowOf
    <2>3. WizardFits'
      BY <2>1, <1>a, WizardStays
    <2>4. QED
      BY <2>1, <2>2, <2>3, <1>b
  <1>12. ASSUME NEW k \in Requests, CancelRows(k) PROVE Flow'
    <2>1. /\ Cancelable(k) /\ Only(k) /\ UNCHANGED <<request, status, refusing, wizard>>
          /\ \A p \in People :
               row'[k][p] = IF row[k][p] = "queued" THEN "canceled" ELSE row[k][p]
      BY <1>12, CancelRowsEffect
    <2>2. FlowOf(k)'
      BY <2>1, <1>a DEF FlowOf, Cancelable, Types
    <2>3. WizardFits'
      BY <2>1, <1>a DEF WizardFits
    <2>4. QED
      BY <2>1, <2>2, <2>3, <1>b
  <1>13. ASSUME NEW k \in Requests, CancelStatus(k) PROVE Flow'
    <2>1. /\ cancel[k] = "status" /\ cancel'[k] = "idle" /\ status'[k] = "canceled" /\ Only(k)
          /\ UNCHANGED <<request, row, refusing, wizard>>
      BY <1>13, CancelStatusEffect
    <2>2. FlowOf(k)'
      BY <2>1, <1>a DEF FlowOf
    <2>3. WizardFits'
      BY <2>1, <1>a DEF WizardFits
    <2>4. QED
      BY <2>1, <2>2, <2>3, <1>b
  <1>14. CASE LoseAnswer
    <2>1. UNCHANGED <<request, row, status, cancel, refusing>> /\ wizard' = Nothing
      BY <1>14 DEF LoseAnswer
    <2>2. QED
      BY <2>1, <1>c DEF WizardFits
  <1>15. ASSUME NEW k \in Requests, NEW q \in People, Work(k, q) PROVE Flow'
    <2>1. /\ row[k][q] \in {"queued", "sending", "sent", "canceled"}
          /\ q \in refusing'[k] => row'[k][q] \in {"sent", "queued"}
          /\ \A p \in People \ {q} :
               row'[k][p] = row[k][p] /\ (p \in refusing'[k] => p \in refusing[k])
          /\ refusing' \in [Requests -> SUBSET People]
          /\ Only(k) /\ UNCHANGED <<request, status, cancel, wizard>>
      BY <1>15, <1>a, WorkEffect DEF Others
    <2>2. row[k] # NoRows
      BY <2>1 DEF NoRows
    <2>3. \A p \in refusing'[k] : row'[k][p] \in {"sent", "queued", "canceled"}
      BY <2>1, <1>a DEF FlowOf
    <2>4. FlowOf(k)'
      BY <2>1, <2>2, <2>3, <1>a DEF FlowOf
    <2>5. WizardFits'
      BY <2>1, <1>a DEF WizardFits
    <2>6. QED
      BY <2>1, <2>4, <2>5, <1>b
  <1>16. ASSUME NEW k \in Requests, Estimate(k) PROVE Flow'
    <2>1. /\ request[k].pc = "estimate" /\ request'[k].pc = "balance" /\ Only(k)
          /\ request'[k].single = request[k].single
          /\ UNCHANGED <<row, status, cancel, refusing, wizard>>
      BY <1>16, EstimateEffect DEF Handler, Base
    <2>2. FlowOf(k)'
      BY <2>1, <1>a DEF FlowOf
    <2>3. WizardFits'
      BY <2>1, <1>a, WizardStays
    <2>4. QED
      BY <2>1, <2>2, <2>3, <1>b
  <1>17. CASE UNCHANGED vars
    BY <1>17, <1>a, <1>c DEF vars, WizardFits
  <1>18. QED
    BY <1>1, <1>2, <1>3, <1>4, <1>5, <1>6, <1>7, <1>8, <1>9, <1>10, <1>11, <1>12, <1>13,
       <1>14, <1>15, <1>16, <1>17 DEF Next, Work

LEMMA StartsRight == Init => Types /\ Flow
  <1> SUFFICES ASSUME Init PROVE Types /\ Flow
    OBVIOUS
  <1>1. NoRows \in [People -> Cells]
    BY DEF NoRows, Cells
  <1>2. /\ row = [k \in Requests |-> NoRows] /\ row \in [Requests -> [People -> Cells]]
        /\ request = [k \in Requests |-> NoRequest] /\ request \in [Requests -> Handlers]
    BY <1>1, NoRequestType DEF Init
  <1>3. Types
    BY <1>2 DEF Init, Types, Consents, Statuses, OptedOut
  <1>4. Flow
    BY <1>2 DEF Init, Flow, FlowOf, WizardFits, Before, Filling, NoRequest
  <1>5. QED
    BY <1>3, <1>4

\* The types of Campaigns hold at every moment.
THEOREM TypeCorrect == Spec => []TypeOK
  <1>1. Init => Types /\ Flow
    BY StartsRight
  <1>2. Types => TypeOK
    BY DEF Types, TypeOK, Handlers, Consents, Statuses, Cells
  <1>3. Types /\ Flow /\ [Next]_vars => (Types /\ Flow)'
    BY TypesKept, FlowKept
  <1>4. QED
    BY <1>1, <1>2, <1>3, PTL DEF Spec

-----------------------------------------------------------------------------
(* Canceling a campaign stops it.                                          *)

\* What was withdrawn stays withdrawn, for nothing fills it any more and no
\* handler has read it.
StopOf(k) ==
  /\ stopped[k] # People => request[k].pc \in {"done", "failed"}
  /\ \A p \in People \ stopped[k] :
       row[k][p] \notin {"queued", "sending", "sent"} /\ p \notin refusing[k]

StopInv == \A k \in Requests : StopOf(k)

LEMMA OnlyStop ==
  ASSUME NEW k \in Requests, StopInv, Only(k), StopOf(k)'
  PROVE  StopInv'
  <1> SUFFICES ASSUME NEW j \in Requests PROVE StopOf(j)'
    BY DEF StopInv
  <1>1. CASE j = k
    BY <1>1
  <1>2. CASE j # k
    <2>1. /\ request'[j] = request[j] /\ row'[j] = row[j] /\ stopped'[j] = stopped[j]
          /\ refusing'[j] = refusing[j]
      BY <1>2 DEF Only
    <2>2. StopOf(j)
      BY DEF StopInv
    <2>3. QED
      BY <2>1, <2>2 DEF StopOf
  <1>3. QED
    BY <1>1, <1>2

\* A step of a request that has not ended: nothing of it was stopped yet.
LEMMA StopRunning ==
  ASSUME NEW k \in Requests, StopInv, Only(k), UNCHANGED stopped,
         request[k].pc \notin {"done", "failed"}
  PROVE  StopInv'
  <1>1. stopped[k] = People
    BY DEF StopInv, StopOf
  <1>2. StopOf(k)'
    BY <1>1 DEF StopOf
  <1>3. QED
    BY <1>2, OnlyStop

LEMMA StopKept == Types /\ Flow /\ StopInv /\ [Next]_vars => StopInv'
  <1> SUFFICES ASSUME Types, Flow, StopInv, [Next]_vars PROVE StopInv'
    OBVIOUS
  <1>a. ASSUME UNCHANGED <<request, row, refusing, stopped>> PROVE StopInv'
    BY <1>a DEF StopInv, StopOf
  <1>1. ASSUME NEW p \in People, Import(p) \/ OptOut(p) \/ Remove(p) \/ Erase(p) PROVE StopInv'
    BY <1>1, <1>a, ChangeEffect
  <1>2. ASSUME NEW k \in Requests, Submit(k) PROVE StopInv'
    BY <1>2, SubmitEffect, StopRunning DEF Base
  <1>3. ASSUME NEW k \in Requests, Look(k) PROVE StopInv'
    BY <1>3, LookEffect, StopRunning DEF Base
  <1>4. ASSUME NEW k \in Requests, Balance(k) PROVE StopInv'
    BY <1>4, BalanceEffect, StopRunning DEF Base, Handler
  <1>5. ASSUME NEW k \in Requests, Quota(k) PROVE StopInv'
    BY <1>5, QuotaEffect, StopRunning DEF Base, Handler
  <1>6. ASSUME NEW k \in Requests, Refuse(k) PROVE StopInv'
    BY <1>6, RefuseEffect, StopRunning DEF Base, Handler
  <1>7. ASSUME NEW k \in Requests, Create(k) PROVE StopInv'
    BY <1>7, CreateEffect, StopRunning DEF Base, Handler
  <1>8. ASSUME NEW k \in Requests, EnqueueChunk(k) PROVE StopInv'
    BY <1>8, ChunkEffect, StopRunning DEF Base, Handler
  <1>9. ASSUME NEW k \in Requests, Finish(k) PROVE StopInv'
    BY <1>9, FinishEffect, StopRunning DEF Base, Handler
  <1>10. ASSUME NEW k \in Requests, Enqueue(k) PROVE StopInv'
    BY <1>10, EnqueueEffect, StopRunning DEF Base, Handler
  <1>11. ASSUME NEW k \in Requests, Die(k) PROVE StopInv'
    BY <1>11, DieEffect, StopRunning
  <1>12. ASSUME NEW k \in Requests, CancelRows(k) PROVE StopInv'
    <2>1. /\ Cancelable(k) /\ Only(k) /\ UNCHANGED <<request, refusing>>
          /\ stopped'[k] = IF k \in Running THEN stopped[k]
                           ELSE {p \in People : row[k][p] \in {"sending", "sent"}}
                                \cup refusing[k]
          /\ \A p \in People :
               row'[k][p] = IF row[k][p] = "queued" THEN "canceled" ELSE row[k][p]
      BY <1>12, CancelRowsEffect
    <2>2. StopOf(k)
      BY DEF StopInv
    <2>3. CASE k \in Running
      <3>1. stopped[k] = People
        BY <2>2, <2>3 DEF StopOf, Running
      <3>2. StopOf(k)'
        BY <2>1, <2>3, <3>1 DEF StopOf
      <3>3. QED
        BY <2>1, <3>2, OnlyStop
    <2>4. CASE k \notin Running
      <3>1. request[k].pc \in {"idle", "done", "failed"}
        BY <2>4 DEF Running
      <3>2. request[k].pc # "idle"
        BY <2>1 DEF Flow, FlowOf, Before, Cancelable
      <3>3. StopOf(k)'
        BY <2>1, <2>4, <3>1, <3>2 DEF StopOf
      <3>4. QED
        BY <2>1, <3>3, OnlyStop
    <2>5. QED
      BY <2>3, <2>4
  <1>13. ASSUME NEW k \in Requests, CancelStatus(k) PROVE StopInv'
    BY <1>13, <1>a, CancelStatusEffect
  <1>14. CASE LoseAnswer
    BY <1>14, <1>a DEF LoseAnswer
  <1>15. ASSUME NEW k \in Requests, NEW q \in People, Work(k, q) PROVE StopInv'
    <2>1. /\ row[k][q] \in {"queued", "sending", "sent"} \/ q \in refusing[k]
          /\ \A p \in People \ {q} :
               row'[k][p] = row[k][p] /\ (p \in refusing'[k] => p \in refusing[k])
          /\ Only(k) /\ UNCHANGED <<request, stopped>>
      BY <1>15, WorkEffect DEF Others, Flow
    <2>2. StopOf(k)
      BY DEF StopInv
    <2>3. q \in stopped[k]
      BY <2>1, <2>2 DEF StopOf
    <2>4. StopOf(k)'
      BY <2>1, <2>2, <2>3 DEF StopOf
    <2>5. QED
      BY <2>1, <2>4, OnlyStop
  <1>16. ASSUME NEW k \in Requests, Estimate(k) PROVE StopInv'
    BY <1>16, EstimateEffect, StopRunning DEF Base, Handler
  <1>17. CASE UNCHANGED vars
    BY <1>17, <1>a DEF vars
  <1>18. QED
    BY <1>1, <1>2, <1>3, <1>4, <1>5, <1>6, <1>7, <1>8, <1>9, <1>10, <1>11, <1>12, <1>13,
       <1>14, <1>15, <1>16, <1>17 DEF Next, Work

\* CancelStops: once a campaign is filled, cancel() leaves nothing to send but
\* the rows that were out of the queue when their status was updated: in a
\* worker's hands, accepted by Meta, or read by a handler of a refusal.
THEOREM CanceledIsStopped == Spec => []CancelStops
  <1>1. Init => Types /\ Flow /\ StopInv
    BY StartsRight DEF Init, StopInv, StopOf
  <1>2. Types /\ Flow /\ StopInv /\ [Next]_vars => (Types /\ Flow /\ StopInv)'
    BY TypesKept, FlowKept, StopKept
  <1>3. StopInv => CancelStops
    BY DEF StopInv, StopOf, CancelStops
  <1>4. QED
    BY <1>1, <1>2, <1>3, PTL DEF Spec
-----------------------------------------------------------------------------
(* Who has opted out receives nothing more.                                *)

Hidden(p) == contact[p] = "opted_out_deleted"

\* Of those who had opted out when the request began, a campaign has chosen
\* none, unless every row of it is broken; a single message can only be for
\* one whose contact was removed while it was under way.
OutOf(k) ==
  /\ outAt[k] \subseteq refused
  /\ \A p \in outAt[k] :
       /\ row[k][p] # "none" => status[k] = "none" /\ Hidden(p)
       /\ p \in request[k].eligible => IF request[k].single THEN Hidden(p)
                                                            ELSE request[k].broken

OutInv == /\ \A p \in refused : OptedOut(p)
          /\ \A k \in Requests : OutOf(k)

LEMMA OnlyOut ==
  ASSUME NEW k \in Requests, OutInv, Only(k), UNCHANGED <<contact, refused>>, OutOf(k)'
  PROVE  OutInv'
  <1>1. ASSUME NEW j \in Requests PROVE OutOf(j)'
    <2>1. CASE j = k
      BY <2>1
    <2>2. CASE j # k
      <3>1. /\ request'[j] = request[j] /\ row'[j] = row[j] /\ status'[j] = status[j]
            /\ outAt'[j] = outAt[j]
        BY <2>2 DEF Only
      <3>2. OutOf(j)
        BY DEF OutInv
      <3>3. QED
        BY <3>1, <3>2 DEF OutOf, Hidden
    <2>3. QED
      BY <2>1, <2>2
  <1>2. \A p \in refused' : OptedOut(p)'
    BY DEF OutInv, OptedOut
  <1>3. QED
    BY <1>1, <1>2 DEF OutInv

\* A step that writes nothing and forgets the audience, or keeps it.
LEMMA OutStays ==
  ASSUME NEW k \in Requests, OutInv, Only(k),
         UNCHANGED <<contact, refused, row, status, outAt>>,
         \/ request'[k].eligible = {}
         \/ /\ request'[k].eligible = request[k].eligible
            /\ request'[k].single = request[k].single /\ request'[k].broken = request[k].broken
  PROVE  OutInv'
  <1>1. OutOf(k)
    BY DEF OutInv
  <1>2. OutOf(k)'
    BY <1>1 DEF OutOf, Hidden
  <1>3. QED
    BY <1>2, OnlyOut

LEMMA OutKept == Types /\ Flow /\ OutInv /\ [Next]_vars => OutInv'
  <1> SUFFICES ASSUME Types, Flow, OutInv, [Next]_vars PROVE OutInv'
    OBVIOUS
  <1>a. ASSUME UNCHANGED <<contact, refused, request, row, status, outAt>> PROVE OutInv'
    BY <1>a DEF OutInv, OutOf, OptedOut, Hidden
  <1>b. \A k \in Requests : OutOf(k) /\ FlowOf(k) /\ outAt[k] \subseteq People
    BY DEF OutInv, Flow, Types
  <1>1. ASSUME NEW p \in People, Import(p) \/ OptOut(p) \/ Remove(p) \/ Erase(p) PROVE OutInv'
    <2>1. /\ refused \subseteq refused' /\ refused' \subseteq People
          /\ \A q \in People \ {p} : contact'[q] = contact[q] /\ (q \in refused' => q \in refused)
          /\ p \in refused' => p \in refused \/ OptedOut(p)'
          /\ OptedOut(p) => OptedOut(p)'
          /\ contact[p] = "opted_out_deleted" => contact'[p] = "opted_out_deleted"
          /\ UNCHANGED <<request, row, status, outAt>>
      BY <1>1, ChangeEffect
    <2>2. ASSUME NEW q \in refused' PROVE OptedOut(q)'
      <3>1. CASE q = p
        BY <2>1, <2>2, <3>1 DEF OutInv
      <3>2. CASE q # p
        BY <2>1, <2>2, <3>2 DEF OutInv, OptedOut
      <3>3. QED
        BY <3>1, <3>2
    <2>3. \A q \in People : Hidden(q) => Hidden(q)'
      BY <2>1 DEF Hidden
    <2>4. ASSUME NEW k \in Requests PROVE OutOf(k)'
      BY <1>b, <2>1, <2>3 DEF OutOf
    <2>5. QED
      BY <2>2, <2>4 DEF OutInv
  <1>2. ASSUME NEW k \in Requests, Submit(k) PROVE OutInv'
    <2>1. /\ request[k].pc = "idle" /\ outAt'[k] = refused
          /\ ~request'[k].single
          /\ \A p \in request'[k].eligible : request'[k].broken \/ contact[p] # "opted_out"
          /\ request'[k].eligible \subseteq Present
          /\ Only(k) /\ UNCHANGED <<contact, refused, row, status>>
      BY <1>2, SubmitEffect DEF Base
    <2>2. \A p \in People : row[k][p] = "none"
      BY <2>1, <1>b DEF FlowOf, Before, NoRows
    <2>3. \A p \in refused : p \in request'[k].eligible => request'[k].broken
      BY <2>1 DEF OutInv, OptedOut, Present
    <2>4. OutOf(k)'
      BY <2>1, <2>2, <2>3 DEF OutOf, Types
    <2>5. QED
      BY <2>1, <2>4, OnlyOut
  <1>3. ASSUME NEW k \in Requests, Look(k) PROVE OutInv'
    <2>1. /\ request[k].pc = "idle" /\ outAt'[k] = refused
          /\ \/ request'[k] = Failed
             \/ /\ request'[k].single
                /\ \A p \in request'[k].eligible : contact[p] # "opted_out"
          /\ Only(k) /\ UNCHANGED <<contact, refused, row, status>>
      BY <1>3, LookEffect DEF Base
    <2>2. \A p \in People : row[k][p] = "none"
      BY <2>1, <1>b DEF FlowOf, Before, NoRows
    <2>3. \A p \in refused : p \in request'[k].eligible => request'[k].single /\ Hidden(p)
      BY <2>1, NoRequestType DEF OutInv, OptedOut, Hidden
    <2>4. UNCHANGED contact
      BY <2>1
    <2>5. OutOf(k)'
      BY <2>1, <2>2, <2>3, <2>4 DEF OutOf, Types, Hidden
    <2>6. QED
      BY <2>1, <2>5, OnlyOut
  <1>4. ASSUME NEW k \in Requests, Balance(k) PROVE OutInv'
    BY <1>4, BalanceEffect, OutStays DEF Base, Handler
  <1>5. ASSUME NEW k \in Requests, Quota(k) PROVE OutInv'
    BY <1>5, QuotaEffect, GoesFacts, OutStays DEF Base, Handler
  <1>6. ASSUME NEW k \in Requests, Refuse(k) PROVE OutInv'
    BY <1>6, RefuseEffect, NoRequestType, OutStays DEF Base, Handler
  <1>7. ASSUME NEW k \in Requests, Create(k) PROVE OutInv'
    <2>1. /\ request[k].pc = "quota" /\ ~request[k].single /\ Only(k)
          /\ UNCHANGED <<contact, refused, row, outAt>>
          /\ \/ request'[k] = Done(k)
             \/ request'[k] = Failed
             \/ ~request[k].broken /\ Goes(k, "chunk")
      BY <1>7, CreateEffect DEF Handler, Base
    <2>2. \A p \in outAt[k] : p \notin request'[k].eligible
      <3>1. CASE request'[k] = Done(k) \/ request'[k] = Failed
        BY <3>1, NoRequestType, DoneFacts
      <3>2. CASE ~request[k].broken /\ Goes(k, "chunk")
        BY <3>2, <2>1, <1>b, GoesFacts DEF OutOf
      <3>3. QED
        BY <2>1, <3>1, <3>2
    <2>3. \A p \in People : row[k][p] = "none"
      BY <2>1, <1>b DEF FlowOf, Before, NoRows
    <2>4. OutOf(k)'
      BY <2>1, <2>2, <2>3, <1>b DEF OutOf
    <2>5. QED
      BY <2>1, <2>4, OnlyOut
  <1>8. ASSUME NEW k \in Requests, EnqueueChunk(k) PROVE OutInv'
    <2>1. /\ request[k].pc = "chunk" /\ (Goes(k, "chunk") \/ Goes(k, "finish"))
          /\ \A p \in People : \/ row'[k][p] = row[k][p]
                               \/ p \in Left(k) /\ row'[k][p] = "queued"
          /\ Only(k) /\ UNCHANGED <<contact, refused, outAt, status>>
      BY <1>8, ChunkEffect DEF Handler, Base
    <2>2. /\ request'[k].eligible = request[k].eligible
          /\ request'[k].single = request[k].single /\ request'[k].broken = request[k].broken
      BY <2>1, GoesFacts
    <2>3. ~request[k].single /\ ~request[k].broken
      BY <2>1, <1>b DEF FlowOf, Filling
    <2>4. \A p \in outAt[k] : p \notin request[k].eligible
      BY <2>3, <1>b DEF OutOf
    <2>5. \A p \in outAt[k] : row'[k][p] = row[k][p]
      BY <2>1, <2>4, <1>b DEF Left
    <2>6. OutOf(k)'
      BY <2>1, <2>2, <2>4, <2>5, <1>b DEF OutOf, Hidden
    <2>7. QED
      BY <2>1, <2>6, OnlyOut
  <1>9. ASSUME NEW k \in Requests, Finish(k) PROVE OutInv'
    <2>1. /\ request[k].pc = "finish" /\ request'[k].eligible = {} /\ Only(k)
          /\ UNCHANGED <<contact, refused, outAt, row>>
      BY <1>9, FinishEffect, DoneFacts DEF Handler, Base
    <2>2. status[k] # "none"
      BY <2>1, <1>b DEF FlowOf, Filling
    <2>3. OutOf(k)'
      BY <2>1, <2>2, <1>b DEF OutOf, Hidden
    <2>4. QED
      BY <2>1, <2>3, OnlyOut
  <1>10. ASSUME NEW k \in Requests, Enqueue(k) PROVE OutInv'
    <2>1. /\ request[k].pc \in {"insert", "text"} /\ Only(k)
          /\ request'[k] = Done(k)
          /\ \A p \in People : p \notin request[k].eligible => row'[k][p] = "none"
          /\ UNCHANGED <<contact, refused, outAt, status>>
      BY <1>10, EnqueueEffect DEF Handler, Base
    <2>2. status[k] = "none" /\ request[k].single
      BY <2>1, <1>b DEF FlowOf, Before
    <2>3. OutOf(k)'
      BY <2>1, <2>2, <1>b, DoneFacts DEF OutOf, Hidden
    <2>4. QED
      BY <2>1, <2>3, OnlyOut
  <1>11. ASSUME NEW k \in Requests, Die(k) PROVE OutInv'
    BY <1>11, DieEffect, OutStays
  <1>12. ASSUME NEW k \in Requests, CancelRows(k) PROVE OutInv'
    <2>1. /\ Only(k) /\ UNCHANGED <<contact, refused, outAt, status, request>>
          /\ \A p \in People :
               row'[k][p] = IF row[k][p] = "queued" THEN "canceled" ELSE row[k][p]
      BY <1>12, CancelRowsEffect
    <2>2. \A p \in outAt[k] : row'[k][p] # "none" => row[k][p] # "none"
      BY <2>1, <1>b
    <2>3. OutOf(k)'
      BY <2>1, <2>2, <1>b DEF OutOf, Hidden
    <2>4. QED
      BY <2>1, <2>3, OnlyOut
  <1>13. ASSUME NEW k \in Requests, CancelStatus(k) PROVE OutInv'
    <2>1. /\ cancel[k] = "status" /\ Only(k)
          /\ UNCHANGED <<contact, refused, row, request, outAt>>
      BY <1>13, CancelStatusEffect
    <2>2. status[k] # "none"
      BY <2>1, <1>b DEF FlowOf
    <2>3. OutOf(k)'
      BY <2>1, <2>2, <1>b DEF OutOf, Hidden
    <2>4. QED
      BY <2>1, <2>3, OnlyOut
  <1>14. CASE LoseAnswer
    BY <1>14, <1>a DEF LoseAnswer
  <1>15. ASSUME NEW k \in Requests, NEW q \in People, Work(k, q) PROVE OutInv'
    <2>1. /\ row[k][q] \in {"queued", "sending", "sent", "canceled"} /\ Only(k)
          /\ UNCHANGED <<contact, refused, request, status, outAt>>
          /\ \A p \in People \ {q} : row'[k][p] = row[k][p]
      BY <1>15, <1>b, WorkEffect DEF Others
    <2>2. \A p \in outAt[k] : row'[k][p] # "none" => row[k][p] # "none"
      BY <2>1, <1>b
    <2>3. OutOf(k)'
      BY <2>1, <2>2, <1>b DEF OutOf, Hidden
    <2>4. QED
      BY <2>1, <2>3, OnlyOut
  <1>16. ASSUME NEW k \in Requests, Estimate(k) PROVE OutInv'
    BY <1>16, EstimateEffect, OutStays DEF Base, Handler
  <1>17. CASE UNCHANGED vars
    BY <1>17, <1>a DEF vars
  <1>18. QED
    BY <1>1, <1>2, <1>3, <1>4, <1>5, <1>6, <1>7, <1>8, <1>9, <1>10, <1>11, <1>12, <1>13,
       <1>14, <1>15, <1>16, <1>17 DEF Next, Work

\* OptOutHolds: a number whose contact has opted out receives nothing from a
\* request that arrives afterwards, whatever happens to the base of contacts in
\* between, and in whatever formats the numbers were stored.
THEOREM OptOutIsKept == Spec => []OptOutHolds
  <1>1. Init => Types /\ Flow /\ OutInv
    BY StartsRight DEF Init, OutInv, OutOf, NoRequest
  <1>2. Types /\ Flow /\ OutInv /\ [Next]_vars => (Types /\ Flow /\ OutInv)'
    BY TypesKept, FlowKept, OutKept
  <1>3. OutInv => OptOutHolds
    BY DEF OutInv, OutOf, Hidden, OptOutHolds
  <1>4. QED
    BY <1>1, <1>2, <1>3, PTL DEF Spec

-----------------------------------------------------------------------------
(* Counting.                                                               *)

LEMMA Smaller ==
  ASSUME NEW S, NEW T, IsFiniteSet(T), S \subseteq T
  PROVE  /\ IsFiniteSet(S) /\ Cardinality(S) \in Nat /\ Cardinality(T) \in Nat
         /\ Cardinality(S) <= Cardinality(T)
  BY FS_Subset, FS_CardinalityType

LEMMA OneMore ==
  ASSUME NEW S, NEW T, NEW x, IsFiniteSet(T), S \subseteq T \cup {x}
  PROVE  /\ IsFiniteSet(S) /\ Cardinality(S) \in Nat /\ Cardinality(T) \in Nat
         /\ Cardinality(S) <= Cardinality(T) + 1
  <1>1. /\ IsFiniteSet(T \cup {x})
        /\ Cardinality(T \cup {x}) = Cardinality(T) \/ Cardinality(T \cup {x}) = Cardinality(T) + 1
    BY FS_AddElement
  <1>2. Cardinality(T) \in Nat
    BY FS_CardinalityType
  <1>3. /\ IsFiniteSet(S) /\ Cardinality(S) \in Nat
        /\ Cardinality(S) <= Cardinality(T \cup {x})
    BY <1>1, Smaller
  <1>4. QED
    BY <1>1, <1>2, <1>3

LEMMA OneLess ==
  ASSUME NEW S, NEW T, NEW x \in T, IsFiniteSet(T), S \subseteq T \ {x}
  PROVE  /\ IsFiniteSet(S) /\ Cardinality(S) \in Nat /\ Cardinality(T) \in Nat
         /\ Cardinality(S) <= Cardinality(T) - 1
  <1>1. IsFiniteSet(T \ {x}) /\ Cardinality(T \ {x}) = Cardinality(T) - 1
    BY FS_RemoveElement
  <1>2. Cardinality(T) \in Nat
    BY FS_CardinalityType
  <1>3. /\ IsFiniteSet(S) /\ Cardinality(S) \in Nat
        /\ Cardinality(S) <= Cardinality(T \ {x})
    BY <1>1, Smaller
  <1>4. QED
    BY <1>1, <1>2, <1>3

LEMMA Together ==
  ASSUME NEW S, NEW T, IsFiniteSet(S), IsFiniteSet(T)
  PROVE  /\ IsFiniteSet(S \cup T) /\ Cardinality(S) \in Nat /\ Cardinality(T) \in Nat
         /\ Cardinality(S \cup T) <= Cardinality(S) + Cardinality(T)
  <1>1. IsFiniteSet(S \cup T) /\ IsFiniteSet(S \cap T)
        /\ Cardinality(S \cup T) = Cardinality(S) + Cardinality(T) - Cardinality(S \cap T)
    BY FS_Union, FS_Intersection
  <1>2. Cardinality(S) \in Nat /\ Cardinality(T) \in Nat /\ Cardinality(S \cap T) \in Nat
    BY <1>1, FS_CardinalityType
  <1>3. QED
    BY <1>1, <1>2
-----------------------------------------------------------------------------
(* A campaign is sent twice only after a mishap.                           *)

\* The request k has enqueued a campaign, or is on its way to.
WantedOf(k) ==
  \/ status[k] # "none" /\ row[k] # NoRows
  \/ request[k].pc \in {"estimate", "balance", "quota"} \cup Filling /\ ~request[k].single

Wanted == {k \in Requests : WantedOf(k)}

\* The request that the screen waits for and that has not failed.
Waited == IF wizard # Nothing /\ request[wizard].pc # "failed" THEN 1 ELSE 0

WantedInv == Cardinality(Wanted) <= mishaps + Waited

LEMMA WaitedType == Waited \in 0..1 /\ Waited' \in 0..1
  BY DEF Waited

LEMMA WaitedStays ==
  ASSUME Types, NEW k \in Requests, Only(k), UNCHANGED wizard,
         wizard = k => request'[k].pc # "failed"
  PROVE  Waited' >= Waited
  <1>1. CASE wizard # Nothing /\ request[wizard].pc # "failed"
    <2>1. wizard \in Requests
      BY <1>1 DEF Types
    <2>2. request'[wizard].pc # "failed"
      BY <1>1, <2>1 DEF Only
    <2>3. Waited' = 1
      BY <1>1, <2>2 DEF Waited
    <2>4. QED
      BY <2>3, WaitedType
  <1>2. CASE ~(wizard # Nothing /\ request[wizard].pc # "failed")
    BY <1>2, WaitedType DEF Waited
  <1>3. QED
    BY <1>1, <1>2

\* Nothing new is wanted, and nothing is forgiven.
LEMMA WantedShrinks ==
  ASSUME Types, WantedInv, mishaps' \in Nat, mishaps' + Waited' >= mishaps + Waited,
         \A k \in Requests : WantedOf(k)' => WantedOf(k)
  PROVE  WantedInv'
  <1>1. PICK S : S = Wanted'
    OBVIOUS
  <1>2. S \subseteq Wanted
    BY <1>1 DEF Wanted
  <1>3. IsFiniteSet(Wanted)
    BY FS_Subset DEF Wanted
  <1>4. Cardinality(S) \in Nat /\ Cardinality(Wanted) \in Nat /\ Cardinality(S) <= Cardinality(Wanted)
    BY <1>2, <1>3, Smaller
  <1>5. mishaps \in Nat
    BY DEF Types
  <1>6. Waited \in Nat /\ Waited' \in Nat
    BY WaitedType
  <1>7. Cardinality(Wanted) <= mishaps + Waited
    BY DEF WantedInv
  <1>8. Cardinality(S) <= mishaps' + Waited'
    BY <1>4, <1>5, <1>6, <1>7, Slack
  <1>9. QED
    BY <1>1, <1>8 DEF WantedInv

LEMMA OnlyWanted ==
  ASSUME NEW k \in Requests, Only(k), WantedOf(k)' => WantedOf(k)
  PROVE  \A j \in Requests : WantedOf(j)' => WantedOf(j)
  <1> TAKE j \in Requests
  <1>1. CASE j = k
    BY <1>1
  <1>2. CASE j # k
    <2>1. request'[j] = request[j] /\ row'[j] = row[j] /\ status'[j] = status[j]
      BY <1>2 DEF Only
    <2>2. QED
      BY <2>1 DEF WantedOf
  <1>3. QED
    BY <1>1, <1>2

\* A step of k that wants nothing new and that the screen outlives.
LEMMA WantedStays ==
  ASSUME Types, WantedInv, NEW k \in Requests, Only(k), UNCHANGED <<wizard, mishaps>>,
         WantedOf(k)' => WantedOf(k), wizard = k => request'[k].pc # "failed"
  PROVE  WantedInv'
  <1>1. Waited' >= Waited
    BY WaitedStays
  <1>2. mishaps \in Nat /\ mishaps' = mishaps
    BY DEF Types
  <1>3. \A j \in Requests : WantedOf(j)' => WantedOf(j)
    BY OnlyWanted
  <1>4. Waited \in Nat /\ Waited' \in Nat
    BY WaitedType
  <1>5. mishaps' + Waited' >= mishaps + Waited
    BY <1>1, <1>2, <1>4, SlackStays
  <1>6. QED
    BY <1>2, <1>3, <1>5, WantedShrinks

\* A campaign that fails before it is filled is not wanted any more, and the
\* screen no longer waits for it.
LEMMA WantedFails ==
  ASSUME Types, Flow, WantedInv, NEW k \in Requests, Only(k), UNCHANGED <<wizard, mishaps>>,
         request[k].pc \in {"estimate", "balance", "quota"}, request'[k] = Failed, row'[k] = row[k]
  PROVE  WantedInv'
  <1>1. row[k] = NoRows
    BY DEF Flow, FlowOf, Before
  <1>2. ~WantedOf(k)'
    BY <1>1, NoRequestType DEF WantedOf, Filling
  <1>3. CASE wizard # k
    BY <1>2, <1>3, WantedStays
  <1>4. CASE wizard = k
    <2>1. ~request[k].single
      BY <1>4 DEF Flow, WizardFits
    <2>2. k \in Wanted
      BY <2>1 DEF Wanted, WantedOf
    <2>3. PICK S : S = Wanted'
      OBVIOUS
    <2>4. \A j \in Requests : WantedOf(j)' => WantedOf(j)
      BY <1>2, OnlyWanted
    <2>5. S \subseteq Wanted \ {k}
      BY <2>3, <2>4, <1>2 DEF Wanted
    <2>6. IsFiniteSet(Wanted)
      BY FS_Subset DEF Wanted
    <2>7. /\ Cardinality(S) \in Nat /\ Cardinality(Wanted) \in Nat
          /\ Cardinality(S) <= Cardinality(Wanted) - 1
      BY <2>2, <2>5, <2>6, OneLess
    <2>8. mishaps \in Nat /\ mishaps' = mishaps
      BY DEF Types
    <2>9. Cardinality(S) <= mishaps' + Waited'
      BY <2>7, <2>8, WaitedType DEF WantedInv
    <2>10. QED
      BY <2>3, <2>9 DEF WantedInv
  <1>5. QED
    BY <1>3, <1>4

LEMMA WantedKept == Types /\ Flow /\ WantedInv /\ [Next]_vars => WantedInv'
  <1> SUFFICES ASSUME Types, Flow, WantedInv, [Next]_vars PROVE WantedInv'
    OBVIOUS
  <1>a. ASSUME UNCHANGED <<request, row, status, wizard, mishaps>> PROVE WantedInv'
    <2>1. \A k \in Requests : WantedOf(k)' => WantedOf(k)
      BY <1>a DEF WantedOf
    <2>2. Waited' = Waited
      BY <1>a DEF Waited
    <2>3. mishaps' \in Nat /\ mishaps' + Waited' >= mishaps + Waited
      BY <1>a, <2>2, WaitedType DEF Types
    <2>4. QED
      BY <2>1, <2>3, WantedShrinks
  <1>b. \A k \in Requests : FlowOf(k)
    BY DEF Flow
  <1>c. wizard # Nothing => wizard \in Requests /\ request[wizard].pc # "idle"
                            /\ ~request[wizard].single
    BY DEF Flow, WizardFits, Types
  <1> USE DEF Filling
  <1>1. ASSUME NEW p \in People, Import(p) \/ OptOut(p) \/ Remove(p) \/ Erase(p) PROVE WantedInv'
    BY <1>1, <1>a, ChangeEffect
  <1>2. ASSUME NEW k \in Requests, Submit(k) PROVE WantedInv'
    <2>1. /\ MaySubmit /\ wizard' = k /\ request'[k].pc = "estimate" /\ Only(k)
          /\ UNCHANGED mishaps
      BY <1>2, SubmitEffect DEF Base
    <2>2. Waited = 0
      BY <2>1 DEF Waited, MaySubmit
    <2>3. Waited' = 1
      <3>1. wizard' # Nothing /\ request'[wizard'].pc = "estimate"
        BY <2>1
      <3>2. QED
        BY <3>1 DEF Waited
    <2>4. PICK S : S = Wanted'
      OBVIOUS
    <2>5. S \subseteq Wanted \cup {k}
      <3> SUFFICES ASSUME NEW j \in Requests, j # k, WantedOf(j)' PROVE WantedOf(j)
        BY <2>4 DEF Wanted
      <3>1. request'[j] = request[j] /\ row'[j] = row[j] /\ status'[j] = status[j]
        BY <2>1 DEF Only
      <3>2. QED
        BY <3>1 DEF WantedOf
    <2>6. IsFiniteSet(Wanted)
      BY FS_Subset DEF Wanted
    <2>7. /\ Cardinality(S) \in Nat /\ Cardinality(Wanted) \in Nat
          /\ Cardinality(S) <= Cardinality(Wanted) + 1
      BY <2>5, <2>6, OneMore
    <2>8. mishaps \in Nat /\ mishaps' = mishaps
      BY <2>1 DEF Types
    <2>9. Cardinality(S) <= mishaps' + Waited'
      BY <2>2, <2>3, <2>7, <2>8 DEF WantedInv
    <2>10. QED
      BY <2>4, <2>9 DEF WantedInv
  <1>3. ASSUME NEW k \in Requests, Look(k) PROVE WantedInv'
    <2>1. /\ request[k].pc = "idle" /\ Only(k) /\ UNCHANGED <<row, status, wizard, mishaps>>
          /\ request'[k] = Failed \/ request'[k].single
      BY <1>3, LookEffect DEF Base
    <2>2. row[k] = NoRows /\ wizard # k
      BY <2>1, <1>b, <1>c DEF FlowOf, Before
    <2>3. ~WantedOf(k)'
      BY <2>1, <2>2, NoRequestType DEF WantedOf
    <2>4. QED
      BY <2>1, <2>2, <2>3, WantedStays
  <1>4. ASSUME NEW k \in Requests, Balance(k) PROVE WantedInv'
    <2>1. /\ request[k].pc = "balance" /\ request'[k].pc = "quota" /\ Only(k)
          /\ request'[k].single = request[k].single
          /\ UNCHANGED <<row, status, wizard, mishaps>>
      BY <1>4, BalanceEffect DEF Handler, Base
    <2>2. WantedOf(k)' => WantedOf(k)
      BY <2>1 DEF WantedOf
    <2>3. QED
      BY <2>1, <2>2, WantedStays
  <1>5. ASSUME NEW k \in Requests, Quota(k) PROVE WantedInv'
    <2>1. /\ Goes(k, "insert") /\ Only(k) /\ UNCHANGED <<row, status, wizard, mishaps>>
      BY <1>5, QuotaEffect DEF Handler, Base
    <2>2. request'[k].pc = "insert"
      BY <2>1, GoesFacts
    <2>3. WantedOf(k)' => WantedOf(k)
      BY <2>1, <2>2 DEF WantedOf
    <2>4. QED
      BY <2>1, <2>2, <2>3, WantedStays
  <1>6. ASSUME NEW k \in Requests, Refuse(k) PROVE WantedInv'
    BY <1>6, RefuseEffect, WantedFails DEF Handler, Base
  <1>7. ASSUME NEW k \in Requests, Create(k) PROVE WantedInv'
    <2>1. /\ request[k].pc = "quota" /\ ~request[k].single /\ Only(k)
          /\ UNCHANGED <<row, wizard, mishaps>>
          /\ \/ request'[k] = Done(k)
             \/ request'[k] = Failed
             \/ ~request[k].broken /\ Goes(k, "chunk")
      BY <1>7, CreateEffect DEF Handler, Base
    <2>2. CASE request'[k] = Failed
      BY <2>1, <2>2, WantedFails
    <2>3. CASE request'[k] # Failed
      <3>1. request'[k].pc \in {"done", "chunk"}
        BY <2>1, <2>3, DoneFacts, GoesFacts
      <3>2. WantedOf(k)
        BY <2>1 DEF WantedOf
      <3>3. QED
        BY <2>1, <3>1, <3>2, WantedStays
    <2>4. QED
      BY <2>2, <2>3
  <1>8. ASSUME NEW k \in Requests, EnqueueChunk(k) PROVE WantedInv'
    <2>1. /\ request[k].pc = "chunk" /\ (Goes(k, "chunk") \/ Goes(k, "finish"))
          /\ Only(k) /\ UNCHANGED <<wizard, mishaps>>
      BY <1>8, ChunkEffect DEF Handler, Base
    <2>2. WantedOf(k)
      BY <2>1, <1>b DEF WantedOf, FlowOf
    <2>3. request'[k].pc # "failed"
      BY <2>1, GoesFacts
    <2>4. QED
      BY <2>1, <2>2, <2>3, WantedStays
  <1>9. ASSUME NEW k \in Requests, Finish(k) PROVE WantedInv'
    <2>1. /\ request[k].pc = "finish" /\ request'[k].pc = "done"
          /\ Only(k) /\ UNCHANGED <<wizard, mishaps>>
      BY <1>9, FinishEffect, DoneFacts DEF Handler, Base
    <2>2. WantedOf(k)
      BY <2>1, <1>b DEF WantedOf, FlowOf
    <2>3. QED
      BY <2>1, <2>2, WantedStays
  <1>10. ASSUME NEW k \in Requests, Enqueue(k) PROVE WantedInv'
    <2>1. /\ request[k].pc \in {"insert", "text"} /\ Only(k)
          /\ request'[k] = Done(k)
          /\ UNCHANGED <<status, wizard, mishaps>>
      BY <1>10, EnqueueEffect DEF Handler, Base
    <2>2. status[k] = "none"
      BY <2>1, <1>b DEF FlowOf, Before
    <2>3. ~WantedOf(k)'
      BY <2>1, <2>2, DoneFacts DEF WantedOf
    <2>4. QED
      BY <2>1, <2>3, DoneFacts, WantedStays
  <1>11. ASSUME NEW k \in Requests, Die(k) PROVE WantedInv'
    <2>1. /\ request'[k].pc = "failed" /\ Only(k) /\ UNCHANGED <<row, status, wizard>>
          /\ mishaps' = mishaps + 1
      BY <1>11, DieEffect
    <2>2. WantedOf(k)' => WantedOf(k)
      BY <2>1 DEF WantedOf
    <2>3. mishaps' \in Nat /\ mishaps' + Waited' >= mishaps + Waited
      <3>1. mishaps \in Nat /\ mishaps' = mishaps + 1
        BY <2>1 DEF Types
      <3>2. PICK u \in 0..1, v \in 0..1 : Waited = u /\ Waited' = v
        BY WaitedType
      <3>3. QED
        BY <3>1, <3>2
    <2>4. QED
      BY <2>1, <2>2, <2>3, OnlyWanted, WantedShrinks
  <1>12. ASSUME NEW k \in Requests, CancelRows(k) PROVE WantedInv'
    <2>1. /\ Only(k) /\ UNCHANGED <<status, request, wizard, mishaps>>
          /\ row' \in [Requests -> [People -> Cells]]
          /\ \A p \in People :
               row'[k][p] = IF row[k][p] = "queued" THEN "canceled" ELSE row[k][p]
      BY <1>12, CancelRowsEffect
    <2>2. row[k] = NoRows => row'[k] = NoRows
      BY <2>1 DEF NoRows
    <2>3. \A j \in Requests : WantedOf(j)' => WantedOf(j)
      BY <2>1, <2>2, OnlyWanted DEF WantedOf
    <2>4. Waited' = Waited
      BY <2>1 DEF Waited
    <2>5. mishaps' \in Nat /\ mishaps' + Waited' >= mishaps + Waited
      BY <2>1, <2>4, WaitedType DEF Types
    <2>6. QED
      BY <2>3, <2>5, WantedShrinks
  <1>13. ASSUME NEW k \in Requests, CancelStatus(k) PROVE WantedInv'
    <2>1. cancel[k] = "status" /\ Only(k) /\ UNCHANGED <<row, request, wizard, mishaps>>
      BY <1>13, CancelStatusEffect
    <2>2. WantedOf(k)' => WantedOf(k)
      BY <2>1, <1>b DEF FlowOf, WantedOf
    <2>3. Waited' = Waited
      BY <2>1 DEF Waited
    <2>4. mishaps' \in Nat /\ mishaps' + Waited' >= mishaps + Waited
      BY <2>1, <2>3, WaitedType DEF Types
    <2>5. QED
      BY <2>1, <2>2, <2>4, OnlyWanted, WantedShrinks
  <1>14. CASE LoseAnswer
    <2>1. UNCHANGED <<request, row, status>> /\ mishaps' = mishaps + 1
      BY <1>14 DEF LoseAnswer
    <2>2. \A k \in Requests : WantedOf(k)' => WantedOf(k)
      BY <2>1 DEF WantedOf
    <2>3. mishaps' \in Nat /\ mishaps' + Waited' >= mishaps + Waited
      <3>1. mishaps \in Nat /\ mishaps' = mishaps + 1
        BY <2>1 DEF Types
      <3>2. PICK u \in 0..1, v \in 0..1 : Waited = u /\ Waited' = v
        BY WaitedType
      <3>3. QED
        BY <3>1, <3>2
    <2>4. QED
      BY <2>2, <2>3, WantedShrinks
  <1>15. ASSUME NEW k \in Requests, NEW q \in People, Work(k, q) PROVE WantedInv'
    <2>1. /\ row[k][q] \in {"queued", "sending", "sent", "canceled"} /\ Only(k)
          /\ UNCHANGED <<request, status, wizard, mishaps>>
      BY <1>15, <1>b, WorkEffect DEF Others
    <2>2. row[k] # NoRows
      BY <2>1 DEF NoRows
    <2>3. WantedOf(k)' => WantedOf(k)
      BY <2>1, <2>2 DEF WantedOf
    <2>4. Waited' = Waited
      BY <2>1 DEF Waited
    <2>5. mishaps' \in Nat /\ mishaps' + Waited' >= mishaps + Waited
      BY <2>1, <2>4, WaitedType DEF Types
    <2>6. QED
      BY <2>1, <2>3, <2>5, OnlyWanted, WantedShrinks
  <1>16. ASSUME NEW k \in Requests, Estimate(k) PROVE WantedInv'
    <2>1. /\ request[k].pc = "estimate" /\ request'[k].pc = "balance" /\ Only(k)
          /\ request'[k].single = request[k].single
          /\ UNCHANGED <<row, status, wizard, mishaps>>
      BY <1>16, EstimateEffect DEF Handler, Base
    <2>2. WantedOf(k)' => WantedOf(k)
      BY <2>1 DEF WantedOf
    <2>3. QED
      BY <2>1, <2>2, WantedStays
  <1>17. CASE UNCHANGED vars
    BY <1>17, <1>a DEF vars
  <1>18. QED
    BY <1>1, <1>2, <1>3, <1>4, <1>5, <1>6, <1>7, <1>8, <1>9, <1>10, <1>11, <1>12, <1>13,
       <1>14, <1>15, <1>16, <1>17 DEF Next, Work

\* DuplicatesNeedMishap: one intended campaign enqueues a person twice only
\* when an answer was lost or a request died and the user tried again.
THEOREM NoDuplicateWithoutMishap == Spec => []DuplicatesNeedMishap
  <1>1. ASSUME Init PROVE Types /\ Flow /\ WantedInv
    <2>1. Types /\ Flow
      BY <1>1, StartsRight
    <2>2. Wanted = {}
      BY <1>1 DEF Init, Wanted, WantedOf, NoRequest, Filling
    <2>3. Cardinality(Wanted) = 0
      BY <2>2, FS_EmptySet
    <2>4. mishaps = 0
      BY <1>1 DEF Init
    <2>5. QED
      BY <2>1, <2>3, <2>4, WaitedType DEF WantedInv
  <1>2. Types /\ Flow /\ WantedInv /\ [Next]_vars => (Types /\ Flow /\ WantedInv)'
    BY TypesKept, FlowKept, WantedKept
  <1>3. ASSUME Types, WantedInv PROVE DuplicatesNeedMishap
    <2> SUFFICES ASSUME NEW p \in People
                 PROVE  Cardinality({k \in Requests : status[k] # "none" /\ row[k][p] # "none"})
                          <= 1 + mishaps
      BY DEF DuplicatesNeedMishap
    <2> DEFINE D == {k \in Requests : status[k] # "none" /\ row[k][p] # "none"}
    <2>1. D \subseteq Wanted
      BY DEF Wanted, WantedOf, NoRows
    <2>2. IsFiniteSet(Wanted)
      BY FS_Subset DEF Wanted
    <2> HIDE DEF D
    <2>3. /\ Cardinality(D) \in Nat /\ Cardinality(Wanted) \in Nat
          /\ Cardinality(D) <= Cardinality(Wanted)
      BY <2>1, <2>2, Smaller
    <2>4. mishaps \in Nat
      BY <1>3 DEF Types
    <2>5. Cardinality(D) <= 1 + mishaps
      BY <1>3, <2>3, <2>4, WaitedType DEF WantedInv
    <2>6. QED
      BY <2>5 DEF D
  <1>4. QED
    BY <1>1, <1>2, <1>3, PTL DEF Spec

-----------------------------------------------------------------------------
(* The daily quota.                                                        *)

\* The quota was checked, and rows are still to be written.
Enqueuer(k) == request[k].pc \in {"chunk", "insert"}

\* The person p counts for the quota because of k, now or once k has enqueued.
Charges(k, p) == \/ row[k][p] \notin {"none", "failed", "text"}
                 \/ Enqueuer(k) /\ p \in Left(k)

Charged == {p \in People : \E k \in Requests : Charges(k, p)}

\* While no two requests overlap, one at a time enqueues, and what it is going
\* to enqueue is within the quota already.
QuotaInv ==
  subject /\ ~overlapped =>
    /\ Cardinality(Charged) <= DailyQuota
    /\ \A j, k \in Requests : Enqueuer(j) /\ Enqueuer(k) => j = k

LEMMA OnlyCharges ==
  ASSUME NEW k \in Requests, Only(k), NEW j \in Requests, j # k
  PROVE  /\ Enqueuer(j)' <=> Enqueuer(j)
         /\ \A p \in People : Charges(j, p)' <=> Charges(j, p)
  <1>1. request'[j] = request[j] /\ row'[j] = row[j]
    BY DEF Only
  <1>2. QED
    BY <1>1 DEF Enqueuer, Charges, Left

\* A step of k after which k counts nobody new.
LEMMA QuotaStays ==
  ASSUME Types, QuotaInv, NEW k \in Requests, Only(k), UNCHANGED subject,
         overlapped => overlapped', Enqueuer(k)' => Enqueuer(k),
         \A p \in People : Charges(k, p)' => Charges(k, p)
  PROVE  QuotaInv'
  <1>1. ASSUME NEW j \in Requests
        PROVE  /\ Enqueuer(j)' => Enqueuer(j)
               /\ \A p \in People : Charges(j, p)' => Charges(j, p)
    <2>1. CASE j = k
      BY <2>1
    <2>2. CASE j # k
      BY <2>2, OnlyCharges
    <2>3. QED
      BY <2>1, <2>2
  <1>2. PICK S : S = Charged'
    OBVIOUS
  <1>3. S \subseteq Charged
    BY <1>1, <1>2 DEF Charged
  <1>4. IsFiniteSet(Charged)
    BY FS_Subset DEF Charged
  <1>5. /\ Cardinality(S) \in Nat /\ Cardinality(Charged) \in Nat
        /\ Cardinality(S) <= Cardinality(Charged)
    BY <1>3, <1>4, Smaller
  <1>6. DailyQuota \in Nat
    OBVIOUS
  <1>7. subject /\ ~overlapped => Cardinality(S) <= DailyQuota
    BY <1>5, <1>6 DEF QuotaInv
  <1>8. subject' /\ ~overlapped' => Cardinality(Charged') <= DailyQuota
    BY <1>2, <1>7
  <1>9. subject' /\ ~overlapped' =>
          \A i, j \in Requests : Enqueuer(i)' /\ Enqueuer(j)' => i = j
    BY <1>1 DEF QuotaInv
  <1>10. QED
    BY <1>8, <1>9 DEF QuotaInv

\* The check of the quota lets k, and nobody else, enqueue.
LEMMA QuotaOpens ==
  ASSUME Types, QuotaInv, NEW k \in Requests, Only(k), UNCHANGED <<subject, row>>,
         WithinQuota(k), ~overlapped' => ~Enqueueing(k),
         request'[k].eligible = request[k].eligible
  PROVE  QuotaInv'
  <1> SUFFICES ASSUME subject, ~overlapped'
               PROVE  /\ Cardinality(Charged') <= DailyQuota
                      /\ \A i, j \in Requests : Enqueuer(i)' /\ Enqueuer(j)' => i = j
    BY DEF QuotaInv
  <1>1. ASSUME NEW j \in Requests, j # k PROVE ~Enqueuer(j)'
    <2>1. ~Enqueuer(j)
      BY <1>1 DEF Enqueueing, Enqueuer
    <2>2. QED
      BY <1>1, <2>1, OnlyCharges
  <1>2. PICK S : S = Charged'
    OBVIOUS
  <1> DEFINE E == request[k].eligible
  <1>3. S \subseteq E \cup Used
    <2> SUFFICES ASSUME NEW p \in People, NEW j \in Requests, Charges(j, p)'
                 PROVE  p \in E \cup Used
      BY <1>2 DEF Charged
    <2>1. CASE row'[j][p] \notin {"none", "failed", "text"}
      BY <2>1 DEF Used
    <2>2. CASE Enqueuer(j)' /\ p \in Left(j)'
      <3>1. j = k
        BY <2>2, <1>1
      <3>2. QED
        BY <2>2, <3>1 DEF Left
    <2>3. QED
      BY <2>1, <2>2 DEF Charges
  <1>4. E \subseteq People
    BY DEF Types, Handlers
  <1>5. IsFiniteSet(E) /\ IsFiniteSet(Used)
    BY <1>4, FS_Subset DEF Used
  <1>6. Cardinality(E) + Cardinality(Used) <= DailyQuota
    BY DEF WithinQuota
  <1> HIDE DEF E
  <1>7. /\ IsFiniteSet(E \cup Used) /\ Cardinality(E) \in Nat /\ Cardinality(Used) \in Nat
        /\ Cardinality(E \cup Used) <= Cardinality(E) + Cardinality(Used)
    BY <1>5, Together
  <1>8. /\ Cardinality(S) \in Nat /\ Cardinality(E \cup Used) \in Nat
        /\ Cardinality(S) <= Cardinality(E \cup Used)
    BY <1>3, <1>7, Smaller
  <1>9. Cardinality(S) <= DailyQuota
    BY <1>6, <1>7, <1>8
  <1>10. QED
    BY <1>1, <1>2, <1>9

LEMMA QuotaKept == Types /\ Flow /\ QuotaInv /\ [Next]_vars => QuotaInv'
  <1> SUFFICES ASSUME Types, Flow, QuotaInv, [Next]_vars PROVE QuotaInv'
    OBVIOUS
  <1>a. ASSUME UNCHANGED <<request, row, subject, overlapped>> PROVE QuotaInv'
    <2>1. /\ Charged' = Charged
          /\ \A k \in Requests : Enqueuer(k)' <=> Enqueuer(k)
      BY <1>a DEF Charged, Charges, Enqueuer, Left
    <2>2. QED
      BY <1>a, <2>1 DEF QuotaInv
  <1>b. \A k \in Requests : FlowOf(k)
    BY DEF Flow
  <1>1. ASSUME NEW p \in People, Import(p) \/ OptOut(p) \/ Remove(p) \/ Erase(p) PROVE QuotaInv'
    BY <1>1, <1>a, ChangeEffect
  <1>c. ASSUME NEW k \in Requests, Only(k), UNCHANGED <<row, subject, overlapped>>,
               ~Enqueuer(k)'
        PROVE  QuotaInv'
    <2>1. \A p \in People : Charges(k, p)' => Charges(k, p)
      BY <1>c DEF Charges
    <2>2. QED
      BY <1>c, <2>1, QuotaStays
  <1>2. ASSUME NEW k \in Requests, Submit(k) PROVE QuotaInv'
    <2>1. /\ request'[k].pc = "estimate" /\ Only(k) /\ UNCHANGED <<row, subject, overlapped>>
      BY <1>2, SubmitEffect DEF Base
    <2>2. QED
      BY <2>1, <1>c DEF Enqueuer
  <1>3. ASSUME NEW k \in Requests, Look(k) PROVE QuotaInv'
    <2>1. /\ request'[k] = Failed \/ request'[k].pc \in {"text", "estimate"}
          /\ Only(k) /\ UNCHANGED <<row, subject, overlapped>>
      BY <1>3, LookEffect DEF Base
    <2>2. QED
      BY <2>1, <1>c, NoRequestType DEF Enqueuer
  <1>4. ASSUME NEW k \in Requests, Balance(k) PROVE QuotaInv'
    <2>1. /\ request'[k].pc = "quota" /\ Only(k) /\ UNCHANGED <<row, subject, overlapped>>
      BY <1>4, BalanceEffect DEF Base, Handler
    <2>2. QED
      BY <2>1, <1>c DEF Enqueuer
  <1>5. ASSUME NEW k \in Requests, Quota(k) PROVE QuotaInv'
    <2>1. /\ Goes(k, "insert") /\ Only(k) /\ UNCHANGED <<row, subject>>
          /\ WithinQuota(k) /\ (~overlapped' => ~Enqueueing(k))
      BY <1>5, QuotaEffect DEF Base, Handler
    <2>2. QED
      BY <2>1, GoesFacts, QuotaOpens
  <1>6. ASSUME NEW k \in Requests, Refuse(k) PROVE QuotaInv'
    <2>1. /\ request'[k] = Failed /\ Only(k) /\ UNCHANGED <<row, subject, overlapped>>
      BY <1>6, RefuseEffect DEF Base, Handler
    <2>2. QED
      BY <2>1, <1>c, NoRequestType DEF Enqueuer
  <1>7. ASSUME NEW k \in Requests, Create(k) PROVE QuotaInv'
    <2>1. Only(k) /\ UNCHANGED <<row, subject>> /\ (overlapped => overlapped')
      BY <1>7, CreateEffect DEF Base, Handler
    <2>2. \/ request'[k] = Done(k)
          \/ request'[k] = Failed
          \/ Goes(k, "chunk") /\ WithinQuota(k) /\ (~overlapped' => ~Enqueueing(k))
      BY <1>7, CreateEffect
    <2>3. CASE request'[k] = Done(k) \/ request'[k] = Failed
      <3>1. ~Enqueuer(k)'
        BY <2>3, DoneFacts, NoRequestType DEF Enqueuer
      <3>2. \A p \in People : Charges(k, p)' => Charges(k, p)
        BY <2>1, <3>1 DEF Charges
      <3>3. QED
        BY <2>1, <3>1, <3>2, QuotaStays
    <2>4. CASE Goes(k, "chunk") /\ WithinQuota(k) /\ (~overlapped' => ~Enqueueing(k))
      BY <2>1, <2>4, GoesFacts, QuotaOpens
    <2>5. QED
      BY <2>2, <2>3, <2>4
  <1>8. ASSUME NEW k \in Requests, EnqueueChunk(k) PROVE QuotaInv'
    <2>1. /\ request[k].pc = "chunk" /\ (Goes(k, "chunk") \/ Goes(k, "finish"))
          /\ \A p \in People : \/ row'[k][p] = row[k][p]
                               \/ p \in Left(k) /\ row'[k][p] = "queued"
          /\ Only(k) /\ UNCHANGED <<subject, overlapped>>
      BY <1>8, ChunkEffect DEF Handler, Base
    <2>2. Enqueuer(k) /\ request'[k].eligible = request[k].eligible
      BY <2>1, GoesFacts DEF Enqueuer
    <2>3. \A p \in People : Charges(k, p)' => Charges(k, p)
      BY <2>1, <2>2 DEF Charges, Left
    <2>4. QED
      BY <2>1, <2>2, <2>3, QuotaStays
  <1>9. ASSUME NEW k \in Requests, Finish(k) PROVE QuotaInv'
    <2>1. /\ request'[k].pc = "done" /\ Only(k) /\ UNCHANGED <<row, subject, overlapped>>
      BY <1>9, FinishEffect, DoneFacts DEF Handler, Base
    <2>2. QED
      BY <2>1, <1>c DEF Enqueuer
  <1>10. ASSUME NEW k \in Requests, Enqueue(k) PROVE QuotaInv'
    <2>1. /\ request[k].pc \in {"insert", "text"} /\ Only(k)
          /\ request'[k] = Done(k)
          /\ \A p \in People :
               row'[k][p] = IF p \notin request[k].eligible THEN "none"
                            ELSE IF request[k].pc = "text" THEN "text" ELSE "queued"
          /\ UNCHANGED <<subject, overlapped>>
      BY <1>10, EnqueueEffect DEF Handler, Base
    <2>2. \A p \in People : row[k][p] = "none"
      BY <2>1, <1>b DEF FlowOf, Before, NoRows
    <2>3. ~Enqueuer(k)'
      BY <2>1, DoneFacts DEF Enqueuer
    <2>4. \A p \in People : Charges(k, p)' => Charges(k, p)
      BY <2>1, <2>2, <2>3 DEF Charges, Enqueuer, Left
    <2>5. QED
      BY <2>1, <2>3, <2>4, QuotaStays
  <1>11. ASSUME NEW k \in Requests, Die(k) PROVE QuotaInv'
    <2>1. /\ request'[k].pc = "failed" /\ Only(k) /\ UNCHANGED <<row, subject, overlapped>>
      BY <1>11, DieEffect
    <2>2. QED
      BY <2>1, <1>c DEF Enqueuer
  <1>12. ASSUME NEW k \in Requests, CancelRows(k) PROVE QuotaInv'
    <2>1. /\ Only(k) /\ UNCHANGED <<request, subject, overlapped>>
          /\ \A p \in People :
               row'[k][p] = IF row[k][p] = "queued" THEN "canceled" ELSE row[k][p]
      BY <1>12, CancelRowsEffect
    <2>2. /\ Enqueuer(k)' => Enqueuer(k)
          /\ \A p \in People : Charges(k, p)' => Charges(k, p)
      BY <2>1 DEF Charges, Enqueuer, Left
    <2>3. QED
      BY <2>1, <2>2, QuotaStays
  <1>13. ASSUME NEW k \in Requests, CancelStatus(k) PROVE QuotaInv'
    BY <1>13, <1>a, CancelStatusEffect
  <1>14. CASE LoseAnswer
    BY <1>14, <1>a DEF LoseAnswer
  <1>15. ASSUME NEW k \in Requests, NEW q \in People, Work(k, q) PROVE QuotaInv'
    <2>1. /\ row[k][q] \in {"queued", "sending", "sent", "canceled"}
          /\ row'[k][q] # "none"
          /\ Only(k) /\ UNCHANGED <<request, subject, overlapped>>
          /\ \A p \in People \ {q} : row'[k][p] = row[k][p]
      BY <1>15, <1>b, WorkEffect DEF Others
    <2>2. Enqueuer(k)' => Enqueuer(k)
      BY <2>1 DEF Enqueuer
    <2>3. ASSUME NEW p \in People, Charges(k, p)' PROVE Charges(k, p)
      <3>1. CASE p = q
        BY <2>1, <3>1 DEF Charges
      <3>2. CASE p # q
        <4>1. row'[k][p] = row[k][p] /\ request'[k] = request[k]
          BY <2>1, <3>2
        <4>2. QED
          BY <2>3, <4>1 DEF Charges, Enqueuer, Left
      <3>3. QED
        BY <3>1, <3>2
    <2>4. QED
      BY <2>1, <2>2, <2>3, QuotaStays
  <1>16. ASSUME NEW k \in Requests, Estimate(k) PROVE QuotaInv'
    <2>1. /\ request'[k].pc = "balance" /\ Only(k) /\ UNCHANGED <<row, subject, overlapped>>
      BY <1>16, EstimateEffect DEF Base, Handler
    <2>2. QED
      BY <2>1, <1>c DEF Enqueuer
  <1>17. CASE UNCHANGED vars
    BY <1>17, <1>a DEF vars
  <1>18. QED
    BY <1>1, <1>2, <1>3, <1>4, <1>5, <1>6, <1>7, <1>8, <1>9, <1>10, <1>11, <1>12, <1>13,
       <1>14, <1>15, <1>16, <1>17 DEF Next, Work

\* QuotaHolds: the daily quota of distinct recipients is kept by every sequence
\* of requests of which no two are checked and enqueued at the same time.
THEOREM QuotaIsKept == Spec => []QuotaHolds
  <1>1. ASSUME Init PROVE Types /\ Flow /\ QuotaInv
    <2>1. Types /\ Flow
      BY <1>1, StartsRight
    <2>2. \A k \in Requests : ~Enqueuer(k) /\ \A p \in People : row[k][p] = "none"
      BY <1>1 DEF Init, Enqueuer, NoRequest, NoRows
    <2>3. Charged = {}
      BY <2>2 DEF Charged, Charges
    <2>4. Cardinality(Charged) = 0 /\ DailyQuota \in Nat
      BY <2>3, FS_EmptySet
    <2>5. QED
      BY <2>1, <2>2, <2>4 DEF QuotaInv
  <1>2. Types /\ Flow /\ QuotaInv /\ [Next]_vars => (Types /\ Flow /\ QuotaInv)'
    BY TypesKept, FlowKept, QuotaKept
  <1>3. ASSUME QuotaInv PROVE QuotaHolds
    <2> DEFINE C == {p \in People : \E k \in Requests :
                       row[k][p] \notin {"none", "failed", "text"}}
    <2>1. C \subseteq Charged
      BY DEF Charged, Charges
    <2>2. IsFiniteSet(Charged) /\ DailyQuota \in Nat
      BY FS_Subset DEF Charged
    <2> HIDE DEF C
    <2>3. /\ Cardinality(C) \in Nat /\ Cardinality(Charged) \in Nat
          /\ Cardinality(C) <= Cardinality(Charged)
      BY <2>1, <2>2, Smaller
    <2>4. subject /\ ~overlapped => Cardinality(C) <= DailyQuota
      BY <1>3, <2>2, <2>3 DEF QuotaInv
    <2>5. QED
      BY <2>4 DEF QuotaHolds, C
  <1>4. QED
    BY <1>1, <1>2, <1>3, PTL DEF Spec

-----------------------------------------------------------------------------
(* The balance.                                                            *)

LEMMA Product ==
  ASSUME NEW m \in Nat, NEW n \in Nat, NEW p \in Nat, m <= n
  PROVE  /\ m * p \in Nat /\ n * p \in Nat /\ m * p <= n * p
         /\ m < n => m * p <= n * p - p /\ p <= n * p
  <1>1. PICK d \in Nat : n = m + d
    <2>1. n - m \in Nat /\ n = m + (n - m)
      OBVIOUS
    <2>2. QED
      BY <2>1
  <1>2. n * p = m * p + d * p
    BY <1>1
  <1>3. m * p \in Nat /\ d * p \in Nat
    OBVIOUS
  <1>4. ASSUME m < n PROVE d * p >= p
    <2>1. d - 1 \in Nat
      BY <1>1, <1>4
    <2>2. d * p = (d - 1) * p + p /\ (d - 1) * p \in Nat
      BY <2>1
    <2>3. QED
      BY <2>2, <1>3
  <1>5. QED
    BY <1>2, <1>3, <1>4

\* What is due grows with the messages, and one message less pays for itself.
LEMMA CostGrows ==
  ASSUME Types, NEW m \in Nat, NEW n \in Nat, m <= n, NEW c \in Categories
  PROVE  Cost(m, c) \in Nat /\ Cost(n, c) \in Nat /\ Cost(m, c) <= Cost(n, c)
  <1>1. free \in Nat /\ PriceOf[c] \in Nat
    BY DEF Types
  <1>2. /\ Charge(m, free, c) \in Nat /\ Charge(n, free, c) \in Nat
        /\ Charge(m, free, c) <= Charge(n, free, c)
    BY <1>1 DEF Charge
  <1>3. QED
    BY <1>1, <1>2, Product DEF Cost

\* The balance was estimated or checked for k, and rows are still to be written.
Spending(k) == request[k].pc \in {"balance", "quota", "chunk", "insert"}

\* The rows of k that are going to be billed, or to be written first.
Due(k)  == Pending(k) \cup (IF Spending(k) THEN Left(k) ELSE {})
Busy(k) == Spending(k) \/ Pending(k) # {}

\* While no request was estimated or checked with others still to pay, and all
\* was billed as it was estimated, one request at a time spends, and the balance
\* pays for all that is due.
PaidOf(k) ==
  /\ request[k].pc = "balance" =>
       request[k].fee = Cost(Cardinality(request[k].eligible), request[k].category)
  /\ Busy(k) /\ request[k].pc # "balance" =>
       Cost(Cardinality(Due(k)), request[k].category) <= balance

PaidInv ==
  ~exposed /\ ~repriced =>
    /\ unpaid = 0
    /\ \A k \in Requests : PaidOf(k)
    /\ \A j, k \in Requests : Busy(j) /\ Busy(k) => j = k

LEMMA DueType ==
  ASSUME Types, NEW k \in Requests
  PROVE  IsFiniteSet(Due(k)) /\ Cardinality(Due(k)) \in Nat /\ request[k].category \in Categories
  <1>1. request[k].eligible \subseteq People /\ request[k].category \in Categories
    BY DEF Types, Handlers
  <1>2. Due(k) \subseteq People
    BY <1>1 DEF Due, Pending, Left, Types
  <1>3. QED
    BY <1>1, <1>2, FS_Subset, FS_CardinalityType

LEMMA OnlyDue ==
  ASSUME NEW k \in Requests, Only(k), NEW j \in Requests, j # k
  PROVE  (Busy(j)' <=> Busy(j)) /\ Due(j)' = Due(j) /\ request'[j] = request[j]
  <1>1. request'[j] = request[j] /\ row'[j] = row[j] /\ refusing'[j] = refusing[j]
    BY DEF Only
  <1>2. Pending(j)' = Pending(j) /\ Left(j)' = Left(j) /\ Spending(j)' = Spending(j)
    BY <1>1 DEF Spending, Pending, Left
  <1>3. QED
    BY <1>1, <1>2 DEF Busy, Due

\* A step of k after which nothing new is due for k, and nobody is billed.
LEMMA PaidStays ==
  ASSUME Types, PaidInv, NEW k \in Requests, Only(k), UNCHANGED money,
         exposed => exposed', request'[k].pc # "balance",
         Busy(k)' => /\ Busy(k) /\ request[k].pc # "balance"
                     /\ request'[k].category = request[k].category
                     /\ Due(k)' \subseteq Due(k)
  PROVE  PaidInv'
  <1> SUFFICES ASSUME ~exposed', ~repriced'
               PROVE  /\ unpaid' = 0
                      /\ \A j \in Requests : PaidOf(j)'
                      /\ \A i, j \in Requests : Busy(i)' /\ Busy(j)' => i = j
    BY DEF PaidInv
  <1>1. /\ unpaid = 0 /\ \A j \in Requests : PaidOf(j)
        /\ \A i, j \in Requests : Busy(i) /\ Busy(j) => i = j
    BY DEF PaidInv
  <1>2. ASSUME NEW j \in Requests PROVE Busy(j)' => Busy(j)
    BY OnlyDue
  <1>3. \A n, c : Cost(n, c)' = Cost(n, c)
    BY DEF Cost
  <1>4. ASSUME NEW j \in Requests PROVE PaidOf(j)'
    <2>1. CASE j # k
      <3>1. (Busy(j)' <=> Busy(j)) /\ Due(j)' = Due(j) /\ request'[j] = request[j]
        BY <2>1, OnlyDue
      <3>2. QED
        BY <1>1, <1>3, <3>1 DEF PaidOf, Cost
    <2>2. CASE j = k /\ Busy(k)'
      <3>1. Cost(Cardinality(Due(k)), request[k].category) <= balance
        BY <1>1, <2>2 DEF PaidOf
      <3>2. PICK S : S = Due(k)'
        OBVIOUS
      <3>3. PICK c : c = request[k].category
        OBVIOUS
      <3>4. /\ Cardinality(S) \in Nat /\ Cardinality(Due(k)) \in Nat
            /\ Cardinality(S) <= Cardinality(Due(k)) /\ c \in Categories
        BY <2>2, <3>2, <3>3, DueType, Smaller
      <3>5. /\ Cost(Cardinality(S), c) \in Nat /\ Cost(Cardinality(Due(k)), c) \in Nat
            /\ Cost(Cardinality(S), c) <= Cost(Cardinality(Due(k)), c)
        BY <3>4, CostGrows
      <3>6. balance \in Nat /\ balance' = balance
        BY DEF Types
      <3>7. Cost(Cardinality(S), c) <= balance'
        BY <3>1, <3>3, <3>5, <3>6
      <3>8. request'[k].category = c /\ UNCHANGED free
        BY <2>2, <3>3
      <3>9. QED
        BY <2>2, <3>2, <3>7, <3>8 DEF PaidOf, Cost
    <2>3. CASE j = k /\ ~Busy(k)'
      BY <2>3 DEF PaidOf
    <2>4. QED
      BY <2>1, <2>2, <2>3
  <1>5. QED
    BY <1>1, <1>2, <1>4

\* The estimate of k, when nobody else has anything to pay.
LEMMA PaidEstimate ==
  ASSUME Types, Flow, PaidInv, NEW k \in Requests, Estimate(k)
  PROVE  PaidInv'
  <1>1. /\ request[k].pc = "estimate" /\ request'[k].pc = "balance" /\ request'[k].fee = Fee(k)
        /\ request'[k].eligible = request[k].eligible
        /\ request'[k].category = request[k].category
        /\ (exposed => exposed') /\ (~exposed' => ~Owed(k))
        /\ Only(k) /\ UNCHANGED <<row, refusing, money>>
    BY EstimateEffect DEF Handler, Base
  <1> SUFFICES ASSUME ~exposed', ~repriced'
               PROVE  /\ unpaid' = 0
                      /\ \A j \in Requests : PaidOf(j)'
                      /\ \A i, j \in Requests : Busy(i)' /\ Busy(j)' => i = j
    BY DEF PaidInv
  <1>2. unpaid' = 0
    BY <1>1 DEF PaidInv
  <1>3. ASSUME NEW j \in Requests, j # k PROVE ~Busy(j)'
    <2>1. ~Owed(k)
      BY <1>1
    <2>2. Pending(j) = {} /\ request[j].pc \notin {"balance", "quota", "chunk", "insert"}
      BY <1>3, <2>1 DEF Owed
    <2>3. QED
      BY <1>1, <1>3, <2>2, OnlyDue DEF Busy, Spending
  <1>4. ASSUME NEW j \in Requests, j # k PROVE PaidOf(j)'
    BY <1>3, <1>4 DEF PaidOf, Busy, Spending
  <1>5. PaidOf(k)'
    <2>1. request'[k].fee = Cost(Cardinality(request[k].eligible), request[k].category)
      BY <1>1, FeeIsCost
    <2>2. UNCHANGED free
      BY <1>1
    <2>3. QED
      BY <1>1, <2>1, <2>2 DEF PaidOf, Cost
  <1>6. QED
    BY <1>2, <1>3, <1>4, <1>5

\* The check of the balance of k, of which nothing was written yet.
LEMMA PaidBalance ==
  ASSUME Types, Flow, PaidInv, NEW k \in Requests, Balance(k)
  PROVE  PaidInv'
  <1>1. /\ request[k].pc = "balance" /\ Covered(k) /\ request'[k].pc = "quota"
        /\ request'[k].eligible = request[k].eligible
        /\ request'[k].category = request[k].category
        /\ exposed => exposed'
        /\ Only(k) /\ UNCHANGED <<row, refusing, money>>
    BY BalanceEffect DEF Handler, Base
  <1> SUFFICES ASSUME ~exposed', ~repriced'
               PROVE  /\ unpaid' = 0
                      /\ \A j \in Requests : PaidOf(j)'
                      /\ \A i, j \in Requests : Busy(i)' /\ Busy(j)' => i = j
    BY DEF PaidInv
  <1>2. /\ unpaid = 0 /\ \A j \in Requests : PaidOf(j)
        /\ \A i, j \in Requests : Busy(i) /\ Busy(j) => i = j
    BY <1>1 DEF PaidInv
  <1>3. Busy(k)
    BY <1>1 DEF Busy, Spending
  <1>4. ASSUME NEW j \in Requests PROVE Busy(j)' => j = k
    BY <1>1, <1>2, <1>3, OnlyDue
  <1>5. ASSUME NEW j \in Requests, j # k PROVE PaidOf(j)'
    BY <1>4, <1>5 DEF PaidOf, Busy, Spending
  <1>6. PaidOf(k)'
    <2> DEFINE E == request[k].eligible
               c == request[k].category
    <2>1. Cost(Cardinality(E), c) <= balance
      BY <1>1, <1>2 DEF PaidOf, Covered
    <2>2. row[k] = NoRows /\ refusing[k] = {}
      BY <1>1, Unread DEF Flow, Before
    <2>3. E \subseteq People /\ c \in Categories
      BY DEF Types, Handlers
    <2>4. row'[k] = NoRows /\ refusing'[k] = {}
      BY <1>1, <2>2
    <2>5. PICK S : S = Due(k)'
      OBVIOUS
    <2>6. S \subseteq E
      BY <1>1, <2>4, <2>5 DEF Due, Pending, Left, NoRows
    <2>7. IsFiniteSet(E)
      BY <2>3, FS_Subset
    <2> HIDE DEF E, c
    <2>8. /\ Cardinality(S) \in Nat /\ Cardinality(E) \in Nat
          /\ Cardinality(S) <= Cardinality(E)
      BY <2>6, <2>7, Smaller
    <2>9. /\ Cost(Cardinality(S), c) \in Nat /\ Cost(Cardinality(E), c) \in Nat
          /\ Cost(Cardinality(S), c) <= Cost(Cardinality(E), c)
      BY <2>3, <2>8, CostGrows
    <2>10. balance \in Nat /\ balance' = balance /\ free' = free
      BY <1>1 DEF Types
    <2>11. Cost(Cardinality(S), c) <= balance'
      BY <2>1, <2>9, <2>10
    <2>12. QED
      BY <1>1, <2>5, <2>10, <2>11 DEF PaidOf, Cost, c
  <1>7. QED
    BY <1>1, <1>2, <1>4, <1>5, <1>6

\* A delivery of a message of k.
LEMMA PaidDeliver ==
  ASSUME Types, Flow, PaidInv, NEW k \in Requests, NEW q \in People, Deliver(k, q)
  PROVE  PaidInv'
  <1>1. Becomes(k, q, "sent", "delivered")
    BY DEF Deliver
  <1>2. /\ row[k][q] = "sent" /\ q \notin refusing[k] /\ row'[k][q] = "delivered"
        /\ \A p \in People \ {q} : row'[k][p] = row[k][p]
        /\ Only(k) /\ UNCHANGED <<request, exposed, refusing>>
    BY <1>1, BecomesEffect DEF Others, Cells
  <1> SUFFICES ASSUME ~exposed', ~repriced'
               PROVE  /\ unpaid' = 0
                      /\ \A j \in Requests : PaidOf(j)'
                      /\ \A i, j \in Requests : Busy(i)' /\ Busy(j)' => i = j
    BY DEF PaidInv
  <1>3. ~exposed /\ ~repriced
    BY <1>2, DeliverEffect
  <1>4. /\ unpaid = 0 /\ \A j \in Requests : PaidOf(j)
        /\ \A i, j \in Requests : Busy(i) /\ Busy(j) => i = j
    BY <1>3 DEF PaidInv
  <1>5. q \in Pending(k) /\ q \notin Pending(k)' /\ Pending(k)' \subseteq Pending(k)
    BY <1>2 DEF Pending
  <1>6. Busy(k) /\ q \in Due(k)
    BY <1>5 DEF Busy, Due
  <1>7. request[k].pc # "balance"
    BY <1>2 DEF Flow, FlowOf, Before, NoRows
  <1>8. Left(k)' \subseteq Left(k) /\ q \notin Left(k)' /\ (Spending(k)' <=> Spending(k))
    BY <1>2 DEF Left, Spending, Types, Handlers
  <1>9. ASSUME NEW j \in Requests PROVE Busy(j)' => j = k
    <2>1. CASE j # k
      BY <1>2, <1>4, <1>6, <2>1, OnlyDue
    <2>2. QED
      BY <2>1
  <1>10. ASSUME NEW j \in Requests, j # k PROVE PaidOf(j)'
    BY <1>9, <1>10 DEF PaidOf, Busy, Spending
  <1>11. PICK S : S = Due(k)'
    OBVIOUS
  <1>12. S \subseteq Due(k) \ {q}
    BY <1>5, <1>8, <1>11 DEF Due
  <1>13. PICK m \in Nat, n \in Nat : m = Cardinality(S) /\ n = Cardinality(Due(k)) /\ m <= n - 1
    BY <1>6, <1>12, DueType, OneLess
  <1>14. PICK c \in Categories : c = request[k].category
    BY DueType
  <1>15. /\ free \in Nat /\ balance \in Nat /\ PriceOf[c] \in Nat
    BY DEF Types
  <1>16. Charge(n, free, c) * PriceOf[c] <= balance
    BY <1>4, <1>6, <1>7, <1>13, <1>14 DEF PaidOf, Cost
  <1>17. unpaid' = 0 /\ Charge(m, free', c) * PriceOf[c] <= balance'
    <2>1. CASE c = Marketing /\ free > 0
      <3>1. free' = free - 1 /\ UNCHANGED <<balance, unpaid>>
        BY <1>14, <2>1, DeliverEffect
      <3>2. /\ Charge(m, free', c) \in Nat /\ Charge(n, free, c) \in Nat
            /\ Charge(m, free', c) <= Charge(n, free, c)
        BY <1>13, <1>15, <2>1, <3>1 DEF Charge
      <3>3. PICK x \in Nat, y \in Nat, z \in Nat :
              x = Charge(m, free', c) /\ y = Charge(n, free, c) /\ z = PriceOf[c]
        BY <1>15, <3>2
      <3>4. x * z \in Nat /\ y * z \in Nat /\ x * z <= y * z
        BY <3>2, <3>3, Product
      <3>5. x * z <= balance
        BY <1>15, <1>16, <3>3, <3>4
      <3>6. QED
        BY <1>4, <3>1, <3>3, <3>5
    <2>2. CASE ~(c = Marketing /\ free > 0)
      <3>1. /\ free' = free
            /\ balance' = IF balance > PriceOf[c] THEN balance - PriceOf[c] ELSE 0
            /\ unpaid'  = IF balance < PriceOf[c] THEN unpaid + 1 ELSE unpaid
        BY <1>14, <2>2, DeliverEffect
      <3>2. Charge(m, free', c) = m /\ Charge(n, free, c) = n
        BY <1>13, <1>15, <2>2, <3>1 DEF Charge
      <3>3. PICK z \in Nat : z = PriceOf[c]
        BY <1>15
      <3>4. m * z \in Nat /\ n * z \in Nat /\ m * z <= n * z - z /\ z <= n * z
        BY <1>13, Product
      <3>5. n * z <= balance
        BY <1>16, <3>2, <3>3
      <3>6. z <= balance /\ m * z <= balance - z
        BY <1>15, <3>4, <3>5
      <3>7. unpaid' = 0 /\ balance' = balance - z
        BY <1>4, <1>15, <3>1, <3>3, <3>6
      <3>8. QED
        BY <3>2, <3>3, <3>6, <3>7
    <2>3. QED
      BY <2>1, <2>2
  <1>18. PaidOf(k)'
    BY <1>2, <1>7, <1>11, <1>13, <1>14, <1>17 DEF PaidOf, Cost
  <1>19. QED
    BY <1>9, <1>10, <1>17, <1>18

LEMMA PaidKept == Types /\ Flow /\ PaidInv /\ [Next]_vars => PaidInv'
  <1> SUFFICES ASSUME Types, Flow, PaidInv, [Next]_vars PROVE PaidInv'
    OBVIOUS
  <1>a. ASSUME UNCHANGED <<request, row, refusing, money, exposed>> PROVE PaidInv'
    <2>1. \A k \in Requests : Due(k)' = Due(k) /\ (Busy(k)' <=> Busy(k)) /\ (PaidOf(k)' <=> PaidOf(k))
      BY <1>a DEF Due, Pending, Busy, Spending, Left, PaidOf, Cost
    <2>2. QED
      BY <1>a, <2>1 DEF PaidInv
  <1>b. \A k \in Requests : FlowOf(k)
    BY DEF Flow
  \* A step of k that writes no row, and after which k has nothing to write.
  <1>c. ASSUME NEW k \in Requests, Only(k), UNCHANGED <<row, refusing, money, exposed>>,
               ~Spending(k)', request[k].pc \in Before \/ request'[k].category = request[k].category
        PROVE  PaidInv'
    <2>1. Pending(k)' = Pending(k)
      BY <1>c DEF Pending
    <2>2. request[k].pc \in Before => Pending(k) = {}
      BY <1>b DEF FlowOf, NoRows, Pending, Types
    <2>3. request'[k].pc # "balance"
      BY <1>c DEF Spending
    <2>4. Busy(k)' => /\ Busy(k) /\ request[k].pc # "balance"
                      /\ request'[k].category = request[k].category
                      /\ Due(k)' \subseteq Due(k)
      BY <1>c, <2>1, <2>2 DEF Busy, Due, Before
    <2>5. QED
      BY <1>c, <2>3, <2>4, PaidStays
  \* A step of k past the balance, after which it has less to write.
  <1>d. ASSUME NEW k \in Requests, Only(k), UNCHANGED <<money, exposed>>,
               request[k].pc # "balance", request'[k].pc # "balance",
               request'[k].category = request[k].category,
               Pending(k)' \subseteq Due(k), Spending(k)' => Spending(k) /\ Left(k)' \subseteq Left(k)
        PROVE  PaidInv'
    <2>1. Due(k)' \subseteq Due(k)
      BY <1>d DEF Due
    <2>2. Busy(k)' => Busy(k)
      BY <1>d DEF Busy, Due
    <2>3. QED
      BY <1>d, <2>1, <2>2, PaidStays
  <1>1. ASSUME NEW p \in People, Import(p) \/ OptOut(p) \/ Remove(p) \/ Erase(p) PROVE PaidInv'
    BY <1>1, <1>a, ChangeEffect
  <1>2. ASSUME NEW k \in Requests, Submit(k) PROVE PaidInv'
    <2>1. /\ request[k].pc = "idle" /\ request'[k].pc = "estimate" /\ Only(k)
          /\ UNCHANGED <<row, refusing, money, exposed>>
      BY <1>2, SubmitEffect DEF Base
    <2>2. QED
      BY <2>1, <1>c DEF Spending, Before
  <1>3. ASSUME NEW k \in Requests, Look(k) PROVE PaidInv'
    <2>1. /\ request[k].pc = "idle"
          /\ request'[k] = Failed \/ request'[k].pc \in {"text", "estimate"}
          /\ Only(k) /\ UNCHANGED <<row, refusing, money, exposed>>
      BY <1>3, LookEffect DEF Base
    <2>2. QED
      BY <2>1, <1>c, NoRequestType DEF Spending, Before
  <1>4. ASSUME NEW k \in Requests, Balance(k) PROVE PaidInv'
    BY <1>4, PaidBalance
  <1>5. ASSUME NEW k \in Requests, Quota(k) PROVE PaidInv'
    <2>1. /\ request[k].pc = "quota" /\ Goes(k, "insert") /\ Only(k)
          /\ UNCHANGED <<row, refusing, money, exposed>>
      BY <1>5, QuotaEffect DEF Base, Handler
    <2>2. /\ request'[k].pc = "insert" /\ request'[k].category = request[k].category
          /\ request'[k].eligible = request[k].eligible /\ Spending(k)
      BY <2>1, GoesFacts DEF Spending
    <2>3. Pending(k)' \subseteq Due(k) /\ Left(k)' \subseteq Left(k)
      BY <2>1, <2>2 DEF Pending, Due, Left
    <2>4. QED
      BY <2>1, <2>2, <2>3, <1>d
  <1>6. ASSUME NEW k \in Requests, Refuse(k) PROVE PaidInv'
    <2>1. /\ request[k].pc \in Before /\ request'[k] = Failed /\ Only(k)
          /\ UNCHANGED <<row, refusing, money, exposed>>
      BY <1>6, RefuseEffect DEF Base, Handler, Before
    <2>2. QED
      BY <2>1, <1>c, NoRequestType DEF Spending
  <1>7. ASSUME NEW k \in Requests, Create(k) PROVE PaidInv'
    <2>1. /\ request[k].pc = "quota" /\ Only(k)
          /\ UNCHANGED <<row, refusing, money, exposed>>
          /\ \/ request'[k] = Done(k)
             \/ request'[k] = Failed
             \/ ~request[k].broken /\ Goes(k, "chunk")
      BY <1>7, CreateEffect DEF Base, Handler
    <2>2. CASE request'[k] = Done(k) \/ request'[k] = Failed
      <3>1. ~Spending(k)' /\ request[k].pc \in Before
        BY <2>1, <2>2, DoneFacts, NoRequestType DEF Spending, Before
      <3>2. QED
        BY <2>1, <3>1, <1>c
    <2>3. CASE Goes(k, "chunk")
      <3>1. /\ request'[k].pc = "chunk" /\ request'[k].category = request[k].category
            /\ request'[k].eligible = request[k].eligible /\ Spending(k)
        BY <2>1, <2>3, GoesFacts DEF Spending
      <3>2. Pending(k)' \subseteq Due(k) /\ Left(k)' \subseteq Left(k)
        BY <2>1, <3>1 DEF Pending, Due, Left
      <3>3. QED
        BY <2>1, <3>1, <3>2, <1>d
    <2>4. QED
      BY <2>1, <2>2, <2>3
  <1>8. ASSUME NEW k \in Requests, EnqueueChunk(k) PROVE PaidInv'
    <2>1. /\ request[k].pc = "chunk" /\ (Goes(k, "chunk") \/ Goes(k, "finish"))
          /\ \A p \in People : \/ row'[k][p] = row[k][p]
                               \/ p \in Left(k) /\ row'[k][p] = "queued"
          /\ Only(k) /\ UNCHANGED <<refusing, money, exposed>>
      BY <1>8, ChunkEffect DEF Handler, Base
    <2>2. /\ request'[k].pc # "balance" /\ request'[k].category = request[k].category
          /\ request'[k].eligible = request[k].eligible /\ Spending(k)
      BY <2>1, GoesFacts DEF Spending
    <2>3. Pending(k)' \subseteq Due(k)
      BY <2>1, <2>2 DEF Pending, Due
    <2>4. Left(k)' \subseteq Left(k)
      BY <2>1, <2>2 DEF Left, Types, Handlers
    <2>5. QED
      BY <2>1, <2>2, <2>3, <2>4, <1>d
  <1>9. ASSUME NEW k \in Requests, Finish(k) PROVE PaidInv'
    <2>1. /\ request'[k].pc = "done" /\ request'[k].category = request[k].category /\ Only(k)
          /\ UNCHANGED <<row, refusing, money, exposed>>
      BY <1>9, FinishEffect, DoneFacts DEF Handler, Base
    <2>2. QED
      BY <2>1, <1>c DEF Spending
  <1>10. ASSUME NEW k \in Requests, Enqueue(k) PROVE PaidInv'
    <2>1. /\ request[k].pc \in {"insert", "text"} /\ Only(k)
          /\ request'[k].pc = "done" /\ request'[k].category = request[k].category
          /\ \A p \in People :
               row'[k][p] = IF p \notin request[k].eligible THEN "none"
                            ELSE IF request[k].pc = "text" THEN "text" ELSE "queued"
          /\ UNCHANGED <<refusing, money, exposed>>
      BY <1>10, EnqueueEffect, DoneFacts DEF Handler, Base
    <2>2. (\A p \in People : row[k][p] = "none") /\ refusing[k] = {}
      BY <2>1, <1>b, Unread DEF Before
    <2>3. request[k].pc = "insert" => Due(k) = request[k].eligible
      BY <2>2 DEF Due, Pending, Spending, Left, Types, Handlers
    <2>4. Pending(k)' \subseteq Due(k)
      BY <2>1, <2>2, <2>3 DEF Pending
    <2>5. ~Spending(k)'
      BY <2>1 DEF Spending
    <2>6. QED
      BY <2>1, <2>4, <2>5, <1>d
  <1>11. ASSUME NEW k \in Requests, Die(k) PROVE PaidInv'
    <2>1. /\ request'[k].pc = "failed" /\ request'[k].category = request[k].category /\ Only(k)
          /\ UNCHANGED <<row, refusing, money, exposed>>
      BY <1>11, DieEffect
    <2>2. QED
      BY <2>1, <1>c DEF Spending
  <1>12. ASSUME NEW k \in Requests, CancelRows(k) PROVE PaidInv'
    <2>1. /\ Cancelable(k) /\ Only(k) /\ UNCHANGED <<request, refusing, money, exposed>>
          /\ \A p \in People :
               row'[k][p] = IF row[k][p] = "queued" THEN "canceled" ELSE row[k][p]
      BY <1>12, CancelRowsEffect
    <2>2. request[k].pc # "balance"
      BY <2>1, <1>b DEF FlowOf, Before, Cancelable
    <2>3. Pending(k)' \subseteq Due(k) /\ Left(k)' \subseteq Left(k)
      BY <2>1 DEF Pending, Due, Left, Types, Handlers
    <2>4. Spending(k)' => Spending(k)
      BY <2>1 DEF Spending
    <2>5. QED
      BY <2>1, <2>2, <2>3, <2>4, <1>d
  <1>13. ASSUME NEW k \in Requests, CancelStatus(k) PROVE PaidInv'
    BY <1>13, <1>a, CancelStatusEffect
  <1>14. CASE LoseAnswer
    BY <1>14, <1>a DEF LoseAnswer
  <1>15. ASSUME NEW k \in Requests, NEW q \in People, Work(k, q) PROVE PaidInv'
    <2>1. /\ row[k][q] \in {"queued", "sending", "sent"} \/ q \in refusing[k]
          /\ row[k][q] \in {"queued", "sending", "sent", "canceled"} /\ row'[k][q] # "none"
          /\ \A p \in People \ {q} :
               row'[k][p] = row[k][p] /\ (p \in refusing'[k] => p \in refusing[k])
          /\ refusing' \in [Requests -> SUBSET People]
          /\ Only(k) /\ UNCHANGED <<request, exposed>>
      BY <1>15, <1>b, WorkEffect DEF Others
    <2>2. UNCHANGED money \/ Deliver(k, q)
      BY <1>15, <1>b, WorkEffect
    <2>3. CASE UNCHANGED money
      <3>1. request[k].pc # "balance"
        BY <2>1, <1>b DEF FlowOf, Before, NoRows
      <3>2. q \in Pending(k)
        BY <2>1 DEF Pending
      <3>3. Pending(k)' \subseteq Due(k)
        BY <2>1, <3>2 DEF Pending, Due
      <3>4. Left(k)' \subseteq Left(k) /\ (Spending(k)' => Spending(k))
        BY <2>1 DEF Left, Spending, Types, Handlers
      <3>5. QED
        BY <2>1, <2>3, <3>1, <3>3, <3>4, <1>d
    <2>4. CASE Deliver(k, q)
      BY <2>4, PaidDeliver
    <2>5. QED
      BY <2>2, <2>3, <2>4
  <1>16. ASSUME NEW k \in Requests, Estimate(k) PROVE PaidInv'
    BY <1>16, PaidEstimate
  <1>17. CASE UNCHANGED vars
    BY <1>17, <1>a DEF vars
  <1>18. QED
    BY <1>1, <1>2, <1>3, <1>4, <1>5, <1>6, <1>7, <1>8, <1>9, <1>10, <1>11, <1>12, <1>13,
       <1>14, <1>15, <1>16, <1>17 DEF Next, Work

\* UnpaidOnlyIfExposed: a message goes unpaid only if its request was admitted
\* against a balance or a plan that other rows were still going to use, or if Meta
\* billed one otherwise than it was estimated; even then the wallet does not go
\* below zero.
THEOREM UnpaidNeedsExposure == Spec => []UnpaidOnlyIfExposed
  <1>1. ASSUME Init PROVE Types /\ Flow /\ PaidInv
    <2>1. Types /\ Flow
      BY <1>1, StartsRight
    <2>2. \A k \in Requests : request[k].pc = "idle" /\ Pending(k) = {}
      BY <1>1 DEF Init, Pending, NoRequest, NoRows
    <2>3. \A k \in Requests : ~Busy(k) /\ PaidOf(k)
      BY <2>2 DEF Busy, Spending, PaidOf
    <2>4. unpaid = 0
      BY <1>1 DEF Init
    <2>5. QED
      BY <2>1, <2>3, <2>4 DEF PaidInv
  <1>2. Types /\ Flow /\ PaidInv /\ [Next]_vars => (Types /\ Flow /\ PaidInv)'
    BY TypesKept, FlowKept, PaidKept
  <1>3. Types /\ PaidInv => UnpaidOnlyIfExposed
    BY DEF Types, PaidInv, UnpaidOnlyIfExposed
  <1>4. QED
    BY <1>1, <1>2, <1>3, PTL DEF Spec
=============================================================================
