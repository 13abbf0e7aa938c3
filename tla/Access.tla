------------------------------- MODULE Access -------------------------------
(***************************************************************************)
(* What a request meets before its handler: the rate limit by tenant       *)
(* (tenant-throttler.guard.ts, janela-fixa.storage.ts) and the guard of    *)
(* the subscription with its cache (subscription.guard.ts), while webhooks *)
(* of the provider change the subscription (billing.service.ts).           *)
(*                                                                         *)
(* Users of one organization share an address.  Buckets and cache live in  *)
(* the memory of one process.  The guard awaits the database between its   *)
(* reads and writes; how long a request may last is an assumption.         *)
(***************************************************************************)
EXTENDS AccessPromise

CONSTANTS
  Address,      (* the IP that they share                                   *)
  CacheTtl,     (* SUBSCRIPTION_CACHE_TTL_MS                                *)
  Ttl,          (* window of the throttler                                  *)
  Month, Grace, (* what a payment pays for, and carência                    *)
  MaxHandling,  (* a request lasts no longer                                *)
  MaxTime,      (* bound: the clock                                         *)
  MaxEvents,    (* bound: webhooks that change the subscription             *)
  MaxCalls,     (* bound: requests                                          *)
  MaxRestarts   (* bound: restarts of the process                           *)

ASSUME AccessAssumption ==
  /\ Address \notin Users
  /\ {CacheTtl, Ttl, Limit, Month, Grace} \subseteq Nat \ {0}
  /\ {MaxHandling, MaxTime, MaxEvents, MaxCalls, MaxRestarts} \subseteq Nat

VARIABLES
  sub,          (* the row of subscriptions                                 *)
  cache,        (* the entry of the organization in SubscriptionGuard       *)
  bucket,       (* baldes, by key                                           *)
  request,      (* pc, the copy of the row, and when it arrived             *)
  events, calls, restarts       (* history *)

bounds == <<events, calls, restarts>>
vars   == <<now, sub, cache, bucket, request, answer, billed, past, asked, bounds>>

Keys      == Users \cup {Address}
NoBucket  == [hits |-> 0, expira |-> 0, blocked |-> 0]
NoSub     == [status |-> "inactive", manual |-> FALSE, period |-> Never, grace |-> Never]
NoEntry   == [sub |-> NoSub, expires |-> 0]
NoRequest == [pc |-> "idle", copy |-> NoSub, since |-> 0]

Reply(u, what) == answer' = [answer EXCEPT ![u] = what]
-----------------------------------------------------------------------------
(* TenantThrottlerGuard.                                                   *)

\* Mutant of Tracker: by address, as the guard of the package does.
MutTrackerAddress(u, session) == Address

\* getTracker: who has a token that is valid has a bucket of his own.
Tracker(u, session) == IF session THEN u ELSE Address

\* The window that is open, or a new one.
Window(k) == IF now >= bucket[k].expira
             THEN [hits |-> 0, expira |-> now + Ttl, blocked |-> 0] ELSE bucket[k]

\* increment: a hit beyond the limit blocks the bucket, for as long as a window.
Increment(k) ==
  bucket' = [bucket EXCEPT ![k] =
    IF Window(k).blocked > now THEN Window(k)
    ELSE [Window(k) EXCEPT !.hits = @ + 1,
                           !.blocked = IF Window(k).hits + 1 > Limit THEN now + Ttl ELSE @]]

\* limpar.
Sweep ==
  /\ \E k \in Keys : bucket[k] # NoBucket /\ now >= bucket[k].expira /\ now >= bucket[k].blocked
  /\ bucket' = [k \in Keys |->
       IF now >= bucket[k].expira /\ now >= bucket[k].blocked THEN NoBucket ELSE bucket[k]]
  /\ UNCHANGED <<now, sub, cache, request, answer, billed, past, asked, bounds>>
-----------------------------------------------------------------------------
(* SubscriptionGuard.                                                      *)

Decide(u, s) ==
  /\ Reply(u, IF Allows(s) THEN "served" ELSE "402")
  /\ request' = [request EXCEPT ![u] = NoRequest]

\* Mutant of Cached: an entry never expires.
MutCachedForever == cache # NoEntry

Cached == cache.expires > now

\* A request: the throttler, then the session, then the cache, and the row as
\* the database sees it: a later read only sees a newer row.
Ask(u) ==
  /\ request[u].pc = "idle" /\ calls < MaxCalls /\ calls' = calls + 1
  /\ \E session \in BOOLEAN :
       LET k == Tracker(u, session) IN
       /\ Increment(k)
       /\ asked' = IF session THEN [asked EXCEPT ![u] = @ \cup {[at |-> now, nth |-> Recent(u)]}]
                   ELSE asked
       /\ IF bucket'[k].blocked > now
          THEN Reply(u, IF session THEN "429" ELSE "none") /\ UNCHANGED request
          ELSE IF ~session THEN Reply(u, "none") /\ UNCHANGED request
          ELSE IF Cached THEN Decide(u, cache.sub)
          ELSE /\ request' = [request EXCEPT ![u] = [pc |-> "answer", copy |-> sub, since |-> now]]
               /\ Reply(u, "none")
  /\ UNCHANGED <<now, sub, cache, billed, past, events, restarts>>

Lapsed(s) == s.status = "past_due" /\ s.grace # Never /\ s.grace < now

\* resolve: the entry, and what it allows.
Store(u) ==
  /\ cache' = [sub |-> request[u].copy, expires |-> now + CacheTtl]
  /\ Decide(u, request[u].copy)
  /\ UNCHANGED <<now, sub, bucket, billed, past, asked, bounds>>

\* The WHERE of updateMany.
Degrades == Lapsed(sub)

\* The lazy degradation of a row that had lapsed when its answer came; of two,
\* one counts a row.
Degrade(u) ==
  /\ request[u].pc = "answer" /\ Lapsed(request[u].copy)
  /\ sub' = IF Degrades THEN [sub EXCEPT !.status = "canceled"] ELSE sub
  /\ request' = [request EXCEPT ![u].pc = "degraded",
       ![u].copy.status = IF Degrades THEN "canceled" ELSE @]
  /\ UNCHANGED <<now, cache, bucket, answer, billed, past, asked, bounds>>

Answer(u) == request[u].pc = "answer" /\ ~Lapsed(request[u].copy) /\ Store(u)

StoreDegraded(u) == request[u].pc = "degraded" /\ Store(u)
-----------------------------------------------------------------------------
(* The webhooks of the provider.                                           *)

Write(row) ==
  /\ events < MaxEvents /\ events' = events + 1
  /\ sub' = row /\ billed' = row
  /\ past' = past \cup {[sub |-> billed, until |-> now]}
  /\ UNCHANGED <<now, cache, bucket, request, answer, asked, calls, restarts>>

Confirm ==
  Write([status |-> "active", manual |-> FALSE, grace |-> Never,
         period |-> (IF sub.period > now THEN sub.period ELSE now) + Month])

Overdue == Write([sub EXCEPT !.status = "past_due", !.grace = now + Grace])

Cancel == Write([sub EXCEPT !.status = "canceled"])
-----------------------------------------------------------------------------
(* The world.                                                              *)

\* Time passes, unless a request would last too long.
Tick ==
  /\ now < MaxTime
  /\ \A u \in Users : request[u].pc # "idle" => now - request[u].since < MaxHandling
  /\ now' = now + 1
  /\ answer' = [u \in Users |-> "none"]
  /\ past' = {p \in past : now' - p.until < CacheTtl + MaxHandling}
  /\ asked' = [u \in Users |-> {a \in asked[u] : a.at > now' - Ttl}]
  /\ UNCHANGED <<sub, cache, bucket, request, billed, bounds>>

\* The memory of the process is lost, and so is every request.
Restart ==
  /\ restarts < MaxRestarts /\ restarts' = restarts + 1
  /\ cache' = NoEntry /\ bucket' = [k \in Keys |-> NoBucket]
  /\ request' = [u \in Users |-> NoRequest] /\ answer' = [u \in Users |-> "none"]
  /\ UNCHANGED <<now, sub, billed, past, asked, events, calls>>

\* A new organization, or one from before migration 005.
Init ==
  /\ now = 0
  /\ sub \in {NoSub, [NoSub EXCEPT !.status = "active", !.manual = TRUE]}
  /\ billed = sub /\ past = {}
  /\ cache = NoEntry /\ bucket = [k \in Keys |-> NoBucket]
  /\ request = [u \in Users |-> NoRequest] /\ answer = [u \in Users |-> "none"]
  /\ asked = [u \in Users |-> {}]
  /\ events = 0 /\ calls = 0 /\ restarts = 0

Next ==
  \/ \E u \in Users : Ask(u) \/ Answer(u) \/ Degrade(u) \/ StoreDegraded(u)
  \/ Sweep \/ Confirm \/ Overdue \/ Cancel \/ Tick \/ Restart

Spec == Init /\ [][Next]_vars
=============================================================================
