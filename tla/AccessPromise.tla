--------------------------- MODULE AccessPromise ---------------------------
(***************************************************************************)
(* What the gateway promises of a request before its handler: the part of  *)
(* Access that a customer can tell, from what was paid, what he asked and   *)
(* what he was answered.  Access says how the caches and the buckets of the *)
(* two guards keep it.                                                     *)
(***************************************************************************)
EXTENDS Integers, FiniteSets

CONSTANTS
  Users,        (* users of the organization, each with one request at most *)
  Limit         (* requests that the throttler allows in a window           *)

VARIABLES
  now,          (* Date.now(), the same for process and database            *)
  answer,       (* what a user with a session was answered at this instant  *)
  \* history
  billed,       (* the row of the subscription as the webhooks left it      *)
  past,         (* earlier values of billed, and until when they held       *)
  asked         (* requests with a session of each user                     *)

Never == 0 - 1          \* a date that is null

\* canActivate: what an entry allows at this moment.
Allows(s) ==
  \/ s.status = "active" /\ (s.manual \/ s.period = Never \/ s.period > now)
  \/ s.status = "past_due" /\ s.grace > now

\* Requests with a session in the last window's length; older ones are forgotten.
Recent(u) == Cardinality(asked[u])

\* The comment on SUBSCRIPTION_CACHE_TTL_MS: the cache delays a change by its
\* lifetime.  A request is served or refused as the subscription, as the
\* webhooks left it at some moment of the last CacheTtl and the time of one
\* request, tells for now: whatever requests overlap, and whatever the lazy
\* degradation writes over a payment.
AccessFollowsPayment ==
  \A u \in Users : answer[u] \in {"served", "402"} =>
    \E s \in {billed} \cup {p.sub : p \in past} : Allows(s) = (answer[u] = "served")

\* "Rate limit por INQUILINO": who has a session is refused only for requests
\* of his own, more than the limit in the length of a window, whoever shares
\* his address.
RefusedForOwnRequests ==
  \A u \in Users : answer[u] = "429" => Recent(u) > Limit
=============================================================================
