------------------------------ MODULE Sessions -----------------------------
(***************************************************************************)
(* The sessions of one user: the rotation of refresh tokens, logout and    *)
(* the reset of the password (auth.service.ts), and the panel that holds   *)
(* them (client.js, endpoints.js, AuthContext.jsx).                        *)
(*                                                                         *)
(* A key is a pair of access and refresh token.  The access token is not   *)
(* looked up, and may expire before any request.  The refresh token is a   *)
(* row, of single use, and one that is shown again after it was revoked    *)
(* ends every session.  The tabs of a browser share localStorage, which a  *)
(* tab reads only when it is loaded.  The 30 days of a refresh token and   *)
(* the hour of a link do not pass.                                         *)
(***************************************************************************)
EXTENDS Integers, FiniteSets

CONSTANTS
  Tabs,         (* tabs of the panel                                        *)
  Calls,        (* requests of the panel in progress                        *)
  Handlers,     (* calls of /auth in progress at the gateway                *)
  Nobody,       (* no tab                                                   *)
  MaxKeys,      (* bound: pairs of tokens issued                            *)
  MaxLinks,     (* bound: links of password resets                          *)
  MaxMishaps    (* bound: answers lost and handlers that die                *)

ASSUME SessionsAssumption ==
  /\ Nobody \notin Tabs
  /\ {MaxKeys, MaxLinks, MaxMishaps} \subseteq Nat

VARIABLES
  token,        (* refresh_tokens: unused, valid or revoked                 *)
  link,         (* password_reset_tokens: unused, open or used              *)
  handler,      (* what a handler of /auth does, for which tab              *)
  storage,      (* localStorage: the key it holds                           *)
  tab,          (* client.js and AuthContext of a tab                       *)
  call,         (* request() of client.js                                   *)
  \* history
  old,          (* keys of the sessions that a reset or a detection ended,  *)
                (* and the keys got with them                               *)
  straddled,    (* one ended while a handler was past its checks            *)
  excused,      (* a key got two holders, or was revoked while held         *)
  mishaps

server  == <<token, link>>
panel   == <<storage, tab, call>>
history == <<old, straddled, excused, mishaps>>
vars    == <<server, handler, panel, history>>

None      == 0
Keys      == 1 .. MaxKeys
Links     == 1 .. MaxLinks
Unissued  == {k \in Keys : token[k] = "unused"}
NewKey    == CHOOSE k \in Unissued : \A j \in Unissued : k <= j
Unsent    == {l \in Links : link[l] = "unused"}
NoHandler == [op |-> "none", pc |-> "idle", key |-> None, tab |-> Nobody]
NoCall    == [pc |-> "idle", tab |-> Nobody]

Idle(h)     == handler[h].pc = "idle"
Done(h)     == handler' = [handler EXCEPT ![h] = NoHandler]
Start(h, op, pc, k, t) ==
  handler' = [handler EXCEPT ![h] = [op |-> op, pc |-> pc, key |-> k, tab |-> t]]
Renewals(t) == {h \in Handlers : handler[h].op = "refresh" /\ handler[h].tab = t}
-----------------------------------------------------------------------------
(* The panel.                                                              *)

\* Mutant of Cleared: the handler of AuthContext is not called.
MutCleared == [key |-> None, authed |-> TRUE]

\* clearSession and onUnauthorized.
Cleared == [key |-> None, authed |-> FALSE]

Clear(t) == tab' = [tab EXCEPT ![t] = Cleared] /\ storage' = None

\* A page is opened, or loaded again: what it was doing is forgotten.
Load(t) ==
  /\ tab' = [tab EXCEPT ![t] = [key |-> storage, authed |-> storage # None]]
  /\ call' = [c \in Calls |-> IF call[c].tab = t THEN NoCall ELSE call[c]]
  /\ handler' = [h \in Handlers |-> IF handler[h].tab = t
                                    THEN [handler[h] EXCEPT !.tab = Nobody] ELSE handler[h]]
  /\ excused' = \/ excused
                \/ /\ storage # None
                   /\ \/ \E u \in Tabs \ {t} : tab[u].key = storage
                      \/ \E h \in Handlers : handler[h].op = "refresh" /\ handler[h].key = storage
  /\ UNCHANGED <<server, storage, old, straddled, mishaps>>

Request(c, t) ==
  /\ tab[t].authed /\ call[c].pc = "idle"
  /\ call' = [call EXCEPT ![c] = [pc |-> "sent", tab |-> t]]
  /\ UNCHANGED <<server, handler, storage, tab, history>>

\* Any answer but 401, or none.
Answered(c) ==
  /\ call[c].pc \in {"sent", "resent"}
  /\ call' = [call EXCEPT ![c] = NoCall]
  /\ UNCHANGED <<server, handler, storage, tab, history>>

\* Mutant of Renews: every request renews on its own.
MutRenewsAlways(t) == TRUE

\* renovacaoEmCurso: the requests of a tab wait for one renewal.
Renews(t) == Renewals(t) = {}

\* 401: the first time the session is renewed, the second time it ends.
Unauthorized(c, h) ==
  /\ call[c].pc \in {"sent", "resent"}
  /\ LET t == call[c].tab IN
     IF call[c].pc = "resent" \/ tab[t].key = None
     THEN /\ Clear(t) /\ call' = [call EXCEPT ![c] = NoCall]
          /\ UNCHANGED handler
     ELSE /\ call' = [call EXCEPT ![c].pc = "waiting"]
          /\ IF Renews(t) THEN Idle(h) /\ Start(h, "refresh", "find", tab[t].key, t)
             ELSE UNCHANGED handler
          /\ UNCHANGED <<storage, tab>>
  /\ UNCHANGED <<server, history>>

\* The renewal fails: each request that waited for it ends the session.
Failed(h) ==
  /\ Done(h)
  /\ LET t == handler[h].tab
         waiting == {c \in Calls : call[c].tab = t /\ call[c].pc = "waiting"} IN
     IF handler[h].op = "refresh" /\ t # Nobody
     THEN /\ Clear(t)
          /\ call' = [c \in Calls |-> IF c \in waiting THEN NoCall ELSE call[c]]
     ELSE UNCHANGED panel

\* Its answer: the requests that waited are sent again.
Renewed(t, k) ==
  /\ tab' = [tab EXCEPT ![t].key = k] /\ storage' = k
  /\ call' = [c \in Calls |-> IF call[c].tab = t /\ call[c].pc = "waiting"
                              THEN [pc |-> "resent", tab |-> t] ELSE call[c]]

\* The answer to a login.
Entered(t, k) == tab' = [tab EXCEPT ![t] = [key |-> k, authed |-> TRUE]] /\ storage' = k

\* The panel forgets the key at once, and does not wait for the gateway.
Logout(t, h) ==
  /\ tab[t].authed /\ Idle(h)
  /\ Start(h, "logout", "revoke", tab[t].key, Nobody)
  /\ Clear(t)
  /\ excused' = (excused \/ Renewals(t) # {})
  /\ UNCHANGED <<server, call, old, straddled, mishaps>>
-----------------------------------------------------------------------------
(* auth.service.ts.                                                        *)

RevokeAll == token' = [k \in Keys |-> IF token[k] = "valid" THEN "revoked" ELSE token[k]]

\* What a reset or a detection leaves behind it (history).
Ended(h) ==
  /\ old' = Keys \ Unissued
  /\ straddled' = (straddled \/ \E g \in Handlers \ {h} : handler[g].pc \in {"consume", "issue"})

\* The password is right.
Login(t, h) ==
  /\ ~tab[t].authed /\ Idle(h)
  /\ \A g \in Handlers : handler[g].tab # t \/ handler[g].op # "login"
  /\ Start(h, "login", "issue", None, t)
  /\ UNCHANGED <<server, panel, history>>

\* Mutant of Reused: a token is only looked up.
MutReusedNever(k) == FALSE

Reused(k) == token[k] = "revoked"

\* refresh up to the look at revokedAt: a token that is shown again ends all.
Find(h) ==
  /\ handler[h].pc = "find"
  /\ IF Reused(handler[h].key)
     THEN RevokeAll /\ Failed(h) /\ Ended(h)
     ELSE /\ handler' = [handler EXCEPT ![h].pc = "consume"]
          /\ UNCHANGED <<token, panel, old, straddled>>
  /\ UNCHANGED <<link, excused, mishaps>>

Consume(h) ==
  /\ handler[h].pc = "consume"
  /\ token' = [token EXCEPT ![handler[h].key] = "revoked"]
  /\ handler' = [handler EXCEPT ![h].pc = "issue"]
  /\ UNCHANGED <<link, panel, history>>

\* issueTokens, and the answer.
Issue(h) ==
  /\ handler[h].pc = "issue" /\ Unissued # {}
  /\ token' = [token EXCEPT ![NewKey] = "valid"]
  /\ old' = IF handler[h].key \in old THEN old \cup {NewKey} ELSE old
  /\ LET t == handler[h].tab IN
     \/ /\ t # Nobody /\ handler[h].op = "refresh" /\ Renewed(t, NewKey)
        /\ Done(h) /\ UNCHANGED mishaps
     \/ /\ t # Nobody /\ handler[h].op = "login" /\ Entered(t, NewKey)
        /\ Done(h) /\ UNCHANGED <<call, mishaps>>
     \/ /\ t = Nobody \/ mishaps < MaxMishaps
        /\ mishaps' = IF t = Nobody THEN mishaps ELSE mishaps + 1
        /\ Failed(h)
  /\ UNCHANGED <<link, straddled, excused>>

\* The call does not arrive, its handler dies, or the database fails.
Lose(h) ==
  /\ ~Idle(h) /\ mishaps < MaxMishaps /\ mishaps' = mishaps + 1
  /\ Failed(h)
  /\ UNCHANGED <<server, old, straddled, excused>>

Revoke(h) ==
  /\ handler[h].pc = "revoke"
  /\ token' = [token EXCEPT ![handler[h].key] = "revoked"]
  /\ Done(h)
  /\ UNCHANGED <<link, panel, history>>

\* forgotPassword: the links before it are void.
Forgot(h) ==
  /\ Idle(h) /\ Unsent # {}
  /\ link' = [l \in Links |-> IF link[l] = "open" THEN "used" ELSE link[l]]
  /\ Start(h, "forgot", "send", None, Nobody)
  /\ UNCHANGED <<token, panel, history>>

SendLink(h) ==
  /\ handler[h].pc = "send" /\ Unsent # {}
  /\ link' = [link EXCEPT ![CHOOSE l \in Unsent : \A j \in Unsent : l <= j] = "open"]
  /\ Done(h)
  /\ UNCHANGED <<token, panel, history>>

\* resetPassword: the check, and the transaction.
CheckLink(h, l) ==
  /\ Idle(h) /\ link[l] = "open"
  /\ Start(h, "reset", "reset", l, Nobody)
  /\ UNCHANGED <<server, panel, history>>

ResetPassword(h) ==
  /\ handler[h].pc = "reset"
  /\ link' = [link EXCEPT ![handler[h].key] = "used"]
  /\ RevokeAll /\ Ended(h) /\ Done(h)
  /\ excused' = TRUE
  /\ UNCHANGED <<panel, mishaps>>
-----------------------------------------------------------------------------
Init ==
  /\ token = [k \in Keys |-> "unused"] /\ link = [l \in Links |-> "unused"]
  /\ handler = [h \in Handlers |-> NoHandler]
  /\ storage = None /\ tab = [t \in Tabs |-> [key |-> None, authed |-> FALSE]]
  /\ call = [c \in Calls |-> NoCall]
  /\ old = {} /\ straddled = FALSE /\ excused = FALSE /\ mishaps = 0

Next ==
  \/ \E t \in Tabs : Load(t) \/ \E c \in Calls : Request(c, t)
  \/ \E t \in Tabs, h \in Handlers : Login(t, h) \/ Logout(t, h)
  \/ \E c \in Calls : Answered(c) \/ \E h \in Handlers : Unauthorized(c, h)
  \/ \E h \in Handlers : \/ Find(h) \/ Consume(h) \/ Issue(h) \/ Lose(h) \/ Revoke(h)
                         \/ Forgot(h) \/ SendLink(h) \/ ResetPassword(h)
                         \/ \E l \in Links : CheckLink(h, l)

Spec == Init /\ [][Next]_vars
-----------------------------------------------------------------------------
(* Properties.                                                             *)

\* Every variable keeps its type, and a panel that shows a session has its
\* key, whatever answers arrive late.
TypeOK ==
  /\ token \in [Keys -> {"unused", "valid", "revoked"}]
  /\ link \in [Links -> {"unused", "open", "used"}]
  /\ storage \in Keys \cup {None}
  /\ \A t \in Tabs : tab[t].authed => tab[t].key \in Keys

\* No session outlives a reset of the password or the detection of a reuse:
\* no key of one is valid, nor any key got with it since, unless a refresh was
\* past its checks at that moment.
EndedStayEnded == ~straddled => \A k \in old : token[k] # "valid"

\* The panel never causes a reuse that ends the sessions of the user: unless a
\* key was copied to another tab, or revoked by a reset or by a logout during a
\* renewal, the key of a tab can be renewed, and a renewal shows a valid one.
SessionsSurvive ==
  ~excused =>
    /\ \A t \in Tabs :
         tab[t].key # None /\ Renewals(t) = {} => token[tab[t].key] = "valid"
    /\ \A h \in Handlers : handler[h].pc = "find" => token[handler[h].key] = "valid"

\* The comment in renovarSessao: a network that fails does not end the session.
NetworkKeepsSession ==
  [][\A h \in Handlers : Lose(h) => tab' = tab]_vars
=============================================================================
