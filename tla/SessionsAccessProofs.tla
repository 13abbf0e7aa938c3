------------------------ MODULE SessionsAccessProofs ------------------------
(* The safety of Sessions for every number of tabs, requests, handlers,    *)
(* tokens and mishaps; and, from "Access" on, that of Access, which says   *)
(* what becomes of a request that has a session, for every number of       *)
(* users and every length of windows, periods and requests.                *)
EXTENDS Sessions, AccessPromise, WellFoundedInduction, FiniteSetTheorems, TLAPS

(***************************************************************************)
(* Types.  A handler of a renewal has a key; a call in progress has a tab; *)
(* a panel that shows a session has a key; whatever key somebody holds was *)
(* issued.                                                                 *)
(***************************************************************************)
ServerType ==
  /\ token \in [Keys -> {"unused", "valid", "revoked"}]
  /\ link \in [Links -> {"unused", "open", "used"}]

CallRecord == [pc : {"idle", "sent", "waiting", "resent"}, tab : Tabs \cup {Nobody}]

PanelType ==
  /\ storage \in Keys \cup {None}
  /\ tab \in [Tabs -> [key : Keys \cup {None}, authed : BOOLEAN]]
  /\ call \in [Calls -> CallRecord]
  /\ \A c \in Calls : call[c].pc # "idle" => call[c].tab \in Tabs
  /\ \A t \in Tabs : tab[t].authed => tab[t].key # None

HandlerRecord ==
  [op : {"none", "refresh", "login", "logout", "forgot", "reset"},
   pc : {"idle", "find", "consume", "issue", "revoke", "send", "reset"},
   key : Keys \cup Links \cup {None}, tab : Tabs \cup {Nobody}]

\* The operation of a handler and its control point belong together.
Fits(r) ==
  /\ r.pc \in {"find", "consume"} => r.op = "refresh"
  /\ r.pc = "issue" => r.op \in {"refresh", "login"}
  /\ r.op = "refresh" => r.pc \in {"find", "consume", "issue"} /\ r.key \in Keys
  /\ r.op = "login" => r.pc = "issue" /\ r.key = None
  /\ r.pc = "revoke" => r.op = "logout" /\ r.key \in Keys

HandlerType == handler \in [Handlers -> HandlerRecord] /\ \A h \in Handlers : Fits(handler[h])

Issued(k) == token[k] # "unused"

HeldInv ==
  /\ storage # None => Issued(storage)
  /\ \A t \in Tabs : tab[t].key # None => Issued(tab[t].key)
  /\ \A h \in Handlers :
       handler[h].op = "refresh" \/ handler[h].pc = "revoke" => Issued(handler[h].key)
  /\ old \subseteq Keys /\ \A k \in old : Issued(k)

TypeInv == ServerType /\ PanelType /\ HandlerType /\ HeldInv

LEMMA LeastElement ==
  ASSUME NEW S, S \subseteq Nat, S # {}
  PROVE  \E x \in S : \A y \in S : x <= y
<1>1. PICK x \in S : \A y \in S : <<y, x>> \notin OpToRel(<, Nat)
  BY WFMin, NatLessThanWellFounded
<1>2. \A y \in S : x <= y
  <2> SUFFICES ASSUME NEW y \in S PROVE x <= y
    OBVIOUS
  <2>1. x \in Nat /\ y \in Nat
    OBVIOUS
  <2>2. <<y, x>> \in Nat \X Nat
    BY <2>1
  <2>3. ~(y < x)
    BY <1>1, <2>1, <2>2, Zenon DEF OpToRel
  <2> QED  BY <2>1, <2>3
<1> QED  BY <1>2

LEMMA NewKeyUnissued == Unissued # {} => NewKey \in Keys /\ token[NewKey] = "unused"
<1> SUFFICES ASSUME Unissued # {} PROVE NewKey \in Unissued
  BY DEF Unissued
<1>1. Unissued \subseteq Nat
  BY SessionsAssumption DEF SessionsAssumption, Unissued, Keys
<1> QED  BY <1>1, LeastElement DEF NewKey

LEMMA KeysAreNumbers == None \notin Keys /\ Nobody \notin Tabs
BY SessionsAssumption DEF SessionsAssumption, Keys, None

(* Done(h) frees the handler and leaves the others alone.                  *)
LEMMA DoneFrees ==
  ASSUME TypeInv, NEW h \in Handlers, Done(h)
  PROVE  /\ HandlerType'
         /\ handler'[h] = NoHandler
         /\ \A g \in Handlers \ {h} : handler'[g] = handler[g]
BY DEF TypeInv, HandlerType, HandlerRecord, Fits, Done, NoHandler

(* A handler that starts.                                                  *)
LEMMA StartOccupies ==
  ASSUME TypeInv, NEW h \in Handlers, NEW op, NEW pc, NEW k, NEW t, Start(h, op, pc, k, t),
         [op |-> op, pc |-> pc, key |-> k, tab |-> t] \in HandlerRecord,
         Fits([op |-> op, pc |-> pc, key |-> k, tab |-> t])
  PROVE  /\ HandlerType'
         /\ handler'[h] = [op |-> op, pc |-> pc, key |-> k, tab |-> t]
         /\ \A g \in Handlers \ {h} : handler'[g] = handler[g]
BY DEF TypeInv, HandlerType, Start

(* A renewal that fails ends the session of its tab.                       *)
LEMMA FailedEnds ==
  ASSUME TypeInv, NEW h \in Handlers, Failed(h)
  PROVE  /\ PanelType' /\ HandlerType'
         /\ handler'[h] = NoHandler
         /\ \A g \in Handlers \ {h} : handler'[g] = handler[g]
         /\ \/ UNCHANGED panel /\ (handler[h].op # "refresh" \/ handler[h].tab = Nobody)
            \/ /\ handler[h].op = "refresh" /\ handler[h].tab \in Tabs
               /\ storage' = None /\ tab'[handler[h].tab] = Cleared
               /\ \A t \in Tabs \ {handler[h].tab} : tab'[t] = tab[t]
<1>1. /\ HandlerType' /\ handler'[h] = NoHandler
      /\ \A g \in Handlers \ {h} : handler'[g] = handler[g]
  BY DoneFrees DEF Failed
<1>2. CASE handler[h].op = "refresh" /\ handler[h].tab # Nobody
  <2>1. handler[h].tab \in Tabs
    BY <1>2 DEF TypeInv, HandlerType, HandlerRecord
  <2>2. storage' = None /\ tab' = [tab EXCEPT ![handler[h].tab] = Cleared]
    BY <1>2 DEF Failed, Clear
  <2>3. \A c \in Calls : call'[c] = NoCall \/ call'[c] = call[c]
    BY <1>2 DEF Failed
  <2>4. call' \in [Calls -> CallRecord]
    BY <1>2, <2>3 DEF Failed, TypeInv, PanelType, CallRecord, NoCall
  <2>5. PanelType'
    BY <2>1, <2>2, <2>3, <2>4 DEF TypeInv, PanelType, Cleared, NoCall
  <2> QED  BY <1>1, <1>2, <2>1, <2>2, <2>5 DEF TypeInv, PanelType
<1>3. CASE ~(handler[h].op = "refresh" /\ handler[h].tab # Nobody)
  BY <1>1, <1>3 DEF Failed, TypeInv, PanelType, panel
<1> QED  BY <1>2, <1>3

(* Whatever is held stays issued, when nothing but issued keys is taken.   *)
LEMMA HeldKept ==
  ASSUME TypeInv, \A k \in Keys : Issued(k) => Issued(k)',
         storage' \in {None, storage}, UNCHANGED old,
         \A t \in Tabs : tab'[t].key \in {None, tab[t].key, storage},
         \A h \in Handlers :
           \/ handler'[h].op # "refresh" /\ handler'[h].pc # "revoke"
           \/ handler'[h].op = handler[h].op /\ handler'[h].key = handler[h].key
              /\ (handler'[h].pc = "revoke" => handler[h].pc = "revoke")
           \/ \E t \in Tabs : tab[t].key # None /\ handler'[h].key = tab[t].key
  PROVE  HeldInv'
BY DEF TypeInv, HeldInv, PanelType, HandlerType, HandlerRecord, Fits, Issued

-----------------------------------------------------------------------------
LEMMA TypeInit == Init => TypeInv
BY KeysAreNumbers DEF Init, TypeInv, ServerType, PanelType, CallRecord, HandlerType, HandlerRecord,
   Fits, HeldInv, NoHandler, NoCall

LEMMA TypeLoad ==
  ASSUME TypeInv, NEW t \in Tabs, Load(t)
  PROVE  TypeInv'
<1> USE DEF TypeInv, Load, server
<1>1. \A u \in Tabs \ {t} : tab'[u] = tab[u]
  BY DEF PanelType
<1>2. tab'[t].key = storage /\ (tab'[t].authed <=> storage # None)
  BY DEF PanelType
<1>3. \A h \in Handlers : handler'[h] = handler[h] \/ handler'[h] = [handler[h] EXCEPT !.tab = Nobody]
  OBVIOUS
<1>4. HandlerType'
  BY <1>3 DEF HandlerType, HandlerRecord, Fits
<1>5. \A c \in Calls : call'[c] \in {NoCall, call[c]}
  OBVIOUS
<1>6. call' \in [Calls -> CallRecord] /\ \A c \in Calls : call'[c].pc # "idle" => call'[c].tab \in Tabs
  BY <1>5 DEF PanelType, CallRecord, NoCall
<1>7. PanelType'
  BY <1>1, <1>2, <1>6 DEF PanelType
<1>8. HeldInv'
  <2>1. \A h \in Handlers : /\ handler'[h].op = handler[h].op /\ handler'[h].key = handler[h].key
                            /\ handler'[h].pc = handler[h].pc
    BY <1>3 DEF HandlerType, HandlerRecord
  <2> QED  BY <1>1, <1>2, <2>1 DEF HeldInv, Issued
<1> QED  BY <1>4, <1>7, <1>8 DEF ServerType

LEMMA TypeRequest ==
  ASSUME TypeInv, NEW c \in Calls, NEW t \in Tabs, Request(c, t)
  PROVE  TypeInv'
<1> USE DEF TypeInv, Request, server, history
<1>1. PanelType'
  BY DEF PanelType, CallRecord
<1>2. HeldInv' /\ HandlerType' /\ ServerType'
  BY DEF HeldInv, Issued, HandlerType, ServerType
<1> QED  BY <1>1, <1>2

LEMMA TypeAnswered ==
  ASSUME TypeInv, NEW c \in Calls, Answered(c)
  PROVE  TypeInv'
<1> USE DEF TypeInv, Answered, server, history
<1>1. PanelType'
  BY DEF PanelType, CallRecord, NoCall
<1>2. HeldInv' /\ HandlerType' /\ ServerType'
  BY DEF HeldInv, Issued, HandlerType, ServerType
<1> QED  BY <1>1, <1>2

LEMMA TypeUnauthorized ==
  ASSUME TypeInv, NEW c \in Calls, NEW h \in Handlers, Unauthorized(c, h)
  PROVE  TypeInv'
<1> DEFINE t == call[c].tab
<1>1. t \in Tabs /\ call[c].pc # "idle"
  BY DEF TypeInv, PanelType, Unauthorized
<1>2. UNCHANGED <<token, link, old>>
  BY DEF Unauthorized, server, history
<1>3. CASE call[c].pc = "resent" \/ tab[t].key = None
  <2>1. /\ tab' = [tab EXCEPT ![t] = Cleared] /\ storage' = None
        /\ call' = [call EXCEPT ![c] = NoCall] /\ UNCHANGED handler
    BY <1>3 DEF Unauthorized, Clear
  <2>2. PanelType'
    BY <2>1, <1>1 DEF TypeInv, PanelType, CallRecord, NoCall, Cleared
  <2>3. \A u \in Tabs : tab'[u].key \in {None, tab[u].key}
    BY <2>1 DEF TypeInv, PanelType, Cleared
  <2>4. HeldInv'
    BY <2>1, <2>3, <1>2 DEF TypeInv, HeldInv, Issued
  <2> QED  BY <2>1, <2>2, <2>4, <1>2 DEF TypeInv, ServerType, HandlerType
<1>4. CASE ~(call[c].pc = "resent" \/ tab[t].key = None)
  <2>1. call' = [call EXCEPT ![c].pc = "waiting"] /\ UNCHANGED <<storage, tab>>
    BY <1>4 DEF Unauthorized
  <2>2. PanelType'
    BY <2>1, <1>1 DEF TypeInv, PanelType, CallRecord
  <2>3. CASE UNCHANGED handler
    BY <2>1, <2>2, <2>3, <1>2 DEF TypeInv, ServerType, HandlerType, HeldInv, Issued
  <2>4. CASE Start(h, "refresh", "find", tab[t].key, t)
    <3>1. /\ tab[t].key \in Keys /\ Issued(tab[t].key)
      BY <1>1, <1>4 DEF TypeInv, PanelType, HeldInv
    <3>2. /\ [op |-> "refresh", pc |-> "find", key |-> tab[t].key, tab |-> t] \in HandlerRecord
          /\ Fits([op |-> "refresh", pc |-> "find", key |-> tab[t].key, tab |-> t])
      BY <3>1, <1>1 DEF HandlerRecord, Fits
    <3>3. /\ HandlerType' /\ handler'[h].key = tab[t].key
          /\ \A g \in Handlers \ {h} : handler'[g] = handler[g]
      BY <2>4, <3>2, StartOccupies
    <3>4. HeldInv'
      BY <3>1, <3>3, <2>1, <1>2 DEF TypeInv, HeldInv, Issued
    <3> QED  BY <2>2, <3>3, <3>4, <1>2 DEF TypeInv, ServerType
  <2> QED  BY <1>4, <2>3, <2>4 DEF Unauthorized
<1> QED  BY <1>3, <1>4

LEMMA TypeLogout ==
  ASSUME TypeInv, NEW t \in Tabs, NEW h \in Handlers, Logout(t, h)
  PROVE  TypeInv'
<1>1. tab[t].key \in Keys /\ Issued(tab[t].key)
  BY DEF Logout, TypeInv, PanelType, HeldInv
<1>2. UNCHANGED <<token, link, call, old>> /\ storage' = None /\ tab' = [tab EXCEPT ![t] = Cleared]
  BY DEF Logout, Clear, server
<1>3. PanelType'
  BY <1>2 DEF TypeInv, PanelType, Cleared
<1>4. Start(h, "logout", "revoke", tab[t].key, Nobody)
  BY DEF Logout
<1>5. /\ [op |-> "logout", pc |-> "revoke", key |-> tab[t].key, tab |-> Nobody] \in HandlerRecord
      /\ Fits([op |-> "logout", pc |-> "revoke", key |-> tab[t].key, tab |-> Nobody])
  BY <1>1 DEF HandlerRecord, Fits
<1>6. /\ HandlerType' /\ handler'[h].key = tab[t].key
      /\ \A g \in Handlers \ {h} : handler'[g] = handler[g]
  BY <1>4, <1>5, StartOccupies
<1>7. \A u \in Tabs : tab'[u].key \in {None, tab[u].key}
  BY <1>2 DEF TypeInv, PanelType, Cleared
<1>8. HeldInv'
  BY <1>1, <1>2, <1>6, <1>7 DEF TypeInv, HeldInv, Issued
<1> QED  BY <1>2, <1>3, <1>6, <1>8 DEF TypeInv, ServerType

(* Login, Forgot and CheckLink: a handler starts that holds no key.        *)
LEMMA TypeStart ==
  ASSUME TypeInv, NEW h \in Handlers,
         \/ \E t \in Tabs : Login(t, h)
         \/ Forgot(h)
         \/ \E l \in Links : CheckLink(h, l)
  PROVE  TypeInv'
<1> USE DEF server, panel, history
<1>1. PICK r \in HandlerRecord : /\ r.op \notin {"refresh"} /\ r.pc \notin {"revoke"} /\ Fits(r)
                                 /\ handler' = [handler EXCEPT ![h] = r]
  <2>1. CASE \E t \in Tabs : Login(t, h)
    <3>1. PICK t \in Tabs : Start(h, "login", "issue", None, t)
      BY <2>1 DEF Login
    <3>2. /\ [op |-> "login", pc |-> "issue", key |-> None, tab |-> t] \in HandlerRecord
          /\ Fits([op |-> "login", pc |-> "issue", key |-> None, tab |-> t])
      BY DEF HandlerRecord, Fits
    <3> QED  BY <3>1, <3>2 DEF Start
  <2>2. CASE Forgot(h)
    <3>1. Start(h, "forgot", "send", None, Nobody)
      BY <2>2 DEF Forgot
    <3>2. /\ [op |-> "forgot", pc |-> "send", key |-> None, tab |-> Nobody] \in HandlerRecord
          /\ Fits([op |-> "forgot", pc |-> "send", key |-> None, tab |-> Nobody])
      BY DEF HandlerRecord, Fits
    <3> QED  BY <3>1, <3>2 DEF Start
  <2>3. CASE \E l \in Links : CheckLink(h, l)
    <3>1. PICK l \in Links : Start(h, "reset", "reset", l, Nobody)
      BY <2>3 DEF CheckLink
    <3>2. /\ [op |-> "reset", pc |-> "reset", key |-> l, tab |-> Nobody] \in HandlerRecord
          /\ Fits([op |-> "reset", pc |-> "reset", key |-> l, tab |-> Nobody])
      BY DEF HandlerRecord, Fits
    <3> QED  BY <3>1, <3>2 DEF Start
  <2> QED  BY <2>1, <2>2, <2>3
<1>2. HandlerType'
  BY <1>1 DEF TypeInv, HandlerType
<1>3. UNCHANGED <<token, storage, tab, call, old>> /\ (UNCHANGED link \/ Forgot(h))
  BY DEF Login, Forgot, CheckLink
<1>4. ServerType'
  BY <1>3 DEF TypeInv, ServerType, Forgot
<1>5. PanelType'
  BY <1>3 DEF TypeInv, PanelType
<1>6. HeldInv'
  BY <1>1, <1>3 DEF TypeInv, HandlerType, HeldInv, Issued
<1> QED  BY <1>2, <1>4, <1>5, <1>6 DEF TypeInv

LEMMA TypeFind ==
  ASSUME TypeInv, NEW h \in Handlers, Find(h)
  PROVE  TypeInv'
<1>1. CASE Reused(handler[h].key)
  <2>1. RevokeAll /\ Failed(h) /\ old' = Keys \ Unissued /\ UNCHANGED link
    BY <1>1 DEF Find, Ended
  <2>2. ServerType' /\ \A k \in Keys : Issued(k)' <=> Issued(k)
    BY <2>1 DEF RevokeAll, TypeInv, ServerType, Issued
  <2>3. HeldInv'
    <3>1. storage' \in {None, storage} /\ \A t \in Tabs : tab'[t].key \in {None, tab[t].key}
      BY <2>1, FailedEnds DEF panel, Cleared
    <3>2. \A g \in Handlers : handler'[g] \in {NoHandler, handler[g]}
      BY <2>1, FailedEnds
    <3>3. \A k \in old' : Issued(k)'
      BY <2>1, <2>2 DEF Unissued, Issued
    <3> QED  BY <2>1, <2>2, <3>1, <3>2, <3>3 DEF TypeInv, PanelType, HandlerType, Fits, HeldInv, NoHandler
  <2> QED  BY <2>1, <2>2, <2>3, FailedEnds DEF TypeInv
<1>2. CASE ~Reused(handler[h].key)
  <2>1. handler' = [handler EXCEPT ![h].pc = "consume"] /\ UNCHANGED <<token, link, storage, tab, call, old>>
    BY <1>2 DEF Find, panel
  <2>2. handler[h].op = "refresh"
    BY DEF Find, TypeInv, HandlerType, Fits
  <2>3. HandlerType'
    BY <2>1, <2>2 DEF TypeInv, HandlerType, HandlerRecord, Fits
  <2>4. HeldInv'
    BY <2>1, <2>2 DEF TypeInv, HandlerType, HandlerRecord, HeldInv, Issued
  <2> QED  BY <2>1, <2>3, <2>4 DEF TypeInv, ServerType, PanelType
<1> QED  BY <1>1, <1>2

LEMMA TypeConsume ==
  ASSUME TypeInv, NEW h \in Handlers, Consume(h)
  PROVE  TypeInv'
<1>1. /\ handler' = [handler EXCEPT ![h].pc = "issue"] /\ UNCHANGED <<link, storage, tab, call, old>>
      /\ token' = [token EXCEPT ![handler[h].key] = "revoked"]
  BY DEF Consume, panel, history
<1>2. handler[h].op = "refresh" /\ handler[h].key \in Keys
  BY DEF Consume, TypeInv, HandlerType, Fits
<1>3. HandlerType'
  BY <1>1, <1>2 DEF TypeInv, HandlerType, HandlerRecord, Fits
<1>4. ServerType' /\ \A k \in Keys : Issued(k) => Issued(k)'
  BY <1>1, <1>2 DEF TypeInv, ServerType, Issued
<1>5. \A g \in Handlers : handler'[g].op = handler[g].op /\ handler'[g].key = handler[g].key
                          /\ (handler'[g].pc = "revoke" => handler[g].pc = "revoke")
  BY <1>1 DEF TypeInv, HandlerType, HandlerRecord
<1>6. HeldInv'
  BY <1>1, <1>4, <1>5, HeldKept
<1> QED  BY <1>1, <1>3, <1>4, <1>6 DEF TypeInv, PanelType

LEMMA TypeLose ==
  ASSUME TypeInv, NEW h \in Handlers, Lose(h)
  PROVE  TypeInv'
<1>1. Failed(h) /\ UNCHANGED <<token, link, old>>
  BY DEF Lose, server
<1>2. storage' \in {None, storage} /\ \A t \in Tabs : tab'[t].key \in {None, tab[t].key}
  BY <1>1, FailedEnds DEF panel, Cleared
<1>3. \A g \in Handlers : handler'[g] \in {NoHandler, handler[g]}
  BY <1>1, FailedEnds
<1>4. HeldInv'
  BY <1>1, <1>2, <1>3 DEF TypeInv, HeldInv, NoHandler, Issued
<1> QED  BY <1>1, <1>4, FailedEnds DEF TypeInv, ServerType

(* Revoke, SendLink and ResetPassword: a handler of no tab ends.           *)
LEMMA TypeEnd ==
  ASSUME TypeInv, NEW h \in Handlers, Revoke(h) \/ SendLink(h) \/ ResetPassword(h)
  PROVE  TypeInv'
<1> USE DEF panel, history
<1>1. UNCHANGED <<storage, tab, call>> /\ Done(h)
  BY DEF Revoke, SendLink, ResetPassword
<1>2. HandlerType' /\ \A g \in Handlers : handler'[g] \in {NoHandler, handler[g]}
  BY <1>1, DoneFrees
<1>3. PanelType'
  BY <1>1 DEF TypeInv, PanelType
<1>4. link' \in [Links -> {"unused", "open", "used"}]
  <2>1. \A l, v : v \in {"unused", "open", "used"} =>
          [link EXCEPT ![l] = v] \in [Links -> {"unused", "open", "used"}]
    BY DEF TypeInv, ServerType
  <2> QED  BY <2>1 DEF TypeInv, ServerType, Revoke, SendLink, ResetPassword
<1>5. token' \in [Keys -> {"unused", "valid", "revoked"}] /\ \A k \in Keys : Issued(k) => Issued(k)'
  BY DEF TypeInv, ServerType, Revoke, SendLink, ResetPassword, RevokeAll, Issued
<1>6. old' \subseteq Keys /\ \A k \in old' : Issued(k)
  BY DEF TypeInv, HeldInv, Revoke, SendLink, ResetPassword, Ended, Unissued, Issued
<1>7. HeldInv'
  BY <1>1, <1>2, <1>5, <1>6 DEF TypeInv, PanelType, HandlerType, Fits, HeldInv, NoHandler
<1> QED  BY <1>2, <1>3, <1>4, <1>5, <1>7 DEF TypeInv, ServerType

(* What Issue does: a fresh key is valid, and the tab has it or nobody.    *)
LEMMA IssueGives ==
  ASSUME TypeInv, NEW h \in Handlers, Issue(h)
  PROVE  /\ NewKey \in Keys /\ token[NewKey] = "unused"
         /\ token' = [token EXCEPT ![NewKey] = "valid"]
         /\ PanelType' /\ HandlerType'
         /\ handler'[h] = NoHandler
         /\ \A g \in Handlers \ {h} : handler'[g] = handler[g]
         /\ \/ /\ handler[h].tab \in Tabs /\ storage' = NewKey
               /\ tab'[handler[h].tab].key = NewKey
               /\ \A t \in Tabs \ {handler[h].tab} : tab'[t] = tab[t]
            \/ Failed(h)
<1> DEFINE t == handler[h].tab
<1>1. /\ NewKey \in Keys /\ token[NewKey] = "unused"
      /\ token' = [token EXCEPT ![NewKey] = "valid"]
  BY NewKeyUnissued DEF Issue
<1>2. NewKey # None
  BY <1>1, KeysAreNumbers
<1>3. t \in Tabs \cup {Nobody}
  BY DEF TypeInv, HandlerType, HandlerRecord
<1>4. CASE Failed(h)
  BY <1>1, <1>4, FailedEnds
<1>5. CASE t # Nobody /\ Renewed(t, NewKey) /\ Done(h)
  <2>1. tab' = [tab EXCEPT ![t].key = NewKey] /\ storage' = NewKey
    BY <1>5 DEF Renewed
  <2>2. \A c \in Calls : call'[c] = [pc |-> "resent", tab |-> t] \/ call'[c] = call[c]
    BY <1>5 DEF Renewed
  <2>3. call' \in [Calls -> CallRecord] /\ \A c \in Calls : call'[c].pc # "idle" => call'[c].tab \in Tabs
    BY <1>3, <1>5, <2>2 DEF TypeInv, PanelType, CallRecord, Renewed
  <2>4. PanelType'
    BY <1>1, <1>2, <1>3, <1>5, <2>1, <2>3 DEF TypeInv, PanelType
  <2>5. t \in Tabs /\ tab'[t].key = NewKey /\ \A u \in Tabs \ {t} : tab'[u] = tab[u]
    BY <1>3, <1>5, <2>1 DEF TypeInv, PanelType
  <2> QED  BY <1>1, <1>5, <2>1, <2>4, <2>5, DoneFrees
<1>6. CASE t # Nobody /\ Entered(t, NewKey) /\ Done(h) /\ UNCHANGED call
  <2>1. tab' = [tab EXCEPT ![t] = [key |-> NewKey, authed |-> TRUE]] /\ storage' = NewKey
    BY <1>6 DEF Entered
  <2>2. PanelType'
    BY <1>1, <1>2, <1>3, <1>6, <2>1 DEF TypeInv, PanelType
  <2>3. t \in Tabs /\ tab'[t].key = NewKey /\ \A u \in Tabs \ {t} : tab'[u] = tab[u]
    BY <1>3, <1>6, <2>1 DEF TypeInv, PanelType
  <2> QED  BY <1>1, <1>6, <2>1, <2>2, <2>3, DoneFrees
<1> QED  BY <1>4, <1>5, <1>6 DEF Issue

LEMMA TypeIssue ==
  ASSUME TypeInv, NEW h \in Handlers, Issue(h)
  PROVE  TypeInv'
<1>1. ServerType' /\ \A k \in Keys : Issued(k) \/ k = NewKey => Issued(k)'
  BY IssueGives DEF Issue, TypeInv, ServerType, Issued
<1>2. \A g \in Handlers : handler'[g] \in {NoHandler, handler[g]}
  BY IssueGives
<1>3. storage' \in {None, NewKey, storage} /\ \A t \in Tabs : tab'[t].key \in {None, NewKey, tab[t].key}
  BY IssueGives, FailedEnds DEF panel, Cleared
<1>4. old' \in {old, old \cup {NewKey}}
  BY DEF Issue
<1>5. HeldInv'
  BY <1>1, <1>2, <1>3, <1>4, IssueGives
     DEF TypeInv, PanelType, HandlerType, Fits, HeldInv, NoHandler
<1> QED  BY <1>1, <1>5, IssueGives DEF TypeInv

LEMMA TypeStep == TypeInv /\ [Next]_vars => TypeInv'
<1> SUFFICES ASSUME TypeInv, [Next]_vars PROVE TypeInv'
  OBVIOUS
<1>1. CASE UNCHANGED vars
  BY <1>1 DEF vars, server, panel, history, TypeInv, ServerType, PanelType, HandlerType, HeldInv, Issued
<1>2. CASE Next
  BY <1>2, TypeLoad, TypeRequest, TypeAnswered, TypeUnauthorized, TypeLogout, TypeStart, TypeFind,
     TypeConsume, TypeIssue, TypeLose, TypeEnd DEF Next
<1> QED  BY <1>1, <1>2

LEMMA TypeAlways == Spec => []TypeInv
BY TypeInit, TypeStep, PTL DEF Spec

(* The type invariant of the module: the gateway's rows have their states, *)
(* and a panel that shows a session has its key, for every number of tabs, *)
(* requests, handlers and tokens.                                          *)
THEOREM TypeCorrect == Spec => []TypeOK
<1>1. TypeInv => TypeOK
  BY DEF TypeInv, ServerType, PanelType, TypeOK
<1> QED  BY <1>1, TypeAlways, PTL
-----------------------------------------------------------------------------
(***************************************************************************)
(* Ended sessions.  The keys of the sessions that were ended, and those    *)
(* got with them, stay out of the hands of every refresh that is past its  *)
(* checks, unless one was there already when they were ended.              *)
(***************************************************************************)
PastChecks(h) == handler[h].pc \in {"consume", "issue"}

EndedInv ==
  ~straddled => /\ EndedStayEnded
                /\ \A h \in Handlers : PastChecks(h) => handler[h].key \notin old

LEMMA EndedInit == Init => EndedInv
BY DEF Init, EndedInv, EndedStayEnded, PastChecks, NoHandler

(* A step that validates no key and lets no ended one past the checks.     *)
LEMMA EndedKept ==
  ASSUME TypeInv, EndedInv, UNCHANGED <<old, straddled>>,
         \A k \in Keys : token'[k] = "valid" => token[k] = "valid",
         \A h \in Handlers : PastChecks(h)' =>
           \/ PastChecks(h) /\ handler'[h].key = handler[h].key
           \/ handler'[h].key \notin Keys
           \/ token[handler'[h].key] = "valid"
  PROVE  EndedInv'
BY DEF TypeInv, HeldInv, EndedInv, EndedStayEnded

(* A reset or a detection revokes every key that was issued.               *)
LEMMA EndedByRevokeAll ==
  ASSUME TypeInv, NEW h \in Handlers, RevokeAll, Ended(h), handler'[h] = NoHandler,
         \A g \in Handlers \ {h} : handler'[g] = handler[g]
  PROVE  EndedInv'
<1>1. \A k \in Keys : token'[k] # "valid"
  BY DEF RevokeAll, TypeInv, ServerType
<1>2. ~straddled' => \A g \in Handlers \ {h} : ~PastChecks(g)
  BY Zenon DEF Ended, PastChecks
<1>3. \A g \in Handlers \ {h} : PastChecks(g)' <=> PastChecks(g)
  BY DEF PastChecks
<1>4. ~PastChecks(h)'
  BY DEF PastChecks, NoHandler
<1>5. old' \subseteq Keys
  BY DEF Ended
<1> QED  BY <1>1, <1>2, <1>3, <1>4, <1>5 DEF EndedInv, EndedStayEnded

LEMMA EndedFind ==
  ASSUME TypeInv, EndedInv, NEW h \in Handlers, Find(h)
  PROVE  EndedInv'
<1>1. handler[h].key \in Keys /\ handler[h].op = "refresh"
  BY DEF Find, TypeInv, HandlerType, Fits
<1>2. CASE Reused(handler[h].key)
  BY <1>2, EndedByRevokeAll, FailedEnds DEF Find
<1>3. CASE ~Reused(handler[h].key)
  <2>1. token[handler[h].key] = "valid"
    BY <1>1, <1>3 DEF Reused, TypeInv, ServerType, HeldInv, Issued
  <2>2. handler' = [handler EXCEPT ![h].pc = "consume"] /\ UNCHANGED <<token, old, straddled>>
    BY <1>3 DEF Find
  <2>3. \A g \in Handlers : handler'[g].key = handler[g].key /\ (g # h => handler'[g] = handler[g])
    BY <2>2 DEF TypeInv, HandlerType, HandlerRecord
  <2>4. \A g \in Handlers : PastChecks(g)' => PastChecks(g) \/ g = h
    BY <2>3 DEF PastChecks
  <2> QED  BY <2>1, <2>2, <2>3, <2>4, EndedKept
<1> QED  BY <1>2, <1>3

LEMMA EndedIssue ==
  ASSUME TypeInv, EndedInv, NEW h \in Handlers, Issue(h)
  PROVE  EndedInv'
<1>1. /\ NewKey \in Keys /\ token[NewKey] = "unused"
      /\ token' = [token EXCEPT ![NewKey] = "valid"]
      /\ handler'[h] = NoHandler
      /\ \A g \in Handlers \ {h} : handler'[g] = handler[g]
  BY IssueGives
<1>2. UNCHANGED straddled /\ PastChecks(h)
  BY DEF Issue, PastChecks
<1>3. SUFFICES ASSUME ~straddled PROVE EndedInv'
  BY <1>2 DEF EndedInv
<1>4. UNCHANGED old
  BY <1>2, <1>3 DEF Issue, EndedInv
<1>5. NewKey \notin old
  BY <1>1 DEF TypeInv, HeldInv, Issued
<1>6. \A k \in old : token'[k] = token[k]
  BY <1>1, <1>5 DEF TypeInv, ServerType, HeldInv
<1>7. EndedStayEnded'
  BY <1>2, <1>3, <1>4, <1>6 DEF EndedInv, EndedStayEnded
<1>8. \A g \in Handlers : PastChecks(g)' => PastChecks(g) /\ handler'[g].key = handler[g].key
  BY <1>1 DEF PastChecks, NoHandler
<1> QED  BY <1>2, <1>3, <1>4, <1>7, <1>8 DEF EndedInv

LEMMA EndedStep == TypeInv /\ EndedInv /\ [Next]_vars => EndedInv'
<1> SUFFICES ASSUME TypeInv, EndedInv, [Next]_vars PROVE EndedInv'
  OBVIOUS
<1>1. ASSUME UNCHANGED vars
      PROVE  EndedInv'
  BY <1>1 DEF vars, server, history, EndedInv, EndedStayEnded, PastChecks
<1>2. ASSUME NEW t \in Tabs, Load(t)
      PROVE  EndedInv'
  <2>1. \A h \in Handlers : handler'[h].pc = handler[h].pc /\ handler'[h].key = handler[h].key
    BY <1>2 DEF Load, TypeInv, HandlerType, HandlerRecord
  <2> QED  BY <1>2, <2>1, EndedKept DEF Load, server, PastChecks
<1>3. ASSUME NEW c \in Calls, Answered(c) \/ \E t \in Tabs : Request(c, t)
      PROVE  EndedInv'
  BY <1>3, EndedKept DEF Request, Answered, server, history, PastChecks
<1>4. ASSUME NEW t \in Tabs, NEW h \in Handlers, Login(t, h)
      PROVE  EndedInv'
  <2>1. handler' = [handler EXCEPT ![h] = [op |-> "login", pc |-> "issue", key |-> None, tab |-> t]]
    BY <1>4 DEF Login, Start
  <2>2. \A g \in Handlers : handler'[g] = handler[g] \/ handler'[g].key = None
    BY <2>1 DEF TypeInv, HandlerType
  <2> QED  BY <1>4, <2>2, KeysAreNumbers, EndedKept DEF Login, server, history, PastChecks
<1>5. ASSUME NEW h \in Handlers, NEW op, NEW pc \in {"find", "revoke", "send", "reset"}, NEW k, NEW t,
             Start(h, op, pc, k, t), UNCHANGED <<token, old, straddled>>
      PROVE  EndedInv'
  <2>1. \A g \in Handlers : handler'[g] = handler[g] \/ handler'[g].pc = pc
    BY <1>5 DEF Start, TypeInv, HandlerType
  <2>2. \A g \in Handlers : PastChecks(g)' => handler'[g] = handler[g]
    BY <2>1 DEF PastChecks
  <2> QED  BY <1>5, <2>2, EndedKept DEF PastChecks
<1>6. ASSUME NEW c \in Calls, NEW h \in Handlers, Unauthorized(c, h)
      PROVE  EndedInv'
  <2>1. CASE UNCHANGED handler
    BY <1>6, <2>1, EndedKept DEF Unauthorized, server, history, PastChecks
  <2>2. CASE Start(h, "refresh", "find", tab[call[c].tab].key, call[c].tab)
    BY <1>6, <1>5, <2>2 DEF Unauthorized, server, history
  <2> QED  BY <1>6, <2>1, <2>2 DEF Unauthorized
<1>7. ASSUME NEW t \in Tabs, NEW h \in Handlers, Logout(t, h)
      PROVE  EndedInv'
  BY <1>7, <1>5 DEF Logout, server
<1>8. ASSUME NEW h \in Handlers, Forgot(h) \/ \E l \in Links : CheckLink(h, l)
      PROVE  EndedInv'
  BY <1>8, <1>5 DEF Forgot, CheckLink, server, history
<1>9. ASSUME NEW h \in Handlers, Consume(h)
      PROVE  EndedInv'
  <2>1. \A g \in Handlers : handler'[g].key = handler[g].key /\ (PastChecks(g)' => PastChecks(g))
    BY <1>9 DEF Consume, PastChecks, TypeInv, HandlerType, HandlerRecord
  <2>2. \A k \in Keys : token'[k] = "valid" => token[k] = "valid"
    BY <1>9 DEF Consume, TypeInv, ServerType
  <2> QED  BY <1>9, <2>1, <2>2, EndedKept DEF Consume, history
<1>10. ASSUME NEW h \in Handlers, Lose(h)
       PROVE  EndedInv'
  <2>1. \A g \in Handlers : PastChecks(g)' => handler'[g] = handler[g]
    BY <1>10, FailedEnds DEF Lose, PastChecks, NoHandler
  <2> QED  BY <1>10, <2>1, EndedKept DEF Lose, server, PastChecks
<1>11. ASSUME NEW h \in Handlers, Revoke(h) \/ SendLink(h)
       PROVE  EndedInv'
  <2>1. \A g \in Handlers : PastChecks(g)' => handler'[g] = handler[g]
    BY <1>11, DoneFrees DEF Revoke, SendLink, PastChecks, NoHandler
  <2>2. \A k \in Keys : token'[k] = "valid" => token[k] = "valid"
    BY <1>11 DEF Revoke, SendLink, TypeInv, ServerType
  <2> QED  BY <1>11, <2>1, <2>2, EndedKept DEF Revoke, SendLink, history, PastChecks
<1>12. ASSUME NEW h \in Handlers, ResetPassword(h)
       PROVE  EndedInv'
  BY <1>12, DoneFrees, EndedByRevokeAll DEF ResetPassword
<1> QED
  BY <1>1, <1>2, <1>3, <1>4, <1>6, <1>7, <1>8, <1>9, <1>10, <1>11, <1>12, EndedFind, EndedIssue DEF Next

(* No session outlives a reset of the password or the detection of a       *)
(* reuse, nor does any got with its key later: resetPassword and refresh   *)
(* revoke every key, and only a refresh past its checks escapes.           *)
THEOREM EndedHolds == Spec => []EndedStayEnded
<1>1. EndedInv => EndedStayEnded
  BY Zenon DEF EndedInv, EndedStayEnded
<1> QED  BY <1>1, TypeAlways, EndedInit, EndedStep, PTL DEF Spec
-----------------------------------------------------------------------------
(***************************************************************************)
(* Sessions survive.  Each key has one holder: a tab and its own renewal,  *)
(* a logout, or storage alone.  A key that is held is valid, unless its    *)
(* renewal is consuming it.                                                *)
(***************************************************************************)
Refreshes == {h \in Handlers : handler[h].op = "refresh"}

TabsHoldValid ==
  \A t \in Tabs : tab[t].key # None /\ Renewals(t) = {} => token[tab[t].key] = "valid"

FindsShowValid == \A h \in Handlers : handler[h].pc = "find" => token[handler[h].key] = "valid"

OneTabPerKey == \A t, u \in Tabs : tab[t].key # None /\ tab[t].key = tab[u].key => t = u

OneRenewalPerKey == \A g, h \in Refreshes : handler[g].key = handler[h].key => g = h

RenewalIsOwn ==
  \A h \in Refreshes : \A t \in Tabs : tab[t].key = handler[h].key => handler[h].tab = t

StorageHoldsValid ==
  /\ storage # None /\ (\A h \in Refreshes : handler[h].key # storage) => token[storage] = "valid"
  /\ \A h \in Refreshes : handler[h].key = storage => handler[h].tab \in Tabs

LogoutsAreApart ==
  \A h \in Handlers : handler[h].pc = "revoke" =>
    /\ storage # handler[h].key
    /\ \A t \in Tabs : tab[t].key # handler[h].key
    /\ \A g \in Refreshes : handler[g].key # handler[h].key

OneHolder ==
  /\ TabsHoldValid /\ FindsShowValid /\ OneTabPerKey /\ OneRenewalPerKey
  /\ RenewalIsOwn /\ StorageHoldsValid /\ LogoutsAreApart

SurviveInv == ~excused => OneHolder

LEMMA SurviveInit == Init => SurviveInv
BY DEF Init, SurviveInv, OneHolder, TabsHoldValid, FindsShowValid, OneTabPerKey, OneRenewalPerKey,
   RenewalIsOwn, StorageHoldsValid, LogoutsAreApart, Refreshes, NoHandler, None

(* A step that gives no key to anybody and revokes none; a renewal that    *)
(* ends takes the key of its tab with it.                                  *)
LEMMA HoldersKept ==
  ASSUME TypeInv, OneHolder,
         \A k \in Keys : token[k] = "valid" => token'[k] = "valid",
         storage' \in {None, storage},
         \A t \in Tabs : tab'[t].key \in {None, tab[t].key},
         \A g \in Handlers : handler'[g].op = "refresh" =>
           /\ handler[g].op = "refresh" /\ handler'[g].tab = handler[g].tab
           /\ handler'[g].key = handler[g].key,
         \A g \in Handlers : handler'[g].pc \in {"find", "revoke"} =>
           handler'[g].pc = handler[g].pc /\ handler'[g].key = handler[g].key,
         \A g \in Refreshes : handler'[g].op # "refresh" =>
           handler[g].tab \notin Tabs \/ (tab'[handler[g].tab].key = None /\ storage' = None)
  PROVE  OneHolder'
<1> USE DEF OneHolder
<1>0. \A t \in Tabs : tab[t].key \in Keys \cup {None}
  BY DEF TypeInv, PanelType
<1>1. \A g \in Handlers : handler[g].op = "refresh" \/ handler[g].pc \in {"find", "revoke"} => handler[g].key \in Keys
  BY DEF TypeInv, HandlerType, Fits
<1>2. Refreshes' \subseteq Refreshes
  BY DEF Refreshes
<1>3. TabsHoldValid'
  <2> SUFFICES ASSUME NEW t \in Tabs, tab'[t].key # None, Renewals(t)' = {}
               PROVE  token'[tab'[t].key] = "valid"
    BY DEF TabsHoldValid
  <2>1. \A g \in Handlers : ~(handler'[g].op = "refresh" /\ handler'[g].tab = t)
    BY DEF Renewals
  <2>2. Renewals(t) = {}
    BY <2>1 DEF Renewals, Refreshes
  <2> QED  BY <2>2, <1>0 DEF TabsHoldValid
<1>4. FindsShowValid'
  BY <1>1 DEF FindsShowValid
<1>5. OneTabPerKey'
  BY DEF OneTabPerKey
<1>6. OneRenewalPerKey'
  BY <1>2 DEF OneRenewalPerKey, Refreshes
<1>7. RenewalIsOwn'
  BY <1>1, <1>2, KeysAreNumbers DEF RenewalIsOwn, Refreshes
<1>8. StorageHoldsValid'
  <2>1. ASSUME storage' # None, \A h \in Refreshes' : handler'[h].key # storage'
        PROVE  token'[storage'] = "valid"
    <3>1. storage \in Keys /\ storage' = storage
      BY <2>1 DEF TypeInv, PanelType
    <3>2. \A h \in Refreshes : handler[h].key # storage
      BY <2>1, <3>1 DEF StorageHoldsValid, Refreshes
    <3> QED  BY <2>1, <3>1, <3>2 DEF StorageHoldsValid
  <2>2. \A h \in Refreshes' : handler'[h].key = storage' => handler'[h].tab \in Tabs
    BY <1>1, KeysAreNumbers DEF StorageHoldsValid, Refreshes
  <2> QED  BY <2>1, <2>2 DEF StorageHoldsValid
<1>9. LogoutsAreApart'
  BY <1>1, <1>2, KeysAreNumbers DEF LogoutsAreApart, Refreshes
<1> QED  BY <1>3, <1>4, <1>5, <1>6, <1>7, <1>8, <1>9

(* Every key that somebody holds is a key.                                 *)
LEMMA HoldersHoldKeys ==
  ASSUME TypeInv
  PROVE  /\ storage \in Keys \cup {None} /\ None \notin Keys
         /\ \A t \in Tabs : tab[t].key \in Keys \cup {None}
         /\ \A g \in Handlers : handler[g].op = "refresh" \/ handler[g].pc \in {"find", "consume", "revoke"}
                                  => handler[g].key \in Keys
BY KeysAreNumbers DEF TypeInv, PanelType, HandlerType, Fits

LEMMA HoldersLoad ==
  ASSUME TypeInv, OneHolder, NEW t \in Tabs, Load(t), ~excused'
  PROVE  OneHolder'
<1> USE DEF OneHolder
<1>1. UNCHANGED <<token, storage>>
  BY DEF Load, server
<1>2. tab'[t].key = storage /\ \A u \in Tabs \ {t} : tab'[u] = tab[u]
  BY DEF Load, TypeInv, PanelType
<1>3. \A g \in Handlers : /\ handler'[g].op = handler[g].op /\ handler'[g].pc = handler[g].pc
                          /\ handler'[g].key = handler[g].key
                          /\ handler'[g].tab = IF handler[g].tab = t THEN Nobody ELSE handler[g].tab
  BY DEF Load, TypeInv, HandlerType, HandlerRecord
<1>4. storage # None => /\ \A u \in Tabs \ {t} : tab[u].key # storage
                        /\ \A g \in Handlers : ~(handler[g].op = "refresh" /\ handler[g].key = storage)
  BY Zenon DEF Load
<1>5. Refreshes' = Refreshes
  BY <1>3 DEF Refreshes
<1>6. TabsHoldValid'
  <2> SUFFICES ASSUME NEW u \in Tabs, tab'[u].key # None, Renewals(u)' = {}
               PROVE  token'[tab'[u].key] = "valid"
    BY DEF TabsHoldValid
  <2>1. CASE u = t
    BY <1>1, <1>2, <1>4, <2>1 DEF StorageHoldsValid, Refreshes
  <2>2. CASE u # t
    <3>1. Renewals(u) = {}
      BY <1>3, <2>2 DEF Renewals
    <3> QED  BY <1>1, <1>2, <2>2, <3>1 DEF TabsHoldValid
  <2> QED  BY <2>1, <2>2
<1>7. FindsShowValid' /\ OneRenewalPerKey'
  BY <1>1, <1>3, <1>5 DEF FindsShowValid, OneRenewalPerKey, Refreshes
<1>8. OneTabPerKey'
  BY <1>2, <1>4 DEF OneTabPerKey
<1>9. RenewalIsOwn'
  <2> SUFFICES ASSUME NEW g \in Refreshes, NEW u \in Tabs, tab'[u].key = handler'[g].key
               PROVE  handler'[g].tab = u
    BY <1>5 DEF RenewalIsOwn
  <2>1. u # t
    BY <1>2, <1>3, <1>4, HoldersHoldKeys DEF Refreshes
  <2>2. handler[g].tab = u
    BY <1>2, <1>3, <2>1 DEF RenewalIsOwn, Refreshes
  <2> QED  BY <1>3, <2>1, <2>2 DEF Refreshes
<1>10. StorageHoldsValid'
  BY <1>1, <1>3, <1>4, <1>5, HoldersHoldKeys DEF StorageHoldsValid, Refreshes
<1>11. LogoutsAreApart'
  BY <1>1, <1>2, <1>3, <1>5 DEF LogoutsAreApart, Refreshes
<1> QED  BY <1>6, <1>7, <1>8, <1>9, <1>10, <1>11

LEMMA HoldersUnauthorized ==
  ASSUME TypeInv, OneHolder, NEW c \in Calls, NEW h \in Handlers, Unauthorized(c, h)
  PROVE  OneHolder'
<1> USE DEF OneHolder
<1> DEFINE t == call[c].tab
<1>1. t \in Tabs /\ UNCHANGED token
  BY DEF TypeInv, PanelType, Unauthorized, server
<1>2. CASE UNCHANGED handler
  <2>1. storage' \in {None, storage} /\ \A u \in Tabs : tab'[u].key \in {None, tab[u].key}
    BY <1>1 DEF Unauthorized, Clear, Cleared, TypeInv, PanelType
  <2> QED  BY <1>1, <1>2, <2>1, HoldersKept DEF Refreshes
<1>3. CASE handler' # handler
  <2>1. /\ tab[t].key # None /\ Renews(t) /\ Idle(h) /\ UNCHANGED <<storage, tab>>
        /\ handler' = [handler EXCEPT ![h] =
                         [op |-> "refresh", pc |-> "find", key |-> tab[t].key, tab |-> t]]
    BY <1>3 DEF Unauthorized, Start
  <2>2. /\ handler'[h] = [op |-> "refresh", pc |-> "find", key |-> tab[t].key, tab |-> t]
        /\ \A g \in Handlers \ {h} : handler'[g] = handler[g]
    BY <2>1 DEF TypeInv, HandlerType
  <2>3. h \notin Refreshes /\ Refreshes' = Refreshes \cup {h}
    BY <2>1, <2>2 DEF Refreshes, Idle, TypeInv, HandlerType, Fits
  <2>4. \A g \in Refreshes : handler[g].key # tab[t].key
    BY <1>1, <2>1 DEF Renews, Renewals, Refreshes, RenewalIsOwn
  <2>5. token[tab[t].key] = "valid"
    BY <1>1, <2>1 DEF Renews, TabsHoldValid
  <2>6. TabsHoldValid'
    <3>1. \A u \in Tabs : Renewals(u)' = {} => Renewals(u) = {}
      BY <2>2, <2>3 DEF Renewals, Refreshes
    <3> QED  BY <1>1, <2>1, <3>1 DEF TabsHoldValid
  <2>7. FindsShowValid' /\ OneTabPerKey' /\ OneRenewalPerKey'
    BY <1>1, <2>1, <2>2, <2>3, <2>4, <2>5 DEF FindsShowValid, OneTabPerKey, OneRenewalPerKey, Refreshes
  <2>8. RenewalIsOwn'
    BY <1>1, <2>1, <2>2, <2>3 DEF RenewalIsOwn, OneTabPerKey, Refreshes
  <2>9. StorageHoldsValid'
    BY <1>1, <2>1, <2>2, <2>3 DEF StorageHoldsValid, Refreshes
  <2>10. LogoutsAreApart'
    BY <1>1, <2>1, <2>2, <2>3 DEF LogoutsAreApart, Refreshes
  <2> QED  BY <2>6, <2>7, <2>8, <2>9, <2>10
<1> QED  BY <1>2, <1>3

LEMMA HoldersLogout ==
  ASSUME TypeInv, OneHolder, NEW t \in Tabs, NEW h \in Handlers, Logout(t, h), ~excused'
  PROVE  OneHolder'
<1> USE DEF OneHolder
<1>1. /\ UNCHANGED token /\ storage' = None /\ Idle(h) /\ tab[t].key # None
      /\ handler' = [handler EXCEPT ![h] =
                       [op |-> "logout", pc |-> "revoke", key |-> tab[t].key, tab |-> Nobody]]
  BY DEF Logout, Clear, Start, server, TypeInv, PanelType
<1>2. tab'[t].key = None /\ \A u \in Tabs \ {t} : tab'[u] = tab[u]
  BY DEF Logout, Clear, Cleared, TypeInv, PanelType
<1>3. Renewals(t) = {}
  BY Zenon DEF Logout
<1>4. /\ handler'[h] = [op |-> "logout", pc |-> "revoke", key |-> tab[t].key, tab |-> Nobody]
      /\ \A g \in Handlers \ {h} : handler'[g] = handler[g]
  BY <1>1 DEF TypeInv, HandlerType
<1>5. Refreshes' = Refreshes /\ h \notin Refreshes
  BY <1>1, <1>4 DEF Refreshes, Idle, TypeInv, HandlerType, Fits
<1>6. \A g \in Refreshes : handler[g].key # tab[t].key
  BY <1>3 DEF Renewals, Refreshes, RenewalIsOwn
<1>7. TabsHoldValid'
  <2>1. \A u \in Tabs : Renewals(u)' = Renewals(u)
    BY <1>4, <1>5 DEF Renewals, Refreshes
  <2> QED  BY <1>1, <1>2, <2>1 DEF TabsHoldValid
<1>8. FindsShowValid' /\ OneTabPerKey' /\ OneRenewalPerKey'
  BY <1>1, <1>2, <1>4, <1>5 DEF FindsShowValid, OneTabPerKey, OneRenewalPerKey, Refreshes
<1>9. RenewalIsOwn' /\ StorageHoldsValid'
  BY <1>1, <1>2, <1>4, <1>5, HoldersHoldKeys DEF RenewalIsOwn, StorageHoldsValid, Refreshes
<1>10. LogoutsAreApart'
  <2> SUFFICES ASSUME NEW g \in Handlers, handler'[g].pc = "revoke"
               PROVE  /\ storage' # handler'[g].key
                      /\ \A u \in Tabs : tab'[u].key # handler'[g].key
                      /\ \A f \in Refreshes' : handler'[f].key # handler'[g].key
    BY DEF LogoutsAreApart
  <2>1. CASE g = h
    BY <1>1, <1>2, <1>4, <1>5, <1>6, <2>1 DEF OneTabPerKey, Refreshes
  <2>2. CASE g # h
    BY <1>1, <1>2, <1>4, <1>5, <2>2, HoldersHoldKeys DEF LogoutsAreApart, Refreshes
  <2> QED  BY <2>1, <2>2
<1> QED  BY <1>7, <1>8, <1>9, <1>10

LEMMA HoldersFind ==
  ASSUME TypeInv, OneHolder, NEW h \in Handlers, Find(h)
  PROVE  OneHolder'
<1> USE DEF OneHolder
<1>1. ~Reused(handler[h].key) /\ handler[h].op = "refresh"
  BY DEF Find, FindsShowValid, Reused, TypeInv, HandlerType, Fits
<1>2. UNCHANGED <<token, storage, tab>> /\ handler' = [handler EXCEPT ![h].pc = "consume"]
  BY <1>1 DEF Find, panel
<1>3. \A g \in Handlers : /\ handler'[g].op = handler[g].op /\ handler'[g].tab = handler[g].tab
                          /\ handler'[g].key = handler[g].key
                          /\ handler'[g].pc \in {"find", "revoke"} => handler'[g].pc = handler[g].pc
  BY <1>2 DEF TypeInv, HandlerType, HandlerRecord
<1> QED  BY <1>2, <1>3, HoldersKept DEF Refreshes

LEMMA HoldersConsume ==
  ASSUME TypeInv, OneHolder, NEW h \in Handlers, Consume(h)
  PROVE  OneHolder'
<1> USE DEF OneHolder
<1> DEFINE k == handler[h].key
<1>1. h \in Refreshes /\ k \in Keys
  BY DEF Consume, TypeInv, HandlerType, Fits, Refreshes
<1>2. /\ UNCHANGED <<storage, tab>> /\ token' = [token EXCEPT ![k] = "revoked"]
      /\ handler' = [handler EXCEPT ![h].pc = "issue"]
  BY DEF Consume, panel
<1>3. \A g \in Handlers : /\ handler'[g].op = handler[g].op /\ handler'[g].tab = handler[g].tab
                          /\ handler'[g].key = handler[g].key
                          /\ g # h => handler'[g].pc = handler[g].pc
  BY <1>2 DEF TypeInv, HandlerType, HandlerRecord
<1>4. handler'[h].pc = "issue"
  BY <1>2 DEF TypeInv, HandlerType, HandlerRecord
<1>5. \A j \in Keys : j # k => token'[j] = token[j]
  BY <1>2 DEF TypeInv, ServerType
<1>6. Refreshes' = Refreshes /\ \A t \in Tabs : Renewals(t)' = Renewals(t)
  BY <1>3 DEF Refreshes, Renewals
<1>7. TabsHoldValid'
  <2> SUFFICES ASSUME NEW t \in Tabs, tab[t].key # None, Renewals(t) = {}
               PROVE  token'[tab[t].key] = "valid"
    BY <1>2, <1>6 DEF TabsHoldValid
  <2>1. tab[t].key # k
    BY <1>1 DEF RenewalIsOwn, Renewals, Refreshes
  <2> QED  BY <1>5, <2>1, HoldersHoldKeys DEF TabsHoldValid
<1>8. FindsShowValid'
  <2> SUFFICES ASSUME NEW g \in Handlers, handler'[g].pc = "find"
               PROVE  token'[handler[g].key] = "valid"
    BY <1>3 DEF FindsShowValid
  <2>1. g # h /\ handler[g].pc = "find" /\ g \in Refreshes
    BY <1>3, <1>4 DEF TypeInv, HandlerType, Fits, Refreshes
  <2>2. handler[g].key # k
    BY <1>1, <2>1 DEF OneRenewalPerKey
  <2> QED  BY <1>5, <2>1, <2>2, HoldersHoldKeys DEF FindsShowValid
<1>9. OneTabPerKey' /\ OneRenewalPerKey' /\ RenewalIsOwn'
  BY <1>2, <1>3, <1>6 DEF OneTabPerKey, OneRenewalPerKey, RenewalIsOwn, Refreshes
<1>10. StorageHoldsValid'
  BY <1>1, <1>2, <1>3, <1>5, <1>6, HoldersHoldKeys DEF StorageHoldsValid, Refreshes
<1>11. LogoutsAreApart'
  BY <1>2, <1>3, <1>4, <1>6 DEF LogoutsAreApart, Refreshes
<1> QED  BY <1>7, <1>8, <1>9, <1>10, <1>11

LEMMA HoldersRevoke ==
  ASSUME TypeInv, OneHolder, NEW h \in Handlers, Revoke(h)
  PROVE  OneHolder'
<1> USE DEF OneHolder
<1> DEFINE k == handler[h].key
<1>1. k \in Keys /\ h \notin Refreshes
  BY DEF Revoke, TypeInv, HandlerType, Fits, Refreshes
<1>2. UNCHANGED <<storage, tab>> /\ token' = [token EXCEPT ![k] = "revoked"]
  BY DEF Revoke, panel
<1>3. handler'[h] = NoHandler /\ \A g \in Handlers \ {h} : handler'[g] = handler[g]
  BY DoneFrees DEF Revoke
<1>4. \A j \in Keys : j # k => token'[j] = token[j]
  BY <1>2 DEF TypeInv, ServerType
<1>5. Refreshes' = Refreshes /\ \A t \in Tabs : Renewals(t)' = Renewals(t)
  BY <1>1, <1>3 DEF Refreshes, Renewals, NoHandler
<1>6. /\ storage # k /\ \A t \in Tabs : tab[t].key # k
      /\ \A g \in Refreshes : handler[g].key # k
  BY DEF Revoke, LogoutsAreApart
<1>7. TabsHoldValid'
  BY <1>2, <1>4, <1>5, <1>6, HoldersHoldKeys DEF TabsHoldValid
<1>8. FindsShowValid'
  <2> SUFFICES ASSUME NEW g \in Handlers, handler'[g].pc = "find"
               PROVE  token'[handler'[g].key] = "valid"
    BY DEF FindsShowValid
  <2>1. handler'[g] = handler[g] /\ g \in Refreshes
    BY <1>3 DEF NoHandler, TypeInv, HandlerType, Fits, Refreshes
  <2> QED  BY <1>4, <1>6, <2>1, HoldersHoldKeys DEF FindsShowValid
<1>9. OneTabPerKey' /\ OneRenewalPerKey' /\ RenewalIsOwn'
  BY <1>1, <1>2, <1>3, <1>5 DEF OneTabPerKey, OneRenewalPerKey, RenewalIsOwn, Refreshes
<1>10. StorageHoldsValid'
  <2>1. \A g \in Refreshes : handler'[g] = handler[g]
    BY <1>1, <1>3 DEF Refreshes
  <2>2. storage \in Keys => token'[storage] = token[storage]
    BY <1>4, <1>6
  <2> QED  BY <1>2, <1>5, <2>1, <2>2, HoldersHoldKeys DEF StorageHoldsValid
<1>11. LogoutsAreApart'
  BY <1>1, <1>2, <1>3, <1>5 DEF LogoutsAreApart, Refreshes, NoHandler
<1> QED  BY <1>7, <1>8, <1>9, <1>10, <1>11

(* A handler fails or dies: a renewal takes the key of its tab with it.    *)
LEMMA HoldersFailed ==
  ASSUME TypeInv, OneHolder, NEW h \in Handlers, Failed(h),
         \A k \in Keys : token[k] = "valid" => token'[k] = "valid"
  PROVE  OneHolder'
<1>1. \A g \in Handlers : handler'[g] = handler[g] \/ (g = h /\ handler'[g] = NoHandler)
  BY FailedEnds
<1>2. storage' \in {None, storage} /\ \A t \in Tabs : tab'[t].key \in {None, tab[t].key}
  BY FailedEnds DEF panel, Cleared
<1>3. h \in Refreshes =>
        handler[h].tab \notin Tabs \/ (tab'[handler[h].tab].key = None /\ storage' = None)
  BY FailedEnds, KeysAreNumbers DEF Refreshes, Cleared
<1>4. \A g \in Handlers : handler'[g].op = "refresh" \/ handler'[g].pc \in {"find", "revoke"} =>
        handler'[g] = handler[g]
  BY <1>1 DEF NoHandler
<1>5. \A g \in Refreshes : handler'[g].op # "refresh" => g = h
  BY <1>1 DEF Refreshes
<1> QED  BY <1>2, <1>3, <1>4, <1>5, HoldersKept

LEMMA HoldersIssue ==
  ASSUME TypeInv, OneHolder, NEW h \in Handlers, Issue(h)
  PROVE  OneHolder'
<1> USE DEF OneHolder
<1> DEFINE n == NewKey
           t == handler[h].tab
<1>1. /\ n \in Keys /\ token[n] = "unused"
      /\ handler'[h] = NoHandler
      /\ \A g \in Handlers \ {h} : handler'[g] = handler[g]
  BY IssueGives
<1>2. token' = [token EXCEPT ![n] = "valid"]
  BY IssueGives
<1>3. token'[n] = "valid" /\ \A k \in Keys : k # n => token'[k] = token[k]
  BY <1>1, <1>2 DEF TypeInv, ServerType
<1>4. CASE Failed(h)
  BY <1>1, <1>3, <1>4, HoldersFailed
<1>5. CASE ~Failed(h)
  <2>1. t \in Tabs /\ storage' = n /\ tab'[t].key = n /\ \A u \in Tabs \ {t} : tab'[u] = tab[u]
    BY <1>5, IssueGives
  <2>2. /\ storage # n /\ \A u \in Tabs : tab[u].key # n
        /\ \A g \in Handlers : handler[g].op = "refresh" \/ handler[g].pc \in {"find", "revoke"}
                                 => handler[g].key # n
    BY <1>1, HoldersHoldKeys DEF TypeInv, HandlerType, Fits, HeldInv, Issued
  <2>3. Refreshes' = Refreshes \ {h}
    BY <1>1 DEF Refreshes, NoHandler
  <2>4. TabsHoldValid'
    <3> SUFFICES ASSUME NEW u \in Tabs, tab'[u].key # None, Renewals(u)' = {}
                 PROVE  token'[tab'[u].key] = "valid"
      BY DEF TabsHoldValid
    <3>1. CASE u = t
      BY <1>3, <2>1, <3>1
    <3>2. CASE u # t
      <4>1. Renewals(u) = {}
        BY <1>1, <3>2 DEF Renewals
      <4> QED  BY <1>3, <2>1, <2>2, <3>2, <4>1, HoldersHoldKeys DEF TabsHoldValid
    <3> QED  BY <3>1, <3>2
  <2>5. FindsShowValid'
    <3>1. \A g \in Handlers : handler'[g].pc = "find" => handler'[g] = handler[g]
      BY <1>1 DEF NoHandler
    <3> QED  BY <1>3, <2>2, <3>1, HoldersHoldKeys DEF FindsShowValid
  <2>6. OneTabPerKey' /\ OneRenewalPerKey'
    BY <1>1, <2>1, <2>2, <2>3 DEF OneTabPerKey, OneRenewalPerKey, Refreshes
  <2>7. RenewalIsOwn' /\ StorageHoldsValid'
    BY <1>1, <1>3, <2>1, <2>2, <2>3 DEF RenewalIsOwn, StorageHoldsValid, Refreshes
  <2>8. LogoutsAreApart'
    BY <1>1, <2>1, <2>2, <2>3 DEF LogoutsAreApart, Refreshes, NoHandler
  <2> QED  BY <2>4, <2>5, <2>6, <2>7, <2>8
<1> QED  BY <1>4, <1>5

(* Steps that start or end a handler that holds no key, and those of a     *)
(* request that gets its answer.                                           *)
LEMMA HoldersApart ==
  ASSUME TypeInv, OneHolder, UNCHANGED <<token, storage, tab>>,
         \/ UNCHANGED handler
         \/ \E h \in Handlers, op \in {"none", "login", "forgot", "reset"},
               pc \in {"idle", "issue", "send", "reset"} : \E k, t :
              Start(h, op, pc, k, t) /\ handler[h].op # "refresh"
  PROVE  OneHolder'
<1>1. CASE UNCHANGED handler
  BY <1>1, HoldersKept DEF Refreshes
<1>2. CASE \E h \in Handlers, op \in {"none", "login", "forgot", "reset"},
              pc \in {"idle", "issue", "send", "reset"} : \E k, t :
             Start(h, op, pc, k, t) /\ handler[h].op # "refresh"
  <2>0. PICK h \in Handlers, op \in {"none", "login", "forgot", "reset"},
             pc \in {"idle", "issue", "send", "reset"} : \E k, t :
             Start(h, op, pc, k, t) /\ handler[h].op # "refresh"
    BY <1>2
  <2>1. PICK k, t : Start(h, op, pc, k, t) /\ handler[h].op # "refresh"
    BY <2>0
  <2>2. /\ handler'[h].op # "refresh" /\ handler'[h].pc \notin {"find", "revoke"}
        /\ \A g \in Handlers \ {h} : handler'[g] = handler[g]
    BY <2>1 DEF Start, TypeInv, HandlerType
  <2> QED  BY <2>1, <2>2, HoldersKept DEF Refreshes
<1> QED  BY <1>1, <1>2

LEMMA SurviveStep == TypeInv /\ SurviveInv /\ [Next]_vars => SurviveInv'
<1> SUFFICES ASSUME TypeInv, SurviveInv, [Next]_vars, ~excused' PROVE OneHolder'
  BY Zenon DEF SurviveInv
<1>1. ~excused
  BY Zenon DEF Next, vars, history, server, panel, Load, Request, Answered, Unauthorized, Logout,
     Login, Find, Consume, Issue, Lose, Revoke, Forgot, SendLink, CheckLink, ResetPassword
<1>2. OneHolder
  BY <1>1 DEF SurviveInv
<1>3. CASE UNCHANGED vars
  BY <1>2, <1>3, HoldersApart DEF vars, server, panel
<1>4. ASSUME NEW c \in Calls, Answered(c) \/ \E t \in Tabs : Request(c, t)
      PROVE  OneHolder'
  BY <1>2, <1>4, HoldersApart DEF Answered, Request, server
<1>5. ASSUME NEW h \in Handlers, handler[h].op # "refresh", UNCHANGED <<token, storage, tab>>,
             NEW op \in {"none", "login", "forgot", "reset"},
             NEW pc \in {"idle", "issue", "send", "reset"}, NEW k, NEW t, Start(h, op, pc, k, t)
      PROVE  OneHolder'
  BY <1>2, <1>5, HoldersApart
<1>6. \A h \in Handlers : Idle(h) => handler[h].op # "refresh"
  BY DEF Idle, TypeInv, HandlerType, Fits
<1>7. ASSUME NEW h \in Handlers, Forgot(h) \/ \E l \in Links : CheckLink(h, l)
      PROVE  OneHolder'
  BY <1>5, <1>6, <1>7 DEF Forgot, CheckLink, server, panel
<1>8. ASSUME NEW h \in Handlers, NEW t \in Tabs, Login(t, h)
      PROVE  OneHolder'
  BY <1>5, <1>6, <1>8 DEF Login, server, panel
<1>9. ASSUME NEW h \in Handlers, SendLink(h)
      PROVE  OneHolder'
  <2>1. Start(h, "none", "idle", None, Nobody) /\ handler[h].op # "refresh"
    BY <1>9 DEF SendLink, Done, NoHandler, Start, TypeInv, HandlerType, Fits
  <2> QED  BY <1>5, <1>9, <2>1 DEF SendLink, panel
<1>10. ASSUME NEW h \in Handlers, Lose(h)
       PROVE  OneHolder'
  BY <1>2, <1>10, HoldersFailed DEF Lose, server
<1>11. ASSUME NEW h \in Handlers, ResetPassword(h)
       PROVE  FALSE
  BY Zenon, <1>11 DEF ResetPassword
<1> QED
  BY <1>2, <1>3, <1>4, <1>7, <1>8, <1>9, <1>10, <1>11, HoldersLoad, HoldersUnauthorized,
     HoldersLogout, HoldersFind, HoldersConsume, HoldersIssue, HoldersRevoke DEF Next

(* The panel never causes a reuse that ends the sessions of the user: the  *)
(* one renewal at a time of client.js, its single use of the key that a    *)
(* tab holds and the logout that forgets it keep every key with one        *)
(* holder, whatever answers are lost or late.                              *)
THEOREM SessionsSurviveAlways == Spec => []SessionsSurvive
<1>1. SurviveInv => SessionsSurvive
  BY DEF SurviveInv, OneHolder, TabsHoldValid, FindsShowValid, SessionsSurvive
<1> QED  BY <1>1, TypeAlways, SurviveInit, SurviveStep, PTL DEF Spec

-----------------------------------------------------------------------------
(* Access: what a request meets on its way.                                *)

CONSTANTS Address, CacheTtl, Ttl, Month, Grace, MaxHandling, MaxTime, MaxEvents, MaxCalls, MaxRestarts
VARIABLES sub, cache, bucket, request, events, calls, restarts

A == INSTANCE Access

Subscription == [status : {"inactive", "active", "past_due", "canceled"}, manual : BOOLEAN,
                 period : Int, grace : Int]
Waiting      == [pc : {"idle", "answer", "degraded"}, copy : Subscription, since : Nat]

GuardTypes ==
  /\ now \in Nat /\ sub \in Subscription /\ billed \in Subscription
  /\ \A p \in past : p.sub \in Subscription /\ p.until \in Nat
  /\ cache \in [sub : Subscription, expires : Nat]
  /\ request \in [Users -> Waiting]
  /\ answer \in [Users -> {"none", "served", "402", "429"}]

\* A row, or a copy of it, as the webhooks left it: but for the lazy degradation.
Alike(s, b) == s = b \/ (A!Lapsed(b) /\ s.status = "canceled")

\* It was so at the instant t, or later.
Seen(s, t) == Alike(s, billed) \/ \E p \in past : Alike(s, p.sub) /\ p.until >= t

\* What is known of the copy of a request, and of the entry of the cache.
CopyOf(r) ==
  r.pc # "idle" => r.since <= now /\ now - r.since <= MaxHandling /\ Seen(r.copy, r.since)

EntryFits(e) ==
  now < e.expires => /\ e.expires <= now + CacheTtl
                     /\ Seen(e.sub, e.expires - CacheTtl - MaxHandling)

GuardInv ==
  /\ Alike(sub, billed) /\ EntryFits(cache)
  /\ \A u \in Users : CopyOf(request[u])
  /\ A!AccessFollowsPayment

Bucket == [hits : Nat, expira : Nat, blocked : Nat]
Hit    == [at : Nat, nth : Nat]

ThrottleTypes ==
  /\ now \in Nat
  /\ bucket \in [A!Keys -> Bucket]
  /\ asked \in [Users -> SUBSET Hit]
  /\ \A u \in Users : IsFiniteSet(asked[u])
  /\ answer \in [Users -> {"none", "served", "402", "429"}]

\* The requests of u in the window of his bucket.
Late(u, t)  == {a \in asked[u] : a.at >= t}
InWindow(u) == {a \in asked[u] : a.at >= bucket[u].expira - Ttl}

\* A hit is a request of the user's own, and only hits beyond the limit block.
Throttled(u) ==
  /\ \A a \in asked[u] : a.at > now - Ttl /\ a.at <= now /\ (a.at = now => a.nth < A!Recent(u))
  /\ now < bucket[u].expira => /\ bucket[u].expira <= now + Ttl
                               /\ bucket[u].hits <= Cardinality(InWindow(u))
  /\ bucket[u].blocked > 0 => bucket[u].hits > Limit
  /\ answer[u] = "429" => A!Recent(u) > Limit

ThrottleInv == \A u \in Users : Throttled(u)

\* The number of elements is the same for Access as here.
LEMMA SameCardinality == ASSUME NEW S PROVE A!Cardinality(S) = Cardinality(S)
  BY DEF A!Cardinality, Cardinality

LEMMA AccessConstants ==
  ASSUME A!AccessAssumption
  PROVE  /\ Address \notin Users
         /\ CacheTtl \in Nat /\ CacheTtl > 0 /\ Ttl \in Nat /\ Ttl > 0 /\ Limit \in Nat /\ Limit > 0
         /\ Month \in Nat /\ Grace \in Nat /\ MaxHandling \in Nat
  BY DEF A!AccessAssumption

LEMMA LapsedAllowsNothing ==
  ASSUME now \in Nat, NEW s \in Subscription, NEW b \in Subscription, Alike(s, b)
  PROVE  A!Allows(s) <=> A!Allows(b)
  BY DEF Alike, A!Allows, A!Lapsed, Subscription

LEMMA SeenServes ==
  ASSUME GuardTypes, NEW s \in Subscription, NEW t, Seen(s, t)
  PROVE  \E w \in {billed} \cup {p.sub : p \in past} : A!Allows(w) <=> A!Allows(s)
  BY LapsedAllowsNothing DEF Seen, GuardTypes

LEMMA DecideEffect ==
  ASSUME GuardTypes, NEW u \in Users, NEW s \in Subscription, NEW t, Seen(s, t), A!Decide(u, s),
         A!AccessFollowsPayment, UNCHANGED <<now, billed, past>>
  PROVE  /\ A!AccessFollowsPayment' /\ answer' \in [Users -> {"none", "served", "402", "429"}]
         /\ request' \in [Users -> Waiting] /\ request'[u].pc = "idle"
         /\ \A v \in Users : v # u => request'[v] = request[v]
  <1>1. A!NoRequest \in Waiting /\ A!NoRequest.pc = "idle"
    BY DEF A!NoRequest, Waiting, A!NoSub, Subscription, A!Never
  <1>2. /\ request' \in [Users -> Waiting] /\ request'[u].pc = "idle"
        /\ \A v \in Users : v # u => request'[v] = request[v]
    BY <1>1 DEF A!Decide, GuardTypes
  <1>3. /\ answer' \in [Users -> {"none", "served", "402", "429"}]
        /\ answer'[u] = (IF A!Allows(s) THEN "served" ELSE "402")
        /\ \A v \in Users : v # u => answer'[v] = answer[v]
    BY DEF A!Decide, A!Reply, GuardTypes
  <1>4. \E w \in {billed} \cup {p.sub : p \in past} : A!Allows(w) <=> A!Allows(s)
    BY SeenServes
  <1>5. /\ answer'[u] = "served" <=> A!Allows(s)
    BY <1>3
  <1>6. \E w \in {billed} \cup {p.sub : p \in past} : A!Allows(w) = (answer'[u] = "served")
    BY <1>4, <1>5 DEF A!Allows
  <1>7. A!AccessFollowsPayment'
    BY <1>3, <1>6 DEF A!AccessFollowsPayment, A!Allows
  <1>8. QED
    BY <1>2, <1>3, <1>7

\* A reply that is none of the guard's is no claim about the subscription.
LEMMA ReplyEffect ==
  ASSUME GuardTypes, NEW u \in Users, NEW what \in {"none", "429"}, A!Reply(u, what),
         A!AccessFollowsPayment, UNCHANGED <<now, billed, past>>
  PROVE  A!AccessFollowsPayment' /\ answer' \in [Users -> {"none", "served", "402", "429"}]
  BY DEF A!Reply, A!AccessFollowsPayment, A!Allows, GuardTypes

LEMMA EmptyTypes ==
  /\ A!NoSub \in Subscription /\ A!NoEntry.expires = 0 /\ A!NoRequest.pc = "idle"
  /\ A!NoEntry \in [sub : Subscription, expires : Nat] /\ A!NoRequest \in Waiting
  /\ [A!NoSub EXCEPT !.status = "active", !.manual = TRUE] \in Subscription
  <1>1. A!NoSub \in Subscription /\ A!NoSub.status = "inactive"
    BY DEF A!NoSub, Subscription, A!Never
  <1>2. [A!NoSub EXCEPT !.status = "active", !.manual = TRUE] \in Subscription
    BY <1>1 DEF Subscription
  <1>3. QED
    BY <1>1, <1>2 DEF A!NoEntry, A!NoRequest, Waiting

\* Nothing that a copy is measured by has changed.
Steady == UNCHANGED <<now, sub, billed, past>>

LEMMA SteadyKnows ==
  ASSUME Steady
  PROVE  /\ Alike(sub, billed)' <=> Alike(sub, billed)
         /\ \A r : CopyOf(r)' <=> CopyOf(r)
         /\ \A e : EntryFits(e)' <=> EntryFits(e)
  BY DEF Steady, Alike, A!Lapsed, CopyOf, EntryFits, Seen

LEMMA GuardAsk ==
  ASSUME A!AccessAssumption, GuardTypes, GuardInv, NEW u \in Users, A!Ask(u)
  PROVE  GuardTypes' /\ GuardInv'
  <1>0. /\ Steady /\ UNCHANGED <<now, billed, past, cache>>
        /\ A!AccessFollowsPayment /\ cache.sub \in Subscription
    BY DEF A!Ask, GuardInv, GuardTypes, Steady
  <1>2. \/ (\E what \in {"none", "429"} : A!Reply(u, what)) /\ UNCHANGED request
        \/ A!Cached /\ A!Decide(u, cache.sub)
        \/ /\ A!Reply(u, "none")
           /\ request' = [request EXCEPT ![u] = [pc |-> "answer", copy |-> sub, since |-> now]]
    BY DEF A!Ask
  <1>3. SUFFICES /\ A!AccessFollowsPayment' /\ answer' \in [Users -> {"none", "served", "402", "429"}]
                 /\ request' \in [Users -> Waiting]
                 /\ \A v \in Users : CopyOf(request'[v])
    <2>1. GuardTypes'
      BY <1>0, <1>3 DEF GuardTypes, Steady
    <2>2. \A v \in Users : CopyOf(request[v])'
      <3>1. TAKE v \in Users
      <3>2. PICK r : r = request'[v]
        OBVIOUS
      <3>3. CopyOf(r)'
        BY <1>0, <1>3, <3>2, SteadyKnows
      <3>4. QED
        BY <3>2, <3>3 DEF CopyOf, Seen, Alike
    <2>3. EntryFits(cache)'
      <3>1. PICK e : e = cache /\ EntryFits(e)
        BY DEF GuardInv
      <3>2. EntryFits(e)'
        BY <1>0, <3>1, SteadyKnows
      <3>3. QED
        BY <1>0, <3>1, <3>2 DEF EntryFits, Seen, Alike
    <2>4. QED
      BY <1>0, <1>3, <2>1, <2>2, <2>3, SteadyKnows DEF GuardInv
  <1>4. CASE (\E what \in {"none", "429"} : A!Reply(u, what)) /\ UNCHANGED request
    BY <1>0, <1>4, ReplyEffect DEF GuardTypes, GuardInv
  <1>5. CASE A!Cached /\ A!Decide(u, cache.sub)
    <2>1. Seen(cache.sub, cache.expires - CacheTtl - MaxHandling)
      BY <1>5 DEF A!Cached, GuardInv, GuardTypes, EntryFits
    <2>2. /\ A!AccessFollowsPayment' /\ answer' \in [Users -> {"none", "served", "402", "429"}]
          /\ request' \in [Users -> Waiting] /\ request'[u].pc = "idle"
          /\ \A v \in Users : v # u => request'[v] = request[v]
      BY <1>0, <1>5, <2>1, DecideEffect
    <2>3. QED
      BY <2>2 DEF GuardInv, CopyOf
  <1>6. CASE /\ A!Reply(u, "none")
             /\ request' = [request EXCEPT ![u] = [pc |-> "answer", copy |-> sub, since |-> now]]
    <2>1. A!AccessFollowsPayment' /\ answer' \in [Users -> {"none", "served", "402", "429"}]
      BY <1>0, <1>6, ReplyEffect
    <2>2. [pc |-> "answer", copy |-> sub, since |-> now] \in Waiting
      BY DEF GuardTypes, Waiting
    <2>3. CopyOf([pc |-> "answer", copy |-> sub, since |-> now])
      BY AccessConstants DEF GuardInv, CopyOf, Seen, GuardTypes
    <2>4. QED
      BY <1>6, <2>1, <2>2, <2>3 DEF GuardTypes, GuardInv
  <1>7. QED
    BY <1>2, <1>4, <1>5, <1>6

LEMMA GuardStore ==
  ASSUME A!AccessAssumption, GuardTypes, GuardInv, NEW u \in Users,
         A!Answer(u) \/ A!StoreDegraded(u)
  PROVE  GuardTypes' /\ GuardInv'
  <1>0. A!Store(u) /\ request[u].pc # "idle" /\ now \in Nat
    BY DEF A!Answer, A!StoreDegraded, GuardTypes
  <1>1. PICK s \in Subscription, t \in Nat : s = request[u].copy /\ t = request[u].since
    BY DEF GuardTypes, Waiting
  <1>2. Seen(s, t) /\ t <= now /\ now - t <= MaxHandling
    BY <1>0, <1>1 DEF GuardInv, CopyOf
  <1>3. PICK e : e = [sub |-> s, expires |-> now + CacheTtl]
    OBVIOUS
  <1>4. /\ Steady /\ UNCHANGED <<now, billed, past>> /\ A!Decide(u, s)
        /\ cache' = e /\ A!AccessFollowsPayment
    BY <1>0, <1>1, <1>3 DEF A!Store, GuardInv, Steady
  <1>5. /\ A!AccessFollowsPayment' /\ answer' \in [Users -> {"none", "served", "402", "429"}]
        /\ request' \in [Users -> Waiting] /\ request'[u].pc = "idle"
        /\ \A v \in Users : v # u => request'[v] = request[v]
    BY <1>2, <1>4, DecideEffect
  <1>6. e \in [sub : Subscription, expires : Nat] /\ e.sub = s /\ e.expires = now + CacheTtl
    BY <1>0, <1>3, AccessConstants
  <1>7. EntryFits(e)
    <2>1. e.expires - CacheTtl - MaxHandling <= t /\ e.expires <= now + CacheTtl
      BY <1>0, <1>1, <1>2, <1>6, AccessConstants
    <2>2. \A p \in past : p.until >= t => p.until >= e.expires - CacheTtl - MaxHandling
      BY <1>0, <1>1, <1>6, <2>1, AccessConstants DEF GuardTypes
    <2>3. Seen(s, e.expires - CacheTtl - MaxHandling)
      BY <1>2, <2>2 DEF Seen
    <2>4. QED
      BY <1>6, <2>1, <2>3 DEF EntryFits
  <1>8. GuardTypes'
    BY <1>4, <1>5, <1>6 DEF GuardTypes, Steady
  <1>9. \A v \in Users : CopyOf(request[v])'
    <2>1. TAKE v \in Users
    <2>2. PICK r : r = request'[v] /\ CopyOf(r)
      BY <1>5 DEF GuardInv, CopyOf
    <2>3. CopyOf(r)'
      BY <1>4, <2>2, SteadyKnows
    <2>4. QED
      BY <2>2, <2>3 DEF CopyOf, Seen, Alike
  <1>10. EntryFits(cache)'
    <2>1. EntryFits(e)'
      BY <1>4, <1>7, SteadyKnows
    <2>2. QED
      BY <1>4, <2>1 DEF EntryFits, Seen, Alike
  <1>11. QED
    BY <1>4, <1>5, <1>8, <1>9, <1>10, SteadyKnows DEF GuardInv

\* The lazy degradation only meets a row, and a copy, that allow nothing any more.
LEMMA GuardDegrade ==
  ASSUME A!AccessAssumption, GuardTypes, GuardInv, NEW u \in Users, A!Degrade(u)
  PROVE  GuardTypes' /\ GuardInv'
  <1>1. /\ UNCHANGED <<now, cache, answer, billed, past>> /\ A!Lapsed(request[u].copy)
        /\ request[u].pc = "answer"
        /\ \/ A!Lapsed(sub) /\ sub' = [sub EXCEPT !.status = "canceled"]
           \/ sub' = sub
    BY DEF A!Degrade, A!Degrades
  <1>2. PICK st : /\ st \in {request[u].copy.status, "canceled"}
                  /\ request' = [request EXCEPT ![u].pc = "degraded", ![u].copy.status = st]
    BY DEF A!Degrade
  <1>3. sub' \in Subscription /\ Alike(sub', billed)
    BY <1>1 DEF GuardInv, GuardTypes, Subscription, Alike, A!Lapsed
  <1>4. PICK was \in Subscription : was = request[u].copy
    BY DEF GuardTypes, Waiting
  <1>5. PICK c : c = [was EXCEPT !.status = st]
    OBVIOUS
  <1>6. c \in Subscription /\ (c = was \/ c.status = "canceled")
    BY <1>2, <1>4, <1>5 DEF Subscription
  <1>7. PICK r : r = [request[u] EXCEPT !.pc = "degraded", !.copy = c]
    OBVIOUS
  <1>8. r \in Waiting /\ r.copy = c /\ r.since = request[u].since /\ request[u] \in Waiting
    BY <1>6, <1>7 DEF Waiting, GuardTypes
  <1>9. request' = [request EXCEPT ![u] = r]
    BY <1>2, <1>4, <1>5, <1>7, <1>8 DEF GuardTypes, Waiting
  <1>10. /\ request' \in [Users -> Waiting] /\ request'[u] = r
         /\ \A v \in Users : v # u => request'[v] = request[v]
    BY <1>8, <1>9 DEF GuardTypes
  <1>11. CopyOf(r)
    <2>1. /\ Seen(was, r.since) /\ A!Lapsed(was) /\ r.since <= now
          /\ now - r.since <= MaxHandling
      BY <1>1, <1>4, <1>8 DEF GuardInv, CopyOf
    <2>2. \A b : Alike(was, b) => Alike(c, b)
      BY <1>6, <2>1 DEF Alike, A!Lapsed
    <2>3. QED
      BY <1>8, <2>1, <2>2 DEF CopyOf, Seen
  <1>12. /\ \A q : CopyOf(q)' <=> CopyOf(q)
         /\ \A e : EntryFits(e)' <=> EntryFits(e)
    BY <1>1 DEF Alike, A!Lapsed, CopyOf, EntryFits, Seen
  <1>13. \A v \in Users : CopyOf(request[v])'
    <2>1. TAKE v \in Users
    <2>2. PICK q : q = request'[v] /\ CopyOf(q)
      BY <1>10, <1>11 DEF GuardInv
    <2>3. CopyOf(q)'
      BY <1>12, <2>2
    <2>4. QED
      BY <2>2, <2>3 DEF CopyOf, Seen, Alike
  <1>14. EntryFits(cache)'
    <2>1. PICK e : e = cache /\ EntryFits(e)
      BY DEF GuardInv
    <2>2. EntryFits(e)'
      BY <1>12, <2>1
    <2>3. QED
      BY <1>1, <2>1, <2>2 DEF EntryFits, Seen, Alike
  <1>15. A!AccessFollowsPayment'
    BY <1>1 DEF GuardInv, A!AccessFollowsPayment, A!Allows
  <1>16. GuardTypes'
    BY <1>1, <1>3, <1>10 DEF GuardTypes
  <1>17. Alike(sub, billed)'
    BY <1>1, <1>3 DEF Alike, A!Lapsed
  <1>18. QED
    BY <1>13, <1>14, <1>15, <1>16, <1>17 DEF GuardInv

\* A webhook: what the row was until now is one of the past.
LEMMA GuardWrite ==
  ASSUME A!AccessAssumption, GuardTypes, GuardInv, NEW row \in Subscription, A!Write(row)
  PROVE  GuardTypes' /\ GuardInv'
  <1>1. /\ UNCHANGED <<now, cache, request, answer>> /\ sub' = row /\ billed' = row
        /\ past' = past \cup {[sub |-> billed, until |-> now]} /\ now \in Nat
    BY DEF A!Write, GuardTypes
  <1>2. GuardTypes'
    BY <1>1 DEF GuardTypes
  <1>3. ASSUME NEW s, NEW t \in Int, t <= now, Seen(s, t)
        PROVE  Seen(s, t)'
    <2>1. PICK p : p = [sub |-> billed, until |-> now]
      OBVIOUS
    <2>2. p \in past' /\ p.sub = billed /\ p.until >= t
      BY <1>1, <1>3, <2>1
    <2>3. \A b : Alike(s, b) => Alike(s, b)'
      BY <1>1 DEF Alike, A!Lapsed
    <2>4. past \subseteq past'
      BY <1>1
    <2>5. QED
      BY <1>3, <2>2, <2>3, <2>4 DEF Seen
  <1>4. A!AccessFollowsPayment'
    <2>1. ASSUME NEW w \in {billed} \cup {p.sub : p \in past}
          PROVE  w \in {billed'} \cup {p.sub : p \in past'}
      <3>1. PICK q : q = [sub |-> billed, until |-> now]
        OBVIOUS
      <3>2. q \in past' /\ q.sub = billed
        BY <1>1, <3>1
      <3>3. past \subseteq past'
        BY <1>1
      <3>4. QED
        BY <3>2, <3>3
    <2>2. \A s : A!Allows(s)' = A!Allows(s)
      BY <1>1 DEF A!Allows
    <2>3. QED
      BY <1>1, <2>1, <2>2 DEF GuardInv, A!AccessFollowsPayment
  <1>5. EntryFits(cache)'
    <2>1. PICK e \in [sub : Subscription, expires : Nat] : e = cache /\ EntryFits(e)
      BY DEF GuardInv, GuardTypes
    <2>2. EntryFits(e)'
      BY <1>1, <1>3, <2>1, AccessConstants DEF EntryFits
    <2>3. QED
      BY <1>1, <2>1, <2>2 DEF EntryFits, Seen, Alike
  <1>6. \A u \in Users : CopyOf(request[u])'
    <2>1. TAKE u \in Users
    <2>2. PICK r \in Waiting : r = request[u] /\ CopyOf(r)
      BY DEF GuardInv, GuardTypes
    <2>3. CopyOf(r)'
      <3>1. r.since \in Int
        BY DEF Waiting
      <3>2. QED
        BY <1>1, <1>3, <2>2, <3>1 DEF CopyOf
    <2>4. QED
      BY <1>1, <2>2, <2>3 DEF CopyOf, Seen, Alike
  <1>7. QED
    BY <1>1, <1>2, <1>4, <1>5, <1>6 DEF GuardInv, Alike

LEMMA GuardWebhook ==
  ASSUME A!AccessAssumption, GuardTypes, GuardInv, A!Confirm \/ A!Overdue \/ A!Cancel
  PROVE  GuardTypes' /\ GuardInv'
  <1>0. sub \in Subscription /\ now \in Nat
    BY DEF GuardTypes
  <1>1. CASE A!Confirm
    <2>1. PICK end \in Int : end = (IF sub.period > now THEN sub.period ELSE now) + Month
      BY <1>0, AccessConstants DEF Subscription
    <2>2. [status |-> "active", manual |-> FALSE, grace |-> A!Never, period |-> end] \in Subscription
      BY <2>1 DEF Subscription, A!Never
    <2>3. QED
      BY <1>1, <2>1, <2>2, GuardWrite DEF A!Confirm
  <1>2. CASE A!Overdue
    <2>1. PICK end \in Int : end = now + Grace
      BY <1>0, AccessConstants
    <2>2. [sub EXCEPT !.status = "past_due", !.grace = end] \in Subscription
      BY <1>0 DEF Subscription
    <2>3. QED
      BY <1>2, <2>1, <2>2, GuardWrite DEF A!Overdue
  <1>3. CASE A!Cancel
    <2>1. [sub EXCEPT !.status = "canceled"] \in Subscription
      BY <1>0 DEF Subscription
    <2>2. QED
      BY <1>3, <2>1, GuardWrite DEF A!Cancel
  <1>4. QED
    BY <1>1, <1>2, <1>3

LEMMA GuardTick ==
  ASSUME A!AccessAssumption, GuardTypes, GuardInv, A!Tick
  PROVE  GuardTypes' /\ GuardInv'
  <1>1. /\ UNCHANGED <<sub, cache, request, billed>> /\ now' = now + 1 /\ now \in Nat
        /\ \A u \in Users : request[u].pc # "idle" => now - request[u].since < MaxHandling
        /\ answer' = [u \in Users |-> "none"]
        /\ past' = {p \in past : now' - p.until < CacheTtl + MaxHandling}
    BY DEF A!Tick, GuardTypes
  <1>2. GuardTypes'
    BY <1>1 DEF GuardTypes
  <1>3. ASSUME NEW s, NEW b \in Subscription, Alike(s, b)
        PROVE  Alike(s, b)'
    BY <1>1, <1>3 DEF Alike, A!Lapsed, Subscription
  <1>4. ASSUME NEW s, NEW t \in Int, now' - t < CacheTtl + MaxHandling, Seen(s, t)
        PROVE  Seen(s, t)'
    <2>1. CASE Alike(s, billed)
      BY <1>1, <1>3, <2>1 DEF Seen, GuardTypes, Alike
    <2>2. ASSUME NEW p \in past, Alike(s, p.sub), p.until >= t
          PROVE  Seen(s, t)'
      <3>1. p.until \in Nat /\ p.sub \in Subscription /\ now' \in Nat
        BY <1>1 DEF GuardTypes
      <3>2. now' - p.until < CacheTtl + MaxHandling
        BY <1>4, <2>2, <3>1, AccessConstants
      <3>3. p \in past' /\ Alike(s, p.sub)'
        BY <1>1, <1>3, <2>2, <3>1, <3>2
      <3>4. QED
        BY <2>2, <3>3 DEF Seen
    <2>3. QED
      BY <1>4, <2>1, <2>2 DEF Seen
  <1>5. EntryFits(cache)'
    <2>1. PICK e \in [sub : Subscription, expires : Nat] : e = cache /\ EntryFits(e)
      BY DEF GuardInv, GuardTypes
    <2>2. EntryFits(e)'
      BY <1>1, <1>4, <2>1, AccessConstants DEF EntryFits
    <2>3. QED
      BY <1>1, <2>1, <2>2 DEF EntryFits, Seen, Alike
  <1>6. \A u \in Users : CopyOf(request[u])'
    <2>1. TAKE u \in Users
    <2>2. PICK r \in Waiting : r = request[u] /\ CopyOf(r)
      BY DEF GuardInv, GuardTypes
    <2>3. r.pc # "idle" => /\ r.since <= now' /\ now' - r.since <= MaxHandling
                           /\ now' - r.since < CacheTtl + MaxHandling
      BY <1>1, <2>2, AccessConstants DEF CopyOf, Waiting
    <2>4. CopyOf(r)'
      <3>1. r.since \in Int
        BY DEF Waiting
      <3>2. QED
        BY <1>4, <2>2, <2>3, <3>1 DEF CopyOf
    <2>5. QED
      BY <1>1, <2>2, <2>4 DEF CopyOf, Seen, Alike
  <1>7. A!AccessFollowsPayment'
    BY <1>1 DEF A!AccessFollowsPayment
  <1>8. Alike(sub, billed)'
    <2>1. PICK s, b \in Subscription : s = sub /\ b = billed /\ Alike(s, b)
      BY DEF GuardInv, GuardTypes
    <2>2. QED
      BY <1>1, <1>3, <2>1 DEF Alike
  <1>9. QED
    BY <1>2, <1>5, <1>6, <1>7, <1>8 DEF GuardInv

LEMMA GuardRestart ==
  ASSUME A!AccessAssumption, GuardTypes, GuardInv, A!Restart
  PROVE  GuardTypes' /\ GuardInv'
  <1>1. /\ Steady /\ UNCHANGED <<now, sub, billed, past>> /\ cache' = A!NoEntry
        /\ request' = [u \in Users |-> A!NoRequest] /\ answer' = [u \in Users |-> "none"]
    BY DEF A!Restart, Steady
  <1>2. GuardTypes'
    BY <1>1, EmptyTypes DEF GuardTypes
  <1>3. A!AccessFollowsPayment'
    BY <1>1 DEF A!AccessFollowsPayment
  <1>4. EntryFits(cache)' /\ \A u \in Users : CopyOf(request[u])'
    BY <1>1, EmptyTypes DEF EntryFits, CopyOf, GuardTypes
  <1>5. QED
    BY <1>1, <1>2, <1>3, <1>4, SteadyKnows DEF GuardInv

LEMMA GuardQuiet ==
  ASSUME GuardTypes, GuardInv, UNCHANGED <<now, sub, cache, request, answer, billed, past>>
  PROVE  GuardTypes' /\ GuardInv'
  BY DEF GuardTypes, GuardInv, Seen, Alike, A!Lapsed, A!AccessFollowsPayment, A!Allows,
         CopyOf, EntryFits

LEMMA GuardInit ==
  ASSUME A!Init
  PROVE  GuardTypes /\ GuardInv
  BY EmptyTypes DEF A!Init, GuardTypes, GuardInv, Alike, A!AccessFollowsPayment, CopyOf, EntryFits

\* The comment on SUBSCRIPTION_CACHE_TTL_MS: whatever requests overlap and whatever
\* the degradation writes, an answer is that of the subscription of the last
\* CacheTtl and the time of one request.
THEOREM AnswersFollowPayment ==
  ASSUME A!AccessAssumption
  PROVE  A!Spec => []AccessFollowsPayment
  <1>1. GuardTypes /\ GuardInv /\ [A!Next]_(A!vars) => (GuardTypes /\ GuardInv)'
    <2>1. SUFFICES ASSUME GuardTypes, GuardInv, [A!Next]_(A!vars)
                   PROVE  GuardTypes' /\ GuardInv'
      OBVIOUS
    <2>2. ASSUME NEW u \in Users, A!Ask(u) \/ A!Answer(u) \/ A!Degrade(u) \/ A!StoreDegraded(u)
          PROVE  GuardTypes' /\ GuardInv'
      BY <2>1, <2>2, GuardAsk, GuardStore, GuardDegrade
    <2>3. CASE A!Sweep
      BY <2>1, <2>3, GuardQuiet DEF A!Sweep
    <2>4. CASE A!Confirm \/ A!Overdue \/ A!Cancel
      BY <2>1, <2>4, GuardWebhook
    <2>5. CASE A!Tick
      BY <2>1, <2>5, GuardTick
    <2>6. CASE A!Restart
      BY <2>1, <2>6, GuardRestart
    <2>7. CASE UNCHANGED A!vars
      BY <2>1, <2>7, GuardQuiet DEF A!vars
    <2>8. QED
      BY <2>1, <2>2, <2>3, <2>4, <2>5, <2>6, <2>7 DEF A!Next
  <1>2. GuardInv => AccessFollowsPayment
    BY DEF GuardInv, AccessFollowsPayment, Allows, Never, A!AccessFollowsPayment, A!Allows, A!Never
  <1>3. QED
    BY <1>1, <1>2, GuardInit, PTL DEF A!Spec

-----------------------------------------------------------------------------
(* The throttler.                                                          *)

\* The bucket k after a hit.
Hitted(k) ==
  IF A!Window(k).blocked > now THEN A!Window(k)
  ELSE [A!Window(k) EXCEPT !.hits = @ + 1,
                           !.blocked = IF A!Window(k).hits + 1 > Limit THEN now + Ttl ELSE @]

LEMMA WindowTypes ==
  ASSUME A!AccessAssumption, ThrottleTypes, NEW k \in A!Keys
  PROVE  /\ A!Window(k) \in Bucket /\ now < A!Window(k).expira
         /\ \/ now < bucket[k].expira /\ A!Window(k) = bucket[k]
            \/ /\ A!Window(k).hits = 0 /\ A!Window(k).blocked = 0
               /\ A!Window(k).expira = now + Ttl
  <1>1. bucket[k] \in Bucket /\ now \in Nat
    BY DEF ThrottleTypes
  <1>2. CASE now >= bucket[k].expira
    BY <1>1, <1>2, AccessConstants DEF A!Window, Bucket
  <1>3. CASE ~(now >= bucket[k].expira)
    BY <1>1, <1>3 DEF A!Window, Bucket
  <1>4. QED
    BY <1>2, <1>3

LEMMA HitEffect ==
  ASSUME A!AccessAssumption, ThrottleTypes, NEW k \in A!Keys
  PROVE  /\ Hitted(k) \in Bucket /\ now < Hitted(k).expira
         /\ Hitted(k).expira = A!Window(k).expira
         /\ Hitted(k).hits <= A!Window(k).hits + 1
         /\ A!Window(k).blocked > 0 => Hitted(k).hits >= A!Window(k).hits
         /\ Hitted(k).blocked > 0 =>
              \/ Hitted(k).hits > Limit
              \/ A!Window(k).blocked > 0 /\ Hitted(k).hits >= A!Window(k).hits
  <1>1. PICK w \in Bucket : w = A!Window(k) /\ now < w.expira
    BY WindowTypes
  <1>2. now \in Nat /\ w.hits \in Nat /\ w.blocked \in Nat /\ w.expira \in Nat
    BY DEF ThrottleTypes, Bucket
  <1>3. CASE w.blocked > now
    BY <1>1, <1>2, <1>3 DEF Hitted
  <1>4. CASE ~(w.blocked > now)
    <2>1. PICK n \in Nat : n = w.hits + 1
      BY <1>2
    <2>2. PICK b \in Nat : b = (IF w.hits + 1 > Limit THEN now + Ttl ELSE w.blocked)
      BY <1>2, AccessConstants
    <2>3. Hitted(k) = [w EXCEPT !.hits = n, !.blocked = b]
      BY <1>1, <1>4, <2>1, <2>2 DEF Hitted, Bucket
    <2>4. /\ Hitted(k) \in Bucket /\ Hitted(k).hits = n /\ Hitted(k).blocked = b
          /\ Hitted(k).expira = w.expira
      BY <2>3 DEF Bucket
    <2>5. QED
      BY <1>1, <1>2, <2>1, <2>2, <2>4
  <1>5. QED
    BY <1>3, <1>4

\* One more request of u, at this instant, is not one of those that are there.
LEMMA OneMore ==
  ASSUME ThrottleTypes, NEW u \in Users, Throttled(u), NEW t \in Int, t <= now,
         NEW a, a = [at |-> now, nth |-> A!Recent(u)]
  PROVE  /\ a \in Hit /\ a.at = now /\ a.nth = A!Recent(u) /\ A!Recent(u) \in Nat
         /\ IsFiniteSet(asked[u] \cup {a})
         /\ Cardinality(asked[u] \cup {a}) = A!Recent(u) + 1
         /\ \A b \in asked[u] : b # a
         /\ {b \in asked[u] \cup {a} : b.at >= t} = Late(u, t) \cup {a}
         /\ IsFiniteSet(Late(u, t))
         /\ Cardinality(Late(u, t) \cup {a})
              = Cardinality(Late(u, t)) + 1
         /\ Cardinality(Late(u, t)) \in Nat
  <1>1. IsFiniteSet(asked[u]) /\ A!Recent(u) \in Nat /\ now \in Nat
    BY FS_CardinalityType, SameCardinality DEF ThrottleTypes, A!Recent
  <1>2. a \in Hit /\ a.at = now /\ a.nth = A!Recent(u)
    BY <1>1 DEF Hit
  <1>3. \A b \in asked[u] : b # a
    BY <1>1, <1>2 DEF Throttled, ThrottleTypes, Hit
  <1>4. PICK late : late = Late(u, t)
    OBVIOUS
  <1>5. IsFiniteSet(late) /\ a \notin late /\ a \notin asked[u]
    <2>1. late \subseteq asked[u] /\ a \notin asked[u]
      BY <1>3, <1>4 DEF Late
    <2>2. QED
      BY <1>1, <2>1, FS_Subset
  <1>6. {b \in asked[u] \cup {a} : b.at >= t} = late \cup {a}
    BY <1>1, <1>2, <1>4 DEF Late
  <1>7. /\ IsFiniteSet(asked[u] \cup {a})
        /\ Cardinality(asked[u] \cup {a}) = Cardinality(asked[u]) + 1
    BY <1>1, <1>5, FS_AddElement
  <1>8. Cardinality(late \cup {a}) = Cardinality(late) + 1 /\ Cardinality(late) \in Nat
    BY <1>5, FS_AddElement, FS_CardinalityType
  <1>9. QED
    BY <1>1, <1>2, <1>3, <1>4, <1>5, <1>6, <1>7, <1>8, SameCardinality DEF A!Recent

LEMMA ThrottleAsk ==
  ASSUME A!AccessAssumption, ThrottleTypes, ThrottleInv, NEW u \in Users, A!Ask(u)
  PROVE  ThrottleTypes' /\ ThrottleInv'
  <1>1. PICK k \in {u, Address} :
          /\ bucket' = [bucket EXCEPT ![k] = Hitted(k)]
          /\ asked' = IF k = u THEN [asked EXCEPT ![u] = @ \cup {[at |-> now, nth |-> A!Recent(u)]}]
                      ELSE asked
          /\ \E what \in {"none", "served", "402", "429"} :
               /\ answer' = [answer EXCEPT ![u] = what]
               /\ what = "429" => k = u /\ bucket'[k].blocked > now
          /\ now' = now
    <2>1. PICK session \in BOOLEAN :
            LET k == A!Tracker(u, session) IN
            /\ A!Increment(k)
            /\ asked' = IF session THEN [asked EXCEPT ![u] = @ \cup {[at |-> now, nth |-> A!Recent(u)]}]
                        ELSE asked
            /\ IF bucket'[k].blocked > now
               THEN A!Reply(u, IF session THEN "429" ELSE "none") /\ UNCHANGED request
               ELSE IF ~session THEN A!Reply(u, "none") /\ UNCHANGED request
               ELSE IF A!Cached THEN A!Decide(u, cache.sub)
               ELSE /\ request' = [request EXCEPT ![u] = [pc |-> "answer", copy |-> sub, since |-> now]]
                    /\ A!Reply(u, "none")
      BY DEF A!Ask
    <2>2. now' = now /\ u # Address
      BY AccessConstants DEF A!Ask
    <2>3. PICK k \in {u, Address} : k = A!Tracker(u, session) /\ (session <=> k = u)
      BY <2>2 DEF A!Tracker
    <2>4. bucket' = [bucket EXCEPT ![k] = Hitted(k)]
      BY <2>1, <2>3 DEF A!Increment, Hitted
    <2>5. \E what \in {"none", "served", "402", "429"} :
            /\ answer' = [answer EXCEPT ![u] = what]
            /\ what = "429" => k = u /\ bucket'[k].blocked > now
      BY <2>1, <2>3 DEF A!Decide, A!Reply
    <2>6. QED
      BY <2>1, <2>2, <2>3, <2>4, <2>5
  <1>2. k \in A!Keys /\ u \in A!Keys /\ u # Address
    BY AccessConstants DEF A!Keys
  <1>3. /\ bucket' \in [A!Keys -> Bucket] /\ bucket'[k] = Hitted(k)
        /\ \A j \in A!Keys : j # k => bucket'[j] = bucket[j]
    BY <1>1, <1>2, HitEffect DEF ThrottleTypes
  <1>4. now \in Nat /\ Throttled(u)
    BY DEF ThrottleTypes, ThrottleInv
  <1>5. PICK a : a = [at |-> now, nth |-> A!Recent(u)]
    OBVIOUS
  <1>6. /\ a \in Hit /\ a.at = now /\ a.nth = A!Recent(u) /\ A!Recent(u) \in Nat
        /\ IsFiniteSet(asked[u] \cup {a}) /\ Cardinality(asked[u] \cup {a}) = A!Recent(u) + 1
    <2>1. now \in Int /\ now <= now
      BY <1>4
    <2>2. QED
      BY <1>4, <1>5, <2>1, OneMore
  <1>7. /\ asked' \in [Users -> SUBSET Hit]
        /\ asked'[u] = IF k = u THEN asked[u] \cup {a} ELSE asked[u]
        /\ \A v \in Users : v # u => asked'[v] = asked[v]
    BY <1>1, <1>5, <1>6 DEF ThrottleTypes
  <1>8. /\ answer' \in [Users -> {"none", "served", "402", "429"}]
        /\ answer'[u] = "429" => k = u /\ Hitted(k).blocked > now
        /\ \A v \in Users : v # u => answer'[v] = answer[v]
    BY <1>1, <1>3 DEF ThrottleTypes
  <1>9. ThrottleTypes'
    BY <1>1, <1>3, <1>4, <1>6, <1>7, <1>8 DEF ThrottleTypes
  <1>10. ASSUME NEW v \in Users, v # u
         PROVE  Throttled(v)'
    <2>1. v \in A!Keys /\ v # k
      BY <1>1, <1>10, AccessConstants DEF A!Keys
    <2>2. QED
      BY <1>1, <1>3, <1>7, <1>8, <1>10, <2>1 DEF ThrottleInv, Throttled, InWindow, A!Recent
  <1>11. CASE k = Address
    <2>1. /\ bucket'[u] = bucket[u] /\ asked'[u] = asked[u] /\ answer'[u] # "429" /\ now' = now
      BY <1>1, <1>2, <1>3, <1>7, <1>8, <1>11
    <2>2. Throttled(u)'
      BY <1>4, <2>1 DEF Throttled, InWindow, A!Recent
    <2>3. QED
      BY <1>9, <1>10, <2>2 DEF ThrottleInv
  <1>12. CASE k = u
    <2>1. PICK w \in Bucket : w = A!Window(u)
      BY <1>2, WindowTypes
    <2>2. PICK b \in Bucket : b = bucket'[u]
      BY <1>2, <1>3
    <2>3. /\ now < b.expira /\ b.expira = w.expira /\ b.hits <= w.hits + 1
          /\ b.blocked > 0 => b.hits > Limit \/ (w.blocked > 0 /\ b.hits >= w.hits)
      BY <1>2, <1>3, <1>12, <2>1, <2>2, HitEffect
    <2>4. \/ now < bucket[u].expira /\ w = bucket[u]
          \/ w.hits = 0 /\ w.blocked = 0 /\ w.expira = now + Ttl
      BY <1>2, <2>1, WindowTypes
    <2>5. /\ b.hits \in Nat /\ b.expira \in Nat /\ b.blocked \in Nat
          /\ w.hits \in Nat /\ w.blocked \in Nat
      BY DEF Bucket
    <2>6. b.blocked > 0 => b.hits > Limit
      BY <1>4, <2>3, <2>4, <2>5, AccessConstants DEF Throttled
    <2>7. PICK t \in Int : t = b.expira - Ttl
      BY <2>5, AccessConstants
    <2>8. b.expira <= now + Ttl /\ t <= now
      BY <1>4, <2>3, <2>4, <2>5, <2>7, AccessConstants DEF Throttled
    <2>9. PICK late : late = Late(u, t)
      OBVIOUS
    <2>10. /\ {c \in asked[u] \cup {a} : c.at >= t} = late \cup {a}
           /\ Cardinality(late \cup {a}) = Cardinality(late) + 1 /\ Cardinality(late) \in Nat
      BY <1>4, <1>5, <2>8, <2>9, OneMore
    <2>11. w.hits <= Cardinality(late)
      <3>1. CASE now < bucket[u].expira /\ w = bucket[u]
        <4>1. late = InWindow(u)
          BY <2>3, <2>7, <2>9, <3>1 DEF InWindow, Late
        <4>2. QED
          BY <1>4, <3>1, <4>1 DEF Throttled
      <3>2. CASE w.hits = 0
        BY <2>10, <3>2
      <3>3. QED
        BY <2>4, <3>1, <3>2
    <2>12. asked'[u] = asked[u] \cup {a}
      BY <1>7, <1>12
    <2>13. InWindow(u)' = late \cup {a}
      BY <2>2, <2>7, <2>10, <2>12 DEF InWindow
    <2>14. b.hits <= Cardinality(InWindow(u)')
      BY <2>3, <2>5, <2>10, <2>11, <2>13
    <2>15. A!Recent(u)' = A!Recent(u) + 1
      BY <1>6, <2>12, SameCardinality DEF A!Recent
    <2>16. \A c \in asked'[u] : c.at > now - Ttl /\ c.at <= now /\ (c.at = now => c.nth < A!Recent(u)')
      <3>1. ASSUME NEW c \in asked[u]
            PROVE  c.at > now - Ttl /\ c.at <= now /\ (c.at = now => c.nth < A!Recent(u)')
        <4>1. c \in Hit
          BY DEF ThrottleTypes
        <4>2. QED
          BY <1>4, <1>6, <2>15, <4>1 DEF Throttled, Hit
      <3>2. a.at > now - Ttl /\ a.at <= now /\ (a.at = now => a.nth < A!Recent(u)')
        BY <1>4, <1>6, <2>15, AccessConstants
      <3>3. QED
        BY <2>12, <3>1, <3>2
    <2>17. answer'[u] = "429" => A!Recent(u)' > Limit
      <3>1. SUFFICES ASSUME answer'[u] = "429"
                     PROVE  A!Recent(u)' > Limit
        OBVIOUS
      <3>2. b.hits > Limit
        BY <1>3, <1>4, <1>8, <1>12, <2>2, <2>5, <2>6, <3>1
      <3>3. Cardinality(late \cup {a}) <= Cardinality(asked[u] \cup {a})
        BY <1>6, <2>9, FS_Subset DEF Late
      <3>4. QED
        BY <1>6, <2>5, <2>10, <2>13, <2>14, <2>15, <3>2, <3>3, AccessConstants
    <2>18. Throttled(u)'
      BY <1>1, <2>2, <2>6, <2>8, <2>14, <2>16, <2>17 DEF Throttled
    <2>19. QED
      BY <1>9, <1>10, <2>18 DEF ThrottleInv
  <1>13. QED
    BY <1>1, <1>11, <1>12

LEMMA ThrottleTick ==
  ASSUME A!AccessAssumption, ThrottleTypes, ThrottleInv, A!Tick
  PROVE  ThrottleTypes' /\ ThrottleInv'
  <1>1. /\ bucket' = bucket /\ now' = now + 1 /\ now \in Nat
        /\ answer' = [u \in Users |-> "none"]
        /\ asked' = [u \in Users |-> {a \in asked[u] : a.at > now' - Ttl}]
    BY DEF A!Tick, ThrottleTypes
  <1>2. \A u \in Users : asked'[u] = {a \in asked[u] : a.at > now' - Ttl} /\ asked'[u] \subseteq asked[u]
    BY <1>1
  <1>3. \A u \in Users : IsFiniteSet(asked'[u])
    BY <1>2, FS_Subset DEF ThrottleTypes
  <1>4. asked' \in [Users -> SUBSET Hit]
    BY <1>1 DEF ThrottleTypes
  <1>5. ThrottleTypes'
    BY <1>1, <1>3, <1>4 DEF ThrottleTypes
  <1>6. ASSUME NEW u \in Users
        PROVE  Throttled(u)'
    <2>1. Throttled(u) /\ bucket[u] \in Bucket /\ asked[u] \subseteq Hit
      BY DEF ThrottleInv, ThrottleTypes, A!Keys
    <2>2. \A a \in asked'[u] : a.at > now' - Ttl /\ a.at <= now' /\ a.at # now'
      BY <1>1, <1>2, <2>1 DEF Throttled, Hit
    <2>3. now' < bucket[u].expira => InWindow(u)' = InWindow(u)
      BY <1>1, <1>2, <2>1, AccessConstants DEF InWindow, Bucket, Hit
    <2>4. now' < bucket[u].expira => /\ bucket[u].expira <= now' + Ttl
                                     /\ bucket[u].hits <= Cardinality(InWindow(u)')
      BY <1>1, <2>1, <2>3, AccessConstants DEF Throttled, Bucket
    <2>5. answer'[u] # "429"
      BY <1>1
    <2>6. QED
      BY <1>1, <2>1, <2>2, <2>4, <2>5 DEF Throttled
  <1>7. QED
    BY <1>5, <1>6 DEF ThrottleInv

\* Buckets may be forgotten, by limpar or with the process.
LEMMA ThrottleForget ==
  ASSUME A!AccessAssumption, ThrottleTypes, ThrottleInv, UNCHANGED <<now, asked>>,
         answer' \in [Users -> {"none", "served", "402", "429"}],
         \A u \in Users : answer'[u] = "429" => answer[u] = "429",
         DOMAIN bucket' = A!Keys, bucket' = [k \in A!Keys |-> bucket'[k]],
         \A k \in A!Keys : bucket'[k] \in {bucket[k], A!NoBucket}
  PROVE  ThrottleTypes' /\ ThrottleInv'
  <1>1. A!NoBucket \in Bucket /\ A!NoBucket.expira = 0 /\ A!NoBucket.blocked = 0
    BY DEF A!NoBucket, Bucket
  <1>2. bucket' \in [A!Keys -> Bucket]
    BY <1>1 DEF ThrottleTypes
  <1>3. ThrottleTypes'
    BY <1>2 DEF ThrottleTypes
  <1>4. ASSUME NEW u \in Users
        PROVE  Throttled(u)'
    <2>1. u \in A!Keys /\ Throttled(u) /\ now \in Nat
      BY DEF A!Keys, ThrottleInv, ThrottleTypes
    <2>2. CASE bucket'[u] = bucket[u]
      BY <2>1, <2>2 DEF Throttled, InWindow, A!Recent
    <2>3. CASE bucket'[u] = A!NoBucket
      BY <1>1, <2>1, <2>3 DEF Throttled, InWindow, A!Recent
    <2>4. QED
      BY <2>1, <2>2, <2>3
  <1>5. QED
    BY <1>3, <1>4 DEF ThrottleInv

LEMMA ThrottleDecide ==
  ASSUME ThrottleTypes, ThrottleInv, NEW u \in Users, NEW s, A!Decide(u, s),
         UNCHANGED <<now, asked, bucket>>
  PROVE  ThrottleTypes' /\ ThrottleInv'
  <1>1. /\ answer' \in [Users -> {"none", "served", "402", "429"}]
        /\ \A v \in Users : answer'[v] = "429" => answer[v] = "429"
    BY DEF A!Decide, A!Reply, ThrottleTypes
  <1>2. QED
    BY <1>1 DEF ThrottleTypes, ThrottleInv, Throttled, InWindow, A!Recent

LEMMA ThrottleQuiet ==
  ASSUME ThrottleTypes, ThrottleInv, UNCHANGED <<now, asked, bucket, answer>>
  PROVE  ThrottleTypes' /\ ThrottleInv'
  BY DEF ThrottleTypes, ThrottleInv, Throttled, InWindow, A!Recent

LEMMA ThrottleInit ==
  ASSUME A!AccessAssumption, A!Init
  PROVE  ThrottleTypes /\ ThrottleInv
  <1>1. A!NoBucket \in Bucket /\ A!NoBucket.expira = 0 /\ A!NoBucket.blocked = 0
    BY DEF A!NoBucket, Bucket
  <1>2. IsFiniteSet({})
    BY FS_EmptySet
  <1>3. QED
    BY <1>1, <1>2 DEF A!Init, ThrottleTypes, ThrottleInv, Throttled, A!Keys

\* "Rate limit por INQUILINO": who has a session is refused only for more requests of
\* his own than the limit, in the length of a window, whoever shares his address.
THEOREM RefusalsAreOnesOwn ==
  ASSUME A!AccessAssumption
  PROVE  A!Spec => []RefusedForOwnRequests
  <1>1. ThrottleTypes /\ ThrottleInv /\ [A!Next]_(A!vars) => (ThrottleTypes /\ ThrottleInv)'
    <2>1. SUFFICES ASSUME ThrottleTypes, ThrottleInv, [A!Next]_(A!vars)
                   PROVE  ThrottleTypes' /\ ThrottleInv'
      OBVIOUS
    <2>2. ASSUME NEW u \in Users, A!Ask(u)
          PROVE  ThrottleTypes' /\ ThrottleInv'
      BY <2>1, <2>2, ThrottleAsk
    <2>3. ASSUME NEW u \in Users, A!Answer(u) \/ A!StoreDegraded(u)
          PROVE  ThrottleTypes' /\ ThrottleInv'
      BY <2>1, <2>3, ThrottleDecide DEF A!Answer, A!StoreDegraded, A!Store
    <2>4. CASE (\E u \in Users : A!Degrade(u)) \/ A!Confirm \/ A!Overdue \/ A!Cancel
      BY <2>1, <2>4, ThrottleQuiet DEF A!Degrade, A!Confirm, A!Overdue, A!Cancel, A!Write
    <2>5. CASE A!Sweep
      <3>1. /\ bucket' = [k \in A!Keys |-> bucket'[k]] /\ DOMAIN bucket' = A!Keys
            /\ \A k \in A!Keys : bucket'[k] \in {bucket[k], A!NoBucket}
            /\ UNCHANGED <<now, asked, answer>>
        BY <2>5 DEF A!Sweep
      <3>2. QED
        BY <2>1, <3>1, ThrottleForget DEF ThrottleTypes
    <2>6. CASE A!Tick
      BY <2>1, <2>6, ThrottleTick
    <2>7. CASE A!Restart
      <3>1. /\ bucket' = [k \in A!Keys |-> bucket'[k]] /\ DOMAIN bucket' = A!Keys
            /\ \A k \in A!Keys : bucket'[k] \in {bucket[k], A!NoBucket}
            /\ UNCHANGED <<now, asked>> /\ answer' = [u \in Users |-> "none"]
        BY <2>7 DEF A!Restart
      <3>2. QED
        BY <2>1, <3>1, ThrottleForget
    <2>8. CASE UNCHANGED A!vars
      BY <2>1, <2>8, ThrottleQuiet DEF A!vars
    <2>9. QED
      BY <2>1, <2>2, <2>3, <2>4, <2>5, <2>6, <2>7, <2>8 DEF A!Next
  <1>2. ThrottleInv => RefusedForOwnRequests
    BY SameCardinality DEF ThrottleInv, Throttled, RefusedForOwnRequests, Recent, A!Recent
  <1>3. A!Init /\ A!AccessAssumption => ThrottleTypes /\ ThrottleInv
    BY ThrottleInit
  <1>4. QED
    BY <1>1, <1>2, <1>3, PTL DEF A!Spec
=============================================================================
