----------------------------- MODULE Templates -----------------------------
(***************************************************************************)
(* The templates of organizations that may share a WABA                    *)
(* (templates.service.ts, meta-nome.ts, plataforma.service.ts and the      *)
(* constraints of migration 014), and the channels that decide which WABA  *)
(* an organization works in (channels.service.ts).                         *)
(*                                                                         *)
(* A template has at Meta a name that is unique in its WABA and begins     *)
(* with the prefix of its owner: a name is modelled by its prefix alone,   *)
(* one template for each.  A handler reads the WABA, and applies what it   *)
(* read template by template, while others do the same, the customer and   *)
(* the operator work in the WhatsApp Manager, and channels come and go.    *)
(***************************************************************************)
EXTENDS Integers, Sequences

CONSTANTS
  Orgs,         (* organizations, their prefixes and their own WABAs        *)
  Zaplane,      (* the platform, its prefix and its WABA                    *)
  Plain,        (* a name without prefix, from before migration 014         *)
  Handlers,     (* calls of the API in progress                             *)
  Nobody,       (* no organization and no WABA                              *)
  MaxIds,       (* bound: templates that Meta ever holds                    *)
  MaxMoves,     (* bound: changes of channels, and in the WhatsApp Manager  *)
  MaxMishaps    (* bound: handlers that die                                 *)

ASSUME TemplatesAssumption ==
  /\ Zaplane \notin Orgs /\ Plain \notin Orgs \cup {Zaplane}
  /\ Nobody \notin Orgs \cup {Zaplane, Plain}
  /\ MaxIds \in Nat \ {0} /\ {MaxMoves, MaxMishaps} \subseteq Nat

VARIABLES
  meta,         (* Meta: WABA, name and status of each template             *)
  row,          (* templates: the row of each owner and name, if any        *)
  channels,     (* whatsapp_channels, oldest first: WABA and if it is active *)
  handler,      (* what a handler does, for whom, and what it has read      *)
  legacy,       (* organizations with a row from before migration 014       *)
  moves, mishaps

bounds == <<legacy, moves, mishaps>>
vars   == <<meta, row, channels, handler, bounds>>

Owners == Orgs \cup {Zaplane}
Names  == Owners \cup {Plain}
Ids    == 1 .. MaxIds
NoId   == 0
Known  == {"PENDING", "APPROVED"}

NoTemplate == [waba |-> Nobody, name |-> Plain, status |-> "none"]
NoRow      == [id |-> NoId, status |-> "none"]
NoHandler  == [pc |-> "idle", org |-> Nobody, owner |-> Nobody, waba |-> Nobody,
               id |-> NoId, remotos |-> {}]

Live(i)  == meta[i].status \in Known
Free     == {i \in Ids : meta[i].status = "none"}
NewId    == CHOOSE i \in Free : \A j \in Free : i <= j
Exists(o, n) == row[<<o, n>>].status # "none"

Done(h)   == handler' = [handler EXCEPT ![h] = NoHandler]
To(h, pc) == handler' = [handler EXCEPT ![h].pc = pc]

\* resolverCredenciais: the WABA of the oldest channel that is active.
Waba(o) ==
  LET active == {k \in DOMAIN channels[o] : channels[o][k].active} IN
  IF active = {} THEN Nobody
  ELSE channels[o][CHOOSE k \in active : \A j \in active : k <= j].waba
-----------------------------------------------------------------------------
(* Meta, where customers and operator also work without the gateway.       *)

Moves == moves < MaxMoves /\ moves' = moves + 1

Held(w, n) == \E i \in Ids : Live(i) /\ meta[i].waba = w /\ meta[i].name = n

Add(w, n) == meta' = [meta EXCEPT ![NewId] = [waba |-> w, name |-> n, status |-> "PENDING"]]

\* A customer may give any name to a template of his own WABA.
Manage(w, n) ==
  /\ n \in {w, Zaplane, Plain} /\ ~Held(w, n) /\ Free # {}
  /\ Add(w, n) /\ Moves
  /\ UNCHANGED <<row, channels, handler, legacy, mishaps>>

Review(i) ==
  /\ meta[i].status = "PENDING"
  /\ meta' = [meta EXCEPT ![i].status = "APPROVED"] /\ Moves
  /\ UNCHANGED <<row, channels, handler, legacy, mishaps>>

Delete(i) ==
  /\ Live(i)
  /\ meta' = [meta EXCEPT ![i].status = "deleted"] /\ Moves
  /\ UNCHANGED <<row, channels, handler, legacy, mishaps>>
-----------------------------------------------------------------------------
(* Channels.                                                               *)

\* saveChannel: a channel that exists is active again, and keeps its age.
Saved(list, w) ==
  IF \E k \in DOMAIN list : list[k].waba = w
  THEN [k \in DOMAIN list |-> IF list[k].waba = w THEN [list[k] EXCEPT !.active = TRUE]
                              ELSE list[k]]
  ELSE Append(list, [waba |-> w, active |-> TRUE])

\* What every connection does: the channel is saved, and then the templates are
\* synchronized.
Connected(h, o, w) ==
  /\ Moves
  /\ channels' = [channels EXCEPT ![o] = Saved(@, w)]
  /\ handler[h].pc = "idle"
  /\ handler' = [handler EXCEPT ![h] = [NoHandler EXCEPT !.pc = "read", !.org = o]]
  /\ UNCHANGED <<meta, row, legacy, mishaps>>

\* The WABA is the one that was typed in; the assisted connection saves the
\* platform's in the same way.
ConnectManual(h, o, w) == w \in {o, Zaplane} /\ Connected(h, o, w)

\* Embedded Signup, where the customer chooses a WABA of his own.
EsExchange(h, o) == Connected(h, o, o)

Disconnect(o, k) ==
  /\ channels[o][k].active /\ Moves
  /\ channels' = [channels EXCEPT ![o][k].active = FALSE]
  /\ UNCHANGED <<meta, row, handler, legacy, mishaps>>
-----------------------------------------------------------------------------
(* sync.                                                                   *)

\* The credentials, and the templates of their WABA.
Reads(h, o) ==
  LET w == Waba(o)
      remotos == {[id |-> i, name |-> meta[i].name, status |-> meta[i].status] :
                    i \in {j \in Ids : Live(j) /\ meta[j].waba = w}} IN
  handler' = [handler EXCEPT ![h] = IF remotos = {} THEN NoHandler ELSE
    [NoHandler EXCEPT !.pc = "apply", !.org = o, !.waba = w, !.remotos = remotos]]

Sync(h, o) ==
  /\ handler[h].pc = "idle" /\ Reads(h, o)
  /\ UNCHANGED <<meta, row, channels, bounds>>

SyncConnected(h) ==
  /\ handler[h].pc = "read" /\ Reads(h, handler[h].org)
  /\ UNCHANGED <<meta, row, channels, bounds>>

Tracking(i) == {k \in DOMAIN row : row[k].id = i}

DaPlataforma(h, n) == handler[h].waba = Zaplane /\ n = Zaplane

\* Mutant of DaOrg: whatever the WABA holds is adopted.
MutDaOrgAny(h, n) == n # Zaplane

DaOrg(h, n) == n = handler[h].org

\* One template: a row that tracks it, whichever is found, is updated if it is
\* the organization's own or a generic one; a template that none tracks becomes
\* a row if its prefix says whose it is and the unique indexes let it.
Apply(h, r) ==
  /\ handler[h].pc = "apply" /\ r \in handler[h].remotos
  /\ \/ \E k \in Tracking(r.id) :
          row' = IF k[1] \in {Zaplane, handler[h].org}
                 THEN [row EXCEPT ![k].status = r.status] ELSE row
     \/ /\ Tracking(r.id) = {}
        /\ LET owner == IF DaPlataforma(h, r.name) THEN Zaplane ELSE handler[h].org IN
           row' = IF /\ DaPlataforma(h, r.name) \/ DaOrg(h, r.name)
                     /\ ~Exists(owner, r.name)
                  THEN [row EXCEPT ![<<owner, r.name>>] = [id |-> r.id, status |-> r.status]]
                  ELSE row
  /\ IF handler[h].remotos = {r} THEN Done(h)
     ELSE handler' = [handler EXCEPT ![h].remotos = @ \ {r}]
  /\ UNCHANGED <<meta, channels, bounds>>
-----------------------------------------------------------------------------
(* create, for the organization or for the platform.                       *)

\* garantirCredencialDaPlataforma, for a generic one.
MayCreate(o, owner) == owner = Zaplane => Waba(o) = Zaplane

Create(h, o, owner) ==
  /\ handler[h].pc = "idle" /\ owner \in {o, Zaplane}
  /\ ~Exists(owner, owner) /\ MayCreate(o, owner)
  /\ handler' = [handler EXCEPT ![h] =
       [NoHandler EXCEPT !.pc = "insert", !.org = o, !.owner = owner]]
  /\ UNCHANGED <<meta, row, channels, bounds>>

Insert(h) ==
  /\ handler[h].pc = "insert"
  /\ LET k == <<handler[h].owner, handler[h].owner>> IN
     IF Exists(k[1], k[2]) THEN Done(h) /\ UNCHANGED row
     ELSE /\ row' = [row EXCEPT ![k] = [id |-> NoId, status |-> "PENDING"]]
          /\ To(h, "submit")
  /\ UNCHANGED <<meta, channels, bounds>>

Submits(h, w) == w # Nobody /\ (handler[h].owner = Zaplane => w = Zaplane)

\* submitToMeta, which asks for the credentials once more.
Submit(h) ==
  /\ handler[h].pc = "submit"
  /\ LET w == Waba(handler[h].org) IN
     IF Submits(h, w) /\ ~Held(w, handler[h].owner)
     THEN /\ Free # {} /\ Add(w, handler[h].owner)
          /\ handler' = [handler EXCEPT ![h].pc = "record", ![h].id = NewId]
     ELSE Done(h) /\ UNCHANGED meta
  /\ UNCHANGED <<row, channels, bounds>>

Record(h) ==
  /\ handler[h].pc = "record"
  /\ row' = [row EXCEPT ![<<handler[h].owner, handler[h].owner>>].id = handler[h].id]
  /\ Done(h)
  /\ UNCHANGED <<meta, channels, bounds>>

\* Meta or the database fails, or the gateway restarts.
Die(h) ==
  /\ handler[h].pc # "idle" /\ mishaps < MaxMishaps /\ mishaps' = mishaps + 1
  /\ Done(h)
  /\ UNCHANGED <<meta, row, channels, legacy, moves>>
-----------------------------------------------------------------------------
\* Before migration 014, organizations that shared a WABA imported each other's
\* templates: a template without prefix that any of them may track.
Init ==
  /\ legacy \in SUBSET Orgs
  /\ meta = [i \in Ids |-> IF i = 1 /\ legacy # {}
               THEN [waba |-> Zaplane, name |-> Plain, status |-> "APPROVED"] ELSE NoTemplate]
  /\ row = [k \in Owners \X Names |-> IF k[1] \in legacy /\ k[2] = Plain
              THEN [id |-> 1, status |-> "APPROVED"] ELSE NoRow]
  /\ channels = [o \in Orgs |-> <<>>]
  /\ handler = [h \in Handlers |-> NoHandler]
  /\ moves = 0 /\ mishaps = 0

Next ==
  \/ \E w \in Owners, n \in Names : Manage(w, n)
  \/ \E i \in Ids : Review(i) \/ Delete(i)
  \/ \E h \in Handlers, o \in Orgs : Sync(h, o) \/ EsExchange(h, o)
                                       \/ \E w \in Owners : ConnectManual(h, o, w) \/ Create(h, o, w)
  \/ \E o \in Orgs : \E k \in DOMAIN channels[o] : Disconnect(o, k)
  \/ \E h \in Handlers : \/ SyncConnected(h) \/ Insert(h) \/ Submit(h) \/ Record(h) \/ Die(h)
                         \/ \E r \in handler[h].remotos : Apply(h, r)

Spec == Init /\ [][Next]_vars
-----------------------------------------------------------------------------
(* Properties.                                                             *)

\* Every variable keeps its type.
TypeOK ==
  /\ \A i \in Ids : meta[i].status \in Known \cup {"none", "deleted"}
  /\ \A k \in DOMAIN row :
       row[k].status \in Known \cup {"none"} /\ row[k].id \in Ids \cup {NoId}

\* Whoever shares a WABA, an organization has rows of its own prefix only, but
\* for those of before migration 014.  Such a row tracks the template it is
\* named for, and one that its owner can send: one of the platform's WABA if it
\* is generic, and else one of its own WABA or of the platform's.
RowsAreOwned ==
  \A k \in DOMAIN row :
    /\ row[k].status # "none" => k[2] = k[1] \/ (k[2] = Plain /\ k[1] \in legacy)
    /\ row[k].id # NoId /\ k[2] # Plain =>
         /\ meta[row[k].id].name = k[1]
         /\ meta[row[k].id].waba \in {k[1], Zaplane}
=============================================================================
