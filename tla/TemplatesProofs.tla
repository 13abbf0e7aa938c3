-------------------------- MODULE TemplatesProofs --------------------------
(* The ownership of templates, for every number of organizations, calls,   *)
(* templates and channels.                                                 *)
EXTENDS Templates, SequenceTheorems, WellFoundedInduction, TLAPS

(***************************************************************************)
(* Types.  A template that Meta holds has a WABA; the channels of an       *)
(* organization are in its own WABA or in the platform's.                  *)
(***************************************************************************)
Template == [waba : Owners \cup {Nobody}, name : Names, status : Known \cup {"none", "deleted"}]

MetaType ==
  /\ meta \in [Ids -> Template]
  /\ \A i \in Ids : meta[i].status # "none" => meta[i].waba \in Owners

RowType == row \in [Owners \X Names -> [id : Ids \cup {NoId}, status : Known \cup {"none"}]]

Channel == [waba : Owners, active : BOOLEAN]

ChannelsType ==
  /\ channels \in [Orgs -> Seq(Channel)]
  /\ \A o \in Orgs : \A k \in DOMAIN channels[o] : channels[o][k].waba \in {o, Zaplane}

HandlerRecord ==
  [pc : {"idle", "read", "apply", "insert", "submit", "record"},
   org : Orgs \cup {Nobody}, owner : Owners \cup {Nobody}, waba : Owners \cup {Nobody},
   id : Ids \cup {NoId}, remotos : SUBSET [id : Ids, name : Names, status : Known]]

HandlerType == handler \in [Handlers -> HandlerRecord]

(***************************************************************************)
(* What a handler has read stays true, since Meta keeps the name and the   *)
(* WABA of whatever it held once; what a row tracks can be sent by its     *)
(* owner.                                                                  *)
(***************************************************************************)
\* Meta holds, or held, the template i.
Was(i) == i \in Ids /\ meta[i].status # "none"

Tracks(i, o) == Was(i) /\ meta[i].name = o /\ meta[i].waba \in {o, Zaplane}

Fits(r) ==
  /\ r.pc # "idle" => r.org \in Orgs
  /\ r.pc \in {"insert", "submit", "record"} => r.owner \in {r.org, Zaplane}
  /\ r.pc = "record" => Tracks(r.id, r.owner)
  /\ r.pc = "apply" => /\ r.waba \in {r.org, Zaplane}
                       /\ \A q \in r.remotos : /\ Was(q.id) /\ meta[q.id].name = q.name
                                               /\ meta[q.id].waba = r.waba

HandlersFit == \A h \in Handlers : Fits(handler[h])

RowsFit ==
  \A k \in Owners \X Names :
    /\ row[k].status # "none" \/ row[k].id # NoId => k[2] = k[1] \/ (k[2] = Plain /\ k[1] \in legacy)
    /\ row[k].id # NoId /\ k[2] # Plain => Tracks(row[k].id, k[1])

TypeInv  == MetaType /\ RowType /\ ChannelsType /\ HandlerType /\ legacy \subseteq Orgs
OwnedInv == TypeInv /\ HandlersFit /\ RowsFit

(* The least element of a set of numbers, which CHOOSE takes.              *)
LEMMA LeastElement ==
  ASSUME NEW S, S \subseteq Nat, S # {}
  PROVE  \E x \in S : \A y \in S : x <= y
<1>1. PICK x \in S : \A y \in S : <<y, x>> \notin OpToRel(<, Nat)
  BY WFMin, NatLessThanWellFounded
<1>2. \A y \in S : x <= y
  <2> SUFFICES ASSUME NEW y \in S PROVE x <= y
    OBVIOUS
  <2>1. x \in Nat /\ y \in Nat
    OBVIOUS
  <2>2. <<y, x>> \in Nat \X Nat
    BY <2>1
  <2>3. ~(y < x)
    BY <1>1, <2>1, <2>2, Zenon DEF OpToRel
  <2> QED  BY <2>1, <2>3
<1> QED  BY <1>2

LEMMA NewIdIsFree == Free # {} => NewId \in Ids /\ meta[NewId].status = "none"
<1> SUFFICES ASSUME Free # {} PROVE NewId \in Free
  BY DEF Free
<1>1. Free \subseteq Nat
  BY TemplatesAssumption DEF TemplatesAssumption, Free, Ids
<1> QED  BY <1>1, LeastElement DEF NewId

(* resolverCredenciais finds a WABA that the organization may work in.     *)
LEMMA WabaIsOwn ==
  ASSUME TypeInv, NEW o \in Orgs
  PROVE  Waba(o) \in {o, Zaplane, Nobody}
<1> DEFINE active == {k \in DOMAIN channels[o] : channels[o][k].active}
<1>1. CASE active = {}
  BY <1>1 DEF Waba
<1>2. CASE active # {}
  <2>1. active \subseteq Nat
    BY DEF TypeInv, ChannelsType
  <2>2. \E k \in active : \A j \in active : k <= j
    BY <1>2, <2>1, LeastElement
  <2>3. (CHOOSE k \in active : \A j \in active : k <= j) \in active
    BY <2>2
  <2> QED  BY <1>2, <2>3 DEF Waba, TypeInv, ChannelsType
<1> QED  BY <1>1, <1>2

(* Nobody is no WABA, and no template has the name of the platform and of  *)
(* an organization.                                                        *)
LEMMA NamesDiffer ==
  /\ Zaplane \notin Orgs /\ Plain \notin Owners /\ Nobody \notin Owners
  /\ Orgs \subseteq Owners /\ Owners \subseteq Names /\ Zaplane \in Owners /\ Plain \in Names
  /\ NoId \notin Ids /\ 1 \in Ids
BY TemplatesAssumption DEF TemplatesAssumption, Owners, Names, NoId, Ids
-----------------------------------------------------------------------------
(* Meta changes the status of what it holds, and nothing else of it.       *)
MetaGrows ==
  \A i \in Ids : Was(i) =>
    meta'[i].status # "none" /\ meta'[i].name = meta[i].name /\ meta'[i].waba = meta[i].waba

LEMMA AddGrows ==
  ASSUME TypeInv, NEW w \in Owners, NEW n \in Names, Free # {}, Add(w, n)
  PROVE  /\ MetaType' /\ MetaGrows
         /\ NewId \in Ids /\ meta'[NewId] = [waba |-> w, name |-> n, status |-> "PENDING"]
<1>1. NewId \in Ids /\ meta[NewId].status = "none"
  BY NewIdIsFree
<1>2. meta' = [meta EXCEPT ![NewId] = [waba |-> w, name |-> n, status |-> "PENDING"]]
  BY DEF Add
<1>3. [waba |-> w, name |-> n, status |-> "PENDING"] \in Template
  BY DEF Template, Known
<1>4. meta'[NewId] = [waba |-> w, name |-> n, status |-> "PENDING"]
      /\ \A i \in Ids : i # NewId => meta'[i] = meta[i]
  BY <1>1, <1>2 DEF TypeInv, MetaType
<1>5. MetaType'
  BY <1>1, <1>2, <1>3, <1>4 DEF TypeInv, MetaType
<1> QED  BY <1>1, <1>4, <1>5 DEF MetaGrows, Was

LEMMA StatusGrows ==
  ASSUME TypeInv, NEW i \in Ids, Was(i), NEW s \in Known \cup {"deleted"},
         meta' = [meta EXCEPT ![i].status = s]
  PROVE  MetaType' /\ MetaGrows
<1>1. meta' \in [Ids -> Template]
  BY DEF TypeInv, MetaType, Template
<1>2. \A j \in Ids : /\ meta'[j].name = meta[j].name /\ meta'[j].waba = meta[j].waba
                     /\ meta'[j].status # "none" <=> Was(j)
  BY DEF TypeInv, MetaType, Template, Was, Known
<1> QED  BY <1>1, <1>2 DEF TypeInv, MetaType, MetaGrows, Was

(* What handlers have read and rows track stays true while Meta grows.     *)
LEMMA FitsGrow ==
  ASSUME TypeInv, MetaGrows, NEW r, Fits(r),
         r.pc = "record" => r.id \in Ids
  PROVE  Fits(r)'
BY DEF Fits, MetaGrows, Tracks, Was

LEMMA RowsGrow ==
  ASSUME OwnedInv, MetaGrows, UNCHANGED <<row, legacy>>
  PROVE  RowsFit'
BY DEF OwnedInv, RowsFit, MetaGrows, Tracks, Was

(* A step of one handler, to r, while Meta grows.                          *)
LEMMA HandlerMoves ==
  ASSUME OwnedInv, MetaGrows, NEW h \in Handlers, NEW r \in HandlerRecord,
         Fits(r)', handler' = [handler EXCEPT ![h] = r]
  PROVE  HandlerType' /\ HandlersFit'
<1>1. HandlerType' /\ handler'[h] = r /\ \A g \in Handlers \ {h} : handler'[g] = handler[g]
  BY DEF OwnedInv, TypeInv, HandlerType
<1>2. \A g \in Handlers \ {h} : Fits(handler[g])'
  <2> SUFFICES ASSUME NEW g \in Handlers \ {h} PROVE Fits(handler[g])'
    OBVIOUS
  <2>1. Fits(handler[g]) /\ handler'[g] = handler[g]
    BY <1>1 DEF OwnedInv, HandlersFit
  <2> QED  BY <2>1 DEF Fits, Tracks, Was, MetaGrows
<1>3. Fits(handler[h])'
  BY <1>1 DEF Fits, Tracks, Was
<1> QED  BY <1>1, <1>2, <1>3 DEF HandlersFit

LEMMA IdleFits == NoHandler \in HandlerRecord /\ Fits(NoHandler) /\ Fits(NoHandler)'
BY DEF NoHandler, HandlerRecord, Fits

(* A step that leaves Meta alone lets it grow.                             *)
LEMMA MetaKept == UNCHANGED meta => MetaGrows /\ (MetaType => MetaType')
BY DEF MetaGrows, Was, MetaType
-----------------------------------------------------------------------------
LEMMA OwnedInit == Init => OwnedInv
<1> SUFFICES ASSUME Init PROVE OwnedInv
  OBVIOUS
<1> USE DEF Init
<1>1. MetaType
  BY NamesDiffer DEF MetaType, Template, NoTemplate, Known
<1>2. RowType
  BY NamesDiffer DEF RowType, NoRow, Known
<1>3. ChannelsType
  BY DEF ChannelsType, Channel
<1>4. HandlerType /\ HandlersFit
  BY IdleFits DEF HandlerType, HandlersFit
<1>5. RowsFit
  BY DEF RowsFit, NoRow
<1> QED  BY <1>1, <1>2, <1>3, <1>4, <1>5 DEF OwnedInv, TypeInv

(* Manage, Review and Delete: the work of others at Meta.                  *)
LEMMA OwnedMeta ==
  ASSUME OwnedInv, MetaType', MetaGrows, UNCHANGED <<row, channels, handler, legacy>>
  PROVE  OwnedInv'
<1>1. HandlersFit'
  <2> SUFFICES ASSUME NEW g \in Handlers PROVE Fits(handler[g])'
    BY DEF HandlersFit
  <2>1. Fits(handler[g]) /\ handler'[g] = handler[g]
    BY DEF OwnedInv, HandlersFit
  <2> QED  BY <2>1 DEF Fits, Tracks, Was, MetaGrows
<1> QED  BY <1>1, RowsGrow DEF OwnedInv, TypeInv, RowType, ChannelsType, HandlerType

LEMMA OwnedManage ==
  ASSUME OwnedInv,
         \/ \E w \in Owners, n \in Names : Manage(w, n)
         \/ \E i \in Ids : Review(i) \/ Delete(i)
  PROVE  OwnedInv'
<1>1. CASE \E w \in Owners, n \in Names : Manage(w, n)
  BY <1>1, AddGrows, OwnedMeta DEF Manage, OwnedInv
<1>2. ASSUME NEW i \in Ids, Review(i) PROVE OwnedInv'
  BY <1>2, StatusGrows, OwnedMeta DEF Review, OwnedInv, Was, Known
<1>3. ASSUME NEW i \in Ids, Delete(i) PROVE OwnedInv'
  BY <1>3, StatusGrows, OwnedMeta DEF Delete, OwnedInv, Was, Live, Known
<1> QED  BY <1>1, <1>2, <1>3

(* saveChannel keeps the channels of an organization in its WABAs.         *)
LEMMA SavedIsOwn ==
  ASSUME TypeInv, NEW o \in Orgs, NEW w \in {o, Zaplane}
  PROVE  /\ Saved(channels[o], w) \in Seq(Channel)
         /\ \A k \in DOMAIN Saved(channels[o], w) : Saved(channels[o], w)[k].waba \in {o, Zaplane}
<1> DEFINE list == channels[o]
<1>1. list \in Seq(Channel) /\ DOMAIN list = 1 .. Len(list) /\ Len(list) \in Nat
      /\ \A k \in DOMAIN list : list[k] \in Channel /\ list[k].waba \in {o, Zaplane}
  BY DEF TypeInv, ChannelsType
<1>2. [waba |-> w, active |-> TRUE] \in Channel
  BY NamesDiffer DEF Channel
<1>3. CASE \E k \in DOMAIN list : list[k].waba = w
  <2> DEFINE saved == [k \in DOMAIN list |-> IF list[k].waba = w THEN [list[k] EXCEPT !.active = TRUE]
                                             ELSE list[k]]
  <2>1. Saved(list, w) = saved
    BY <1>3 DEF Saved
  <2>2. \A k \in 1 .. Len(list) : saved[k] \in Channel /\ saved[k].waba \in {o, Zaplane}
    BY <1>1 DEF Channel
  <2>3. saved \in [1 .. Len(list) -> Channel] /\ DOMAIN saved = DOMAIN list
    BY <1>1, <2>2
  <2>4. saved \in Seq(Channel)
    BY <1>1, <2>3, SeqDef
  <2> QED  BY <1>1, <2>1, <2>2, <2>3, <2>4
<1>4. CASE ~\E k \in DOMAIN list : list[k].waba = w
  <2>1. Saved(list, w) = Append(list, [waba |-> w, active |-> TRUE])
    BY <1>4 DEF Saved
  <2> QED  BY <1>1, <1>2, <2>1
<1> QED  BY <1>3, <1>4

LEMMA OwnedConnected ==
  ASSUME OwnedInv, NEW h \in Handlers, NEW o \in Orgs, NEW w \in {o, Zaplane}, Connected(h, o, w)
  PROVE  OwnedInv'
<1> DEFINE r == [NoHandler EXCEPT !.pc = "read", !.org = o]
<1>1. UNCHANGED <<meta, row, legacy>> /\ channels' = [channels EXCEPT ![o] = Saved(@, w)]
      /\ handler' = [handler EXCEPT ![h] = r]
  BY DEF Connected
<1>2. r \in HandlerRecord /\ Fits(r)'
  BY DEF NoHandler, HandlerRecord, Fits
<1>3. ChannelsType'
  <2>1. channels' \in [Orgs -> Seq(Channel)] /\ channels'[o] = Saved(channels[o], w)
        /\ \A p \in Orgs \ {o} : channels'[p] = channels[p]
    BY <1>1, SavedIsOwn DEF OwnedInv, TypeInv, ChannelsType
  <2> QED  BY <2>1, SavedIsOwn DEF OwnedInv, TypeInv, ChannelsType
<1>4. MetaType' /\ MetaGrows
  BY <1>1, MetaKept DEF OwnedInv, TypeInv
<1>5. HandlerType' /\ HandlersFit'
  BY <1>1, <1>2, <1>4, HandlerMoves
<1> QED  BY <1>1, <1>3, <1>4, <1>5, RowsGrow DEF OwnedInv, TypeInv, RowType

LEMMA OwnedDisconnect ==
  ASSUME OwnedInv, NEW o \in Orgs, NEW k \in DOMAIN channels[o], Disconnect(o, k)
  PROVE  OwnedInv'
<1>1. UNCHANGED <<meta, row, handler, legacy>> /\ channels' = [channels EXCEPT ![o][k].active = FALSE]
  BY DEF Disconnect
<1>2. /\ channels' \in [Orgs -> Seq(Channel)] /\ DOMAIN channels'[o] = DOMAIN channels[o]
      /\ \A j \in DOMAIN channels[o] : channels'[o][j].waba = channels[o][j].waba
      /\ \A p \in Orgs \ {o} : channels'[p] = channels[p]
  <2> DEFINE list == [channels[o] EXCEPT ![k] = [@ EXCEPT !.active = FALSE]]
  <2>1. channels' = [channels EXCEPT ![o] = list]
    BY <1>1
  <2>2. /\ channels[o] \in [1 .. Len(channels[o]) -> Channel] /\ Len(channels[o]) \in Nat
        /\ DOMAIN channels[o] = 1 .. Len(channels[o])
    BY SeqDef DEF OwnedInv, TypeInv, ChannelsType
  <2>3. [channels[o][k] EXCEPT !.active = FALSE] \in Channel
        /\ [channels[o][k] EXCEPT !.active = FALSE].waba = channels[o][k].waba
    BY <2>2 DEF Channel
  <2>4. /\ list \in [1 .. Len(channels[o]) -> Channel]
        /\ \A j \in DOMAIN channels[o] : list[j].waba = channels[o][j].waba
    BY <2>2, <2>3
  <2>5. list \in Seq(Channel) /\ DOMAIN list = DOMAIN channels[o]
    BY <2>2, <2>4, SeqDef
  <2> QED  BY <2>1, <2>4, <2>5 DEF OwnedInv, TypeInv, ChannelsType
<1>3. ChannelsType'
  BY <1>2 DEF OwnedInv, TypeInv, ChannelsType
<1>4. HandlersFit'
  BY <1>1 DEF OwnedInv, HandlersFit, Fits, Tracks, Was
<1> QED  BY <1>1, <1>3, <1>4, MetaKept, RowsGrow DEF OwnedInv, TypeInv, RowType, HandlerType

(* What a handler reads at Meta is there, in a WABA of its organization.   *)
LEMMA OwnedReads ==
  ASSUME OwnedInv, NEW h \in Handlers, NEW o \in Orgs, Reads(h, o),
         UNCHANGED <<meta, row, channels, legacy>>
  PROVE  OwnedInv'
<1> DEFINE w == Waba(o)
           there == {j \in Ids : Live(j) /\ meta[j].waba = w}
           read == {[id |-> i, name |-> meta[i].name, status |-> meta[i].status] : i \in there}
           r == [NoHandler EXCEPT !.pc = "apply", !.org = o, !.waba = w, !.remotos = read]
<1>1. MetaType' /\ MetaGrows
  BY MetaKept DEF OwnedInv, TypeInv
<1>2. HandlerType' /\ HandlersFit'
  <2>1. CASE read = {}
    <3>1. handler' = [handler EXCEPT ![h] = NoHandler]
      BY <2>1 DEF Reads
    <3> QED  BY <1>1, <3>1, IdleFits, HandlerMoves
  <2>2. CASE read # {}
    <3>1. handler' = [handler EXCEPT ![h] = r]
      BY <2>2 DEF Reads
    <3>2. \A i \in there : i \in Ids /\ meta[i] \in Template /\ meta[i].status \in Known
                           /\ meta[i].waba = w /\ w \in Owners
      BY DEF Live, OwnedInv, TypeInv, MetaType, Known
    <3>3. w \in {o, Zaplane}
      BY <2>2, <3>2, WabaIsOwn, NamesDiffer DEF OwnedInv
    <3>4. read \in SUBSET [id : Ids, name : Names, status : Known]
      BY <3>2 DEF Template
    <3>5. r \in HandlerRecord
      BY <3>3, <3>4, NamesDiffer DEF NoHandler, HandlerRecord
    <3>6. \A q \in read : Was(q.id) /\ meta[q.id].name = q.name /\ meta[q.id].waba = w
      BY <3>2 DEF Was, Known
    <3>7. r.pc = "apply" /\ r.org = o /\ r.waba = w /\ r.remotos = read
      BY DEF NoHandler
    <3>8. Fits(r)
      BY <3>3, <3>6, <3>7 DEF Fits
    <3>9. PICK s \in HandlerRecord : Fits(s) /\ handler' = [handler EXCEPT ![h] = s]
      BY <3>1, <3>5, <3>8
    <3>10. Fits(s)'
      BY <3>9 DEF Fits, Tracks, Was
    <3> QED  BY <1>1, <3>9, <3>10, HandlerMoves
  <2> QED  BY <2>1, <2>2
<1> QED  BY <1>1, <1>2, RowsGrow DEF OwnedInv, TypeInv, RowType, ChannelsType

LEMMA OwnedSync ==
  ASSUME OwnedInv, NEW h \in Handlers, SyncConnected(h) \/ \E o \in Orgs : Sync(h, o)
  PROVE  OwnedInv'
<1>1. CASE SyncConnected(h)
  <2>1. handler[h].org \in Orgs
    BY <1>1 DEF SyncConnected, OwnedInv, HandlersFit, Fits
  <2> QED  BY <1>1, <2>1, OwnedReads DEF SyncConnected, bounds
<1>2. CASE \E o \in Orgs : Sync(h, o)
  BY <1>2, OwnedReads DEF Sync, bounds
<1> QED  BY <1>1, <1>2

(* A step that changes handlers and rows alone.                            *)
LEMMA OwnedSteps ==
  ASSUME OwnedInv, NEW h \in Handlers, NEW r \in HandlerRecord, Fits(r),
         handler' = [handler EXCEPT ![h] = r], UNCHANGED <<meta, channels, legacy>>,
         RowType', RowsFit'
  PROVE  OwnedInv'
<1>1. MetaType' /\ MetaGrows
  BY MetaKept DEF OwnedInv, TypeInv
<1>2. Fits(r)'
  BY DEF Fits, Tracks, Was
<1> QED  BY <1>1, <1>2, HandlerMoves DEF OwnedInv, TypeInv, ChannelsType

LEMMA RowsKept == OwnedInv /\ UNCHANGED <<meta, row, legacy>> => RowType' /\ RowsFit'
BY DEF OwnedInv, TypeInv, RowType, RowsFit, Tracks, Was

(* One row changes, to one that fits.                                      *)
LEMMA RowChanges ==
  ASSUME OwnedInv, UNCHANGED <<meta, legacy>>, NEW o \in Owners, NEW n \in Names,
         NEW id \in Ids \cup {NoId}, NEW status \in Known \cup {"none"},
         row' = [row EXCEPT ![<<o, n>>] = [id |-> id, status |-> status]],
         status # "none" \/ id # NoId => n = o \/ (n = Plain /\ o \in legacy),
         id # NoId /\ n # Plain => Tracks(id, o)
  PROVE  RowType' /\ RowsFit'
<1>1. row[<<o, n>>] \in [id : Ids \cup {NoId}, status : Known \cup {"none"}]
  BY DEF OwnedInv, TypeInv, RowType
<1>2. RowType'
  BY DEF OwnedInv, TypeInv, RowType
<1>3. row'[<<o, n>>] = [id |-> id, status |-> status]
      /\ \A k \in Owners \X Names : k # <<o, n>> => row'[k] = row[k]
  BY DEF OwnedInv, TypeInv, RowType
<1>4. \A k \in Owners \X Names :
        /\ row'[k].status # "none" \/ row'[k].id # NoId => k[2] = k[1] \/ (k[2] = Plain /\ k[1] \in legacy)
        /\ row'[k].id # NoId /\ k[2] # Plain => Tracks(row'[k].id, k[1])
  <2> SUFFICES ASSUME NEW k \in Owners \X Names
               PROVE  /\ row'[k].status # "none" \/ row'[k].id # NoId
                           => k[2] = k[1] \/ (k[2] = Plain /\ k[1] \in legacy)
                      /\ row'[k].id # NoId /\ k[2] # Plain => Tracks(row'[k].id, k[1])
    OBVIOUS
  <2>1. CASE k = <<o, n>>
    <3>1. k[1] = o /\ k[2] = n
      BY <2>1
    <3>2. row'[k].id = id /\ row'[k].status = status
      BY <1>3, <2>1
    <3> QED  BY <3>1, <3>2
  <2>2. CASE k # <<o, n>>
    BY <1>3, <2>2 DEF OwnedInv, RowsFit
  <2> QED  BY <2>1, <2>2
<1>5. RowsFit'
  BY <1>4 DEF RowsFit, Tracks, Was
<1> QED  BY <1>2, <1>5

(* sync updates a row that tracks a template, or adopts a template that    *)
(* bears the prefix of its owner.                                          *)
LEMMA OwnedApply ==
  ASSUME OwnedInv, NEW h \in Handlers, NEW q \in handler[h].remotos, Apply(h, q)
  PROVE  OwnedInv'
<1> DEFINE r == handler[h]
<1>1. /\ r \in HandlerRecord /\ r.pc = "apply" /\ Fits(r)
      /\ UNCHANGED <<meta, channels, legacy>>
  BY DEF Apply, OwnedInv, TypeInv, HandlerType, HandlersFit, bounds
<1>2. /\ q.id \in Ids /\ q.name \in Names /\ q.status \in Known
      /\ Was(q.id) /\ meta[q.id].name = q.name /\ meta[q.id].waba = r.waba
      /\ r.org \in Orgs /\ r.waba \in {r.org, Zaplane}
  BY <1>1 DEF HandlerRecord, Fits
<1>3. RowType' /\ RowsFit'
  <2>1. CASE UNCHANGED row
    BY <1>1, <2>1, RowsKept
  <2>2. ASSUME NEW k \in Tracking(q.id), row' = [row EXCEPT ![k].status = q.status]
        PROVE  RowType' /\ RowsFit'
    <3>1. /\ k \in Owners \X Names /\ row[k].id = q.id
          /\ row[k] \in [id : Ids \cup {NoId}, status : Known \cup {"none"}]
      BY DEF Tracking, OwnedInv, TypeInv, RowType
    <3>2. PICK o \in Owners, n \in Names : k = <<o, n>>
      BY <3>1
    <3>3. row' = [row EXCEPT ![<<o, n>>] = [id |-> q.id, status |-> q.status]]
      <4>1. [row[k] EXCEPT !.status = q.status] = [id |-> q.id, status |-> q.status]
        BY <3>1
      <4>2. row' = [row EXCEPT ![k] = [row[k] EXCEPT !.status = q.status]]
        BY <2>2
      <4> QED  BY <3>2, <4>1, <4>2
    <3>4. q.id # NoId
      BY <1>2, NamesDiffer
    <3>5. n = o \/ (n = Plain /\ o \in legacy)
      BY <3>1, <3>2, <3>4 DEF OwnedInv, RowsFit
    <3>6. n # Plain => Tracks(q.id, o)
      BY <3>1, <3>2, <3>4 DEF OwnedInv, RowsFit
    <3> QED  BY <1>1, <1>2, <3>3, <3>5, <3>6, RowChanges
  <2>3. ASSUME NEW o \in {Zaplane, r.org}, o = q.name, o = Zaplane => r.waba = Zaplane,
               row' = [row EXCEPT ![<<o, q.name>>] = [id |-> q.id, status |-> q.status]]
        PROVE  RowType' /\ RowsFit'
    <3>1. o \in Owners
      BY <1>2, NamesDiffer
    <3>2. Tracks(q.id, o)
      BY <1>2, <2>3 DEF Tracks
    <3> QED  BY <1>1, <1>2, <2>3, <3>1, <3>2, RowChanges
  <2>4. CASE Tracking(q.id) = {}
    <3> DEFINE o == IF DaPlataforma(h, q.name) THEN Zaplane ELSE r.org
    <3>1. CASE row' = row
      BY <2>1, <3>1
    <3>2. CASE row' # row
      <4>1. /\ DaPlataforma(h, q.name) \/ DaOrg(h, q.name)
            /\ row' = [row EXCEPT ![<<o, q.name>>] = [id |-> q.id, status |-> q.status]]
        BY <2>4, <3>2 DEF Apply
      <4>2. o = q.name /\ (o = Zaplane => r.waba = Zaplane)
        BY <4>1, <1>2, NamesDiffer DEF DaPlataforma, DaOrg
      <4>3. o \in {Zaplane, r.org}
        OBVIOUS
      <4> QED  BY <2>3, <4>1, <4>2, <4>3
    <3> QED  BY <3>1, <3>2
  <2>5. CASE \E k \in Tracking(q.id) : row' \in {row, [row EXCEPT ![k].status = q.status]}
    BY <2>1, <2>2, <2>5
  <2> QED  BY <2>4, <2>5 DEF Apply
<1>4. CASE r.remotos = {q}
  BY <1>1, <1>3, <1>4, IdleFits, OwnedSteps DEF Apply, Done
<1>5. CASE r.remotos # {q}
  <2> DEFINE s == [r EXCEPT !.remotos = r.remotos \ {q}]
  <2>1. handler' = [handler EXCEPT ![h] = s]
    BY <1>5 DEF Apply
  <2>2. s \in HandlerRecord /\ Fits(s)
    BY <1>1 DEF HandlerRecord, Fits
  <2> QED  BY <1>1, <1>3, <2>1, <2>2, OwnedSteps
<1> QED  BY <1>4, <1>5

LEMMA OwnedCreate ==
  ASSUME OwnedInv, NEW h \in Handlers, NEW o \in Orgs, NEW owner \in Owners, Create(h, o, owner)
  PROVE  OwnedInv'
<1>1. PICK r \in HandlerRecord : Fits(r) /\ handler' = [handler EXCEPT ![h] = r]
  <2> DEFINE r == [NoHandler EXCEPT !.pc = "insert", !.org = o, !.owner = owner]
  <2>1. r \in HandlerRecord /\ Fits(r)
    BY DEF Create, NoHandler, HandlerRecord, Fits
  <2>2. handler' = [handler EXCEPT ![h] = r]
    BY DEF Create
  <2> QED  BY <2>1, <2>2
<1> QED  BY <1>1, RowsKept, OwnedSteps DEF Create, bounds

LEMMA OwnedInsert ==
  ASSUME OwnedInv, NEW h \in Handlers, Insert(h)
  PROVE  OwnedInv'
<1> DEFINE r == handler[h]
           o == handler[h].owner
<1>1. /\ r \in HandlerRecord /\ r.pc = "insert" /\ Fits(r)
      /\ UNCHANGED <<meta, channels, legacy>>
  BY DEF Insert, OwnedInv, TypeInv, HandlerType, HandlersFit, bounds
<1>2. o \in Owners
  BY <1>1, NamesDiffer DEF Fits
<1>3. CASE Exists(o, o)
  BY <1>1, <1>3, IdleFits, RowsKept, OwnedSteps DEF Insert, Done
<1>4. CASE ~Exists(o, o)
  <2>1. row' = [row EXCEPT ![<<o, o>>] = [id |-> NoId, status |-> "PENDING"]]
    BY <1>4 DEF Insert
  <2>2. RowType' /\ RowsFit'
    BY <1>1, <1>2, <2>1, NamesDiffer, RowChanges DEF Known
  <2>3. [r EXCEPT !.pc = "submit"] \in HandlerRecord /\ Fits([r EXCEPT !.pc = "submit"])
    BY <1>1 DEF HandlerRecord, Fits
  <2>4. handler' = [handler EXCEPT ![h] = [r EXCEPT !.pc = "submit"]]
    BY <1>4 DEF Insert, To
  <2> QED  BY <1>1, <2>2, <2>3, <2>4, OwnedSteps
<1> QED  BY <1>3, <1>4

(* submitToMeta adds a template with the prefix of its owner, to a WABA    *)
(* that the owner may send in.                                             *)
LEMMA OwnedSubmit ==
  ASSUME OwnedInv, NEW h \in Handlers, Submit(h)
  PROVE  OwnedInv'
<1> DEFINE r == handler[h]
           w == Waba(handler[h].org)
           o == handler[h].owner
<1>1. /\ r \in HandlerRecord /\ r.pc = "submit" /\ Fits(r)
      /\ UNCHANGED <<row, channels, legacy>>
  BY DEF Submit, OwnedInv, TypeInv, HandlerType, HandlersFit, bounds
<1>2. r.org \in Orgs /\ o \in {r.org, Zaplane} /\ o \in Owners
  BY <1>1, NamesDiffer DEF Fits
<1>3. CASE UNCHANGED meta /\ Done(h)
  BY <1>1, <1>3, IdleFits, RowsKept, OwnedSteps DEF Done
<1>4. CASE Submits(h, w) /\ ~Held(w, o)
  <2>1. /\ Free # {} /\ Add(w, o)
        /\ handler' = [handler EXCEPT ![h].pc = "record", ![h].id = NewId]
    BY <1>4 DEF Submit
  <2>2. w \in {o, Zaplane} /\ w \in Owners
    BY <1>2, <1>4, WabaIsOwn, NamesDiffer DEF Submits, OwnedInv
  <2>3. /\ MetaType' /\ MetaGrows
        /\ NewId \in Ids /\ meta'[NewId] = [waba |-> w, name |-> o, status |-> "PENDING"]
    BY <1>2, <2>1, <2>2, AddGrows, NamesDiffer DEF OwnedInv
  <2>4. PICK s \in HandlerRecord : /\ s = [r EXCEPT !.pc = "record", !.id = NewId]
                                   /\ handler' = [handler EXCEPT ![h] = s]
    <3>1. [r EXCEPT !.pc = "record", !.id = NewId] \in HandlerRecord
      BY <1>1, <2>3 DEF HandlerRecord
    <3> QED  BY <2>1, <3>1
  <2>5. s.pc = "record" /\ s.id = NewId /\ s.org = r.org /\ s.owner = o
    BY <1>1, <2>4 DEF HandlerRecord
  <2>6. Tracks(s.id, s.owner)'
    BY <2>2, <2>3, <2>5 DEF Tracks, Was
  <2>7. Fits(s)'
    BY <1>2, <2>5, <2>6 DEF Fits
  <2> QED  BY <1>1, <2>3, <2>4, <2>7, HandlerMoves, RowsGrow DEF OwnedInv, TypeInv, RowType, ChannelsType
<1> QED  BY <1>3, <1>4 DEF Submit

LEMMA OwnedRecord ==
  ASSUME OwnedInv, NEW h \in Handlers, Record(h)
  PROVE  OwnedInv'
<1> DEFINE o == handler[h].owner
           k == <<handler[h].owner, handler[h].owner>>
<1>1. /\ handler[h] \in HandlerRecord /\ handler[h].pc = "record" /\ Fits(handler[h])
      /\ UNCHANGED <<meta, channels, legacy>>
  BY DEF Record, OwnedInv, TypeInv, HandlerType, HandlersFit, bounds
<1>2. o \in Owners /\ o \in Names /\ Tracks(handler[h].id, o)
  BY <1>1, NamesDiffer DEF Fits
<1>3. row' = [row EXCEPT ![k] = [id |-> handler[h].id, status |-> row[k].status]]
      /\ row[k].status \in Known \cup {"none"}
  <2>1. row[k] \in [id : Ids \cup {NoId}, status : Known \cup {"none"}]
    BY <1>2 DEF OwnedInv, TypeInv, RowType
  <2>2. [row[k] EXCEPT !.id = handler[h].id] = [id |-> handler[h].id, status |-> row[k].status]
    BY <2>1
  <2>3. row' = [row EXCEPT ![k] = [row[k] EXCEPT !.id = handler[h].id]]
    BY DEF Record
  <2> QED  BY <2>1, <2>2, <2>3
<1>4. RowType' /\ RowsFit'
  BY <1>1, <1>2, <1>3, RowChanges DEF Tracks, Was
<1> QED  BY <1>1, <1>4, IdleFits, OwnedSteps DEF Record, Done

LEMMA OwnedDie ==
  ASSUME OwnedInv, NEW h \in Handlers, Die(h)
  PROVE  OwnedInv'
BY IdleFits, RowsKept, OwnedSteps DEF Die, Done

LEMMA OwnedStep == OwnedInv /\ [Next]_vars => OwnedInv'
<1> SUFFICES ASSUME OwnedInv, [Next]_vars PROVE OwnedInv'
  OBVIOUS
<1>1. CASE UNCHANGED vars
  BY <1>1, OwnedMeta, MetaKept DEF vars, bounds, OwnedInv, TypeInv
<1>2. CASE Next
  <2>1. ASSUME NEW h \in Handlers, NEW o \in Orgs,
               EsExchange(h, o) \/ \E w \in Owners : ConnectManual(h, o, w)
        PROVE  OwnedInv'
    BY <2>1, OwnedConnected DEF EsExchange, ConnectManual
  <2> QED
    BY <1>2, <2>1, OwnedManage, OwnedSync, OwnedDisconnect, OwnedCreate, OwnedInsert, OwnedSubmit,
       OwnedRecord, OwnedDie, OwnedApply DEF Next
<1> QED  BY <1>1, <1>2

LEMMA OwnedAlways == Spec => []OwnedInv
BY OwnedInit, OwnedStep, PTL DEF Spec

(* The type invariant of the module, for every number of organizations,    *)
(* calls and templates.                                                    *)
THEOREM TypeCorrect == Spec => []TypeOK
<1>1. OwnedInv => TypeOK
  BY DEF OwnedInv, TypeInv, MetaType, Template, RowType, TypeOK
<1> QED  BY <1>1, OwnedAlways, PTL

(* Whoever shares a WABA, sync and create give an organization rows of its *)
(* own prefix only, but for those of before migration 014, and a row       *)
(* tracks a template of its name in a WABA that its owner sends in.        *)
THEOREM RowsAreOwnedAlways == Spec => []RowsAreOwned
<1>1. OwnedInv => RowsAreOwned
  <2> SUFFICES ASSUME OwnedInv PROVE RowsAreOwned
    OBVIOUS
  <2>1. DOMAIN row = Owners \X Names
    BY DEF OwnedInv, TypeInv, RowType
  <2> QED  BY <2>1 DEF OwnedInv, RowsFit, RowsAreOwned, Tracks
<1> QED  BY <1>1, OwnedAlways, PTL
=============================================================================
