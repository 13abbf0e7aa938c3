----------------------------- MODULE Connection ----------------------------
(***************************************************************************)
(* The assisted connection of a number: the wizard                         *)
(* (ConectarNumeroWizard.jsx), the service (assisted.service.ts) with the  *)
(* unique indexes of migration 013, and the report of orphan numbers       *)
(* (reconciliacao.service.ts).                                             *)
(*                                                                         *)
(* A handler awaits Meta and the database at each of its steps, and its    *)
(* last writes are by id, whatever the request has become meanwhile.  A    *)
(* wizard waits for one handler, but nothing makes the calls of an         *)
(* organization wait for each other: the screen of the model is that of    *)
(* the tab that calls next, which another tab or user may take over at any *)
(* time, as it is after a reload or a lost answer.  A slot of Meta is      *)
(* taken when the number is added, and does not come back.  The checks of  *)
(* iniciar are one step: what races is what they saw with the writes that  *)
(* come after.  A channel may also be connected by hand                    *)
(* (channels.service.ts), with no check of the number but that it can be   *)
(* read.  The 24 hours of the limits do not pass; the minute between two   *)
(* codes does, at any time.                                                *)
(***************************************************************************)
EXTENDS Integers, FiniteSets

CONSTANTS
  Orgs,         (* organizations                                            *)
  Phones,       (* numbers, and their phone_number_id at Meta               *)
  Handlers,     (* calls of the API in progress                             *)
  Nobody,       (* no organization and no handler                           *)
  Requests,     (* ids of channel_connection_requests                       *)
  MaxCodes,     (* MAX_TENTATIVAS_CODIGO                                    *)
  MaxSms,       (* MAX_SMS_24H                                              *)
  MaxBurned,    (* maxBurnedSlots24h                                        *)
  PhoneCap,     (* phoneCap                                                 *)
  MaxSurprises  (* bound: calls left to another tab, answers of Meta lost,  *)
                (* handlers that die and numbers connected by hand          *)

None       == 0     \* no PIN, no request

ASSUME ConnectionAssumption ==
  /\ None \notin Requests /\ Nobody \notin Orgs \cup Phones \cup Handlers
  /\ IsFiniteSet(Requests) /\ IsFiniteSet(Phones) /\ IsFiniteSet(Handlers)
  /\ {MaxCodes, MaxSms, MaxBurned, PhoneCap} \subseteq Nat \ {0} /\ MaxSurprises \in Nat

VARIABLES
  req,          (* channel_connection_requests                              *)
  channel,      (* the row of whatsapp_channels of each phone               *)
  number,       (* Meta: who added the phone, if verified, and its PIN      *)
  handler,      (* pc, and what the handler has read                        *)
  screen,       (* the wizard: step, request, and the handler it waits for  *)
  \* history
  tries,        (* codes that Meta refused for each request                 *)
  sms,          (* codes that Meta sent for each request                    *)
  raced,        (* two verifications of one request overlapped              *)
  slips,        (* calls left, answers lost and handlers that died          *)
  failed        (* one of them was not a call left to another tab           *)

rows    == <<req, channel>>
history == <<tries, sms, raced, slips, failed>>
vars    == <<rows, number, handler, screen, history>>

Pins       == {1, 2}
NoRow      == [org |-> Nobody, phone |-> Nobody, status |-> "none", pnid |-> FALSE,
               attempts |-> 0, codes |-> 0, verified |-> FALSE, pin |-> None]
NoChannel  == [org |-> Nobody, pin |-> None, active |-> FALSE]
NoNumber   == [org |-> Nobody, verified |-> FALSE, pin |-> None]
NoHandler  == [pc |-> "idle", org |-> Nobody, phone |-> Nobody, id |-> None,
               attempts |-> 0, pin |-> None, warned |-> FALSE]

Alive(i)       == req[i].status \in {"criando", "aguardando_codigo"}
AliveOf(o)     == {i \in Requests : Alive(i) /\ req[i].org = o}
AliveWith(n)   == {i \in Requests : Alive(i) /\ req[i].phone = n}
Phone(h)       == handler[h].phone
Owner(h)       == handler[h].org

\* Numbers connected by hand.
ByHand == {n \in Phones : channel[n].org # Nobody /\ channel[n].pin = None}

MoreSurprises == slips + Cardinality(ByHand) < MaxSurprises

\* A call beside another, and one that goes wrong.
Slip  == MoreSurprises /\ slips' = slips + 1
Fault == Slip /\ failed' = TRUE

Start(h, pc, o, n, i) ==
  handler' = [handler EXCEPT ![h] =
    [NoHandler EXCEPT !.pc = pc, !.org = o, !.phone = n, !.id = i]]
To(h, pc)  == handler' = [handler EXCEPT ![h].pc = pc]
Done(h)    == handler' = [handler EXCEPT ![h] = NoHandler]

\* The answer reaches the wizard that waits for it.
Reply(h, step) ==
  screen' = [o \in Orgs |-> IF screen[o].busy # h THEN screen[o]
                            ELSE [screen[o] EXCEPT !.busy = Nobody, !.step = step]]
SameStep(h) ==
  screen' = [o \in Orgs |-> IF screen[o].busy # h THEN screen[o]
                            ELSE [screen[o] EXCEPT !.busy = Nobody]]
-----------------------------------------------------------------------------
(* The wizard.                                                             *)

\* abrirSolicitacao: the step that fits the request that is alive.
Open(o) ==
  /\ screen[o].busy = Nobody /\ screen[o].step # "pronto"
  /\ screen' = [screen EXCEPT ![o] =
       IF AliveOf(o) = {} THEN [step |-> "inicio", id |-> None, busy |-> Nobody]
       ELSE LET i == CHOOSE i \in AliveOf(o) : TRUE IN
            [step |-> IF req[i].status = "criando" THEN "preparando" ELSE "codigo",
             id |-> i, busy |-> Nobody]]
  /\ UNCHANGED <<rows, number, handler, history>>

\* The tab waits for no call; those of other tabs may be in progress.
Free(o, h, steps) ==
  /\ screen[o].busy = Nobody /\ screen[o].step \in steps
  /\ handler[h].pc = "idle"

Gone(o) ==
  /\ screen' = [screen EXCEPT ![o] = [step |-> "inicio", id |-> None, busy |-> Nobody]]
  /\ UNCHANGED <<rows, number, handler, history>>

\* Another tab or user calls while the call is in progress, or its answer does
\* not come: the wizard shows an error, or starts over if it canceled.
Leave(o) ==
  /\ screen[o].busy # Nobody /\ Slip
  /\ screen' = [screen EXCEPT ![o].busy = Nobody,
       ![o].step = IF handler[screen[o].busy].pc = "cancel" THEN "inicio" ELSE @]
  /\ UNCHANGED <<rows, number, handler, tries, sms, raced, failed>>

\* The handler dies: a restart, or a database that fails.
Die(h) ==
  /\ handler[h].pc # "idle" /\ Fault
  /\ Done(h) /\ SameStep(h)
  /\ UNCHANGED <<rows, number, tries, sms, raced>>
-----------------------------------------------------------------------------
(* iniciar.                                                                *)

\* Mutant of Burned: only requests that are alive count.
MutBurnedAlive(o) == {i \in AliveOf(o) : req[i].pnid}

\* Slots taken by requests that did not become a channel.
Burned(o) == {i \in Requests : req[i].org = o /\ req[i].pnid /\ req[i].status # "concluida"}

Unused == {i \in Requests : req[i].status = "none"}
NextId == CHOOSE i \in Unused : TRUE

NewRow(o, n, status) ==
  [NoRow EXCEPT !.org = o, !.phone = n, !.status = status]

Taken(o, n) == \E i \in Requests : req[i].phone = n /\ req[i].status = "concluida"
                                   /\ req[i].org # o

\* contarNumeros, against the limit of the WABA.
Full == Cardinality({p \in Phones : number[p].org # Nobody}) >= PhoneCap

\* The checks.  A number that another organization has connected costs a
\* request all the same.
Iniciar(o, h, n) ==
  /\ Unused # {}
  /\ Cardinality(Burned(o)) < MaxBurned
  /\ ~\E p \in Phones : channel[p].org = o /\ channel[p].active
  /\ AliveOf(o) = {}
  /\ IF Taken(o, n)
     THEN /\ req' = [req EXCEPT ![NextId] = NewRow(o, n, "falhou")]
          /\ UNCHANGED <<handler, screen>>
     ELSE /\ ~Full
          /\ Start(h, "insert", o, n, None)
          /\ screen' = [screen EXCEPT ![o].busy = h]
          /\ UNCHANGED req
  /\ UNCHANGED <<channel, number, history>>

Enviar(o, h, n) == Free(o, h, {"inicio"}) /\ Iniciar(o, h, n)

\* Mutant of Indexed: an organization may have two requests alive.
MutIndexedPhoneOnly(h) == AliveWith(Phone(h)) \ {handler[h].id} = {}

\* The partial unique indexes: no other request of the organization or of the
\* number is alive.
Indexed(h) == (AliveOf(Owner(h)) \cup AliveWith(Phone(h))) \ {handler[h].id} = {}

\* The row before Meta; the indexes refuse a second that is alive.
Insert(h) ==
  /\ handler[h].pc = "insert"
  /\ IF Indexed(h) /\ Unused # {}
     THEN /\ req' = [req EXCEPT ![NextId] = NewRow(Owner(h), Phone(h), "criando")]
          /\ handler' = [handler EXCEPT ![h].pc = "add", ![h].id = NextId]
          /\ UNCHANGED screen
     ELSE Done(h) /\ SameStep(h) /\ UNCHANGED req
  /\ UNCHANGED <<channel, number, history>>

\* adicionarNumero: Meta takes a number once.
Add(h) ==
  /\ handler[h].pc = "add" /\ number[Phone(h)].org = Nobody
  /\ number' = [number EXCEPT ![Phone(h)].org = Owner(h)]
  /\ To(h, "update")
  /\ UNCHANGED <<rows, screen, history>>

\* It refuses, or its acceptance is lost.
AddFails(h) ==
  /\ handler[h].pc = "add"
  /\ \/ UNCHANGED <<number, slips, failed>>
     \/ /\ number[Phone(h)].org = Nobody /\ Fault
        /\ number' = [number EXCEPT ![Phone(h)].org = Owner(h)]
  /\ req' = [req EXCEPT ![handler[h].id].status = "falhou"]
  /\ Done(h) /\ SameStep(h)
  /\ UNCHANGED <<channel, tries, sms, raced>>

SmsFailed(row) == [row EXCEPT !.status = "falhou", !.pnid = TRUE]

\* The SMS, and the last write, which may bring a canceled request back to
\* life if no other lives.
Update(h) ==
  /\ handler[h].pc = "update"
  /\ LET i == handler[h].id IN
     \/ /\ Indexed(h)
        /\ req' = [req EXCEPT ![i].pnid = TRUE, ![i].codes = 1,
                               ![i].status = "aguardando_codigo"]
        /\ screen' = [o \in Orgs |-> IF screen[o].busy # h THEN screen[o]
                                     ELSE [step |-> "codigo", id |-> i, busy |-> Nobody]]
     \/ ~Indexed(h) /\ SameStep(h) /\ UNCHANGED req
     \/ req' = [req EXCEPT ![i] = SmsFailed(@)] /\ SameStep(h)
  /\ sms' = [sms EXCEPT ![handler[h].id] = 1]
  /\ Done(h)
  /\ UNCHANGED <<channel, number, tries, raced, slips, failed>>
-----------------------------------------------------------------------------
(* reenviar.                                                               *)

\* The checks, of which the count is read before the code is asked for.
MayResend(i) == req[i].pnid /\ req[i].codes < MaxSms

Reenviar(o, h) ==
  /\ Free(o, h, {"codigo"})
  /\ LET i == screen[o].id IN
     IF ~Alive(i) THEN Gone(o)
     ELSE /\ MayResend(i)
          /\ Start(h, "sms", o, req[i].phone, i)
          /\ screen' = [screen EXCEPT ![o].busy = h]
          /\ UNCHANGED <<rows, number, history>>

\* pedirCodigo.
Sms(h) ==
  /\ handler[h].pc = "sms"
  /\ sms' = [sms EXCEPT ![handler[h].id] = @ + 1]
  /\ To(h, "count")
  /\ UNCHANGED <<rows, number, screen, tries, raced, slips, failed>>

\* A code that was not sent, or was without Meta saying so, is not counted.
SmsFails(h) ==
  /\ handler[h].pc = "sms"
  /\ \/ UNCHANGED <<sms, slips, failed>>
     \/ /\ Fault
        /\ sms' = [sms EXCEPT ![handler[h].id] = @ + 1]
  /\ Done(h) /\ SameStep(h)
  /\ UNCHANGED <<rows, number, tries, raced>>

\* The increment is the database's.
Count(h) ==
  /\ handler[h].pc = "count"
  /\ req' = [req EXCEPT ![handler[h].id].codes = @ + 1]
  /\ Done(h) /\ SameStep(h)
  /\ UNCHANGED <<channel, number, history>>
-----------------------------------------------------------------------------
(* verificar.                                                              *)

Confirmar(o, h) ==
  /\ Free(o, h, {"codigo"})
  /\ LET i == screen[o].id IN
     IF ~Alive(i) THEN Gone(o)
     ELSE /\ req[i].pnid
          /\ handler' = [handler EXCEPT ![h] =
               [pc |-> "check", org |-> req[i].org, phone |-> req[i].phone, id |-> i,
                attempts |-> req[i].attempts, pin |-> req[i].pin, warned |-> FALSE]]
          /\ raced' = (raced \/ \E g \in Handlers : handler[g].id = i /\ handler[g].pc \notin {"cancel", "sms", "count"})
          /\ screen' = [screen EXCEPT ![o].busy = h]
          /\ UNCHANGED <<rows, number, tries, sms, slips, failed>>

NewPin(h) == handler' = [handler EXCEPT ![h].pc = "mark",
               ![h].pin = CHOOSE p \in Pins : p # req[handler[h].id].pin]

\* verificacaoConcluida.
SkipsCode(i) == req[i].verified

\* Mutant of HasPin: every attempt registers with a PIN of its own.
MutHasPinNever(h) == FALSE

\* pinGuardado: the PIN of the copy.
HasPin(h) == handler[h].pin # None

Check(h) ==
  /\ handler[h].pc = "check"
  /\ IF ~SkipsCode(handler[h].id) THEN To(h, "verify")
     ELSE IF HasPin(h) THEN To(h, "register")
     ELSE NewPin(h)
  /\ UNCHANGED <<rows, number, screen, history>>

Verify(h) ==
  /\ handler[h].pc = "verify" /\ ~number[Phone(h)].verified
  /\ number' = [number EXCEPT ![Phone(h)].verified = TRUE]
  /\ NewPin(h)
  /\ UNCHANGED <<rows, screen, history>>

\* A wrong code, or one of a number that is verified already, or an acceptance
\* that is lost: the attempt is charged on top of the copy.
VerifyFails(h) ==
  /\ handler[h].pc = "verify"
  /\ \/ UNCHANGED <<number, slips, failed>>
     \/ /\ ~number[Phone(h)].verified /\ Fault
        /\ number' = [number EXCEPT ![Phone(h)].verified = TRUE]
  /\ LET i == handler[h].id
         attempts == handler[h].attempts + 1 IN
     /\ tries' = [tries EXCEPT ![i] = @ + 1]
     /\ req' = [req EXCEPT ![i].attempts = attempts,
                  ![i].status = IF attempts >= MaxCodes THEN "falhou" ELSE @]
     /\ IF attempts >= MaxCodes THEN Reply(h, "inicio") ELSE SameStep(h)
  /\ Done(h)
  /\ UNCHANGED <<channel, sms, raced>>

\* marcarVerificado.
Mark(h) ==
  /\ handler[h].pc = "mark"
  /\ req' = [req EXCEPT ![handler[h].id].verified = TRUE, ![handler[h].id].pin = handler[h].pin]
  /\ To(h, "register")
  /\ UNCHANGED <<channel, number, screen, history>>

Register(h) ==
  /\ handler[h].pc = "register"
  /\ number' = [number EXCEPT ![Phone(h)].pin = handler[h].pin]
  /\ To(h, "create")
  /\ UNCHANGED <<rows, screen, history>>

\* Mutant of RegisterFailed: the channel is created all the same.
MutRegisterFailedGoesOn(h) == To(h, "create") /\ UNCHANGED screen

\* fecharSeJaExiste, or else the request stays alive.
RegisterFailed(h) ==
  IF channel[Phone(h)].org = Owner(h) THEN To(h, "close") /\ UNCHANGED screen
  ELSE Done(h) /\ SameStep(h)

RegisterFails(h) ==
  /\ handler[h].pc = "register"
  /\ \/ UNCHANGED <<number, slips, failed>>
     \/ /\ Fault
        /\ number' = [number EXCEPT ![Phone(h)].pin = handler[h].pin]
  /\ RegisterFailed(h)
  /\ UNCHANGED <<rows, tries, sms, raced>>

\* A row of the organization is taken for that of an earlier attempt.
CreateChannel(h) ==
  /\ handler[h].pc = "create"
  /\ \/ /\ channel[Phone(h)].org = Nobody
        /\ channel' = [channel EXCEPT ![Phone(h)] =
             [org |-> Owner(h), pin |-> handler[h].pin, active |-> TRUE]]
     \/ channel[Phone(h)].org = Owner(h) /\ UNCHANGED channel
  /\ To(h, "close")
  /\ UNCHANGED <<req, number, screen, history>>

\* A row of another organization ends the request, and the number stays
\* registered at Meta.
CreateRefused(h) ==
  /\ handler[h].pc = "create" /\ channel[Phone(h)].org \notin {Nobody, Owner(h)}
  /\ req' = [req EXCEPT ![handler[h].id].status = "falhou"]
  /\ Done(h) /\ SameStep(h)
  /\ UNCHANGED <<channel, number, history>>

Close(h) ==
  /\ handler[h].pc = "close"
  /\ req' = [req EXCEPT ![handler[h].id].status = "concluida"]
  /\ Done(h) /\ Reply(h, "pronto")
  /\ UNCHANGED <<channel, number, history>>
-----------------------------------------------------------------------------
(* cancelar, and the channels: saveChannel and disconnect.                 *)

\* pedirCancelamento: the wizard warns only if the number is reserved.
Cancelar(o, h) ==
  /\ Free(o, h, {"preparando", "codigo"})
  /\ IF ~Alive(screen[o].id) THEN Gone(o)
     ELSE /\ handler' = [handler EXCEPT ![h] =
               [NoHandler EXCEPT !.pc = "cancel", !.org = o, !.phone = req[screen[o].id].phone,
                                 !.id = screen[o].id, !.warned = screen[o].step = "codigo"]]
          /\ screen' = [screen EXCEPT ![o].busy = h]
          /\ UNCHANGED <<rows, number, history>>

Cancel(h) ==
  /\ handler[h].pc = "cancel"
  /\ req' = [req EXCEPT ![handler[h].id].status = "cancelada"]
  /\ Done(h) /\ Reply(h, "inicio")
  /\ UNCHANGED <<channel, number, history>>

\* A connection by hand or by Embedded Signup makes the row, or takes over that
\* of the organization with the PIN that it keeps.  The global index refuses
\* the number of another.
Manual(o, n) ==
  /\ \/ channel[n].org = o /\ ~channel[n].active
     \/ channel[n].org = Nobody /\ MoreSurprises
  /\ channel' = [channel EXCEPT ![n].org = o, ![n].active = TRUE]
  /\ UNCHANGED <<req, number, handler, screen, history>>

Disconnect(n) ==
  /\ channel[n].active
  /\ channel' = [channel EXCEPT ![n].active = FALSE]
  /\ screen' = [screen EXCEPT ![channel[n].org].step = IF @ = "pronto" THEN "inicio" ELSE @]
  /\ UNCHANGED <<req, number, handler, history>>
-----------------------------------------------------------------------------
(* The report of reconciliacao.service.ts.                                 *)

\* Mutant of Orphan: the requests are not looked at.
MutOrphanChannelsOnly(n) == number[n].org # Nobody /\ channel[n].org = Nobody

\* orfaos: a number at Meta without channel and without a request alive.
Orphan(n) ==
  /\ number[n].org # Nobody /\ channel[n].org = Nobody
  /\ \A i \in AliveWith(n) : ~req[i].pnid
-----------------------------------------------------------------------------
Init ==
  /\ req = [i \in Requests |-> NoRow]
  /\ channel = [n \in Phones |-> NoChannel]
  /\ number = [n \in Phones |-> NoNumber]
  /\ handler = [h \in Handlers |-> NoHandler]
  /\ screen = [o \in Orgs |-> [step |-> "inicio", id |-> None, busy |-> Nobody]]
  /\ tries = [i \in Requests |-> 0] /\ sms = [i \in Requests |-> 0] /\ raced = FALSE
  /\ slips = 0 /\ failed = FALSE

Next ==
  \/ \E o \in Orgs : Open(o) \/ Leave(o)
  \/ \E o \in Orgs, h \in Handlers : \/ Confirmar(o, h) \/ Reenviar(o, h) \/ Cancelar(o, h)
                                     \/ \E n \in Phones : Enviar(o, h, n)
  \/ \E h \in Handlers : \/ Insert(h) \/ Add(h) \/ AddFails(h) \/ Update(h)
                         \/ Sms(h) \/ SmsFails(h) \/ Count(h)
                         \/ Check(h) \/ Verify(h) \/ VerifyFails(h) \/ Mark(h)
                         \/ Register(h) \/ RegisterFails(h) \/ CreateChannel(h)
                         \/ CreateRefused(h) \/ Close(h) \/ Cancel(h) \/ Die(h)
  \/ \E n \in Phones : Disconnect(n) \/ \E o \in Orgs : Manual(o, n)

Spec == Init /\ [][Next]_vars
-----------------------------------------------------------------------------
(* Properties.                                                             *)

\* Every variable keeps its type, and of the requests that are alive no two
\* have the organization or the phone in common, whatever late writes do.
TypeOK ==
  /\ \A i \in Requests : req[i].status \in {"none", "criando", "aguardando_codigo",
                                            "concluida", "falhou", "cancelada"}
  /\ \A o \in Orgs : screen[o].step \in {"inicio", "preparando", "codigo", "pronto"}
  /\ \A o \in Orgs : Cardinality(AliveOf(o)) <= 1
  /\ \A n \in Phones : Cardinality(AliveWith(n)) <= 1

\* What the assisted connection made of migration 013's invariant: the row of a
\* channel that it created, which is the one with a PIN, is of a number that
\* the organization added, verified and registered at Meta, whatever is
\* connected by hand and taken over meanwhile.
ChannelIsReady ==
  \A n \in Phones : channel[n].pin # None =>
    /\ number[n].org = channel[n].org
    /\ number[n].verified /\ number[n].pin # None

\* A number of the report that no handler has a hold of.
Abandoned(n) ==
  Orphan(n) /\ \A h \in Handlers :
    Phone(h) = n => handler[h].pc \in {"insert", "add", "cancel"}

\* A number that the report lists while no handler has a hold of it is lost for
\* good, since Meta does not take it twice: the operator may remove it.  Only
\* a connection by hand takes it off the report.
OrphansStay ==
  [][\A n \in Phones : Abandoned(n) =>
       Abandoned(n)' \/ (channel'[n].org # Nobody /\ channel'[n].pin = None)]_vars

\* Calls of two tabs or users that overlap may each pass a check that the other
\* is about to make false, and a lost answer leaves no record.  But that is all:
\* the slots that an organization takes and that lead nowhere exceed the limit
\* of burned slots, and the codes of a request its own limit, by one for each
\* call that was left to another tab, lost its answer or died.
SlotsBounded ==
  /\ \A o \in Orgs :
       Cardinality({n \in Phones : number[n].org = o /\ Orphan(n)}) <= MaxBurned + slips
  /\ \A i \in Requests : sms[i] <= MaxSms + slips

\* Unless two verifications of one request overlap, Meta sees no more wrong
\* codes than the limit, and the PIN that is kept with the channel is the one
\* that the number was registered with, however often the customer retries.
CodesAndPinAgree ==
  ~raced =>
    /\ \A i \in Requests : tries[i] <= MaxCodes
    /\ \A n \in Phones : channel[n].pin # None => channel[n].pin = number[n].pin

-----------------------------------------------------------------------------
(* What comments of the code say, and TLC refutes.                         *)

\* Migration 013: a row among the channels is a number that is verified,
\* registered and ready to send.
RowMeansReady ==
  \A n \in Phones : channel[n].org # Nobody => number[n].verified /\ number[n].pin # None

\* The comment on the limits of iniciar: counted in the database, they hold for
\* all the users of an organization together.
UsersShareLimits ==
  ~failed =>
    \A o \in Orgs : Cardinality({n \in Phones : number[n].org = o /\ Orphan(n)}) <= MaxBurned

\* The limit of codes, MAX_SMS_24H.
CodesAreLimited == ~failed => \A i \in Requests : sms[i] <= MaxSms

\* The comment on numeroJaReservado: a request in 'criando' has no number at
\* Meta yet, so canceling it costs nothing and needs no warning.
UnwarnedCancelIsFree ==
  \A h \in Handlers :
    handler[h].pc = "cancel" /\ ~handler[h].warned => number[Phone(h)].org # Owner(h)
=============================================================================
