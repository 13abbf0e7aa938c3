--------------------------- MODULE ConnectionProofs ---------------------------
(* The properties of Connection, for every value of its constants.           *)
EXTENDS Connection, FiniteSetTheorems, TLAPS

USE ConnectionAssumption DEF Slip, Fault

-----------------------------------------------------------------------------
(* Types, and what ties a handler and a screen to the request they serve.  *)

Adding  == {"insert", "add", "update"}
Texting == {"sms", "count"}
Closing == {"check", "verify", "mark", "register", "create", "close"}
HasId   == {"add", "update", "cancel"} \cup Texting \cup Closing

Statuses == {"none", "criando", "aguardando_codigo", "concluida", "falhou", "cancelada"}
Row      == [org : Orgs \cup {Nobody}, phone : Phones \cup {Nobody}, status : Statuses,
             pnid : BOOLEAN, attempts : Nat, codes : Nat, verified : BOOLEAN, pin : 0..2]
Channel  == [org : Orgs \cup {Nobody}, pin : 0..2, active : BOOLEAN]
Number   == [org : Orgs \cup {Nobody}, verified : BOOLEAN, pin : 0..2]
Handler  == [pc : {"idle", "insert"} \cup HasId, org : Orgs \cup {Nobody},
             phone : Phones \cup {Nobody}, id : Requests \cup {None}, attempts : Nat,
             pin : 0..2, warned : BOOLEAN]
Screen   == [step : {"inicio", "preparando", "codigo", "pronto"}, id : Requests \cup {None},
             busy : Handlers \cup {Nobody}]

Types ==
  /\ req \in [Requests -> Row]
  /\ channel \in [Phones -> Channel]
  /\ number \in [Phones -> Number]
  /\ handler \in [Handlers -> Handler]
  /\ screen \in [Orgs -> Screen]
  /\ tries \in [Requests -> Nat] /\ sms \in [Requests -> Nat]
  /\ raced \in BOOLEAN /\ slips \in Nat

\* A row that is not used is blank; one that is has an owner and a phone.
RowFits(i) ==
  /\ req[i].status = "none" => req[i] = NoRow /\ tries[i] = 0 /\ sms[i] = 0
  /\ req[i].status # "none" => req[i].org \in Orgs /\ req[i].phone \in Phones

\* A handler works for the owner of its request, on the phone of it.
HandlerFits(h) ==
  /\ handler[h].pc = "idle" => handler[h] = NoHandler
  /\ handler[h].pc # "idle" => Owner(h) \in Orgs /\ Phone(h) \in Phones
  /\ handler[h].pc \in HasId =>
       /\ handler[h].id \in Requests
       /\ req[handler[h].id].status # "none"
       /\ req[handler[h].id].org = Owner(h) /\ req[handler[h].id].phone = Phone(h)
  /\ handler[h].pc = "insert" => handler[h].id = None

ScreenFits(o) ==
  /\ screen[o].step \in {"preparando", "codigo"} =>
       /\ screen[o].id \in Requests
       /\ req[screen[o].id].status # "none" /\ req[screen[o].id].org = o
  /\ screen[o].busy # Nobody => handler[screen[o].busy].pc # "idle" /\ Owner(screen[o].busy) = o

Fits == /\ \A i \in Requests : RowFits(i)
        /\ \A h \in Handlers : HandlerFits(h)
        /\ \A o \in Orgs : ScreenFits(o)

AliveOnce ==
  \A i, j \in Requests :
    Alive(i) /\ Alive(j) /\ (req[i].org = req[j].org \/ req[i].phone = req[j].phone) => i = j

TypeInv == Types /\ Fits /\ AliveOnce


-----------------------------------------------------------------------------
(* The types are kept.                                                     *)

LEMMA NextIdUnused == Unused # {} => NextId \in Requests /\ req[NextId].status = "none"
  <1> SUFFICES ASSUME Unused # {} PROVE NextId \in Unused
    BY DEF Unused
  <1> QED
    BY DEF NextId

LEMMA NewPinType ==
  ASSUME Types, NEW h \in Handlers, NewPin(h)
  PROVE  /\ handler' \in [Handlers -> Handler]
         /\ \A g \in Handlers : g # h => handler'[g] = handler[g]
         /\ handler'[h] = [handler[h] EXCEPT !.pc = "mark", !.pin = handler'[h].pin]
         /\ handler'[h].pin # None
  <1> DEFINE p == CHOOSE q \in Pins : q # req[handler[h].id].pin
  <1>1. p \in Pins
    <2>1. \E q \in Pins : q # req[handler[h].id].pin
      BY DEF Pins
    <2>2. QED
      BY <2>1
  <1>2. PICK q \in Pins : handler' = [handler EXCEPT ![h].pc = "mark", ![h].pin = q]
    BY <1>1 DEF NewPin
  <1>3. handler[h] \in Handler /\ handler \in [Handlers -> Handler] /\ q \in 0..2
    BY <1>2 DEF Types, Pins
  <1>4. handler'[h] = [handler[h] EXCEPT !.pc = "mark", !.pin = q]
    BY <1>2, <1>3
  <1>5. handler'[h] \in Handler /\ handler'[h].pin = q
    BY <1>3, <1>4 DEF Handler, HasId, Texting, Closing
  <1>6. QED
    BY <1>2, <1>3, <1>4, <1>5 DEF Pins, None

PCs == {"idle", "insert"} \cup HasId

\* The handler h has ended, moved on, and every other one stays where it is.
OthersStay(h) == \A g \in Handlers : g # h => handler'[g] = handler[g]

\* The wizard that waited for h is free.
Served(h) ==
  \A o \in Orgs :
    /\ screen[o].busy # h => screen'[o] = screen[o]
    /\ screen[o].busy = h => /\ screen'[o].busy = Nobody
                             /\ screen'[o].id = screen[o].id
                             /\ screen'[o].step \in {screen[o].step, "inicio", "pronto"}

LEMMA ToType ==
  ASSUME Types, NEW h \in Handlers, NEW l \in PCs, To(h, l)
  PROVE  /\ handler' \in [Handlers -> Handler] /\ OthersStay(h)
         /\ handler'[h] = [handler[h] EXCEPT !.pc = l]
  <1>1. handler[h] \in Handler /\ handler \in [Handlers -> Handler]
    BY DEF Types
  <1>2. handler'[h] = [handler[h] EXCEPT !.pc = l]
    BY <1>1 DEF To
  <1>3. handler'[h] \in Handler
    BY <1>1, <1>2 DEF Handler, PCs
  <1>4. QED
    BY <1>1, <1>2, <1>3 DEF To, OthersStay

LEMMA NoHandlerType == NoHandler \in Handler
  BY DEF NoHandler, Handler, None

LEMMA DoneType ==
  ASSUME Types, NEW h \in Handlers, Done(h)
  PROVE  /\ handler' \in [Handlers -> Handler] /\ OthersStay(h)
         /\ handler'[h] = NoHandler
  BY NoHandlerType DEF Done, Types, OthersStay

\* A handler that has just been started.
BegunAt(r, l, o, n, i) == r.pc = l /\ r.org = o /\ r.phone = n /\ r.id = i

LEMMA StartType ==
  ASSUME Types, NEW h \in Handlers, NEW l \in PCs, NEW o \in Orgs, NEW n \in Phones,
         NEW i \in Requests \cup {None}, Start(h, l, o, n, i)
  PROVE  /\ handler' \in [Handlers -> Handler] /\ OthersStay(h)
         /\ BegunAt(handler'[h], l, o, n, i)
  <1> DEFINE r == [NoHandler EXCEPT !.pc = l, !.org = o, !.phone = n, !.id = i]
  <1>1. r \in Handler /\ BegunAt(r, l, o, n, i)
    BY NoHandlerType DEF Handler, PCs, BegunAt
  <1>2. QED
    BY <1>1 DEF Start, Types, OthersStay

LEMMA ServedType ==
  ASSUME Types, NEW h \in Handlers, NEW st \in {"inicio", "pronto"}, Reply(h, st) \/ SameStep(h)
  PROVE  screen' \in [Orgs -> Screen] /\ Served(h)
  <1>1. ASSUME NEW o \in Orgs
        PROVE  /\ screen'[o] \in Screen
               /\ screen[o].busy # h => screen'[o] = screen[o]
               /\ screen[o].busy = h => /\ screen'[o].busy = Nobody
                                        /\ screen'[o].id = screen[o].id
                                        /\ screen'[o].step \in {screen[o].step, "inicio", "pronto"}
    <2>1. screen[o] \in Screen
      BY DEF Types
    <2>2. CASE screen[o].busy # h
      BY <2>1, <2>2 DEF Reply, SameStep
    <2>3. CASE screen[o].busy = h
      <3>1. CASE Reply(h, st)
        <4>1. screen'[o] = [screen[o] EXCEPT !.busy = Nobody, !.step = st]
          BY <2>3, <3>1 DEF Reply
        <4>2. QED
          BY <2>1, <2>3, <4>1 DEF Screen
      <3>2. CASE SameStep(h)
        <4>1. screen'[o] = [screen[o] EXCEPT !.busy = Nobody]
          BY <2>3, <3>2 DEF SameStep
        <4>2. QED
          BY <2>1, <2>3, <4>1 DEF Screen
      <3>3. QED
        BY <3>1, <3>2
    <2>4. QED
      BY <2>2, <2>3
  <1>2. screen' = [o \in Orgs |-> screen'[o]]
    BY DEF Reply, SameStep
  <1>3. QED
    BY <1>1, <1>2 DEF Served

-----------------------------------------------------------------------------
(* What each action does.                                                  *)

OtherRowsStay(i)    == \A j \in Requests : j # i => req'[j] = req[j]
OtherNumbersStay(n) == \A p \in Phones : p # n => number'[p] = number[p]

LEMMA WizardEffect ==
  ASSUME Types, NEW o \in Orgs, Open(o) \/ Leave(o)
  PROVE  /\ Types'
         /\ UNCHANGED <<rows, number, handler, tries, sms, raced>>
         /\ \A p \in Orgs : p # o => screen'[p] = screen[p]
         /\ screen'[o].busy = Nobody
         /\ \/ /\ screen[o].busy = Nobody /\ slips' = slips
               /\ \/ screen'[o].step = "inicio"
                  \/ screen'[o].id \in AliveOf(o)
            \/ /\ slips' = slips + 1
               /\ screen'[o].id = screen[o].id /\ screen'[o].step \in {screen[o].step, "inicio"}
  <1>0. screen[o] \in Screen /\ screen \in [Orgs -> Screen] /\ slips \in Nat
    BY DEF Types
  <1>1. CASE Open(o)
    <2>1. PICK s \in {"inicio", "preparando", "codigo"}, i \in Requests \cup {None} :
            /\ screen' = [screen EXCEPT ![o] = [step |-> s, id |-> i, busy |-> Nobody]]
            /\ s = "inicio" \/ i \in AliveOf(o)
      <3>1. CASE AliveOf(o) = {}
        BY <1>1, <3>1 DEF Open
      <3>2. CASE AliveOf(o) # {}
        <4>1. PICK i \in AliveOf(o) :
                screen' = [screen EXCEPT ![o] =
                  [step |-> IF req[i].status = "criando" THEN "preparando" ELSE "codigo",
                   id |-> i, busy |-> Nobody]]
          BY <1>1, <3>2 DEF Open
        <4>2. i \in Requests
          BY DEF AliveOf
        <4>3. QED
          BY <4>1, <4>2
      <3>3. QED
        BY <3>1, <3>2
    <2>2. [step |-> s, id |-> i, busy |-> Nobody] \in Screen
      BY DEF Screen
    <2>3. screen' \in [Orgs -> Screen]
      BY <1>0, <2>1, <2>2
    <2>4. QED
      BY <1>0, <1>1, <2>1, <2>3 DEF Open, Types, rows, history
  <1>2. CASE Leave(o)
    <2>1. PICK s \in {screen[o].step, "inicio"} :
            screen' = [screen EXCEPT ![o] = [screen[o] EXCEPT !.busy = Nobody, !.step = s]]
      BY <1>0, <1>2 DEF Leave
    <2>2. [screen[o] EXCEPT !.busy = Nobody, !.step = s] \in Screen
      BY <1>0 DEF Screen
    <2>3. screen' \in [Orgs -> Screen]
      BY <1>0, <2>1, <2>2
    <2>4. screen'[o] = [screen[o] EXCEPT !.busy = Nobody, !.step = s]
      BY <1>0, <2>1
    <2>5. QED
      BY <1>0, <1>2, <2>1, <2>3, <2>4 DEF Leave, Types, Screen, rows
  <1>3. QED
    BY <1>1, <1>2

LEMMA GoneEffect ==
  ASSUME Types, NEW o \in Orgs, Gone(o), screen[o].busy = Nobody
  PROVE  /\ Types'
         /\ UNCHANGED <<rows, number, handler, tries, sms, raced, slips>>
         /\ \A p \in Orgs : p # o => screen'[p] = screen[p]
         /\ screen'[o].busy = Nobody /\ screen'[o].step = "inicio"
  <1>1. [step |-> "inicio", id |-> None, busy |-> Nobody] \in Screen
    BY DEF Screen
  <1>2. QED
    BY <1>1 DEF Gone, Types, rows, history

\* A wizard that calls the API waits for the handler of its call.
Waits(o, h) ==
  /\ screen[o].busy = Nobody /\ handler[h].pc = "idle"
  /\ \A p \in Orgs : p # o => screen'[p] = screen[p]
  /\ screen'[o] = [screen[o] EXCEPT !.busy = h]

LEMMA WaitsType ==
  ASSUME Types, NEW o \in Orgs, NEW h \in Handlers, screen[o].busy = Nobody,
         handler[h].pc = "idle", screen' = [screen EXCEPT ![o].busy = h]
  PROVE  screen' \in [Orgs -> Screen] /\ Waits(o, h)
  <1>1. screen[o] \in Screen /\ screen \in [Orgs -> Screen]
    BY DEF Types
  <1>2. screen' = [screen EXCEPT ![o] = [screen[o] EXCEPT !.busy = h]]
    BY <1>1
  <1>3. [screen[o] EXCEPT !.busy = h] \in Screen
    BY <1>1 DEF Screen
  <1>4. QED
    BY <1>1, <1>2, <1>3 DEF Waits

\* A row that has just been inserted.
NewAt(r, o, n, st) ==
  /\ r.org = o /\ r.phone = n /\ r.status = st /\ r.pnid = FALSE
  /\ r.attempts = 0 /\ r.codes = 0 /\ r.verified = FALSE /\ r.pin = None

LEMMA NewRowType ==
  ASSUME NEW o \in Orgs, NEW n \in Phones, NEW st \in Statuses
  PROVE  NewRow(o, n, st) \in Row /\ NewAt(NewRow(o, n, st), o, n, st)
  <1>1. NoRow \in Row
    BY DEF NoRow, Row, None, Statuses
  <1>2. NewRow(o, n, st) \in Row
    BY <1>1 DEF NewRow, Row
  <1>3. NewAt(NewRow(o, n, st), o, n, st)
    BY <1>1 DEF NewRow, NoRow, NewAt
  <1>4. QED
    BY <1>2, <1>3

LEMMA EnviarEffect ==
  ASSUME Types, NEW o \in Orgs, NEW h \in Handlers, NEW n \in Phones, Enviar(o, h, n)
  PROVE  /\ Types'
         /\ UNCHANGED <<channel, number, tries, sms, raced, slips>>
         /\ AliveOf(o) = {} /\ Cardinality(Burned(o)) < MaxBurned
         /\ \/ /\ NextId \in Requests /\ req[NextId].status = "none" /\ OtherRowsStay(NextId)
               /\ NewAt(req'[NextId], o, n, "falhou")
               /\ UNCHANGED <<handler, screen>>
            \/ /\ UNCHANGED req /\ Waits(o, h) /\ OthersStay(h)
               /\ BegunAt(handler'[h], "insert", o, n, None)
  <1>0. Free(o, h, {"inicio"}) /\ Iniciar(o, h, n)
    BY DEF Enviar
  <1>1. NextId \in Requests /\ req[NextId].status = "none"
    BY <1>0, NextIdUnused DEF Iniciar
  <1>2. CASE Taken(o, n)
    <2>1. NewRow(o, n, "falhou") \in Row /\ NewAt(NewRow(o, n, "falhou"), o, n, "falhou")
      BY NewRowType DEF Statuses
    <2>2. QED
      BY <1>0, <1>1, <1>2, <2>1 DEF Iniciar, Types, OtherRowsStay, history
  <1>3. CASE ~Taken(o, n)
    <2>1. Start(h, "insert", o, n, None) /\ screen' = [screen EXCEPT ![o].busy = h]
      BY <1>0, <1>3 DEF Iniciar
    <2>2. /\ handler' \in [Handlers -> Handler] /\ OthersStay(h)
          /\ BegunAt(handler'[h], "insert", o, n, None)
      <3>1. "insert" \in PCs /\ None \in Requests \cup {None}
        BY DEF PCs
      <3>2. QED
        BY <2>1, <3>1, StartType
    <2>3. screen' \in [Orgs -> Screen] /\ Waits(o, h)
      BY <1>0, <2>1, WaitsType DEF Free
    <2>4. QED
      BY <1>0, <1>3, <2>2, <2>3 DEF Iniciar, Types, history
  <1>4. QED
    BY <1>2, <1>3

\* The calls about a request that is alive, or was when its screen was drawn.
LEMMA CallEffect ==
  ASSUME Types, NEW o \in Orgs, NEW h \in Handlers, NEW i, i = screen[o].id,
         screen[o].step \in {"preparando", "codigo"} => i \in Requests /\ req[i].phone \in Phones,
         Reenviar(o, h) \/ Confirmar(o, h) \/ Cancelar(o, h), Alive(i)
  PROVE  /\ Types' /\ UNCHANGED <<rows, number, tries, sms, slips>>
         /\ screen[o].step \in {"preparando", "codigo"}
         /\ Waits(o, h) /\ OthersStay(h)
         /\ \/ /\ BegunAt(handler'[h], "sms", o, req[i].phone, i)
               /\ MayResend(i) /\ raced' = raced
            \/ /\ BegunAt(handler'[h], "check", req[i].org, req[i].phone, i)
               /\ handler'[h].attempts = req[i].attempts /\ handler'[h].pin = req[i].pin
               /\ req[i].pnid
               /\ ~raced' => ~raced /\ \A g \in Handlers :
                    handler[g].id = i => handler[g].pc \in {"cancel", "sms", "count"}
            \/ /\ BegunAt(handler'[h], "cancel", o, req[i].phone, i)
               /\ raced' = raced
  <1>0. /\ Free(o, h, {"preparando", "codigo"}) /\ i \in Requests /\ req[i].phone \in Phones
        /\ req[i] \in Row /\ handler \in [Handlers -> Handler]
    BY DEF Reenviar, Confirmar, Cancelar, Free, Types
  <1>1. screen' = [screen EXCEPT ![o].busy = h]
    BY DEF Reenviar, Confirmar, Cancelar
  <1>2. screen' \in [Orgs -> Screen] /\ Waits(o, h) /\ screen[o].step \in {"preparando", "codigo"}
    BY <1>0, <1>1, WaitsType DEF Free
  <1>3. CASE Reenviar(o, h)
    <2>1. Start(h, "sms", o, req[i].phone, i) /\ MayResend(i)
      BY <1>3 DEF Reenviar
    <2>2. "sms" \in PCs /\ i \in Requests \cup {None}
      BY <1>0 DEF PCs, HasId, Texting
    <2>3. /\ handler' \in [Handlers -> Handler] /\ OthersStay(h)
          /\ BegunAt(handler'[h], "sms", o, req[i].phone, i)
      BY <1>0, <2>1, <2>2, StartType
    <2>4. QED
      BY <1>2, <1>3, <2>1, <2>3 DEF Reenviar, Types, rows, history
  <1>4. CASE Confirmar(o, h)
    <2> DEFINE new == [pc |-> "check", org |-> req[i].org, phone |-> req[i].phone, id |-> i,
                       attempts |-> req[i].attempts, pin |-> req[i].pin, warned |-> FALSE]
               overlap == \E g \in Handlers : handler[g].id = i /\ handler[g].pc \notin {"cancel", "sms", "count"}
    <2>1. new \in Handler
      BY <1>0 DEF Handler, Row, HasId, Closing
    <2>2. handler' = [handler EXCEPT ![h] = new] /\ req[i].pnid
          /\ raced' = (raced \/ overlap)
      BY <1>4 DEF Confirmar
    <2>3. raced' \in BOOLEAN /\ (~raced' => ~raced /\ ~overlap)
      <3> HIDE DEF overlap
      <3> QED
        BY <2>2, Zenon DEF Types
    <2>4. /\ handler' \in [Handlers -> Handler] /\ OthersStay(h)
          /\ BegunAt(handler'[h], "check", req[i].org, req[i].phone, i)
          /\ handler'[h].attempts = req[i].attempts /\ handler'[h].pin = req[i].pin
      BY <1>0, <2>1, <2>2 DEF OthersStay, BegunAt
    <2>5. UNCHANGED <<rows, number, tries, sms, slips>>
      BY <1>4 DEF Confirmar
    <2>6. Types'
      BY <1>2, <2>3, <2>4, <2>5 DEF Types, rows
    <2>7. QED
      BY <1>2, <2>2, <2>3, <2>4, <2>5, <2>6
  <1>5. CASE Cancelar(o, h)
    <2>1. PICK b \in BOOLEAN :
            handler' = [handler EXCEPT ![h] =
               [NoHandler EXCEPT !.pc = "cancel", !.org = o, !.phone = req[i].phone,
                                 !.id = i, !.warned = b]]
      <3>1. (screen[o].step = "codigo") \in BOOLEAN
        OBVIOUS
      <3>2. handler' = [handler EXCEPT ![h] =
               [NoHandler EXCEPT !.pc = "cancel", !.org = o, !.phone = req[i].phone,
                                 !.id = i, !.warned = (screen[o].step = "codigo")]]
        BY <1>5 DEF Cancelar
      <3>3. QED
        BY <3>1, <3>2, Zenon
    <2> DEFINE new == [NoHandler EXCEPT !.pc = "cancel", !.org = o, !.phone = req[i].phone,
                                        !.id = i, !.warned = b]
    <2>2. new \in Handler /\ BegunAt(new, "cancel", o, req[i].phone, i)
      BY <1>0, NoHandlerType DEF Handler, HasId, BegunAt
    <2>3. /\ handler' \in [Handlers -> Handler] /\ OthersStay(h)
          /\ BegunAt(handler'[h], "cancel", o, req[i].phone, i)
      BY <1>0, <2>1, <2>2 DEF OthersStay
    <2>4. UNCHANGED <<rows, number, history>>
      BY <1>5 DEF Cancelar
    <2>5. Types'
      BY <1>2, <2>3, <2>4 DEF Types, rows, history
    <2>6. QED
      BY <1>2, <2>3, <2>4, <2>5 DEF history
  <1>6. QED
    BY <1>3, <1>4, <1>5

\* A call about a request that is no longer alive only resets the wizard.
LEMMA DeadCall ==
  ASSUME NEW o \in Orgs, NEW h \in Handlers, ~Alive(screen[o].id),
         Reenviar(o, h) \/ Confirmar(o, h) \/ Cancelar(o, h)
  PROVE  Gone(o) /\ screen[o].busy = Nobody
  BY DEF Reenviar, Confirmar, Cancelar, Free

LEMMA InsertEffect ==
  ASSUME Types, NEW h \in Handlers, Owner(h) \in Orgs, Phone(h) \in Phones, Insert(h)
  PROVE  /\ Types' /\ OthersStay(h) /\ handler[h].pc = "insert"
         /\ UNCHANGED <<channel, number, tries, sms, raced, slips>>
         /\ \/ /\ NextId \in Requests /\ req[NextId].status = "none" /\ OtherRowsStay(NextId)
               /\ NewAt(req'[NextId], Owner(h), Phone(h), "criando")
               /\ handler'[h] = [handler[h] EXCEPT !.pc = "add", !.id = NextId]
               /\ Indexed(h) /\ UNCHANGED screen
            \/ handler'[h] = NoHandler /\ Served(h) /\ UNCHANGED req
  <1>0. handler[h] \in Handler /\ handler \in [Handlers -> Handler]
    BY DEF Types
  <1>1. CASE Indexed(h) /\ Unused # {}
    <2>1. NextId \in Requests /\ req[NextId].status = "none"
      BY <1>1, NextIdUnused
    <2> DEFINE new == NewRow(Owner(h), Phone(h), "criando")
    <2>2. new \in Row /\ NewAt(new, Owner(h), Phone(h), "criando")
      BY NewRowType DEF Statuses
    <2>3. req' \in [Requests -> Row] /\ OtherRowsStay(NextId)
          /\ NewAt(req'[NextId], Owner(h), Phone(h), "criando")
      <3>1. req' = [req EXCEPT ![NextId] = new]
        BY <1>1 DEF Insert
      <3> HIDE DEF new
      <3>2. QED
        BY <2>1, <2>2, <3>1 DEF Types, OtherRowsStay
    <2>4. handler'[h] = [handler[h] EXCEPT !.pc = "add", !.id = NextId] /\ OthersStay(h)
          /\ handler' \in [Handlers -> Handler]
      <3>1. [handler[h] EXCEPT !.pc = "add", !.id = NextId] \in Handler
        BY <1>0, <2>1 DEF Handler, HasId
      <3>2. handler' = [handler EXCEPT ![h] = [handler[h] EXCEPT !.pc = "add", !.id = NextId]]
        BY <1>0, <1>1 DEF Insert
      <3>3. QED
        BY <1>0, <3>1, <3>2 DEF OthersStay
    <2>5. QED
      BY <1>1, <2>1, <2>3, <2>4 DEF Insert, Types, history
  <1>2. CASE ~(Indexed(h) /\ Unused # {})
    BY <1>2, DoneType, ServedType DEF Insert, Types, history
  <1>3. QED
    BY <1>1, <1>2

LEMMA TakeNumber ==
  ASSUME Types, NEW n \in Phones, NEW o \in Orgs, number' = [number EXCEPT ![n].org = o]
  PROVE  /\ number' \in [Phones -> Number] /\ OtherNumbersStay(n)
         /\ number'[n] = [number[n] EXCEPT !.org = o]
  <1>1. number[n] \in Number /\ number \in [Phones -> Number]
    BY DEF Types
  <1>2. number' = [number EXCEPT ![n] = [number[n] EXCEPT !.org = o]]
    BY <1>1
  <1>3. [number[n] EXCEPT !.org = o] \in Number
    BY <1>1 DEF Number
  <1>4. QED
    BY <1>1, <1>2, <1>3 DEF OtherNumbersStay

LEMMA VerifyNumber ==
  ASSUME Types, NEW n \in Phones, number' = [number EXCEPT ![n].verified = TRUE]
  PROVE  /\ number' \in [Phones -> Number] /\ OtherNumbersStay(n)
         /\ number'[n] = [number[n] EXCEPT !.verified = TRUE]
  <1>1. number[n] \in Number /\ number \in [Phones -> Number]
    BY DEF Types
  <1>2. number' = [number EXCEPT ![n] = [number[n] EXCEPT !.verified = TRUE]]
    BY <1>1
  <1>3. [number[n] EXCEPT !.verified = TRUE] \in Number
    BY <1>1 DEF Number
  <1>4. QED
    BY <1>1, <1>2, <1>3 DEF OtherNumbersStay

LEMMA RegisterNumber ==
  ASSUME Types, NEW n \in Phones, NEW p \in 0..2, number' = [number EXCEPT ![n].pin = p]
  PROVE  /\ number' \in [Phones -> Number] /\ OtherNumbersStay(n)
         /\ number'[n] = [number[n] EXCEPT !.pin = p]
  <1>1. number[n] \in Number /\ number \in [Phones -> Number]
    BY DEF Types
  <1>2. number' = [number EXCEPT ![n] = [number[n] EXCEPT !.pin = p]]
    BY <1>1
  <1>3. [number[n] EXCEPT !.pin = p] \in Number
    BY <1>1 DEF Number
  <1>4. QED
    BY <1>1, <1>2, <1>3 DEF OtherNumbersStay

\* A write of the status of a request.
LEMMA StatusWrite ==
  ASSUME Types, NEW i \in Requests, NEW st \in Statuses, req' = [req EXCEPT ![i].status = st]
  PROVE  /\ req' \in [Requests -> Row] /\ OtherRowsStay(i)
         /\ req'[i] = [req[i] EXCEPT !.status = st]
  <1>1. req[i] \in Row /\ req \in [Requests -> Row]
    BY DEF Types
  <1>2. req' = [req EXCEPT ![i] = [req[i] EXCEPT !.status = st]]
    BY <1>1
  <1>3. [req[i] EXCEPT !.status = st] \in Row
    BY <1>1 DEF Row
  <1>4. QED
    BY <1>1, <1>2, <1>3 DEF OtherRowsStay

LEMMA AddEffect ==
  ASSUME Types, NEW h \in Handlers, Owner(h) \in Orgs, Phone(h) \in Phones,
         handler[h].id \in Requests, Add(h) \/ AddFails(h)
  PROVE  /\ Types' /\ OthersStay(h) /\ handler[h].pc = "add"
         /\ UNCHANGED <<channel, tries, sms, raced>>
         /\ \/ number' = number
            \/ /\ number[Phone(h)].org = Nobody /\ OtherNumbersStay(Phone(h))
               /\ number'[Phone(h)] = [number[Phone(h)] EXCEPT !.org = Owner(h)]
         /\ \/ /\ number'[Phone(h)].org = Owner(h) /\ UNCHANGED <<req, screen, slips>>
               /\ number[Phone(h)].org = Nobody
               /\ handler'[h] = [handler[h] EXCEPT !.pc = "update"]
            \/ /\ handler'[h] = NoHandler /\ Served(h) /\ OtherRowsStay(handler[h].id)
               /\ req'[handler[h].id] = [req[handler[h].id] EXCEPT !.status = "falhou"]
               /\ \/ slips' = slips /\ number' = number
                  \/ slips' = slips + 1
  <1>1. CASE Add(h)
    <2>1. /\ handler' \in [Handlers -> Handler] /\ OthersStay(h)
          /\ handler'[h] = [handler[h] EXCEPT !.pc = "update"]
      BY <1>1, ToType DEF Add, PCs, HasId
    <2>2. /\ number' \in [Phones -> Number] /\ OtherNumbersStay(Phone(h))
          /\ number'[Phone(h)] = [number[Phone(h)] EXCEPT !.org = Owner(h)]
      BY <1>1, TakeNumber DEF Add
    <2>3. number'[Phone(h)].org = Owner(h)
      BY <2>2 DEF Types, Number
    <2>4. QED
      BY <1>1, <2>1, <2>2, <2>3 DEF Add, Types, rows, history
  <1>2. CASE AddFails(h)
    <2>1. /\ handler' \in [Handlers -> Handler] /\ OthersStay(h) /\ handler'[h] = NoHandler
          /\ screen' \in [Orgs -> Screen] /\ Served(h)
      BY <1>2, DoneType, ServedType DEF AddFails
    <2>2. /\ req' \in [Requests -> Row] /\ OtherRowsStay(handler[h].id)
          /\ req'[handler[h].id] = [req[handler[h].id] EXCEPT !.status = "falhou"]
      BY <1>2, StatusWrite DEF AddFails, Statuses
    <2>3. /\ number' \in [Phones -> Number] /\ slips' \in Nat
          /\ \/ number' = number
             \/ /\ number[Phone(h)].org = Nobody /\ OtherNumbersStay(Phone(h))
                /\ number'[Phone(h)] = [number[Phone(h)] EXCEPT !.org = Owner(h)]
          /\ \/ slips' = slips /\ number' = number
             \/ slips' = slips + 1
      BY <1>2, TakeNumber DEF AddFails, Types
    <2>4. QED
      BY <1>2, <2>1, <2>2, <2>3 DEF AddFails, Types, history
  <1>3. QED
    BY <1>1, <1>2

LEMMA UpdateEffect ==
  ASSUME Types, NEW h \in Handlers, NEW i \in Requests, i = handler[h].id, Update(h)
  PROVE  /\ Types' /\ OthersStay(h) /\ handler'[h] = NoHandler /\ handler[h].pc = "update"
         /\ UNCHANGED <<channel, number, tries, raced, slips>> /\ OtherRowsStay(i)
         /\ sms'[i] = 1 /\ \A j \in Requests : j # i => sms'[j] = sms[j]
         /\ \/ /\ Indexed(h)
               /\ req'[i] = [req[i] EXCEPT !.pnid = TRUE, !.codes = 1, !.status = "aguardando_codigo"]
               /\ \A o \in Orgs :
                    /\ screen[o].busy # h => screen'[o] = screen[o]
                    /\ screen[o].busy = h =>
                         screen'[o].busy = Nobody /\ screen'[o].id = i /\ screen'[o].step = "codigo"
            \/ ~Indexed(h) /\ UNCHANGED req /\ Served(h)
            \/ /\ req'[i] = [req[i] EXCEPT !.pnid = TRUE, !.status = "falhou"]
               /\ Served(h)
  <1>0. req[i] \in Row /\ req \in [Requests -> Row] /\ sms \in [Requests -> Nat]
        /\ screen \in [Orgs -> Screen]
    BY DEF Types
  <1>1. /\ handler' \in [Handlers -> Handler] /\ OthersStay(h) /\ handler'[h] = NoHandler
    BY DoneType DEF Update
  <1>2. sms' \in [Requests -> Nat] /\ sms'[i] = 1 /\ \A j \in Requests : j # i => sms'[j] = sms[j]
    BY <1>0 DEF Update
  <1>3. CASE /\ Indexed(h)
             /\ req' = [req EXCEPT ![i].pnid = TRUE, ![i].codes = 1,
                                   ![i].status = "aguardando_codigo"]
             /\ screen' = [o \in Orgs |-> IF screen[o].busy # h THEN screen[o]
                                          ELSE [step |-> "codigo", id |-> i, busy |-> Nobody]]
    <2> DEFINE new == [req[i] EXCEPT !.pnid = TRUE, !.codes = 1, !.status = "aguardando_codigo"]
    <2>1. req' = [req EXCEPT ![i] = new]
      BY <1>0, <1>3
    <2>2. new \in Row
      BY <1>0 DEF Row, Statuses
    <2>3. req' \in [Requests -> Row] /\ req'[i] = new /\ OtherRowsStay(i)
      <3> HIDE DEF new
      <3> QED
        BY <1>0, <2>1, <2>2 DEF OtherRowsStay
    <2>4. [step |-> "codigo", id |-> i, busy |-> Nobody] \in Screen
      BY DEF Screen
    <2>5. /\ screen' \in [Orgs -> Screen]
          /\ \A o \in Orgs :
               /\ screen[o].busy # h => screen'[o] = screen[o]
               /\ screen[o].busy = h =>
                    screen'[o].busy = Nobody /\ screen'[o].id = i /\ screen'[o].step = "codigo"
      BY <1>0, <1>3, <2>4
    <2>6. QED
      BY <1>1, <1>2, <1>3, <2>3, <2>5 DEF Update, Types
  <1>4. CASE ~Indexed(h) /\ SameStep(h) /\ UNCHANGED req
    BY <1>0, <1>1, <1>2, <1>4, ServedType DEF Update, Types, OtherRowsStay
  <1>5. CASE req' = [req EXCEPT ![i] = SmsFailed(@)] /\ SameStep(h)
    <2> DEFINE new == [req[i] EXCEPT !.pnid = TRUE, !.status = "falhou"]
    <2>1. req' = [req EXCEPT ![i] = new]
      BY <1>0, <1>5 DEF SmsFailed
    <2>2. new \in Row
      BY <1>0 DEF Row, Statuses
    <2>3. req' \in [Requests -> Row] /\ req'[i] = new /\ OtherRowsStay(i)
      <3> HIDE DEF new
      <3> QED
        BY <1>0, <2>1, <2>2 DEF OtherRowsStay
    <2>4. screen' \in [Orgs -> Screen] /\ Served(h)
      BY <1>5, ServedType
    <2>5. QED
      BY <1>1, <1>2, <2>3, <2>4 DEF Update, Types
  <1>6. QED
    BY <1>3, <1>4, <1>5 DEF Update

LEMMA UpdateFrees ==
  ASSUME Types, NEW h \in Handlers, Update(h)
  PROVE  \A o \in Orgs : /\ screen[o].busy # h => screen'[o] = screen[o]
                         /\ screen[o].busy = h => screen'[o].busy = Nobody
  <1>1. \/ SameStep(h)
        \/ screen' = [o \in Orgs |->
             IF screen[o].busy # h THEN screen[o]
             ELSE [step |-> "codigo", id |-> handler[h].id, busy |-> Nobody]]
    BY DEF Update
  <1>2. CASE SameStep(h)
    BY <1>2, ServedType DEF Served
  <1>3. CASE screen' = [o \in Orgs |->
               IF screen[o].busy # h THEN screen[o]
               ELSE [step |-> "codigo", id |-> handler[h].id, busy |-> Nobody]]
    BY <1>3
  <1>4. QED
    BY <1>1, <1>2, <1>3

LEMMA TextEffect ==
  ASSUME Types, NEW h \in Handlers, NEW i \in Requests, i = handler[h].id,
         Sms(h) \/ SmsFails(h) \/ Count(h)
  PROVE  /\ Types' /\ OthersStay(h) /\ UNCHANGED <<channel, number, tries, raced>>
         /\ handler[h].pc \in Texting /\ OtherRowsStay(i)
         /\ \A j \in Requests : j # i => sms'[j] = sms[j]
         /\ \/ /\ handler'[h] = [handler[h] EXCEPT !.pc = "count"] /\ handler[h].pc = "sms"
               /\ UNCHANGED <<req, screen, slips>> /\ sms'[i] = sms[i] + 1
            \/ /\ handler'[h] = NoHandler /\ handler[h].pc = "sms" /\ Served(h) /\ UNCHANGED req
               /\ \/ sms'[i] = sms[i] /\ slips' = slips
                  \/ sms'[i] = sms[i] + 1 /\ slips' = slips + 1
            \/ /\ handler'[h] = NoHandler /\ handler[h].pc = "count" /\ Served(h)
               /\ UNCHANGED <<sms, slips>>
               /\ req'[i] = [req[i] EXCEPT !.codes = req[i].codes + 1]
  <1>0. req[i] \in Row /\ req \in [Requests -> Row] /\ sms \in [Requests -> Nat]
        /\ slips \in Nat
    BY DEF Types
  <1>1. CASE Sms(h)
    <2>1. /\ handler' \in [Handlers -> Handler] /\ OthersStay(h)
          /\ handler'[h] = [handler[h] EXCEPT !.pc = "count"]
      BY <1>1, ToType DEF Sms, PCs, HasId, Texting
    <2>2. QED
      BY <1>0, <1>1, <2>1 DEF Sms, Types, rows, Texting, OtherRowsStay
  <1>2. CASE SmsFails(h)
    <2>1. /\ handler' \in [Handlers -> Handler] /\ OthersStay(h) /\ handler'[h] = NoHandler
          /\ screen' \in [Orgs -> Screen] /\ Served(h)
      BY <1>2, DoneType, ServedType DEF SmsFails
    <2>2. QED
      BY <1>0, <1>2, <2>1 DEF SmsFails, Types, rows, Texting, OtherRowsStay
  <1>3. CASE Count(h)
    <2>1. /\ handler' \in [Handlers -> Handler] /\ OthersStay(h) /\ handler'[h] = NoHandler
          /\ screen' \in [Orgs -> Screen] /\ Served(h)
      BY <1>3, DoneType, ServedType DEF Count
    <2> DEFINE new == [req[i] EXCEPT !.codes = req[i].codes + 1]
    <2>2. req' = [req EXCEPT ![i] = new]
      BY <1>0, <1>3 DEF Count
    <2>3. new \in Row
      BY <1>0 DEF Row
    <2>4. req' \in [Requests -> Row] /\ req'[i] = new /\ OtherRowsStay(i)
      <3> HIDE DEF new
      <3> QED
        BY <1>0, <2>2, <2>3 DEF OtherRowsStay
    <2>5. QED
      BY <1>0, <1>3, <2>1, <2>4 DEF Count, Types, history, Texting
  <1>4. QED
    BY <1>1, <1>2, <1>3

LEMMA CheckEffect ==
  ASSUME Types, NEW h \in Handlers, NEW i \in Requests, i = handler[h].id, Check(h)
  PROVE  /\ Types' /\ OthersStay(h) /\ UNCHANGED <<rows, number, screen, history>>
         /\ handler[h].pc = "check"
         /\ \/ ~req[i].verified /\ handler'[h] = [handler[h] EXCEPT !.pc = "verify"]
            \/ /\ req[i].verified /\ handler[h].pin # None
               /\ handler'[h] = [handler[h] EXCEPT !.pc = "register"]
            \/ /\ req[i].verified /\ handler[h].pin = None /\ handler'[h].pin # None
               /\ handler'[h] = [handler[h] EXCEPT !.pc = "mark", !.pin = handler'[h].pin]
  <1>1. "verify" \in PCs /\ "register" \in PCs
    BY DEF PCs, HasId, Closing
  <1>2. CASE To(h, "verify") /\ ~req[i].verified
    BY <1>1, <1>2, ToType DEF Check, Types, rows, history
  <1>3. CASE To(h, "register") /\ req[i].verified /\ handler[h].pin # None
    BY <1>1, <1>3, ToType DEF Check, Types, rows, history
  <1>4. CASE NewPin(h) /\ req[i].verified /\ handler[h].pin = None
    BY <1>4, NewPinType DEF Check, Types, rows, history, OthersStay
  <1>5. QED
    BY <1>2, <1>3, <1>4 DEF Check, SkipsCode, HasPin

LEMMA VerifyEffect ==
  ASSUME Types, NEW h \in Handlers, Phone(h) \in Phones, Verify(h)
  PROVE  /\ Types' /\ OthersStay(h) /\ UNCHANGED <<rows, screen, history>>
         /\ handler[h].pc = "verify" /\ handler'[h].pin # None
         /\ handler'[h] = [handler[h] EXCEPT !.pc = "mark", !.pin = handler'[h].pin]
         /\ OtherNumbersStay(Phone(h))
         /\ number'[Phone(h)] = [number[Phone(h)] EXCEPT !.verified = TRUE]
  <1>1. /\ number' \in [Phones -> Number] /\ OtherNumbersStay(Phone(h))
        /\ number'[Phone(h)] = [number[Phone(h)] EXCEPT !.verified = TRUE]
    BY VerifyNumber DEF Verify
  <1>2. QED
    BY <1>1, NewPinType DEF Verify, Types, rows, history, OthersStay

LEMMA VerifyFailsEffect ==
  ASSUME Types, NEW h \in Handlers, NEW i \in Requests, i = handler[h].id, Phone(h) \in Phones,
         VerifyFails(h)
  PROVE  /\ Types' /\ OthersStay(h) /\ handler'[h] = NoHandler /\ handler[h].pc = "verify"
         /\ UNCHANGED <<channel, sms, raced>> /\ OtherRowsStay(i) /\ Served(h)
         /\ slips' \in {slips, slips + 1}
         /\ \/ number' = number
            \/ /\ OtherNumbersStay(Phone(h))
               /\ number'[Phone(h)] = [number[Phone(h)] EXCEPT !.verified = TRUE]
         /\ tries'[i] = tries[i] + 1 /\ \A j \in Requests : j # i => tries'[j] = tries[j]
         /\ \E st \in {req[i].status, "falhou"} :
              /\ req'[i] = [req[i] EXCEPT !.attempts = handler[h].attempts + 1, !.status = st]
              /\ handler[h].attempts + 1 >= MaxCodes => st = "falhou"
  <1>0. req[i] \in Row /\ req \in [Requests -> Row] /\ tries \in [Requests -> Nat]
        /\ slips \in Nat /\ handler[h] \in Handler
    BY DEF Types
  <1>1. /\ handler' \in [Handlers -> Handler] /\ OthersStay(h) /\ handler'[h] = NoHandler
        /\ screen' \in [Orgs -> Screen] /\ Served(h)
    BY DoneType, ServedType DEF VerifyFails
  <1>2. /\ number' \in [Phones -> Number] /\ slips' \in {slips, slips + 1}
        /\ \/ number' = number
           \/ /\ OtherNumbersStay(Phone(h))
              /\ number'[Phone(h)] = [number[Phone(h)] EXCEPT !.verified = TRUE]
    BY VerifyNumber DEF VerifyFails, Types
  <1>3. PICK st \in {req[i].status, "falhou"} :
          /\ req' = [req EXCEPT ![i].attempts = handler[h].attempts + 1, ![i].status = st]
          /\ handler[h].attempts + 1 >= MaxCodes => st = "falhou"
    BY <1>0 DEF VerifyFails
  <1> DEFINE new == [req[i] EXCEPT !.attempts = handler[h].attempts + 1, !.status = st]
  <1>4. req' = [req EXCEPT ![i] = new]
    BY <1>0, <1>3
  <1>5. new \in Row
    <2>1. handler[h].attempts + 1 \in Nat /\ st \in Statuses
      <3>1. handler[h].attempts \in Nat
        BY <1>0 DEF Handler
      <3>2. QED
        BY <1>0, <3>1 DEF Row, Statuses
    <2>2. QED
      BY <1>0, <2>1 DEF Row
  <1>6. req' \in [Requests -> Row] /\ req'[i] = new /\ OtherRowsStay(i)
    <2> HIDE DEF new
    <2> QED
      BY <1>0, <1>4, <1>5 DEF OtherRowsStay
  <1>7. tries' \in [Requests -> Nat] /\ tries'[i] = tries[i] + 1
        /\ \A j \in Requests : j # i => tries'[j] = tries[j]
    BY <1>0 DEF VerifyFails
  <1>8. Types' /\ UNCHANGED <<channel, sms, raced>> /\ handler[h].pc = "verify"
    BY <1>0, <1>1, <1>2, <1>6, <1>7 DEF VerifyFails, Types
  <1>9. \E s \in {req[i].status, "falhou"} :
          /\ req'[i] = [req[i] EXCEPT !.attempts = handler[h].attempts + 1, !.status = s]
          /\ handler[h].attempts + 1 >= MaxCodes => s = "falhou"
    BY <1>3, <1>6
  <1>10. QED
    BY <1>1, <1>2, <1>6, <1>7, <1>8, <1>9

LEMMA MarkEffect ==
  ASSUME Types, NEW h \in Handlers, NEW i \in Requests, i = handler[h].id, Mark(h)
  PROVE  /\ Types' /\ OthersStay(h) /\ UNCHANGED <<channel, number, screen, history>>
         /\ handler[h].pc = "mark" /\ OtherRowsStay(i)
         /\ handler'[h] = [handler[h] EXCEPT !.pc = "register"]
         /\ req'[i] = [req[i] EXCEPT !.verified = TRUE, !.pin = handler[h].pin]
  <1>0. req[i] \in Row /\ req \in [Requests -> Row] /\ handler[h].pin \in 0..2
    BY DEF Types, Handler
  <1>1. /\ handler' \in [Handlers -> Handler] /\ OthersStay(h)
        /\ handler'[h] = [handler[h] EXCEPT !.pc = "register"]
    BY ToType DEF Mark, PCs, HasId, Closing
  <1> DEFINE new == [req[i] EXCEPT !.verified = TRUE, !.pin = handler[h].pin]
  <1>2. req' = [req EXCEPT ![i] = new]
    BY <1>0 DEF Mark
  <1>3. new \in Row
    BY <1>0 DEF Row
  <1>4. req' \in [Requests -> Row] /\ req'[i] = new /\ OtherRowsStay(i)
    <2> HIDE DEF new
    <2> QED
      BY <1>0, <1>2, <1>3 DEF OtherRowsStay
  <1>5. QED
    BY <1>1, <1>4 DEF Mark, Types, history

LEMMA RegisterEffect ==
  ASSUME Types, NEW h \in Handlers, Phone(h) \in Phones, Register(h) \/ RegisterFails(h)
  PROVE  /\ Types' /\ OthersStay(h) /\ UNCHANGED <<rows, tries, sms, raced>>
         /\ handler[h].pc = "register" /\ slips' \in {slips, slips + 1}
         /\ \/ number' = number
            \/ /\ OtherNumbersStay(Phone(h))
               /\ number'[Phone(h)] = [number[Phone(h)] EXCEPT !.pin = handler[h].pin]
         /\ \/ /\ handler'[h] = [handler[h] EXCEPT !.pc = "create"] /\ screen' = screen
               /\ number'[Phone(h)].pin = handler[h].pin
            \/ /\ handler'[h] = [handler[h] EXCEPT !.pc = "close"] /\ screen' = screen
               /\ channel[Phone(h)].org = Owner(h)
            \/ handler'[h] = NoHandler /\ Served(h)
  <1>0. /\ handler[h].pin \in 0..2 /\ slips \in Nat /\ "create" \in PCs /\ "close" \in PCs
    BY DEF Types, Handler, PCs, HasId, Closing
  <1>1. CASE Register(h)
    <2>1. /\ handler' \in [Handlers -> Handler] /\ OthersStay(h)
          /\ handler'[h] = [handler[h] EXCEPT !.pc = "create"]
      BY <1>0, <1>1, ToType DEF Register
    <2>2. /\ number' \in [Phones -> Number] /\ OtherNumbersStay(Phone(h))
          /\ number'[Phone(h)] = [number[Phone(h)] EXCEPT !.pin = handler[h].pin]
      BY <1>0, <1>1, RegisterNumber DEF Register
    <2>3. number'[Phone(h)].pin = handler[h].pin
      BY <2>2 DEF Types, Number
    <2>4. QED
      BY <1>1, <2>1, <2>2, <2>3 DEF Register, Types, rows, history
  <1>2. CASE RegisterFails(h)
    <2>1. /\ number' \in [Phones -> Number] /\ slips' \in {slips, slips + 1}
          /\ \/ number' = number
             \/ /\ OtherNumbersStay(Phone(h))
                /\ number'[Phone(h)] = [number[Phone(h)] EXCEPT !.pin = handler[h].pin]
      BY <1>0, <1>2, RegisterNumber DEF RegisterFails, Types
    <2>2. /\ handler' \in [Handlers -> Handler] /\ OthersStay(h) /\ screen' \in [Orgs -> Screen]
          /\ \/ /\ handler'[h] = [handler[h] EXCEPT !.pc = "close"] /\ screen' = screen
                /\ channel[Phone(h)].org = Owner(h)
             \/ handler'[h] = NoHandler /\ Served(h)
      <3>1. CASE channel[Phone(h)].org = Owner(h)
        BY <1>0, <1>2, <3>1, ToType DEF RegisterFails, RegisterFailed, Types
      <3>2. CASE channel[Phone(h)].org # Owner(h)
        BY <1>2, <3>2, DoneType, ServedType DEF RegisterFails, RegisterFailed
      <3>3. QED
        BY <3>1, <3>2
    <2>3. QED
      BY <1>0, <1>2, <2>1, <2>2 DEF RegisterFails, Types, rows
  <1>3. QED
    BY <1>1, <1>2

LEMMA CreateEffect ==
  ASSUME Types, NEW h \in Handlers, Phone(h) \in Phones, Owner(h) \in Orgs, CreateChannel(h)
  PROVE  /\ Types' /\ OthersStay(h) /\ UNCHANGED <<req, number, screen, history>>
         /\ handler[h].pc = "create" /\ handler'[h] = [handler[h] EXCEPT !.pc = "close"]
         /\ channel'[Phone(h)].org = Owner(h)
         /\ \A n \in Phones : n # Phone(h) => channel'[n] = channel[n]
         /\ \/ channel[Phone(h)].org = Nobody /\ channel'[Phone(h)].pin = handler[h].pin
            \/ channel' = channel
  <1>0. handler[h].pin \in 0..2 /\ channel \in [Phones -> Channel]
    BY DEF Types, Handler
  <1>1. /\ handler' \in [Handlers -> Handler] /\ OthersStay(h)
        /\ handler'[h] = [handler[h] EXCEPT !.pc = "close"]
    BY ToType DEF CreateChannel, PCs, HasId, Closing
  <1>2. /\ channel' \in [Phones -> Channel]
        /\ channel'[Phone(h)].org = Owner(h)
        /\ \A n \in Phones : n # Phone(h) => channel'[n] = channel[n]
        /\ \/ channel[Phone(h)].org = Nobody /\ channel'[Phone(h)].pin = handler[h].pin
           \/ channel' = channel
    <2> DEFINE c == [org |-> Owner(h), pin |-> handler[h].pin, active |-> TRUE]
    <2>1. c \in Channel /\ c.org = Owner(h) /\ c.pin = handler[h].pin
      BY <1>0 DEF Channel
    <2>2. \/ channel[Phone(h)].org = Nobody /\ channel' = [channel EXCEPT ![Phone(h)] = c]
          \/ channel[Phone(h)].org = Owner(h) /\ channel' = channel
      BY DEF CreateChannel
    <2> HIDE DEF c
    <2>3. QED
      BY <1>0, <2>1, <2>2
  <1>3. QED
    BY <1>1, <1>2 DEF CreateChannel, Types, history

LEMMA EndEffect ==
  ASSUME Types, NEW h \in Handlers, NEW i \in Requests, i = handler[h].id,
         CreateRefused(h) \/ Close(h) \/ Cancel(h)
  PROVE  /\ Types' /\ OthersStay(h) /\ UNCHANGED <<channel, number, history>>
         /\ handler'[h] = NoHandler /\ Served(h) /\ OtherRowsStay(i)
         /\ \/ handler[h].pc = "create" /\ req'[i] = [req[i] EXCEPT !.status = "falhou"]
            \/ handler[h].pc = "close" /\ req'[i] = [req[i] EXCEPT !.status = "concluida"]
            \/ handler[h].pc = "cancel" /\ req'[i] = [req[i] EXCEPT !.status = "cancelada"]
  <1>1. /\ handler' \in [Handlers -> Handler] /\ OthersStay(h) /\ handler'[h] = NoHandler
        /\ screen' \in [Orgs -> Screen] /\ Served(h)
    BY DoneType, ServedType DEF CreateRefused, Close, Cancel
  <1>2. CASE CreateRefused(h)
    BY <1>1, <1>2, StatusWrite DEF CreateRefused, Types, history, Statuses
  <1>3. CASE Close(h)
    BY <1>1, <1>3, StatusWrite DEF Close, Types, history, Statuses
  <1>4. CASE Cancel(h)
    BY <1>1, <1>4, StatusWrite DEF Cancel, Types, history, Statuses
  <1>5. QED
    BY <1>2, <1>3, <1>4

LEMMA DieEffect ==
  ASSUME Types, NEW h \in Handlers, Die(h)
  PROVE  /\ Types' /\ OthersStay(h) /\ UNCHANGED <<rows, number, tries, sms, raced>>
         /\ handler[h].pc # "idle" /\ handler'[h] = NoHandler /\ Served(h)
         /\ slips' = slips + 1
  BY DoneType, ServedType DEF Die, Types, rows

\* The row of a number is connected by hand, or switched off.
Rewired(n) == Disconnect(n) \/ \E o \in Orgs : Manual(o, n)

LEMMA RewiredEffect ==
  ASSUME Types, NEW n \in Phones, Rewired(n)
  PROVE  /\ Types' /\ UNCHANGED <<req, number, handler, history>>
         /\ \A p \in Phones : /\ channel'[p].pin = channel[p].pin
                              /\ channel[p].org # Nobody => channel'[p].org = channel[p].org
                              /\ p # n => channel'[p].org = channel[p].org
                              /\ channel'[p].org # channel[p].org => channel'[p].org \in Orgs
         /\ \A o \in Orgs : /\ screen'[o].busy = screen[o].busy /\ screen'[o].id = screen[o].id
                            /\ screen'[o].step \in {screen[o].step, "inicio"}
  <1>0. channel \in [Phones -> Channel] /\ screen \in [Orgs -> Screen] /\ channel[n] \in Channel
    BY DEF Types
  <1>1. CASE Disconnect(n)
    <2>1. /\ channel' \in [Phones -> Channel]
          /\ \A p \in Phones : channel'[p].org = channel[p].org /\ channel'[p].pin = channel[p].pin
      <3> DEFINE c == [channel[n] EXCEPT !.active = FALSE]
      <3>1. channel' = [channel EXCEPT ![n] = c]
        BY <1>0, <1>1 DEF Disconnect
      <3>2. c \in Channel /\ c.org = channel[n].org /\ c.pin = channel[n].pin
        BY <1>0 DEF Channel
      <3> HIDE DEF c
      <3>3. QED
        BY <1>0, <3>1, <3>2
    <2>2. /\ screen' \in [Orgs -> Screen]
          /\ \A o \in Orgs : /\ screen'[o].busy = screen[o].busy /\ screen'[o].id = screen[o].id
                             /\ screen'[o].step \in {screen[o].step, "inicio"}
      <3> DEFINE x == channel[n].org
                 t == IF screen[x].step = "pronto" THEN "inicio" ELSE screen[x].step
                 c == [screen[x] EXCEPT !.step = t]
      <3>1. screen' = [screen EXCEPT ![x] = c]
        BY <1>0, <1>1 DEF Disconnect
      <3>2. x \in Orgs => /\ c \in Screen /\ c.busy = screen[x].busy /\ c.id = screen[x].id
                          /\ c.step \in {screen[x].step, "inicio"}
        BY <1>0 DEF Screen
      <3> HIDE DEF c, x
      <3>3. QED
        BY <1>0, <3>1, <3>2
    <2>3. QED
      BY <1>1, <2>1, <2>2 DEF Disconnect, Types, history
  <1>2. ASSUME NEW o \in Orgs, Manual(o, n)
        PROVE  /\ channel' \in [Phones -> Channel]
               /\ \A p \in Phones : /\ channel'[p].pin = channel[p].pin
                                    /\ channel[p].org # Nobody => channel'[p].org = channel[p].org
                                    /\ p # n => channel'[p].org = channel[p].org
                                    /\ channel'[p].org # channel[p].org => channel'[p].org \in Orgs
    <2> DEFINE c == [channel[n] EXCEPT !.org = o, !.active = TRUE]
    <2>1. channel' = [channel EXCEPT ![n] = c]
      BY <1>0, <1>2 DEF Manual
    <2>2. c \in Channel /\ c.org = o /\ c.pin = channel[n].pin
      BY <1>0 DEF Channel
    <2>3. channel[n].org \in {o, Nobody}
      BY <1>2 DEF Manual
    <2> HIDE DEF c
    <2>4. QED
      BY <1>0, <2>1, <2>2, <2>3
  <1>3. CASE \E o \in Orgs : Manual(o, n)
    BY <1>2, <1>3 DEF Manual, Types, history
  <1>4. QED
    BY <1>1, <1>3 DEF Rewired

-----------------------------------------------------------------------------
(* Handlers and screens keep to their requests, and two requests that are  *)
(* alive have neither the organization nor the phone in common.            *)

\* A request keeps its owner and its phone.
Persists(i) ==
  req[i].status # "none" =>
    /\ req'[i].status # "none"
    /\ req'[i].org = req[i].org /\ req'[i].phone = req[i].phone

ScreenStays(o) ==
  /\ screen'[o].busy \in {screen[o].busy, Nobody}
  /\ screen'[o].step \in {"preparando", "codigo"} =>
       \/ screen[o].step \in {"preparando", "codigo"} /\ screen'[o].id = screen[o].id
       \/ /\ screen'[o].id \in Requests /\ req'[screen'[o].id].status # "none"
          /\ req'[screen'[o].id].org = o

LEMMA FitsKept ==
  ASSUME Fits, Types, Types', NEW h \in Handlers, OthersStay(h), HandlerFits(h)',
         \A i \in Requests : Persists(i) /\ RowFits(i)',
         \A o \in Orgs : \/ ScreenStays(o) /\ (screen'[o].busy # h \/ ScreenFits(o)')
                         \/ ScreenFits(o)'
  PROVE  Fits'
  <1>1. ASSUME NEW g \in Handlers
        PROVE  HandlerFits(g)'
    <2>1. CASE g = h
      BY <2>1
    <2>2. CASE g # h
      <3>1. handler'[g] = handler[g] /\ HandlerFits(g)
        BY <2>2 DEF OthersStay, Fits
      <3>2. QED
        BY <3>1 DEF HandlerFits, Persists, Owner, Phone
    <2>3. QED
      BY <2>1, <2>2
  <1>2. ASSUME NEW o \in Orgs
        PROVE  ScreenFits(o)'
    <2>1. CASE ScreenStays(o) /\ screen'[o].busy # h
      <3>1. ScreenFits(o) /\ screen[o].busy \in Handlers \cup {Nobody}
        BY DEF Fits, Types, Screen
      <3>2. screen'[o].busy # Nobody => handler'[screen'[o].busy] = handler[screen[o].busy]
        BY <2>1, <3>1 DEF ScreenStays, OthersStay
      <3>3. QED
        BY <2>1, <3>1, <3>2 DEF ScreenStays, ScreenFits, Persists, Owner
    <2>2. QED
      BY <2>1
  <1>3. QED
    BY <1>1, <1>2 DEF Fits

LEMMA RowsKept ==
  ASSUME Fits, UNCHANGED <<req, tries, sms>>
  PROVE  \A i \in Requests : Persists(i) /\ RowFits(i)'
  BY DEF Fits, Persists, RowFits

\* One request is written, and it is in use before and after.
LEMMA OneRowKept ==
  ASSUME Fits, NEW i \in Requests, req[i].status # "none", req'[i].status # "none",
         req'[i].org = req[i].org, req'[i].phone = req[i].phone, OtherRowsStay(i),
         \A j \in Requests : j # i => tries'[j] = tries[j] /\ sms'[j] = sms[j]
  PROVE  \A j \in Requests : Persists(j) /\ RowFits(j)'
  BY DEF Fits, Persists, RowFits, OtherRowsStay

\* A new request.
LEMMA NewRowKept ==
  ASSUME Fits, NEW i \in Requests, req[i].status = "none", OtherRowsStay(i), UNCHANGED <<tries, sms>>,
         NEW o \in Orgs, NEW n \in Phones, NEW st \in Statuses \ {"none"}, NewAt(req'[i], o, n, st)
  PROVE  \A j \in Requests : Persists(j) /\ RowFits(j)'
  BY DEF Fits, Persists, RowFits, OtherRowsStay, NewAt

LEMMA ScreensServed ==
  ASSUME Fits, Types, NEW h \in Handlers, Served(h)
  PROVE  \A o \in Orgs : ScreenStays(o) /\ screen'[o].busy # h
  BY DEF Fits, Served, ScreenStays, Types, Screen

LEMMA ScreensMoved ==
  ASSUME Fits, NEW h \in Handlers, UNCHANGED screen, handler'[h].pc # "idle",
         handler'[h].org = handler[h].org,
         \A i \in Requests : Persists(i)
  PROVE  \A o \in Orgs : ScreenStays(o) /\ (screen'[o].busy # h \/ ScreenFits(o)')
  BY DEF Fits, ScreenStays, ScreenFits, Persists, Owner

LEMMA AliveOnceKept ==
  ASSUME AliveOnce, \A i \in Requests : Alive(i)' => Alive(i) /\ Persists(i)
  PROVE  AliveOnce'
  BY DEF AliveOnce, Alive, Persists

LEMMA TypeWizard ==
  ASSUME TypeInv, \/ \E o \in Orgs : Open(o) \/ Leave(o) \/ (Gone(o) /\ screen[o].busy = Nobody)
                  \/ \E n \in Phones : Rewired(n)
                  \/ UNCHANGED vars
  PROVE  TypeInv'
  <1>1. /\ Types' /\ UNCHANGED <<req, handler, tries, sms>>
        /\ \A o \in Orgs : ScreenStays(o)
    <2>1. ASSUME NEW o \in Orgs, Open(o) \/ Leave(o)
          PROVE  /\ Types' /\ UNCHANGED <<req, handler, tries, sms>>
                 /\ \A p \in Orgs : ScreenStays(p)
      BY <2>1, WizardEffect DEF TypeInv, rows, ScreenStays, AliveOf, Alive
    <2>2. ASSUME NEW o \in Orgs, Gone(o), screen[o].busy = Nobody
          PROVE  /\ Types' /\ UNCHANGED <<req, handler, tries, sms>>
                 /\ \A p \in Orgs : ScreenStays(p)
      BY <2>2, GoneEffect DEF TypeInv, rows, ScreenStays
    <2>3. ASSUME NEW n \in Phones, Rewired(n)
          PROVE  /\ Types' /\ UNCHANGED <<req, handler, tries, sms>>
                 /\ \A p \in Orgs : ScreenStays(p)
      BY <2>3, RewiredEffect DEF TypeInv, history, ScreenStays, Fits, ScreenFits
    <2>4. CASE UNCHANGED vars
      BY <2>4 DEF vars, rows, history, TypeInv, Types, ScreenStays
    <2>5. QED
      BY <2>1, <2>2, <2>3, <2>4
  <1>2. \A h \in Handlers : HandlerFits(h)'
    BY <1>1 DEF TypeInv, Fits, HandlerFits, Owner, Phone
  <1>3. \A i \in Requests : RowFits(i)'
    BY <1>1 DEF TypeInv, Fits, RowFits
  <1>4. \A o \in Orgs : ScreenFits(o)'
    BY <1>1 DEF TypeInv, Fits, ScreenFits, ScreenStays, Owner
  <1>5. AliveOnce'
    BY <1>1 DEF TypeInv, AliveOnce, Alive
  <1>6. QED
    BY <1>1, <1>2, <1>3, <1>4, <1>5 DEF TypeInv, Fits

\* What a handler of a request that exists works on.
LEMMA HandlerKnows ==
  ASSUME TypeInv, NEW h \in Handlers
  PROVE  /\ handler[h] \in Handler
         /\ handler[h].pc # "idle" => Owner(h) \in Orgs /\ Phone(h) \in Phones
         /\ handler[h].pc \in HasId =>
              /\ handler[h].id \in Requests /\ req[handler[h].id] \in Row
              /\ req[handler[h].id].status # "none"
              /\ req[handler[h].id].org = Owner(h) /\ req[handler[h].id].phone = Phone(h)
  BY DEF TypeInv, Types, Fits, HandlerFits

\* What a screen that shows a request shows.
LEMMA ScreenKnows ==
  ASSUME TypeInv, NEW o \in Orgs, screen[o].step \in {"preparando", "codigo"}
  PROVE  /\ screen[o].id \in Requests /\ req[screen[o].id] \in Row
         /\ req[screen[o].id].status # "none"
         /\ req[screen[o].id].org = o /\ req[screen[o].id].phone \in Phones
  BY DEF TypeInv, Types, Fits, ScreenFits, RowFits

\* A new call leaves every other screen and handler alone.
LEMMA ScreensWait ==
  ASSUME TypeInv, NEW o \in Orgs, NEW h \in Handlers, Waits(o, h),
         handler'[h].pc # "idle", handler'[h].org = o, \A i \in Requests : Persists(i)
  PROVE  \A p \in Orgs : \/ ScreenStays(p) /\ (screen'[p].busy # h \/ ScreenFits(p)')
                         \/ ScreenFits(p)'
  <1> SUFFICES ASSUME NEW p \in Orgs
               PROVE  \/ ScreenStays(p) /\ (screen'[p].busy # h \/ ScreenFits(p)')
                      \/ ScreenFits(p)'
    OBVIOUS
  <1>1. ScreenFits(p) /\ screen[p] \in Screen
    BY DEF TypeInv, Types, Fits
  <1>2. CASE p = o
    BY <1>1, <1>2 DEF Waits, ScreenFits, Screen, Owner, Persists
  <1>3. CASE p # o
    BY <1>1, <1>3 DEF Waits, ScreenStays, ScreenFits
  <1>4. QED
    BY <1>2, <1>3

LEMMA TypeCall ==
  ASSUME TypeInv, NEW o \in Orgs, NEW h \in Handlers,
         \/ Confirmar(o, h) \/ Reenviar(o, h) \/ Cancelar(o, h)
         \/ \E n \in Phones : Enviar(o, h, n)
  PROVE  TypeInv'
  <1>0. Types /\ Fits /\ AliveOnce
    BY DEF TypeInv
  <1>1. ASSUME NEW n \in Phones, Enviar(o, h, n)
        PROVE  TypeInv'
    <2>1. /\ Types' /\ UNCHANGED <<tries, sms>>
          /\ \/ /\ NextId \in Requests /\ req[NextId].status = "none" /\ OtherRowsStay(NextId)
                /\ NewAt(req'[NextId], o, n, "falhou")
                /\ UNCHANGED <<handler, screen>>
             \/ /\ UNCHANGED req /\ Waits(o, h) /\ OthersStay(h)
                /\ BegunAt(handler'[h], "insert", o, n, None)
      BY <1>0, <1>1, EnviarEffect
    <2>2. CASE /\ NextId \in Requests /\ req[NextId].status = "none" /\ OtherRowsStay(NextId)
               /\ NewAt(req'[NextId], o, n, "falhou")
               /\ UNCHANGED <<handler, screen>>
      <3>1. \A i \in Requests : Persists(i) /\ RowFits(i)'
        BY <1>0, <2>1, <2>2, NewRowKept DEF Statuses
      <3>2. HandlerFits(h)' /\ OthersStay(h)
        BY <1>0, <2>2, <3>1 DEF Fits, HandlerFits, Persists, Owner, Phone, OthersStay
      <3>3. \A p \in Orgs : ScreenStays(p) /\ (screen'[p].busy # h \/ ScreenFits(p)')
        BY <1>0, <2>2, <3>1 DEF Fits, ScreenStays, ScreenFits, Persists, Owner
      <3>4. Fits'
        BY <1>0, <2>1, <3>1, <3>2, <3>3, FitsKept
      <3>5. \A i \in Requests : Alive(i)' => Alive(i) /\ Persists(i)
        BY <2>2, <3>1 DEF OtherRowsStay, Alive, NewAt
      <3>6. QED
        BY <1>0, <2>1, <3>4, <3>5, AliveOnceKept DEF TypeInv
    <2>3. CASE /\ UNCHANGED req /\ Waits(o, h) /\ OthersStay(h)
               /\ BegunAt(handler'[h], "insert", o, n, None)
      <3>1. \A i \in Requests : Persists(i) /\ RowFits(i)'
        BY <1>0, <2>1, <2>3, RowsKept
      <3>2. HandlerFits(h)'
        BY <2>3 DEF BegunAt, HandlerFits, Owner, Phone, HasId, Texting, Closing
      <3>3. handler'[h].pc # "idle" /\ handler'[h].org = o
        BY <2>3 DEF BegunAt
      <3>4. Fits'
        BY <1>0, <2>1, <2>3, <3>1, <3>2, <3>3, ScreensWait, FitsKept
      <3>5. AliveOnce'
        BY <1>0, <2>3 DEF AliveOnce, Alive
      <3>6. QED
        BY <2>1, <3>4, <3>5 DEF TypeInv
    <2>4. QED
      BY <2>1, <2>2, <2>3
  <1>2. CASE (Confirmar(o, h) \/ Reenviar(o, h) \/ Cancelar(o, h)) /\ ~Alive(screen[o].id)
    BY <1>2, DeadCall, TypeWizard
  <1>3. CASE (Confirmar(o, h) \/ Reenviar(o, h) \/ Cancelar(o, h)) /\ Alive(screen[o].id)
    <2> DEFINE i == screen[o].id
    <2>1. screen[o].step \in {"preparando", "codigo"}
      BY <1>3 DEF Confirmar, Reenviar, Cancelar, Free
    <2>2. i \in Requests /\ req[i].status # "none" /\ req[i].org = o /\ req[i].phone \in Phones
      BY <2>1, ScreenKnows
    <2>3. /\ Types' /\ UNCHANGED <<rows, tries, sms>> /\ Waits(o, h) /\ OthersStay(h)
          /\ \E l \in {"sms", "check", "cancel"} : BegunAt(handler'[h], l, o, req[i].phone, i)
      BY <1>0, <1>3, <2>2, CallEffect
    <2>4. \A j \in Requests : Persists(j) /\ RowFits(j)'
      BY <1>0, <2>3, RowsKept DEF rows
    <2>5. HandlerFits(h)' /\ handler'[h].pc # "idle" /\ handler'[h].org = o
      BY <2>2, <2>3 DEF BegunAt, HandlerFits, Owner, Phone, rows
    <2>6. Fits'
      BY <1>0, <2>3, <2>4, <2>5, ScreensWait, FitsKept
    <2>7. AliveOnce'
      BY <1>0, <2>3 DEF AliveOnce, Alive, rows
    <2>8. QED
      BY <2>3, <2>6, <2>7 DEF TypeInv
  <1>4. QED
    BY <1>1, <1>2, <1>3

LEMMA TypeReserve ==
  ASSUME TypeInv, NEW h \in Handlers, Insert(h) \/ Add(h) \/ AddFails(h) \/ Update(h)
  PROVE  TypeInv'
  <1>0. Types /\ Fits /\ AliveOnce /\ handler[h] \in Handler
    BY DEF TypeInv, Types
  <1>1. Owner(h) \in Orgs /\ Phone(h) \in Phones
    BY HandlerKnows DEF Insert, Add, AddFails, Update
  <1>2. CASE Insert(h)
    <2>1. /\ Types' /\ OthersStay(h) /\ handler[h].pc = "insert" /\ UNCHANGED <<tries, sms>>
          /\ \/ /\ NextId \in Requests /\ req[NextId].status = "none" /\ OtherRowsStay(NextId)
                /\ NewAt(req'[NextId], Owner(h), Phone(h), "criando")
                /\ handler'[h] = [handler[h] EXCEPT !.pc = "add", !.id = NextId]
                /\ Indexed(h) /\ UNCHANGED screen
             \/ handler'[h] = NoHandler /\ Served(h) /\ UNCHANGED req
      BY <1>0, <1>1, <1>2, InsertEffect
    <2>2. CASE handler'[h] = NoHandler /\ Served(h) /\ UNCHANGED req
      <3>1. \A i \in Requests : Persists(i) /\ RowFits(i)'
        BY <1>0, <2>1, <2>2, RowsKept
      <3>2. HandlerFits(h)'
        BY <2>2 DEF HandlerFits, NoHandler, HasId, Texting, Closing
      <3>3. Fits'
        BY <1>0, <2>1, <2>2, <3>1, <3>2, ScreensServed, FitsKept
      <3>4. AliveOnce'
        BY <1>0, <2>2 DEF AliveOnce, Alive
      <3>5. QED
        BY <2>1, <3>3, <3>4 DEF TypeInv
    <2>3. CASE /\ NextId \in Requests /\ req[NextId].status = "none" /\ OtherRowsStay(NextId)
               /\ NewAt(req'[NextId], Owner(h), Phone(h), "criando")
               /\ handler'[h] = [handler[h] EXCEPT !.pc = "add", !.id = NextId]
               /\ Indexed(h) /\ UNCHANGED screen
      <3>1. \A i \in Requests : Persists(i) /\ RowFits(i)'
        BY <1>0, <1>1, <2>1, <2>3, NewRowKept DEF Statuses
      <3>2. /\ handler'[h].pc = "add" /\ handler'[h].id = NextId
            /\ Owner(h)' = Owner(h) /\ Phone(h)' = Phone(h)
        BY <1>0, <2>3 DEF Handler, Owner, Phone
      <3>3. HandlerFits(h)'
        BY <1>1, <2>3, <3>2 DEF HandlerFits, NewAt
      <3>4. Fits'
        BY <1>0, <2>1, <2>3, <3>1, <3>2, <3>3, ScreensMoved, FitsKept DEF Owner
      <3>5. AliveOnce'
        <4>1. \A j \in Requests : Alive(j) => req[j].org # Owner(h) /\ req[j].phone # Phone(h)
          <5>1. handler[h].id = None
            BY <1>0, <2>1 DEF Fits, HandlerFits
          <5>2. QED
            BY <2>3, <5>1 DEF Indexed, AliveOf, AliveWith
        <4>2. \A j \in Requests : j # NextId => (Alive(j)' <=> Alive(j)) /\ req'[j] = req[j]
          BY <2>3 DEF OtherRowsStay, Alive
        <4>3. QED
          BY <1>0, <2>3, <4>1, <4>2 DEF AliveOnce, NewAt
      <3>6. QED
        BY <2>1, <3>4, <3>5 DEF TypeInv
    <2>4. QED
      BY <2>1, <2>2, <2>3
  <1>3. CASE Add(h) \/ AddFails(h)
    <2> DEFINE i == handler[h].id
    <2>1. i \in Requests /\ req[i] \in Row /\ req[i].status # "none"
          /\ req[i].org = Owner(h) /\ req[i].phone = Phone(h)
      BY <1>3, HandlerKnows DEF Add, AddFails, HasId
    <2>2. /\ Types' /\ OthersStay(h) /\ UNCHANGED <<tries, sms>>
          /\ \/ UNCHANGED <<req, screen>> /\ handler'[h] = [handler[h] EXCEPT !.pc = "update"]
             \/ /\ handler'[h] = NoHandler /\ Served(h) /\ OtherRowsStay(i)
                /\ req'[i] = [req[i] EXCEPT !.status = "falhou"]
      BY <1>0, <1>1, <1>3, <2>1, AddEffect
    <2>3. CASE UNCHANGED <<req, screen>> /\ handler'[h] = [handler[h] EXCEPT !.pc = "update"]
      <3>1. \A j \in Requests : Persists(j) /\ RowFits(j)'
        BY <1>0, <2>2, <2>3, RowsKept
      <3>2. /\ handler'[h].pc = "update" /\ handler'[h].id = i /\ handler'[h].org = Owner(h)
            /\ handler'[h].phone = Phone(h)
        BY <1>0, <2>3 DEF Handler, Owner, Phone
      <3>3. HandlerFits(h)'
        BY <1>1, <2>1, <2>3, <3>2 DEF HandlerFits, Owner, Phone
      <3>4. Fits'
        BY <1>0, <2>2, <2>3, <3>1, <3>2, <3>3, ScreensMoved, FitsKept DEF Owner
      <3>5. AliveOnce'
        BY <1>0, <2>3 DEF AliveOnce, Alive
      <3>6. QED
        BY <2>2, <3>4, <3>5 DEF TypeInv
    <2>4. CASE /\ handler'[h] = NoHandler /\ Served(h) /\ OtherRowsStay(i)
               /\ req'[i] = [req[i] EXCEPT !.status = "falhou"]
      <3>1. req'[i].status = "falhou" /\ req'[i].org = req[i].org /\ req'[i].phone = req[i].phone
        BY <2>1, <2>4 DEF Row
      <3>2. \A j \in Requests : Persists(j) /\ RowFits(j)'
        <4> HIDE DEF i
        <4> QED
          BY <1>0, <2>1, <2>2, <2>4, <3>1, OneRowKept
      <3>3. HandlerFits(h)'
        BY <2>4 DEF HandlerFits, NoHandler, HasId, Texting, Closing
      <3>4. Fits'
        BY <1>0, <2>2, <2>4, <3>2, <3>3, ScreensServed, FitsKept
      <3>5. \A j \in Requests : Alive(j)' => Alive(j) /\ Persists(j)
        BY <2>4, <3>1, <3>2 DEF Alive, OtherRowsStay
      <3>6. QED
        BY <1>0, <2>2, <3>4, <3>5, AliveOnceKept DEF TypeInv
    <2>5. QED
      BY <2>2, <2>3, <2>4
  <1>4. CASE Update(h)
    <2> DEFINE i == handler[h].id
    <2>1. i \in Requests /\ req[i] \in Row /\ req[i].status # "none"
          /\ req[i].org = Owner(h) /\ req[i].phone = Phone(h)
      BY <1>4, HandlerKnows DEF Update, HasId
    <2>2. /\ Types' /\ OthersStay(h) /\ handler'[h] = NoHandler /\ UNCHANGED tries
          /\ OtherRowsStay(i) /\ \A j \in Requests : j # i => sms'[j] = sms[j]
          /\ \/ /\ Indexed(h)
                /\ req'[i] = [req[i] EXCEPT !.pnid = TRUE, !.codes = 1, !.status = "aguardando_codigo"]
                /\ \A o \in Orgs :
                     /\ screen[o].busy # h => screen'[o] = screen[o]
                     /\ screen[o].busy = h =>
                          screen'[o].busy = Nobody /\ screen'[o].id = i /\ screen'[o].step = "codigo"
             \/ UNCHANGED req /\ Served(h)
             \/ /\ req'[i] = [req[i] EXCEPT !.pnid = TRUE, !.status = "falhou"]
                /\ Served(h)
      BY <1>0, <1>4, <2>1, UpdateEffect
    <2>3. /\ req'[i].status # "none" /\ req'[i].org = req[i].org /\ req'[i].phone = req[i].phone
      BY <2>1, <2>2 DEF Row
    <2>4. \A j \in Requests : Persists(j) /\ RowFits(j)'
      <3> HIDE DEF i
      <3> QED
        BY <1>0, <2>1, <2>2, <2>3, OneRowKept
    <2>5. HandlerFits(h)'
      BY <2>2 DEF HandlerFits, NoHandler, HasId, Texting, Closing
    <2>6. ASSUME NEW o \in Orgs
          PROVE  ScreenStays(o) /\ screen'[o].busy # h
      <3>1. CASE Served(h)
        BY <1>0, <3>1, ScreensServed
      <3>2. CASE /\ screen[o].busy # h => screen'[o] = screen[o]
                 /\ screen[o].busy = h =>
                      screen'[o].busy = Nobody /\ screen'[o].id = i /\ screen'[o].step = "codigo"
        <4>1. screen[o].busy = h => Owner(h) = o
          BY <1>0 DEF Fits, ScreenFits
        <4>2. QED
          BY <2>1, <2>3, <3>2, <4>1 DEF ScreenStays
      <3>3. QED
        BY <2>2, <3>1, <3>2
    <2>7. Fits'
      BY <1>0, <2>2, <2>4, <2>5, <2>6, FitsKept
    <2>8. AliveOnce'
      <3>1. CASE Indexed(h)
        <4>1. \A j \in Requests : j # i /\ Alive(j) => req[j].org # Owner(h) /\ req[j].phone # Phone(h)
          BY <3>1 DEF Indexed, AliveOf, AliveWith
        <4>2. \A j \in Requests : j # i => (Alive(j)' <=> Alive(j)) /\ req'[j] = req[j]
          BY <2>2 DEF OtherRowsStay, Alive
        <4>3. QED
          BY <1>0, <2>1, <2>3, <4>1, <4>2 DEF AliveOnce
      <3>2. CASE ~Indexed(h)
        <4>1. req'[i] = req[i] \/ req'[i].status = "falhou"
          BY <2>1, <2>2, <3>2 DEF Row
        <4>2. \A j \in Requests : Alive(j)' => Alive(j) /\ Persists(j)
          BY <2>2, <2>4, <4>1 DEF Alive, OtherRowsStay
        <4>3. QED
          BY <1>0, <4>2, AliveOnceKept
      <3>3. QED
        BY <3>1, <3>2
    <2>9. QED
      BY <2>2, <2>7, <2>8 DEF TypeInv
  <1>5. QED
    BY <1>2, <1>3, <1>4

\* A step of a handler that works on its own request and revives nothing.
Works(h, i) ==
  /\ handler[h].pc \in HasId /\ i = handler[h].id /\ OthersStay(h) /\ OtherRowsStay(i)
  /\ req'[i].status \in {req[i].status, "falhou", "concluida", "cancelada"}
  /\ req'[i].org = req[i].org /\ req'[i].phone = req[i].phone
  /\ \A j \in Requests : j # i => tries'[j] = tries[j] /\ sms'[j] = sms[j]
  /\ \/ /\ handler'[h].pc \in HasId /\ handler'[h].id = i /\ screen' = screen
        /\ handler'[h].org = handler[h].org /\ handler'[h].phone = handler[h].phone
     \/ handler'[h] = NoHandler /\ Served(h)

LEMMA TypeWorks ==
  ASSUME TypeInv, Types', NEW h \in Handlers, NEW i \in Requests, Works(h, i)
  PROVE  TypeInv'
  <1>0. Types /\ Fits /\ AliveOnce
    BY DEF TypeInv
  <1>1. /\ req[i].status # "none" /\ req[i].org = Owner(h) /\ req[i].phone = Phone(h)
        /\ Owner(h) \in Orgs /\ Phone(h) \in Phones
    BY HandlerKnows DEF Works, HasId, Texting, Closing
  <1>2. \A j \in Requests : Persists(j) /\ RowFits(j)'
    BY <1>0, <1>1, OneRowKept DEF Works
  <1>3. HandlerFits(h)' /\ \A o \in Orgs : ScreenStays(o) /\ (screen'[o].busy # h \/ ScreenFits(o)')
    <2>1. CASE handler'[h] = NoHandler /\ Served(h)
      <3>1. HandlerFits(h)'
        BY <2>1 DEF HandlerFits, NoHandler, HasId, Texting, Closing
      <3>2. QED
        BY <1>0, <2>1, <3>1, ScreensServed
    <2>2. CASE /\ handler'[h].pc \in HasId /\ handler'[h].id = i /\ screen' = screen
               /\ handler'[h].org = handler[h].org /\ handler'[h].phone = handler[h].phone
      <3>1. handler'[h].pc \notin {"idle", "insert"}
        BY <2>2 DEF HasId, Texting, Closing
      <3>2. req'[i].status # "none" /\ req'[i].org = req[i].org /\ req'[i].phone = req[i].phone
        BY <1>1, <1>2 DEF Persists
      <3>3. HandlerFits(h)'
        BY <1>1, <2>2, <3>1, <3>2 DEF HandlerFits, Owner, Phone
      <3>4. QED
        BY <1>0, <1>2, <2>2, <3>1, <3>3, ScreensMoved
    <2>3. QED
      BY <2>1, <2>2 DEF Works
  <1>4. Fits'
    BY <1>0, <1>2, <1>3, FitsKept DEF Works
  <1>5. \A j \in Requests : Alive(j)' => Alive(j) /\ Persists(j)
    BY <1>2 DEF Works, Alive, OtherRowsStay
  <1>6. QED
    BY <1>0, <1>4, <1>5, AliveOnceKept DEF TypeInv

\* The steps of the handlers of a request, those that reserve its number apart.
WorkStep(h) ==
  \/ Sms(h) \/ SmsFails(h) \/ Count(h) \/ Check(h) \/ Verify(h) \/ VerifyFails(h) \/ Mark(h)
  \/ Register(h) \/ RegisterFails(h) \/ CreateChannel(h) \/ CreateRefused(h)
  \/ Close(h) \/ Cancel(h)

LEMMA WorkEffect ==
  ASSUME TypeInv, NEW h \in Handlers, NEW i, i = handler[h].id, WorkStep(h)
  PROVE  i \in Requests /\ Types' /\ Works(h, i)
  <1>0. Types /\ handler[h].pc \in HasId
    BY DEF TypeInv, WorkStep, Sms, SmsFails, Count, Check, Verify, VerifyFails, Mark,
       Register, RegisterFails, CreateChannel, CreateRefused, Close, Cancel, HasId, Texting, Closing
  <1>1. /\ i \in Requests /\ req[i] \in Row /\ handler[h] \in Handler
        /\ Owner(h) \in Orgs /\ Phone(h) \in Phones
    BY <1>0, HandlerKnows DEF HasId, Texting, Closing
  <1>2. CASE Sms(h) \/ SmsFails(h) \/ Count(h)
    <2>1. /\ Types' /\ OthersStay(h) /\ UNCHANGED <<channel, number, tries, raced>>
          /\ OtherRowsStay(i) /\ \A j \in Requests : j # i => sms'[j] = sms[j]
          /\ req' = req \/ req'[i] = [req[i] EXCEPT !.codes = req[i].codes + 1]
          /\ \/ handler'[h] = [handler[h] EXCEPT !.pc = "count"] /\ screen' = screen
             \/ handler'[h] = NoHandler /\ Served(h)
      BY <1>0, <1>1, <1>2, TextEffect
    <2>2. /\ req'[i].status = req[i].status /\ req'[i].org = req[i].org
          /\ req'[i].phone = req[i].phone
      BY <1>1, <2>1 DEF Row
    <2>3. \/ /\ handler'[h].pc \in HasId /\ handler'[h].id = i /\ screen' = screen
             /\ handler'[h].org = handler[h].org /\ handler'[h].phone = handler[h].phone
          \/ handler'[h] = NoHandler /\ Served(h)
      BY <1>1, <2>1 DEF Handler, HasId, Texting
    <2>4. QED
      BY <1>0, <1>1, <2>1, <2>2, <2>3 DEF Works
  <1>3. CASE Check(h)
    <2>1. /\ Types' /\ OthersStay(h) /\ UNCHANGED <<rows, number, screen, history>>
          /\ \E l \in {"verify", "register", "mark"} :
               \/ handler'[h] = [handler[h] EXCEPT !.pc = l]
               \/ handler'[h] = [handler[h] EXCEPT !.pc = l, !.pin = handler'[h].pin]
      BY <1>0, <1>1, <1>3, CheckEffect
    <2>2. /\ handler'[h].pc \in HasId /\ handler'[h].id = i
          /\ handler'[h].org = handler[h].org /\ handler'[h].phone = handler[h].phone
      BY <1>1, <2>1 DEF Handler, HasId, Closing
    <2>3. QED
      BY <1>0, <1>1, <2>1, <2>2 DEF Works, rows, history, OtherRowsStay
  <1>4. CASE Verify(h)
    <2>1. /\ Types' /\ OthersStay(h) /\ UNCHANGED <<rows, screen, history>>
          /\ handler'[h] = [handler[h] EXCEPT !.pc = "mark", !.pin = handler'[h].pin]
      BY <1>0, <1>1, <1>4, VerifyEffect
    <2>2. /\ handler'[h].pc \in HasId /\ handler'[h].id = i
          /\ handler'[h].org = handler[h].org /\ handler'[h].phone = handler[h].phone
      BY <1>1, <2>1 DEF Handler, HasId, Closing
    <2>3. QED
      BY <1>0, <1>1, <2>1, <2>2 DEF Works, rows, history, OtherRowsStay
  <1>5. CASE VerifyFails(h)
    <2>1. /\ Types' /\ OthersStay(h) /\ handler'[h] = NoHandler
          /\ UNCHANGED sms /\ OtherRowsStay(i) /\ Served(h)
          /\ \A j \in Requests : j # i => tries'[j] = tries[j]
      BY <1>0, <1>1, <1>5, VerifyFailsEffect
    <2>0. PICK st \in {req[i].status, "falhou"} :
            /\ req'[i] = [req[i] EXCEPT !.attempts = handler[h].attempts + 1, !.status = st]
            /\ handler[h].attempts + 1 >= MaxCodes => st = "falhou"
      BY <1>0, <1>1, <1>5, VerifyFailsEffect
    <2>2. /\ req'[i].status \in {req[i].status, "falhou"} /\ req'[i].org = req[i].org
          /\ req'[i].phone = req[i].phone
      BY <1>1, <2>0 DEF Row
    <2>3. QED
      BY <1>0, <1>1, <2>1, <2>2 DEF Works
  <1>6. CASE Mark(h)
    <2>1. /\ Types' /\ OthersStay(h) /\ UNCHANGED <<screen, history>> /\ OtherRowsStay(i)
          /\ handler'[h] = [handler[h] EXCEPT !.pc = "register"]
          /\ req'[i] = [req[i] EXCEPT !.verified = TRUE, !.pin = handler[h].pin]
      BY <1>0, <1>1, <1>6, MarkEffect
    <2>2. /\ req'[i].status = req[i].status /\ req'[i].org = req[i].org
          /\ req'[i].phone = req[i].phone
      BY <1>1, <2>1 DEF Row
    <2>3. /\ handler'[h].pc \in HasId /\ handler'[h].id = i
          /\ handler'[h].org = handler[h].org /\ handler'[h].phone = handler[h].phone
      BY <1>1, <2>1 DEF Handler, HasId, Closing
    <2>4. QED
      BY <1>0, <1>1, <2>1, <2>2, <2>3 DEF Works, history
  <1>7. CASE Register(h) \/ RegisterFails(h)
    <2>1. /\ Types' /\ OthersStay(h) /\ UNCHANGED <<rows, tries, sms>>
          /\ \/ \E l \in {"create", "close"} :
                  handler'[h] = [handler[h] EXCEPT !.pc = l] /\ screen' = screen
             \/ handler'[h] = NoHandler /\ Served(h)
      BY <1>0, <1>1, <1>7, RegisterEffect
    <2>2. \/ /\ handler'[h].pc \in HasId /\ handler'[h].id = i /\ screen' = screen
             /\ handler'[h].org = handler[h].org /\ handler'[h].phone = handler[h].phone
          \/ handler'[h] = NoHandler /\ Served(h)
      BY <1>1, <2>1 DEF Handler, HasId, Closing
    <2>3. QED
      BY <1>0, <1>1, <2>1, <2>2 DEF Works, rows, OtherRowsStay
  <1>8. CASE CreateChannel(h)
    <2>1. /\ Types' /\ OthersStay(h) /\ UNCHANGED <<req, screen, history>>
          /\ handler'[h] = [handler[h] EXCEPT !.pc = "close"]
      BY <1>0, <1>1, <1>8, CreateEffect
    <2>2. /\ handler'[h].pc \in HasId /\ handler'[h].id = i
          /\ handler'[h].org = handler[h].org /\ handler'[h].phone = handler[h].phone
      BY <1>1, <2>1 DEF Handler, HasId, Closing
    <2>3. QED
      BY <1>0, <1>1, <2>1, <2>2 DEF Works, history, OtherRowsStay
  <1>9. CASE CreateRefused(h) \/ Close(h) \/ Cancel(h)
    <2>1. /\ Types' /\ OthersStay(h) /\ UNCHANGED history
          /\ handler'[h] = NoHandler /\ Served(h) /\ OtherRowsStay(i)
          /\ \E st \in {"falhou", "concluida", "cancelada"} : req'[i] = [req[i] EXCEPT !.status = st]
      BY <1>0, <1>1, <1>9, EndEffect
    <2>2. /\ req'[i].status \in {"falhou", "concluida", "cancelada"}
          /\ req'[i].org = req[i].org /\ req'[i].phone = req[i].phone
      BY <1>1, <2>1 DEF Row
    <2>3. QED
      BY <1>0, <1>1, <2>1, <2>2 DEF Works, history
  <1>10. QED
    BY <1>2, <1>3, <1>4, <1>5, <1>6, <1>7, <1>8, <1>9 DEF WorkStep

LEMMA TypeDie ==
  ASSUME TypeInv, NEW h \in Handlers, Die(h)
  PROVE  TypeInv'
  <1>0. Types /\ Fits /\ AliveOnce
    BY DEF TypeInv
  <1>1. /\ Types' /\ OthersStay(h) /\ UNCHANGED <<req, tries, sms>>
        /\ handler'[h] = NoHandler /\ Served(h)
    BY <1>0, DieEffect DEF rows
  <1>2. HandlerFits(h)'
    BY <1>1 DEF HandlerFits, NoHandler, HasId, Texting, Closing
  <1>3. Fits'
    BY <1>0, <1>1, <1>2, RowsKept, ScreensServed, FitsKept
  <1>4. AliveOnce'
    BY <1>0, <1>1 DEF AliveOnce, Alive
  <1>5. QED
    BY <1>1, <1>3, <1>4 DEF TypeInv

\* The steps, as the proofs tell them apart.
LEMMA Steps ==
  ASSUME [Next]_vars
  PROVE  \/ \E o \in Orgs : Open(o) \/ Leave(o)
         \/ \E o \in Orgs, h \in Handlers : \/ Confirmar(o, h) \/ Reenviar(o, h) \/ Cancelar(o, h)
                                            \/ \E n \in Phones : Enviar(o, h, n)
         \/ \E h \in Handlers : \/ Insert(h) \/ Add(h) \/ AddFails(h) \/ Update(h)
                                \/ WorkStep(h) \/ Die(h)
         \/ \E n \in Phones : Rewired(n)
         \/ UNCHANGED vars
  BY DEF Next, WorkStep, Rewired

LEMMA TypeStep == TypeInv /\ [Next]_vars => TypeInv'
  <1> SUFFICES ASSUME TypeInv, [Next]_vars PROVE TypeInv'
    OBVIOUS
  <1>1. ASSUME NEW h \in Handlers, WorkStep(h)
        PROVE  TypeInv'
    BY <1>1, WorkEffect, TypeWorks
  <1>2. QED
    BY <1>1, Steps, TypeWizard, TypeCall, TypeReserve, TypeDie

LEMMA TypeInit == Init => TypeInv
  <1> SUFFICES ASSUME Init PROVE TypeInv
    OBVIOUS
  <1>1. NoRow \in Row /\ NoChannel \in Channel /\ NoNumber \in Number
    BY DEF NoRow, NoChannel, NoNumber, Row, Channel, Number, None, Statuses
  <1>2. [step |-> "inicio", id |-> None, busy |-> Nobody] \in Screen
    BY DEF Screen
  <1>3. Types
    BY <1>1, <1>2, NoHandlerType DEF Init, Types
  <1>4. Fits
    BY DEF Init, Fits, RowFits, HandlerFits, ScreenFits, NoRow, NoHandler, HasId, Texting, Closing
  <1>5. AliveOnce
    BY DEF Init, AliveOnce, Alive, NoRow
  <1>6. QED
    BY <1>3, <1>4, <1>5 DEF TypeInv

LEMMA TypeAlways == Spec => []TypeInv
  BY TypeInit, TypeStep, PTL DEF Spec

LEMMA AtMostOne ==
  ASSUME NEW S, \A x, y \in S : x = y
  PROVE  Cardinality(S) <= 1
  <1>1. CASE S = {}
    BY <1>1, FS_EmptySet
  <1>2. CASE S # {}
    <2>1. PICK x \in S : S = {x}
      BY <1>2
    <2>2. QED
      BY <2>1, FS_Singleton
  <1>3. QED
    BY <1>1, <1>2

(***************************************************************************)
(* For any number of organizations, phones, calls and requests, no two      *)
(* requests that are alive have the organization or the phone in common,    *)
(* although the last write of a handler may bring a canceled one back.      *)
(***************************************************************************)
THEOREM TypeCorrect == Spec => []TypeOK
  <1>1. TypeInv => TypeOK
    <2> SUFFICES ASSUME TypeInv PROVE TypeOK
      OBVIOUS
    <2>1. \A i \in Requests : req[i].status \in Statuses
      BY DEF TypeInv, Types, Row
    <2>2. \A o \in Orgs : screen[o].step \in {"inicio", "preparando", "codigo", "pronto"}
      BY DEF TypeInv, Types, Screen
    <2>3. \A o \in Orgs : Cardinality(AliveOf(o)) <= 1
      BY AtMostOne DEF TypeInv, AliveOnce, AliveOf
    <2>4. \A n \in Phones : Cardinality(AliveWith(n)) <= 1
      BY AtMostOne DEF TypeInv, AliveOnce, AliveWith
    <2>5. QED
      BY <2>1, <2>2, <2>3, <2>4 DEF TypeOK, Statuses
  <1>2. QED
    BY <1>1, TypeAlways, PTL

-----------------------------------------------------------------------------
(* What Meta and the database have of a number is had in order: it is      *)
(* reserved, then verified, then registered, then a channel that keeps its *)
(* PIN.  A channel that is connected by hand has none.                     *)

ReadyRow(i) ==
  /\ req[i].pnid => number[req[i].phone].org = req[i].org
  /\ req[i].verified => number[req[i].phone].verified /\ req[i].pin # None /\ req[i].pnid
  /\ ~req[i].pnid => req[i].attempts = 0 /\ tries[i] = 0 /\ req[i].codes = 0
  /\ ~req[i].verified => req[i].pin = None
  /\ Alive(i) /\ req[i].pnid => req[i].codes > 0

ReadyHandler(h) ==
  /\ handler[h].pc = "update" => number[Phone(h)].org = Owner(h)
  /\ handler[h].pc \in {"add", "update"} => ~req[handler[h].id].pnid
  /\ handler[h].pc \in Texting \cup Closing => req[handler[h].id].pnid
  /\ handler[h].pc \in Texting => req[handler[h].id].codes > 0
  /\ handler[h].pc \in {"mark", "register", "create"} =>
       number[Phone(h)].verified /\ handler[h].pin # None
  /\ handler[h].pc = "create" => number[Phone(h)].pin # None
  /\ handler[h].pc = "close" => channel[Phone(h)].org = Owner(h)

ReadyPhone(n) ==
  channel[n].pin # None => /\ channel[n].org # Nobody /\ number[n].org = channel[n].org
                           /\ number[n].verified /\ number[n].pin # None
                           /\ \E i \in Requests : req[i].pnid /\ req[i].phone = n

ReadyInv == /\ \A i \in Requests : ReadyRow(i)
            /\ \A h \in Handlers : ReadyHandler(h)
            /\ \A n \in Phones : ReadyPhone(n)

\* A number is reserved once, for one request.
ReservedOnce ==
  /\ \A i, j \in Requests : req[i].pnid /\ req[j].pnid /\ req[i].phone = req[j].phone => i = j
  /\ \A h \in Handlers, i \in Requests :
       handler[h].pc = "update" /\ req[i].pnid => req[i].phone # Phone(h)
  /\ \A g, h \in Handlers :
       handler[g].pc = "update" /\ handler[h].pc = "update" /\ Phone(g) = Phone(h) => g = h
  /\ \A g, h \in Handlers :
       /\ handler[g].pc \in {"add", "update"} /\ handler[h].pc \in {"add", "update"}
       /\ handler[g].id = handler[h].id
       => g = h

Reserved == TypeInv /\ ReadyInv /\ ReservedOnce

\* What a phone has at Meta, and whose channel it is, is not taken from it.
Grows ==
  \A n \in Phones :
    /\ number[n].org # Nobody => number'[n].org = number[n].org
    /\ number[n].verified => number'[n].verified
    /\ number[n].pin # None => number'[n].pin # None
    /\ channel[n].org # Nobody => channel'[n].org = channel[n].org

\* A request does not lose its number, nor the count of its codes.
Keeps(i) == Persists(i) /\ (req[i].pnid => req'[i].pnid) /\ (req[i].codes > 0 => req'[i].codes > 0)

LEMMA RowKnows ==
  ASSUME TypeInv, NEW i \in Requests
  PROVE  /\ req[i] \in Row /\ req[i].codes \in Nat /\ req[i].attempts \in Nat /\ tries[i] \in Nat
         /\ req[i].pnid => req[i].status # "none"
         /\ Alive(i) => req[i].status # "none"
         /\ req[i].status # "none" => req[i].org \in Orgs /\ req[i].phone \in Phones
  <1>1. Types /\ RowFits(i)
    BY DEF TypeInv, Fits
  <1>2. req[i] \in Row /\ tries[i] \in Nat
    BY <1>1 DEF Types
  <1>3. QED
    BY <1>1, <1>2 DEF Row, RowFits, NoRow, Alive

LEMMA ReadyKept ==
  ASSUME TypeInv, ReadyInv, NEW h \in Handlers, OthersStay(h), Grows,
         \A i \in Requests : Keeps(i) /\ ReadyRow(i)',
         ReadyHandler(h)',
         \A g \in Handlers : g # h /\ handler[g].pc \in {"add", "update"} => ~req'[handler[g].id].pnid,
         \A n \in Phones : channel'[n].pin = channel[n].pin \/ ReadyPhone(n)'
  PROVE  ReadyInv'
  <1>1. ASSUME NEW g \in Handlers, g # h
        PROVE  ReadyHandler(g)'
    <2>1. ReadyHandler(g) /\ handler'[g] = handler[g] /\ handler[g] \in Handler
      BY <1>1, HandlerKnows DEF ReadyInv, OthersStay
    <2>2. handler[g].pc \in HasId => handler[g].id \in Requests
      BY HandlerKnows
    <2>3. handler[g].pc # "idle" => Phone(g) \in Phones /\ Owner(g) \in Orgs
      BY HandlerKnows
    <2>4. Phone(g)' = Phone(g) /\ Owner(g)' = Owner(g)
      BY <2>1 DEF Phone, Owner
    <2>5. handler[g].pc = "update" => number'[Phone(g)].org = Owner(g)
      BY <2>1, <2>3 DEF ReadyHandler, Grows
    <2>6. handler[g].pc \in Texting \cup Closing => req'[handler[g].id].pnid
      BY <2>1, <2>2 DEF ReadyHandler, Keeps, HasId
    <2>7. handler[g].pc \in Texting => req'[handler[g].id].codes > 0
      BY <2>1, <2>2 DEF ReadyHandler, Keeps, HasId
    <2>8. handler[g].pc \in {"mark", "register", "create"} => number'[Phone(g)].verified
      BY <2>1, <2>3 DEF ReadyHandler, Grows
    <2>9. handler[g].pc = "create" => number'[Phone(g)].pin # None
      BY <2>1, <2>3 DEF ReadyHandler, Grows
    <2>10. handler[g].pc = "close" => channel'[Phone(g)].org = Owner(g)
      BY <2>1, <2>3 DEF ReadyHandler, Grows
    <2>11. handler[g].pc \in {"mark", "register", "create"} => handler[g].pin # None
      BY <2>1 DEF ReadyHandler
    <2>12. handler[g].pc \in {"add", "update"} => ~req'[handler[g].id].pnid
      BY <1>1
    <2>13. QED
      BY <2>1, <2>4, <2>5, <2>6, <2>7, <2>8, <2>9, <2>10, <2>11, <2>12 DEF ReadyHandler
  <1>2. ASSUME NEW n \in Phones
        PROVE  ReadyPhone(n)'
    <2>1. CASE channel[n].pin # None
      <3>1. PICK i \in Requests : req[i].pnid /\ req[i].phone = n
        BY <2>1 DEF ReadyInv, ReadyPhone
      <3>2. req'[i].pnid /\ req'[i].phone = n
        BY <3>1, RowKnows DEF Keeps, Persists
      <3>0. /\ channel[n].org # Nobody /\ number[n].org = channel[n].org
            /\ number[n].verified /\ number[n].pin # None
        BY <2>1 DEF ReadyInv, ReadyPhone
      <3>5. channel[n].org \in Orgs
        BY <3>0 DEF TypeInv, Types, Channel
      <3>3. /\ channel'[n].org # Nobody /\ number'[n].org = channel'[n].org
            /\ number'[n].verified /\ number'[n].pin # None
        BY <3>0, <3>5 DEF Grows
      <3>4. QED
        BY <3>2, <3>3 DEF ReadyPhone
    <2>2. CASE channel[n].pin = None
      BY <2>2 DEF ReadyPhone
    <2>3. QED
      BY <2>1, <2>2
  <1>3. \A g \in Handlers : ReadyHandler(g)'
    BY <1>1
  <1>4. QED
    BY <1>2, <1>3 DEF ReadyInv

\* A write that does not reserve the number, and revives nothing.
LEMMA ReadyRowKept ==
  ASSUME TypeInv, NEW i \in Requests, ReadyRow(i), Grows, req[i].status # "none",
         req'[i].status # "none",
         req'[i].phone = req[i].phone, req'[i].org = req[i].org,
         req'[i].pnid = req[i].pnid, req'[i].verified = req[i].verified, req'[i].pin = req[i].pin,
         req'[i].codes \in Nat, req'[i].codes >= req[i].codes,
         req[i].pnid \/ (req'[i].codes = 0 /\ req'[i].attempts = 0 /\ tries'[i] = 0),
         Alive(i)' => Alive(i)
  PROVE  Keeps(i) /\ ReadyRow(i)'
  <1>1. req[i].phone \in Phones /\ req[i].org \in Orgs /\ req[i].codes \in Nat
    BY RowKnows
  <1>2. QED
    BY <1>1 DEF Keeps, Persists, ReadyRow, Grows, Alive

\* A step that neither adds a number nor records one.
LEMMA ReservedOnceKept ==
  ASSUME ReservedOnce, NEW h \in Handlers, OthersStay(h), handler'[h].pc \notin {"add", "update"},
         \A i \in Requests : req'[i].pnid => req[i].pnid /\ req'[i].phone = req[i].phone
  PROVE  ReservedOnce'
  <1>1. \A g \in Handlers : handler'[g].pc \in {"add", "update"} => handler'[g] = handler[g]
    BY DEF OthersStay
  <1>2. \A i, j \in Requests :
          req'[i].pnid /\ req'[j].pnid /\ req'[i].phone = req'[j].phone => i = j
    BY DEF ReservedOnce
  <1>3. \A g \in Handlers, i \in Requests :
          handler'[g].pc = "update" /\ req'[i].pnid => req'[i].phone # handler'[g].phone
    BY <1>1 DEF ReservedOnce, Phone
  <1>4. \A f, g \in Handlers :
          handler'[f].pc = "update" /\ handler'[g].pc = "update" /\ handler'[f].phone = handler'[g].phone
          => f = g
    BY <1>1 DEF ReservedOnce, Phone
  <1>5. \A f, g \in Handlers :
          /\ handler'[f].pc \in {"add", "update"} /\ handler'[g].pc \in {"add", "update"}
          /\ handler'[f].id = handler'[g].id
          => f = g
    BY <1>1 DEF ReservedOnce
  <1>6. QED
    BY <1>2, <1>3, <1>4, <1>5 DEF ReservedOnce, Phone

\* Nothing of what the invariant is about changes, but for the row of a number
\* that had none.
LEMMA ReadyWizard ==
  ASSUME Reserved, UNCHANGED <<req, handler, tries, number>>,
         \A n \in Phones : /\ channel'[n].pin = channel[n].pin
                           /\ channel[n].org # Nobody => channel'[n].org = channel[n].org
  PROVE  ReadyInv' /\ ReservedOnce'
  <1>1. ReadyInv'
    <2>1. \A i \in Requests : ReadyRow(i)'
      BY DEF Reserved, ReadyInv, ReadyRow, Alive
    <2>2. \A h \in Handlers : ReadyHandler(h)'
      <3>1. TAKE h \in Handlers
      <3>2. handler[h].pc # "idle" => Phone(h) \in Phones /\ Owner(h) \in Orgs
        BY HandlerKnows DEF Reserved
      <3>3. ReadyHandler(h)
        BY DEF Reserved, ReadyInv
      <3>4. handler[h].pc = "close" => channel'[Phone(h)].org = channel[Phone(h)].org
        BY <3>2, <3>3 DEF ReadyHandler
      <3>5. QED
        BY <3>3, <3>4 DEF ReadyHandler, Phone, Owner
    <2>3. \A n \in Phones : ReadyPhone(n)'
      BY DEF Reserved, ReadyInv, ReadyPhone
    <2>4. QED
      BY <2>1, <2>2, <2>3 DEF ReadyInv
  <1>2. ReservedOnce'
    BY DEF Reserved, ReservedOnce, Phone
  <1>3. QED
    BY <1>1, <1>2

\* A row that stays, and one that has been inserted.
LEMMA ReadySameRow ==
  ASSUME TypeInv, NEW i \in Requests, ReadyRow(i), Grows, req'[i] = req[i], tries'[i] = tries[i]
  PROVE  Keeps(i) /\ ReadyRow(i)'
  <1>1. req[i].pnid => req[i].status # "none"
    BY RowKnows
  <1>2. req[i].status # "none" => req[i].phone \in Phones /\ req[i].org \in Orgs
    BY RowKnows
  <1>3. QED
    BY <1>1, <1>2 DEF Keeps, Persists, ReadyRow, Grows, Alive

LEMMA ReadyNewRow ==
  ASSUME TypeInv, NEW i \in Requests, req[i].status = "none", tries'[i] = tries[i],
         NEW o, NEW n, NEW st, NewAt(req'[i], o, n, st)
  PROVE  Keeps(i) /\ ReadyRow(i)' /\ ~req[i].pnid
  <1>1. tries[i] = 0 /\ req[i] = NoRow
    BY DEF TypeInv, Fits, RowFits
  <1>2. QED
    BY <1>1 DEF Keeps, Persists, ReadyRow, NewAt, NoRow, Alive

LEMMA ReadyCall ==
  ASSUME Reserved, NEW o \in Orgs, NEW h \in Handlers, NEW i, i = screen[o].id, Alive(i),
         Reenviar(o, h) \/ Confirmar(o, h) \/ Cancelar(o, h)
  PROVE  ReadyInv' /\ ReservedOnce'
  <1>0. TypeInv /\ Types /\ ReadyInv /\ ReservedOnce
    BY DEF Reserved, TypeInv
  <1>1. screen[o].step \in {"preparando", "codigo"} =>
          i \in Requests /\ req[i].phone \in Phones /\ req[i].org = o
    BY <1>0, ScreenKnows
  <1>2. /\ Types' /\ UNCHANGED <<rows, number, tries, sms, slips>>
        /\ screen[o].step \in {"preparando", "codigo"}
        /\ Waits(o, h) /\ OthersStay(h)
        /\ \/ BegunAt(handler'[h], "sms", o, req[i].phone, i) /\ req[i].pnid
           \/ BegunAt(handler'[h], "check", req[i].org, req[i].phone, i) /\ req[i].pnid
           \/ BegunAt(handler'[h], "cancel", o, req[i].phone, i)
    BY <1>0, <1>1, CallEffect DEF MayResend
  <1>3. Grows /\ UNCHANGED <<req, channel, number, tries>>
    BY <1>2 DEF Grows, rows
  <1>4. \A j \in Requests : Keeps(j) /\ ReadyRow(j)'
    BY <1>0, <1>3, ReadySameRow DEF ReadyInv
  <1>5. ReadyHandler(h)'
    <2>1. req[i].pnid => req[i].codes > 0
      BY <1>0, <1>1, <1>2 DEF ReadyInv, ReadyRow
    <2>2. QED
      BY <1>2, <1>3, <2>1 DEF ReadyHandler, BegunAt, Texting, Closing
  <1>6. \A g \in Handlers : g # h /\ handler[g].pc \in {"add", "update"} => ~req'[handler[g].id].pnid
    BY <1>0, <1>3 DEF ReadyInv, ReadyHandler
  <1>7. ReadyInv'
    BY <1>0, <1>2, <1>3, <1>4, <1>5, <1>6, ReadyKept
  <1>8. handler'[h].pc \notin {"add", "update"}
    BY <1>2 DEF BegunAt
  <1>9. QED
    BY <1>0, <1>2, <1>3, <1>7, <1>8, ReservedOnceKept

LEMMA ReadyEnviar ==
  ASSUME Reserved, NEW o \in Orgs, NEW h \in Handlers, NEW n \in Phones, Enviar(o, h, n)
  PROVE  ReadyInv' /\ ReservedOnce'
  <1>0. TypeInv /\ Types /\ ReadyInv /\ ReservedOnce
    BY DEF Reserved, TypeInv
  <1>1. /\ Types' /\ UNCHANGED <<channel, number, tries, sms, raced, slips>>
        /\ \/ /\ NextId \in Requests /\ req[NextId].status = "none" /\ OtherRowsStay(NextId)
              /\ NewAt(req'[NextId], o, n, "falhou")
              /\ UNCHANGED <<handler, screen>>
           \/ /\ UNCHANGED req /\ Waits(o, h) /\ OthersStay(h)
              /\ BegunAt(handler'[h], "insert", o, n, None)
    BY <1>0, EnviarEffect
  <1>2. Grows
    BY <1>1 DEF Grows
  <1>3. ASSUME NEW j \in Requests
        PROVE  Keeps(j) /\ ReadyRow(j)' /\ (req'[j].pnid => req'[j] = req[j])
    <2>1. CASE req'[j] = req[j]
      BY <1>0, <1>1, <1>2, <2>1, ReadySameRow DEF ReadyInv
    <2>2. CASE req[j].status = "none" /\ NewAt(req'[j], o, n, "falhou")
      <3>1. tries'[j] = tries[j]
        BY <1>1
      <3>2. QED
        BY <1>0, <2>2, <3>1, ReadyNewRow DEF NewAt
    <2>3. QED
      BY <1>1, <2>1, <2>2 DEF OtherRowsStay
  <1>4. OthersStay(h) /\ (handler' = handler \/ handler'[h].pc = "insert")
    BY <1>1 DEF BegunAt, OthersStay
  <1>5. handler'[h].pc \notin {"add", "update"}
    BY <1>1 DEF Enviar, Free, BegunAt
  <1>6. ASSUME NEW g \in Handlers, handler[g].pc \in {"add", "update"}
        PROVE  ~req'[handler[g].id].pnid
    <2>1. handler[g].id \in Requests
      BY <1>0, <1>6, HandlerKnows DEF HasId
    <2>2. QED
      BY <1>0, <1>3, <1>6, <2>1 DEF ReadyInv, ReadyHandler
  <1>7. ReadyHandler(h)'
    BY <1>0, <1>1, <1>5, <1>4 DEF ReadyInv, ReadyHandler, Enviar, Free, Texting, Closing
  <1>8. ReadyInv'
    BY <1>0, <1>1, <1>2, <1>3, <1>4, <1>6, <1>7, ReadyKept
  <1>9. QED
    BY <1>0, <1>3, <1>4, <1>5, <1>8, ReservedOnceKept

LEMMA ReadyInsert ==
  ASSUME Reserved, NEW h \in Handlers, Insert(h)
  PROVE  ReadyInv' /\ ReservedOnce'
  <1>0. TypeInv /\ Types /\ ReadyInv /\ ReservedOnce
    BY DEF Reserved, TypeInv
  <1>1. Owner(h) \in Orgs /\ Phone(h) \in Phones /\ handler[h] \in Handler
    BY <1>0, HandlerKnows DEF Insert
  <1>2. /\ Types' /\ OthersStay(h) /\ handler[h].pc = "insert"
        /\ UNCHANGED <<channel, number, tries, sms, raced, slips>>
        /\ \/ /\ NextId \in Requests /\ req[NextId].status = "none" /\ OtherRowsStay(NextId)
              /\ NewAt(req'[NextId], Owner(h), Phone(h), "criando")
              /\ handler'[h] = [handler[h] EXCEPT !.pc = "add", !.id = NextId]
           \/ handler'[h] = NoHandler /\ UNCHANGED req
    BY <1>0, <1>1, InsertEffect
  <1>3. Grows
    BY <1>2 DEF Grows
  <1>4. ASSUME NEW j \in Requests
        PROVE  Keeps(j) /\ ReadyRow(j)' /\ (req'[j].pnid => req'[j] = req[j])
    <2>1. CASE req'[j] = req[j]
      BY <1>0, <1>2, <1>3, <2>1, ReadySameRow DEF ReadyInv
    <2>2. CASE req[j].status = "none" /\ NewAt(req'[j], Owner(h), Phone(h), "criando")
      <3>1. tries'[j] = tries[j]
        BY <1>2
      <3> DEFINE o == Owner(h)
                 n == Phone(h)
      <3>2. NewAt(req'[j], o, n, "criando")
        BY <2>2
      <3>3. ~req'[j].pnid
        BY <2>2 DEF NewAt
      <3> HIDE DEF o, n
      <3>4. QED
        BY <1>0, <2>2, <3>1, <3>2, <3>3, ReadyNewRow
    <2>3. QED
      BY <1>2, <2>1, <2>2 DEF OtherRowsStay
  <1>5. ASSUME NEW g \in Handlers, handler[g].pc \in {"add", "update"}
        PROVE  ~req'[handler[g].id].pnid
    <2>1. handler[g].id \in Requests
      BY <1>0, <1>5, HandlerKnows DEF HasId
    <2>2. QED
      BY <1>0, <1>4, <1>5, <2>1 DEF ReadyInv, ReadyHandler
  <1>6. CASE handler'[h] = NoHandler
    <2>1. ReadyHandler(h)' /\ handler'[h].pc \notin {"add", "update"}
      BY <1>6 DEF ReadyHandler, NoHandler, Texting, Closing
    <2>2. QED
      BY <1>0, <1>2, <1>3, <1>4, <1>5, <2>1, ReadyKept, ReservedOnceKept
  <1>7. CASE /\ NextId \in Requests /\ req[NextId].status = "none"
             /\ NewAt(req'[NextId], Owner(h), Phone(h), "criando")
             /\ handler'[h] = [handler[h] EXCEPT !.pc = "add", !.id = NextId]
    <2>0. PICK i \in Requests : /\ req[i].status = "none" /\ ~req'[i].pnid
                                /\ handler'[h] = [handler[h] EXCEPT !.pc = "add", !.id = i]
      BY <1>7 DEF NewAt
    <2>1. handler'[h].pc = "add" /\ handler'[h].id = i
      BY <1>1, <2>0 DEF Handler
    <2>2. ReadyHandler(h)'
      BY <2>0, <2>1 DEF ReadyHandler, Texting, Closing
    <2>3. ReadyInv'
      BY <1>0, <1>2, <1>3, <1>4, <1>5, <2>2, ReadyKept
    <2>4. \A g \in Handlers : handler'[g].pc = "update" => handler'[g] = handler[g]
      BY <1>2, <2>1 DEF OthersStay
    <2>5. \A g \in Handlers : handler[g].pc \in {"add", "update"} => handler[g].id # i
      BY <1>0, <2>0, HandlerKnows DEF HasId
    <2>6. \A f, g \in Handlers :
            /\ handler'[f].pc \in {"add", "update"} /\ handler'[g].pc \in {"add", "update"}
            /\ handler'[f].id = handler'[g].id
            => f = g
      BY <1>0, <1>2, <2>1, <2>5 DEF OthersStay, ReservedOnce
    <2>7. ReservedOnce'
      <3>1. \A j, k \in Requests :
              req'[j].pnid /\ req'[k].pnid /\ req'[j].phone = req'[k].phone => j = k
        BY <1>0, <1>4 DEF ReservedOnce
      <3>2. \A g \in Handlers, j \in Requests :
              handler'[g].pc = "update" /\ req'[j].pnid => req'[j].phone # handler'[g].phone
        BY <1>0, <1>4, <2>4 DEF ReservedOnce, Phone
      <3>3. \A f, g \in Handlers :
              /\ handler'[f].pc = "update" /\ handler'[g].pc = "update"
              /\ handler'[f].phone = handler'[g].phone
              => f = g
        BY <1>0, <2>4 DEF ReservedOnce, Phone
      <3>4. QED
        BY <2>6, <3>1, <3>2, <3>3 DEF ReservedOnce, Phone
    <2>8. QED
      BY <2>3, <2>7
  <1>8. QED
    BY <1>2, <1>6, <1>7

LEMMA ReadyDie ==
  ASSUME Reserved, NEW h \in Handlers, Die(h)
  PROVE  ReadyInv' /\ ReservedOnce'
  <1>0. TypeInv /\ Types /\ ReadyInv /\ ReservedOnce
    BY DEF Reserved, TypeInv
  <1>1. OthersStay(h) /\ UNCHANGED <<req, channel, number, tries>> /\ handler'[h] = NoHandler
    BY <1>0, DieEffect DEF rows
  <1>2. Grows
    BY <1>1 DEF Grows
  <1>3. \A i \in Requests : Keeps(i) /\ ReadyRow(i)'
    BY <1>0, <1>1, <1>2, ReadySameRow DEF ReadyInv
  <1>4. ReadyHandler(h)' /\ handler'[h].pc \notin {"add", "update"}
    BY <1>1 DEF ReadyHandler, NoHandler, Texting, Closing
  <1>5. \A g \in Handlers : g # h /\ handler[g].pc \in {"add", "update"} => ~req'[handler[g].id].pnid
    BY <1>0, <1>1 DEF ReadyInv, ReadyHandler
  <1>6. QED
    BY <1>0, <1>1, <1>2, <1>3, <1>4, <1>5, ReadyKept, ReservedOnceKept

LEMMA ReadyAdd ==
  ASSUME Reserved, NEW h \in Handlers, Add(h) \/ AddFails(h)
  PROVE  ReadyInv' /\ ReservedOnce'
  <1>0. TypeInv /\ Types /\ ReadyInv /\ ReservedOnce
    BY DEF Reserved, TypeInv
  <1> DEFINE i == handler[h].id
  <1>1. /\ Owner(h) \in Orgs /\ Phone(h) \in Phones /\ handler[h] \in Handler
        /\ i \in Requests /\ req[i] \in Row /\ req[i].status # "none"
    BY <1>0, HandlerKnows DEF Add, AddFails, HasId
  <1>2. /\ Types' /\ OthersStay(h) /\ handler[h].pc = "add"
        /\ UNCHANGED <<channel, tries, sms, raced>>
        /\ \/ number' = number
           \/ /\ number[Phone(h)].org = Nobody /\ OtherNumbersStay(Phone(h))
              /\ number'[Phone(h)] = [number[Phone(h)] EXCEPT !.org = Owner(h)]
        /\ \/ /\ number'[Phone(h)].org = Owner(h) /\ UNCHANGED req
              /\ number[Phone(h)].org = Nobody
              /\ handler'[h] = [handler[h] EXCEPT !.pc = "update"]
           \/ /\ handler'[h] = NoHandler /\ OtherRowsStay(i)
              /\ req'[i] = [req[i] EXCEPT !.status = "falhou"]
    BY <1>0, <1>1, AddEffect
  <1>3. Grows
    <2>1. \A n \in Phones : number[n] \in Number
      BY <1>0 DEF Types
    <2>2. QED
      BY <1>1, <1>2, <2>1 DEF Grows, OtherNumbersStay, Number
  <1>4. \A j \in Requests : /\ req'[j] = req[j] \/ (j = i /\ req'[i] = [req[i] EXCEPT !.status = "falhou"])
                            /\ req'[j].pnid = req[j].pnid /\ req'[j].phone = req[j].phone
    BY <1>1, <1>2 DEF OtherRowsStay, Row
  <1>5. ASSUME NEW j \in Requests
        PROVE  Keeps(j) /\ ReadyRow(j)'
    <2>1. CASE req'[j] = req[j]
      BY <1>0, <1>2, <1>3, <2>1, ReadySameRow DEF ReadyInv
    <2>2. CASE j = i /\ req'[i] = [req[i] EXCEPT !.status = "falhou"]
      <3>1. /\ req'[j].status = "falhou" /\ req'[j].phone = req[j].phone /\ req'[j].org = req[j].org
            /\ req'[j].pnid = req[j].pnid /\ req'[j].verified = req[j].verified
            /\ req'[j].pin = req[j].pin /\ req'[j].codes = req[j].codes
            /\ req'[j].attempts = req[j].attempts
        BY <1>1, <2>2 DEF Row
      <3>2. ReadyRow(j) /\ tries'[j] = tries[j]
        BY <1>0, <1>2 DEF ReadyInv
      <3>3. req[j].codes \in Nat /\ req[j].status # "none"
        BY <1>0, <1>1, <2>2, RowKnows
      <3>4. req[j].pnid \/ (req'[j].codes = 0 /\ req'[j].attempts = 0 /\ tries'[j] = 0)
        BY <3>1, <3>2 DEF ReadyRow
      <3>5. ~Alive(j)'
        BY <3>1 DEF Alive
      <3>6. QED
        BY <1>0, <1>3, <3>1, <3>2, <3>3, <3>4, <3>5, ReadyRowKept
    <2>3. QED
      BY <1>4, <2>1, <2>2
  <1>6. ASSUME NEW g \in Handlers, handler[g].pc \in {"add", "update"}
        PROVE  ~req'[handler[g].id].pnid
    <2>1. handler[g].id \in Requests
      BY <1>0, <1>6, HandlerKnows DEF HasId
    <2>2. QED
      BY <1>0, <1>4, <1>6, <2>1 DEF ReadyInv, ReadyHandler
  <1>7. CASE handler'[h] = NoHandler
    <2>1. ReadyHandler(h)' /\ handler'[h].pc \notin {"add", "update"}
      BY <1>7 DEF ReadyHandler, NoHandler, Texting, Closing
    <2>2. QED
      BY <1>0, <1>2, <1>3, <1>4, <1>5, <1>6, <2>1, ReadyKept, ReservedOnceKept
  <1>8. CASE /\ number'[Phone(h)].org = Owner(h) /\ number[Phone(h)].org = Nobody /\ UNCHANGED req
             /\ handler'[h] = [handler[h] EXCEPT !.pc = "update"]
    <2>1. /\ handler'[h].pc = "update" /\ handler'[h].id = i
          /\ handler'[h].phone = Phone(h) /\ handler'[h].org = Owner(h)
      BY <1>1, <1>8 DEF Handler, Phone, Owner
    <2>2. ReadyHandler(h)'
      <3>1. ~req[i].pnid
        BY <1>0, <1>2 DEF ReadyInv, ReadyHandler
      <3>2. QED
        BY <1>8, <2>1, <3>1 DEF ReadyHandler, Texting, Closing, Phone, Owner
    <2>3. ReadyInv'
      BY <1>0, <1>2, <1>3, <1>5, <1>6, <2>2, ReadyKept
    <2>4. \A j \in Requests : req[j].pnid => req[j].phone # Phone(h)
      BY <1>0, <1>8, RowKnows DEF ReadyInv, ReadyRow
    <2>5. \A g \in Handlers : handler[g].pc = "update" => Phone(g) # Phone(h)
      BY <1>0, <1>8, HandlerKnows DEF ReadyInv, ReadyHandler
    <2>6. \A g \in Handlers : g = h \/ handler'[g] = handler[g]
      BY <1>2 DEF OthersStay
    <2>7. \A f, g \in Handlers :
            /\ handler'[f].pc \in {"add", "update"} /\ handler'[g].pc \in {"add", "update"}
            /\ handler'[f].id = handler'[g].id
            => f = g
      BY <1>0, <1>2, <2>1, <2>6 DEF ReservedOnce
    <2>8. \A g \in Handlers, j \in Requests :
            handler'[g].pc = "update" /\ req'[j].pnid => req'[j].phone # handler'[g].phone
      <3>1. TAKE g \in Handlers, j \in Requests
      <3>2. req'[j] = req[j]
        BY <1>8
      <3>3. CASE g = h
        BY <2>1, <2>4, <3>2, <3>3
      <3>4. CASE handler'[g] = handler[g]
        BY <1>0, <3>2, <3>4 DEF ReservedOnce, Phone
      <3>5. QED
        BY <2>6, <3>3, <3>4
    <2>9. \A f, g \in Handlers :
            /\ handler'[f].pc = "update" /\ handler'[g].pc = "update"
            /\ handler'[f].phone = handler'[g].phone
            => f = g
      BY <1>0, <2>1, <2>5, <2>6 DEF ReservedOnce, Phone
    <2>10. QED
      BY <1>0, <1>8, <2>3, <2>7, <2>8, <2>9 DEF ReservedOnce, Phone
  <1>9. QED
    BY <1>2, <1>7, <1>8

LEMMA ReadyUpdate ==
  ASSUME Reserved, NEW h \in Handlers, Update(h)
  PROVE  ReadyInv' /\ ReservedOnce'
  <1>0. TypeInv /\ Types /\ ReadyInv /\ ReservedOnce
    BY DEF Reserved, TypeInv
  <1> DEFINE i == handler[h].id
  <1>1. /\ Owner(h) \in Orgs /\ Phone(h) \in Phones /\ handler[h] \in Handler
        /\ i \in Requests /\ req[i] \in Row /\ req[i].status # "none"
        /\ req[i].org = Owner(h) /\ req[i].phone = Phone(h)
    BY <1>0, HandlerKnows DEF Update, HasId
  <1>2. /\ OthersStay(h) /\ handler'[h] = NoHandler /\ handler[h].pc = "update"
        /\ UNCHANGED <<channel, number, tries>> /\ OtherRowsStay(i)
        /\ \/ req'[i] = [req[i] EXCEPT !.pnid = TRUE, !.codes = 1, !.status = "aguardando_codigo"]
           \/ UNCHANGED req
           \/ req'[i] = [req[i] EXCEPT !.pnid = TRUE, !.status = "falhou"]
    BY <1>0, <1>1, UpdateEffect
  <1>3. Grows
    BY <1>2 DEF Grows
  <1>4. \A j \in Requests : j # i => req'[j] = req[j]
    BY <1>2 DEF OtherRowsStay
  <1>5. /\ req'[i].phone = req[i].phone /\ req'[i].org = req[i].org
        /\ req'[i].verified = req[i].verified /\ req'[i].pin = req[i].pin
        /\ req'[i].status # "none"
    BY <1>1, <1>2 DEF Row
  <1>6. \/ req'[i] = req[i]
        \/ req'[i].pnid /\ req'[i].codes > 0
        \/ req'[i].pnid /\ req'[i].status = "falhou" /\ req'[i].codes = req[i].codes
    <2>1. CASE req'[i] = [req[i] EXCEPT !.pnid = TRUE, !.codes = 1, !.status = "aguardando_codigo"]
      <3>1. req'[i].pnid = TRUE /\ req'[i].codes = 1
        BY <1>1, <2>1 DEF Row
      <3>2. QED
        BY <3>1
    <2>2. CASE req'[i] = [req[i] EXCEPT !.pnid = TRUE, !.status = "falhou"]
      <3>1. req'[i].pnid = TRUE /\ req'[i].status = "falhou" /\ req'[i].codes = req[i].codes
        BY <1>1, <2>2 DEF Row
      <3>2. QED
        BY <3>1
    <2>3. QED
      BY <1>2, <2>1, <2>2
  <1>7. ASSUME NEW j \in Requests
        PROVE  Keeps(j) /\ ReadyRow(j)'
    <2>1. CASE req'[j] = req[j]
      BY <1>0, <1>2, <1>3, <2>1, ReadySameRow DEF ReadyInv
    <2>2. CASE j = i /\ req'[i].pnid
      <3>1. Keeps(j)
        BY <1>0, <1>5, <1>6, <2>2 DEF Keeps, Persists
      <3>2. number'[req'[j].phone].org = req'[j].org
        BY <1>0, <1>1, <1>2, <1>5, <2>2 DEF ReadyInv, ReadyHandler
      <3>3. ReadyRow(j) /\ number' = number
        BY <1>0, <1>2 DEF ReadyInv
      <3>4. /\ req'[j].verified => number'[req'[j].phone].verified /\ req'[j].pin # None /\ req'[j].pnid
            /\ ~req'[j].verified => req'[j].pin = None
        BY <1>5, <2>2, <3>3 DEF ReadyRow
      <3>5. Alive(j)' => req'[j].codes > 0
        <4>1. CASE req'[i] = req[i]
          BY <2>2, <3>3, <4>1 DEF ReadyRow, Alive
        <4>2. CASE req'[i].codes > 0
          BY <2>2, <4>2
        <4>3. CASE req'[i].status = "falhou"
          BY <2>2, <4>3 DEF Alive
        <4>4. QED
          BY <1>6, <4>1, <4>2, <4>3
      <3>6. QED
        BY <2>2, <3>1, <3>2, <3>4, <3>5 DEF ReadyRow
    <2>3. QED
      BY <1>4, <1>6, <2>1, <2>2
  <1>8. ASSUME NEW g \in Handlers, g # h, handler[g].pc \in {"add", "update"}
        PROVE  ~req'[handler[g].id].pnid
    <2>1. handler[g].id \in Requests /\ handler[g].id # i
      BY <1>0, <1>2, <1>8, HandlerKnows DEF HasId, ReservedOnce
    <2>2. QED
      BY <1>0, <1>4, <1>8, <2>1 DEF ReadyInv, ReadyHandler
  <1>9. ReadyHandler(h)'
    BY <1>2 DEF ReadyHandler, NoHandler, Texting, Closing
  <1>10. ReadyInv'
    BY <1>0, <1>2, <1>3, <1>7, <1>8, <1>9, ReadyKept
  <1>11. \A g \in Handlers : handler'[g].pc \in {"add", "update"} => g # h /\ handler'[g] = handler[g]
    BY <1>2 DEF OthersStay, NoHandler
  <1>12. \A j \in Requests : /\ req'[j].phone = req[j].phone
                             /\ req'[j].pnid => req[j].pnid \/ j = i
    BY <1>4, <1>5
  <1>13. \A j \in Requests : req[j].pnid => req[j].phone # req[i].phone
    BY <1>0, <1>1, <1>2 DEF ReservedOnce
  <1>14. \A j, k \in Requests :
           req'[j].pnid /\ req'[k].pnid /\ req'[j].phone = req'[k].phone => j = k
    BY <1>0, <1>12, <1>13 DEF ReservedOnce
  <1>15. \A g \in Handlers, j \in Requests :
           handler'[g].pc = "update" /\ req'[j].pnid => req'[j].phone # handler'[g].phone
    <2>1. TAKE g \in Handlers, j \in Requests
    <2>2. HAVE handler'[g].pc = "update" /\ req'[j].pnid
    <2>3. g # h /\ handler'[g] = handler[g]
      BY <1>11, <2>2
    <2>4. handler[g].phone # handler[h].phone
      BY <1>0, <1>2, <2>2, <2>3 DEF ReservedOnce, Phone
    <2>5. CASE j = i
      BY <1>1, <1>12, <2>3, <2>4, <2>5 DEF Phone
    <2>6. CASE req[j].pnid
      BY <1>0, <1>12, <2>2, <2>3, <2>6 DEF ReservedOnce, Phone
    <2>7. QED
      BY <1>12, <2>2, <2>5, <2>6
  <1>16. \A f, g \in Handlers :
           /\ handler'[f].pc \in {"add", "update"} /\ handler'[g].pc \in {"add", "update"}
           /\ handler'[f].id = handler'[g].id
           => f = g
    BY <1>0, <1>11 DEF ReservedOnce
  <1>17. \A f, g \in Handlers :
           /\ handler'[f].pc = "update" /\ handler'[g].pc = "update"
           /\ handler'[f].phone = handler'[g].phone
           => f = g
    BY <1>0, <1>11 DEF ReservedOnce, Phone
  <1>18. QED
    BY <1>10, <1>14, <1>15, <1>16, <1>17 DEF ReservedOnce, Phone

\* What the work of a handler on its request does to the number and to the channel.
WorksOn(h, i) ==
  /\ \A n \in Phones : n # req[i].phone =>
       /\ number'[n] = number[n]
       /\ channel'[n] = channel[n]
  /\ req'[i].pnid = req[i].pnid
  /\ req'[i].codes \in Nat /\ req'[i].codes >= req[i].codes
  /\ handler'[h].pc \notin {"add", "update"}

LEMMA ReadyWorks ==
  ASSUME Reserved, NEW h \in Handlers, NEW i \in Requests, Works(h, i), WorksOn(h, i), Grows,
         \A n \in Phones :
           n = req[i].phone => channel'[n] = channel[n] \/ ReadyPhone(n)',
         ReadyRow(i)', ReadyHandler(h)'
  PROVE  ReadyInv' /\ ReservedOnce'
  <1>0. TypeInv /\ Types /\ ReadyInv /\ ReservedOnce
    BY DEF Reserved, TypeInv
  <1>1. /\ OthersStay(h) /\ req[i].status # "none" /\ req'[i].status # "none"
        /\ req'[i].org = req[i].org /\ req'[i].phone = req[i].phone
        /\ \A j \in Requests : j # i => req'[j] = req[j] /\ tries'[j] = tries[j]
    BY <1>0, HandlerKnows DEF Works, OtherRowsStay
  <1>2. Keeps(i)
    BY <1>0, <1>1, RowKnows DEF WorksOn, Keeps, Persists
  <1>3. \A j \in Requests : Keeps(j) /\ ReadyRow(j)'
    BY <1>0, <1>1, <1>2, ReadySameRow DEF ReadyInv
  <1>4. \A j \in Requests : req'[j].pnid => req[j].pnid /\ req'[j].phone = req[j].phone
    BY <1>1 DEF WorksOn
  <1>5. ASSUME NEW g \in Handlers, handler[g].pc \in {"add", "update"}
        PROVE  ~req'[handler[g].id].pnid
    <2>1. handler[g].id \in Requests
      BY <1>0, <1>5, HandlerKnows DEF HasId
    <2>2. QED
      BY <1>0, <1>4, <1>5, <2>1 DEF ReadyInv, ReadyHandler
  <1>6. ASSUME NEW n \in Phones
        PROVE  channel'[n].pin = channel[n].pin \/ ReadyPhone(n)'
    <2>1. CASE n = req[i].phone
      BY <2>1
    <2>2. CASE n # req[i].phone
      BY <2>2 DEF WorksOn
    <2>3. QED
      BY <2>1, <2>2
  <1>7. ReadyInv'
    BY <1>0, <1>1, <1>3, <1>5, <1>6, ReadyKept
  <1>8. QED
    BY <1>0, <1>1, <1>4, <1>7, ReservedOnceKept DEF WorksOn

\* The handler h has moved on to l.
MovedTo(h, l) ==
  /\ handler'[h].pc = l /\ handler'[h].id = handler[h].id
  /\ handler'[h].org = handler[h].org /\ handler'[h].phone = handler[h].phone
  /\ handler'[h].attempts = handler[h].attempts
  /\ l # "mark" => handler'[h].pin = handler[h].pin

LEMMA MovedKnows ==
  ASSUME NEW h \in Handlers, handler[h] \in Handler, NEW l,
         \/ handler'[h] = [handler[h] EXCEPT !.pc = l]
         \/ l = "mark" /\ handler'[h] = [handler[h] EXCEPT !.pc = l, !.pin = handler'[h].pin]
  PROVE  MovedTo(h, l)
  <1>1. CASE handler'[h] = [handler[h] EXCEPT !.pc = l]
    BY <1>1 DEF MovedTo, Handler
  <1>2. CASE l = "mark" /\ handler'[h] = [handler[h] EXCEPT !.pc = l, !.pin = handler'[h].pin]
    <2> DEFINE p == handler'[h].pin
    <2>1. l = "mark" /\ handler'[h] = [handler[h] EXCEPT !.pc = l, !.pin = p]
      BY <1>2
    <2> HIDE DEF p
    <2>2. QED
      BY <2>1 DEF MovedTo, Handler
  <1>3. QED
    BY <1>1, <1>2

\* The row after a write that touches neither the number nor its PIN.
LEMMA ReadyRowWritten ==
  ASSUME Reserved, NEW h \in Handlers, NEW i \in Requests, Works(h, i), Grows,
         req[i].pnid, req'[i].pnid = req[i].pnid, req'[i].verified = req[i].verified,
         req'[i].pin = req[i].pin, req'[i].codes \in Nat, req'[i].codes >= req[i].codes
  PROVE  ReadyRow(i)'
  <1>0. TypeInv /\ ReadyRow(i) /\ req[i].status # "none"
    BY RowKnows DEF Reserved, ReadyInv
  <1>1. /\ req'[i].phone = req[i].phone /\ req'[i].org = req[i].org
        /\ req'[i].status # "none" /\ (Alive(i)' => Alive(i))
    BY <1>0 DEF Works, Alive
  <1>2. req[i].pnid \/ (req'[i].codes = 0 /\ req'[i].attempts = 0 /\ tries'[i] = 0)
    OBVIOUS
  <1>3. QED
    BY <1>0, <1>1, <1>2, ReadyRowKept

LEMMA ReadyTexts ==
  ASSUME Reserved, NEW h \in Handlers, Sms(h) \/ SmsFails(h) \/ Count(h)
  PROVE  ReadyInv' /\ ReservedOnce'
  <1>0. TypeInv /\ Types /\ ReadyInv
    BY DEF Reserved, TypeInv
  <1>1. PICK i \in Requests : i = handler[h].id /\ Works(h, i)
    BY <1>0, WorkEffect DEF WorkStep
  <1>2. req[i] \in Row /\ handler[h] \in Handler /\ req[i].codes \in Nat
    BY <1>0, <1>1, RowKnows, HandlerKnows
  <1>3. /\ UNCHANGED <<channel, number>> /\ handler[h].pc \in Texting
        /\ req' = req \/ req'[i] = [req[i] EXCEPT !.codes = req[i].codes + 1]
        /\ handler'[h] = NoHandler \/ handler'[h] = [handler[h] EXCEPT !.pc = "count"]
    BY <1>0, <1>1, TextEffect
  <1>4. Grows
    BY <1>1, <1>3 DEF Grows
  <1>5. /\ req'[i].pnid = req[i].pnid /\ req'[i].verified = req[i].verified
        /\ req'[i].pin = req[i].pin /\ req'[i].codes \in Nat /\ req'[i].codes >= req[i].codes
    BY <1>1, <1>2, <1>3 DEF Row
  <1>6. req[i].pnid /\ req[i].codes > 0
    BY <1>1, <1>0, <1>3 DEF ReadyInv, ReadyHandler
  <1>7. ReadyRow(i)'
    BY <1>1, <1>4, <1>5, <1>6, ReadyRowWritten
  <1>8. ReadyHandler(h)' /\ handler'[h].pc \notin {"add", "update"}
    <2>1. CASE handler'[h] = NoHandler
      BY <1>1, <2>1 DEF ReadyHandler, NoHandler, Texting, Closing
    <2>2. CASE handler'[h] = [handler[h] EXCEPT !.pc = "count"]
      <3>1. handler'[h].pc = "count" /\ handler'[h].id = i
        BY <1>1, <1>2, <2>2 DEF Handler
      <3>2. req'[i].pnid /\ req'[i].codes > 0
        BY <1>1, <1>2, <1>5, <1>6
      <3>3. QED
        BY <1>1, <3>1, <3>2 DEF ReadyHandler, Texting, Closing
    <2>3. QED
      BY <1>1, <1>3, <2>1, <2>2
  <1>9. WorksOn(h, i)
    BY <1>1, <1>3, <1>5, <1>8 DEF WorksOn
  <1>10. \A n \in Phones : n = req[i].phone => channel'[n] = channel[n] \/ ReadyPhone(n)'
    BY <1>1, <1>3
  <1>11. QED
    BY <1>1, <1>4, <1>7, <1>8, <1>9, <1>10, ReadyWorks

LEMMA ReadyChecks ==
  ASSUME Reserved, NEW h \in Handlers, Check(h) \/ Verify(h) \/ Register(h) \/ RegisterFails(h)
  PROVE  ReadyInv' /\ ReservedOnce'
  <1>0. TypeInv /\ Types /\ ReadyInv
    BY DEF Reserved, TypeInv
  <1>1. PICK i \in Requests : i = handler[h].id /\ Works(h, i)
    BY <1>0, WorkEffect DEF WorkStep
  <1>n. PICK n \in Phones : n = Phone(h)
    BY <1>0, <1>1, HandlerKnows DEF Works, HasId, Texting, Closing
  <1>2. /\ req[i] \in Row /\ handler[h] \in Handler /\ req[i].codes \in Nat
        /\ req[i].phone = n /\ number[n] \in Number
    BY <1>0, <1>1, <1>n, RowKnows, HandlerKnows DEF Works, HasId, Texting, Closing, Types
  <1>3. ReadyRow(i) /\ ReadyHandler(h)
    BY <1>1, <1>n, <1>0, <1>1 DEF ReadyInv
  <1>4. /\ UNCHANGED <<req, channel, tries>> /\ handler[h].pc \in Closing
        /\ \A p \in Phones : p # n => number'[p] = number[p]
        /\ \/ number'[n] = number[n]
           \/ number'[n] = [number[n] EXCEPT !.verified = TRUE]
           \/ handler[h].pc = "register" /\ number'[n] = [number[n] EXCEPT !.pin = handler[h].pin]
    <2>1. CASE Check(h)
      <3>1. UNCHANGED <<rows, number, screen, history>> /\ handler[h].pc = "check"
        BY <1>0, <1>1, <2>1, CheckEffect
      <3>2. req' = req /\ channel' = channel /\ tries' = tries /\ number' = number
        BY <3>1 DEF rows, history
      <3>3. QED
        BY <3>1, <3>2 DEF Closing
    <2>2. CASE Verify(h)
      <3>1. /\ UNCHANGED <<rows, screen, history>> /\ handler[h].pc = "verify"
            /\ \A p \in Phones : p # n => number'[p] = number[p]
            /\ number'[n] = [number[n] EXCEPT !.verified = TRUE]
        BY <1>0, <1>n, <2>2, VerifyEffect DEF OtherNumbersStay
      <3>2. req' = req /\ channel' = channel /\ tries' = tries
        BY <3>1 DEF rows, history
      <3>3. QED
        BY <3>1, <3>2 DEF Closing
    <2>3. CASE Register(h) \/ RegisterFails(h)
      BY <1>1, <1>n, <1>0, <1>2, <2>3, RegisterEffect DEF rows, Closing, OtherNumbersStay
    <2>4. QED
      BY <1>1, <1>n, <2>1, <2>2, <2>3
  <1>5. \/ handler'[h] = NoHandler
        \/ MovedTo(h, "verify")
        \/ MovedTo(h, "register") /\ req[i].verified /\ handler[h].pin # None
        \/ /\ MovedTo(h, "mark") /\ handler'[h].pin # None
           /\ number'[n] = [number[n] EXCEPT !.verified = TRUE] \/ req[i].verified
        \/ MovedTo(h, "create") /\ handler[h].pc = "register" /\ number'[n].pin = handler[h].pin
        \/ MovedTo(h, "close") /\ channel[n].org = Owner(h)
    <2>1. CASE Check(h)
      BY <1>n, <1>0, <1>1, <1>2, <2>1, CheckEffect, MovedKnows
    <2>2. CASE Verify(h)
      BY <1>1, <1>n, <1>0, <1>2, <2>2, VerifyEffect, MovedKnows
    <2>3. CASE Register(h) \/ RegisterFails(h)
      BY <1>1, <1>n, <1>0, <1>2, <2>3, RegisterEffect, MovedKnows
    <2>4. QED
      BY <1>1, <1>n, <2>1, <2>2, <2>3
  <1>6. handler[h].pc \in {"mark", "register", "create"} => number[n].verified /\ handler[h].pin # None
    BY <1>1, <1>n, <1>3 DEF ReadyHandler
  <1>7. /\ number'[n].org = number[n].org
        /\ number[n].verified => number'[n].verified
        /\ number[n].pin # None => number'[n].pin # None
    <2>1. CASE number'[n] = number[n]
      BY <1>1, <1>n, <2>1
    <2>2. CASE number'[n] = [number[n] EXCEPT !.verified = TRUE]
      BY <1>1, <1>n, <1>2, <2>2 DEF Number
    <2>3. CASE handler[h].pc = "register" /\ number'[n] = [number[n] EXCEPT !.pin = handler[h].pin]
      BY <1>1, <1>n, <1>2, <1>6, <2>3 DEF Number
    <2>4. QED
      BY <1>1, <1>n, <1>4, <2>1, <2>2, <2>3
  <1>8. Grows
    BY <1>1, <1>n, <1>4, <1>7 DEF Grows
  <1>9. ReadyRow(i)' /\ req'[i].pnid
    BY <1>n, <1>0, <1>1, <1>3, <1>4, <1>8, ReadySameRow DEF ReadyHandler
  <1>10. handler'[h].pc \in {"mark", "register", "create"} =>
           number'[n].verified /\ handler'[h].pin # None
    <2>1. req[i].verified => number'[n].verified
      BY <1>1, <1>n, <1>2, <1>3, <1>7 DEF ReadyRow
    <2>2. number'[n] = [number[n] EXCEPT !.verified = TRUE] => number'[n].verified = TRUE
      BY <1>1, <1>n, <1>2 DEF Number
    <2>3. QED
      BY <1>1, <1>n, <1>5, <1>6, <1>7, <2>1, <2>2 DEF MovedTo, NoHandler
  <1>11. handler'[h].pc = "create" => number'[n].pin # None
    BY <1>1, <1>n, <1>5, <1>6 DEF MovedTo, NoHandler
  <1>12. handler'[h].pc = "close" => channel'[n].org = Owner(h)
    BY <1>1, <1>n, <1>4, <1>5 DEF MovedTo, NoHandler
  <1>13. /\ handler'[h].pc \in {"idle", "verify", "register", "mark", "create", "close"}
         /\ handler'[h].pc # "idle" =>
              handler'[h].id = i /\ handler'[h].phone = n /\ handler'[h].org = Owner(h)
    BY <1>1, <1>n, <1>5 DEF MovedTo, NoHandler, Owner, Phone
  <1>14. ReadyHandler(h)'
    BY <1>1, <1>n, <1>9, <1>10, <1>11, <1>12, <1>13 DEF ReadyHandler, Texting, Closing, Phone, Owner
  <1>15. WorksOn(h, i)
    BY <1>1, <1>n, <1>2, <1>4, <1>13 DEF WorksOn
  <1>16. \A p \in Phones : p = req[i].phone => channel'[p] = channel[p] \/ ReadyPhone(p)'
    BY <1>1, <1>n, <1>4
  <1>17. QED
    BY <1>n, <1>1, <1>8, <1>9, <1>14, <1>15, <1>16, ReadyWorks

LEMMA ReadyVerifyFails ==
  ASSUME Reserved, NEW h \in Handlers, VerifyFails(h)
  PROVE  ReadyInv' /\ ReservedOnce'
  <1>0. TypeInv /\ Types /\ ReadyInv
    BY DEF Reserved, TypeInv
  <1>1. PICK i \in Requests : i = handler[h].id /\ Works(h, i)
    BY <1>0, WorkEffect DEF WorkStep
  <1>2. PICK n \in Phones : n = Phone(h)
    BY <1>0, <1>1, HandlerKnows DEF Works, HasId, Texting, Closing
  <1>3. /\ req[i] \in Row /\ handler[h] \in Handler /\ req[i].codes \in Nat
        /\ req[i].phone = n /\ number[n] \in Number
    BY <1>0, <1>1, <1>2, RowKnows, HandlerKnows DEF Works, HasId, Texting, Closing, Types
  <1>4. /\ handler'[h] = NoHandler /\ handler[h].pc = "verify" /\ channel' = channel
        /\ \/ number' = number
           \/ /\ OtherNumbersStay(n)
              /\ number'[n] = [number[n] EXCEPT !.verified = TRUE]
    BY <1>0, <1>1, <1>2, VerifyFailsEffect
  <1>5. PICK st \in {req[i].status, "falhou"} :
          /\ req'[i] = [req[i] EXCEPT !.attempts = handler[h].attempts + 1, !.status = st]
          /\ handler[h].attempts + 1 >= MaxCodes => st = "falhou"
    BY <1>0, <1>1, <1>2, VerifyFailsEffect
  <1>6. Grows
    <2>1. \A p \in Phones : number'[p] = number[p] \/ number'[p] = [number[p] EXCEPT !.verified = TRUE]
      BY <1>4 DEF OtherNumbersStay
    <2>2. \A p \in Phones : number[p] \in Number
      BY <1>0 DEF Types
    <2>3. ASSUME NEW p \in Phones
          PROVE  /\ number'[p].org = number[p].org /\ number'[p].pin = number[p].pin
                 /\ number[p].verified => number'[p].verified
      <3>1. CASE number'[p] = number[p]
        BY <3>1
      <3>2. CASE number'[p] = [number[p] EXCEPT !.verified = TRUE]
        BY <2>2, <3>2 DEF Number
      <3>3. QED
        BY <2>1, <3>1, <3>2
    <2>4. QED
      BY <1>4, <2>3 DEF Grows
  <1>7. /\ req'[i].pnid = req[i].pnid /\ req'[i].verified = req[i].verified
        /\ req'[i].pin = req[i].pin /\ req'[i].codes \in Nat /\ req'[i].codes >= req[i].codes
    BY <1>3, <1>5 DEF Row
  <1>8. req[i].pnid
    BY <1>0, <1>1, <1>4 DEF ReadyInv, ReadyHandler, Closing
  <1>9. ReadyRow(i)'
    BY <1>1, <1>6, <1>7, <1>8, ReadyRowWritten
  <1>10. ReadyHandler(h)' /\ handler'[h].pc \notin {"add", "update"}
    BY <1>4 DEF ReadyHandler, NoHandler, Texting, Closing
  <1>11. WorksOn(h, i)
    BY <1>3, <1>4, <1>7, <1>10 DEF WorksOn, OtherNumbersStay
  <1>12. \A p \in Phones : p = req[i].phone => channel'[p] = channel[p] \/ ReadyPhone(p)'
    BY <1>4
  <1>13. QED
    BY <1>1, <1>6, <1>9, <1>10, <1>11, <1>12, ReadyWorks

LEMMA ReadyMark ==
  ASSUME Reserved, NEW h \in Handlers, Mark(h)
  PROVE  ReadyInv' /\ ReservedOnce'
  <1>0. TypeInv /\ Types /\ ReadyInv
    BY DEF Reserved, TypeInv
  <1>1. PICK i \in Requests : i = handler[h].id /\ Works(h, i)
    BY <1>0, WorkEffect DEF WorkStep
  <1>2. PICK n \in Phones : n = Phone(h)
    BY <1>0, <1>1, HandlerKnows DEF Works, HasId, Texting, Closing
  <1>3. /\ req[i] \in Row /\ handler[h] \in Handler /\ req[i].codes \in Nat
        /\ req[i].phone = n /\ req[i].status # "none" /\ n # Nobody
    BY <1>0, <1>1, <1>2, RowKnows, HandlerKnows DEF Works, HasId, Texting, Closing
  <1>4. /\ UNCHANGED <<channel, number, history>> /\ handler[h].pc = "mark"
        /\ handler'[h] = [handler[h] EXCEPT !.pc = "register"]
        /\ req'[i] = [req[i] EXCEPT !.verified = TRUE, !.pin = handler[h].pin]
    BY <1>0, <1>1, MarkEffect
  <1>5. tries' = tries /\ Grows
    BY <1>4 DEF history, Grows
  <1>6. ReadyHandler(h) /\ ReadyRow(i)
    BY <1>0 DEF ReadyInv
  <1>7. /\ req'[i].pnid = req[i].pnid /\ req'[i].verified = TRUE
        /\ req'[i].pin = handler[h].pin /\ req'[i].codes = req[i].codes
        /\ req'[i].phone = n /\ req'[i].org = req[i].org /\ req'[i].status = req[i].status
        /\ req'[i].attempts = req[i].attempts
    BY <1>3, <1>4 DEF Row
  <1>8. number[n].verified /\ handler[h].pin # None /\ req[i].pnid
    BY <1>1, <1>2, <1>4, <1>6 DEF ReadyHandler, Closing
  <1>9. ReadyRow(i)'
    <2>1. req'[i].pnid /\ req'[i].verified
      BY <1>7, <1>8
    <2>2. number'[n].org = req'[i].org /\ number'[n].verified
      BY <1>3, <1>4, <1>6, <1>7, <1>8 DEF ReadyRow
    <2>3. Alive(i)' => req'[i].codes > 0
      BY <1>6, <1>7, <1>8 DEF ReadyRow, Alive
    <2>4. QED
      BY <1>7, <1>8, <2>1, <2>2, <2>3 DEF ReadyRow
  <1>10. MovedTo(h, "register")
    BY <1>3, <1>4, MovedKnows
  <1>11. ReadyHandler(h)' /\ handler'[h].pc \notin {"add", "update"}
    <2>1. req'[i].pnid
      BY <1>7, <1>8
    <2>2. QED
      BY <1>1, <1>2, <1>4, <1>8, <1>10, <2>1 DEF MovedTo, ReadyHandler, Texting, Closing, Phone
  <1>12. WorksOn(h, i)
    BY <1>3, <1>4, <1>7, <1>11 DEF WorksOn
  <1>13. \A p \in Phones : p = req[i].phone => channel'[p] = channel[p] \/ ReadyPhone(p)'
    BY <1>4
  <1>14. QED
    BY <1>1, <1>5, <1>9, <1>11, <1>12, <1>13, ReadyWorks

LEMMA ReadyCreate ==
  ASSUME Reserved, NEW h \in Handlers, CreateChannel(h)
  PROVE  ReadyInv' /\ ReservedOnce'
  <1>0. TypeInv /\ Types /\ ReadyInv
    BY DEF Reserved, TypeInv
  <1>1. PICK i \in Requests : i = handler[h].id /\ Works(h, i)
    BY <1>0, WorkEffect DEF WorkStep
  <1>2. PICK n \in Phones : n = Phone(h)
    BY <1>0, <1>1, HandlerKnows DEF Works, HasId, Texting, Closing
  <1>3. /\ req[i] \in Row /\ handler[h] \in Handler /\ req[i].codes \in Nat
        /\ req[i].phone = n /\ req[i].org = Owner(h) /\ Owner(h) \in Orgs
    BY <1>0, <1>1, <1>2, RowKnows, HandlerKnows DEF Works, HasId, Texting, Closing
  <1>4. /\ UNCHANGED <<req, number, history>> /\ handler[h].pc = "create"
        /\ handler'[h] = [handler[h] EXCEPT !.pc = "close"]
        /\ channel'[n].org = Owner(h)
        /\ \A p \in Phones : p # n => channel'[p] = channel[p]
        /\ channel[n].org = Nobody \/ channel' = channel
    BY <1>0, <1>2, <1>3, CreateEffect
  <1>5. tries' = tries /\ Grows
    BY <1>4 DEF history, Grows
  <1>6. ReadyHandler(h) /\ ReadyRow(i)
    BY <1>0 DEF ReadyInv
  <1>7. req[i].pnid /\ number[n].verified /\ number[n].pin # None
    BY <1>1, <1>2, <1>4, <1>6 DEF ReadyHandler, Closing
  <1>8. ReadyRow(i)'
    BY <1>0, <1>4, <1>5, <1>6, ReadySameRow
  <1>9. MovedTo(h, "close")
    BY <1>3, <1>4, MovedKnows
  <1>10. ReadyHandler(h)' /\ handler'[h].pc \notin {"add", "update"}
    BY <1>1, <1>2, <1>4, <1>7, <1>9 DEF MovedTo, ReadyHandler, Texting, Closing, Phone, Owner
  <1>11. ReadyPhone(n)'
    BY <1>3, <1>4, <1>6, <1>7 DEF ReadyPhone, ReadyRow
  <1>12. WorksOn(h, i)
    BY <1>3, <1>4, <1>10 DEF WorksOn
  <1>13. \A p \in Phones : p = req[i].phone => channel'[p] = channel[p] \/ ReadyPhone(p)'
    BY <1>3, <1>11
  <1>14. QED
    BY <1>1, <1>5, <1>8, <1>10, <1>12, <1>13, ReadyWorks

\* A request that ends, of a handler that closes or cancels it, or finds its
\* number taken.
LEMMA ReadyEnds ==
  ASSUME Reserved, NEW h \in Handlers, CreateRefused(h) \/ Close(h) \/ Cancel(h)
  PROVE  ReadyInv' /\ ReservedOnce'
  <1>0. TypeInv /\ Types /\ ReadyInv
    BY DEF Reserved, TypeInv
  <1>1. PICK i \in Requests : i = handler[h].id /\ Works(h, i)
    BY <1>0, WorkEffect DEF WorkStep
  <1>2. req[i] \in Row /\ req[i].codes \in Nat /\ req[i].status # "none"
    BY <1>0, <1>1, RowKnows, HandlerKnows DEF Works
  <1>3. /\ UNCHANGED <<channel, number, history>> /\ handler'[h] = NoHandler
        /\ \E st \in {"falhou", "concluida", "cancelada"} : req'[i] = [req[i] EXCEPT !.status = st]
    BY <1>0, <1>1, EndEffect
  <1>4. tries' = tries /\ Grows
    BY <1>3 DEF history, Grows
  <1>5. /\ req'[i].pnid = req[i].pnid /\ req'[i].verified = req[i].verified
        /\ req'[i].pin = req[i].pin /\ req'[i].codes = req[i].codes
        /\ req'[i].phone = req[i].phone /\ req'[i].org = req[i].org
        /\ req'[i].attempts = req[i].attempts /\ req'[i].status \in {"falhou", "concluida", "cancelada"}
    BY <1>2, <1>3 DEF Row
  <1>6. ReadyRow(i) /\ ~Alive(i)' /\ tries'[i] = tries[i]
    BY <1>0, <1>4, <1>5 DEF ReadyInv, Alive
  <1>7. req[i].pnid \/ (req'[i].codes = 0 /\ req'[i].attempts = 0 /\ tries'[i] = 0)
    BY <1>5, <1>6 DEF ReadyRow
  <1>8. ReadyRow(i)'
    BY <1>0, <1>2, <1>4, <1>5, <1>6, <1>7, ReadyRowKept
  <1>9. ReadyHandler(h)' /\ handler'[h].pc \notin {"add", "update"}
    BY <1>3 DEF ReadyHandler, NoHandler, Texting, Closing
  <1>10. WorksOn(h, i)
    BY <1>2, <1>3, <1>5, <1>9 DEF WorksOn
  <1>11. \A p \in Phones : p = req[i].phone => channel'[p] = channel[p] \/ ReadyPhone(p)'
    BY <1>3
  <1>12. QED
    BY <1>1, <1>4, <1>8, <1>9, <1>10, <1>11, ReadyWorks

LEMMA ReservedStep == Reserved /\ [Next]_vars => Reserved'
  <1> SUFFICES ASSUME Reserved, [Next]_vars PROVE Reserved'
    OBVIOUS
  <1>0. TypeInv /\ Types /\ Fits
    BY DEF Reserved, TypeInv
  <1>1. TypeInv'
    BY <1>0, TypeStep
  <1>2. ASSUME \/ \E o \in Orgs : Open(o) \/ Leave(o) \/ (Gone(o) /\ screen[o].busy = Nobody)
               \/ \E n \in Phones : Rewired(n)
               \/ UNCHANGED vars
        PROVE  ReadyInv' /\ ReservedOnce'
    <2>1. /\ UNCHANGED <<req, handler, tries, number>>
          /\ \A n \in Phones : /\ channel'[n].pin = channel[n].pin
                               /\ channel[n].org # Nobody => channel'[n].org = channel[n].org
      <3>1. ASSUME NEW o \in Orgs, Open(o) \/ Leave(o) \/ (Gone(o) /\ screen[o].busy = Nobody)
            PROVE  UNCHANGED <<req, handler, tries, number, channel>>
        BY <1>0, <3>1, WizardEffect, GoneEffect DEF rows
      <3>2. ASSUME NEW n \in Phones, Rewired(n)
            PROVE  /\ UNCHANGED <<req, handler, tries, number>>
                   /\ \A p \in Phones :
                        /\ channel'[p].pin = channel[p].pin
                        /\ channel[p].org # Nobody => channel'[p].org = channel[p].org
        BY <1>0, <3>2, RewiredEffect DEF history
      <3>3. CASE UNCHANGED vars
        BY <3>3 DEF vars, rows, history
      <3>4. QED
        BY <1>2, <3>1, <3>2, <3>3
    <2>2. QED
      BY <2>1, ReadyWizard
  <1>3. ASSUME NEW o \in Orgs, NEW h \in Handlers, Confirmar(o, h) \/ Reenviar(o, h) \/ Cancelar(o, h)
        PROVE  ReadyInv' /\ ReservedOnce'
    <2>1. CASE Alive(screen[o].id)
      BY <1>3, <2>1, ReadyCall
    <2>2. CASE ~Alive(screen[o].id)
      BY <1>2, <1>3, <2>2, DeadCall
    <2>3. QED
      BY <2>1, <2>2
  <1>4. ASSUME NEW h \in Handlers, WorkStep(h)
        PROVE  ReadyInv' /\ ReservedOnce'
    BY <1>4, ReadyTexts, ReadyChecks, ReadyVerifyFails, ReadyMark, ReadyCreate, ReadyEnds DEF WorkStep
  <1>5. ReadyInv' /\ ReservedOnce'
    BY <1>2, <1>3, <1>4, Steps, ReadyEnviar, ReadyInsert, ReadyAdd, ReadyUpdate, ReadyDie
  <1>6. QED
    BY <1>1, <1>5 DEF Reserved

LEMMA ReservedAlways == Spec => []Reserved
  <1>1. Init => Reserved
    <2> SUFFICES ASSUME Init PROVE ReadyInv /\ ReservedOnce
      BY TypeInit DEF Reserved
    <2>1. QED
      BY DEF Init, ReadyInv, ReadyRow, ReadyHandler, ReadyPhone, ReservedOnce, NoRow, NoHandler,
         NoChannel, Alive, Texting, Closing
  <1>2. QED
    BY <1>1, ReservedStep, PTL DEF Spec

(***************************************************************************)
(* A number whose channel the assisted connection made was added by that    *)
(* organization, verified and registered at Meta, however the handlers of   *)
(* its request overlap, die, or write after the request was canceled, and   *)
(* whatever is connected by hand meanwhile.                                 *)
(***************************************************************************)
THEOREM ChannelIsAlwaysReady == Spec => []ChannelIsReady
  <1>1. Reserved => ChannelIsReady
    BY DEF Reserved, ReadyInv, ReadyPhone, ChannelIsReady
  <1>2. QED
    BY <1>1, ReservedAlways, PTL

-----------------------------------------------------------------------------
(* Without two verifications of a request that overlap, the copy that a    *)
(* handler works with is the row, and one PIN is used for a number.        *)

Exclusive == {"add", "update"} \cup Closing

CleanRow(i) ==
  /\ tries[i] = req[i].attempts
  /\ req[i].attempts <= MaxCodes
  /\ Alive(i) => req[i].attempts < MaxCodes

CleanHandler(h) ==
  /\ handler[h].pc \in {"check", "verify"} =>
       /\ handler[h].attempts = req[handler[h].id].attempts
       /\ req[handler[h].id].attempts < MaxCodes
       /\ handler[h].pin = req[handler[h].id].pin
  /\ handler[h].pc \in {"verify", "mark"} => ~req[handler[h].id].verified
  /\ handler[h].pc \in {"register", "create"} =>
       req[handler[h].id].verified /\ handler[h].pin = req[handler[h].id].pin

Registered(n, pin) ==
  \E i \in Requests : /\ req[i].phone = n /\ req[i].pnid
                      /\ req[i].verified /\ req[i].pin = pin

CleanPhone(n) ==
  /\ number[n].pin # None => Registered(n, number[n].pin)
  /\ channel[n].pin # None => Registered(n, channel[n].pin)

Alone ==
  \A g, h \in Handlers :
    handler[g].pc \in Exclusive /\ handler[h].pc \in Exclusive /\ handler[g].id = handler[h].id => g = h

Clean ==
  /\ Alone
  /\ \A i \in Requests : CleanRow(i)
  /\ \A h \in Handlers : CleanHandler(h)
  /\ \A n \in Phones : CleanPhone(n)

CleanInv == ~raced => Clean

\* What a step of h may do to a request: its copies are only h's.
Sound(h, i) ==
  /\ req[i].pnid /\ req[i].verified =>
       req'[i].pnid /\ req'[i].verified /\ req'[i].pin = req[i].pin /\ req'[i].phone = req[i].phone
  /\ \/ /\ req'[i].attempts = req[i].attempts /\ req'[i].verified = req[i].verified
        /\ req'[i].pin = req[i].pin
     \/ handler[h].pc \in Exclusive /\ handler[h].id = i
     \/ req[i].status = "none"

\* What it may do to a number and its channel.
SoundPhone(n) ==
  /\ number'[n].pin = number[n].pin \/ Registered(n, number[n].pin)'
  /\ channel'[n].pin = channel[n].pin \/ Registered(n, channel[n].pin)'

LEMMA CleanKept ==
  ASSUME TypeInv, Clean, NEW h \in Handlers, OthersStay(h),
         \A i \in Requests : Sound(h, i) /\ CleanRow(i)',
         \A n \in Phones : SoundPhone(n),
         CleanHandler(h)',
         handler'[h].pc \in Exclusive =>
           \/ handler[h].pc \in Exclusive /\ handler'[h].id = handler[h].id
           \/ \A g \in Handlers : handler[g].pc \in Exclusive => handler[g].id # handler'[h].id
  PROVE  Clean'
  <1>1. ASSUME NEW g \in Handlers, g # h
        PROVE  CleanHandler(g)'
    <2>1. handler'[g] = handler[g] /\ CleanHandler(g)
      BY <1>1 DEF OthersStay, Clean
    <2>2. CASE handler[g].pc \notin Exclusive
      BY <2>1, <2>2 DEF CleanHandler, Exclusive, Closing
    <2>3. CASE handler[g].pc \in Exclusive
      <3>1. PICK i \in Requests : i = handler[g].id /\ req[i].status # "none"
        BY <2>3, HandlerKnows DEF Exclusive, HasId
      <3>2. ~(handler[h].pc \in Exclusive /\ handler[h].id = i)
        BY <1>1, <2>3, <3>1 DEF Clean, Alone
      <3>3. /\ req'[i].attempts = req[i].attempts /\ req'[i].verified = req[i].verified
            /\ req'[i].pin = req[i].pin
        BY <3>1, <3>2 DEF Sound
      <3>4. QED
        BY <2>1, <3>1, <3>3 DEF CleanHandler
    <2>4. QED
      BY <2>2, <2>3
  <1>2. \A n \in Phones : CleanPhone(n)'
    <2>1. \A n \in Phones, p \in 0..2 : Registered(n, p) =>
            \E i \in Requests : /\ req'[i].phone = n /\ req'[i].pnid
                                /\ req'[i].verified /\ req'[i].pin = p
      BY DEF Registered, Sound
    <2>2. TAKE n \in Phones
    <2>3. number[n].pin \in 0..2 /\ channel[n].pin \in 0..2
      BY DEF TypeInv, Types, Number, Channel
    <2>4. number'[n].pin # None =>
            \E i \in Requests : /\ req'[i].phone = n /\ req'[i].pnid
                                /\ req'[i].verified /\ req'[i].pin = number'[n].pin
      <3>1. CASE number'[n].pin = number[n].pin
        BY <2>1, <2>3, <3>1 DEF Clean, CleanPhone
      <3>2. CASE Registered(n, number[n].pin)'
        BY <3>2 DEF Registered
      <3>3. QED
        BY <3>1, <3>2 DEF SoundPhone
    <2>5. channel'[n].pin # None =>
            \E i \in Requests : /\ req'[i].phone = n /\ req'[i].pnid
                                /\ req'[i].verified /\ req'[i].pin = channel'[n].pin
      <3>1. CASE channel'[n].pin = channel[n].pin
        BY <2>1, <2>3, <3>1 DEF Clean, CleanPhone
      <3>2. CASE Registered(n, channel[n].pin)'
        BY <3>2 DEF Registered
      <3>3. QED
        BY <3>1, <3>2 DEF SoundPhone
    <2>6. QED
      BY <2>4, <2>5 DEF CleanPhone, Registered
  <1>3. Alone'
    BY DEF Clean, Alone, OthersStay
  <1>4. \A g \in Handlers : CleanHandler(g)'
    BY <1>1
  <1>5. QED
    BY <1>2, <1>3, <1>4 DEF Clean

LEMMA CleanSameRow ==
  ASSUME Clean, NEW h \in Handlers, NEW i \in Requests, req'[i] = req[i], tries'[i] = tries[i]
  PROVE  Sound(h, i) /\ CleanRow(i)'
  BY DEF Clean, CleanRow, Sound, Alive

\* A write that touches none of what is copied, and revives nothing.
LEMMA CleanRowKept ==
  ASSUME Clean, NEW h \in Handlers, NEW i \in Requests,
         req'[i].attempts = req[i].attempts, req'[i].verified = req[i].verified,
         req'[i].pin = req[i].pin, req'[i].phone = req[i].phone, tries'[i] = tries[i],
         req[i].pnid => req'[i].pnid, Alive(i)' => Alive(i)
  PROVE  Sound(h, i) /\ CleanRow(i)'
  BY DEF Clean, CleanRow, Sound, Alive

LEMMA CleanNewRow ==
  ASSUME TypeInv, NEW h \in Handlers, NEW i \in Requests, req[i].status = "none", tries'[i] = tries[i],
         NEW o, NEW n, NEW st, NewAt(req'[i], o, n, st)
  PROVE  Sound(h, i) /\ CleanRow(i)'
  <1>1. tries[i] = 0 /\ req[i] = NoRow
    BY DEF TypeInv, Fits, RowFits
  <1>2. req'[i].attempts = 0 /\ ~req[i].pnid /\ MaxCodes > 0
    BY <1>1 DEF NewAt, NoRow
  <1>3. QED
    BY <1>1, <1>2 DEF CleanRow, Sound

LEMMA PhonesStay ==
  ASSUME UNCHANGED <<number, channel>>
  PROVE  \A n \in Phones : SoundPhone(n)
  BY DEF SoundPhone

LEMMA CleanCall ==
  ASSUME Reserved, Clean, ~raced', NEW o \in Orgs, NEW h \in Handlers, NEW i, i = screen[o].id,
         Alive(i), Reenviar(o, h) \/ Confirmar(o, h) \/ Cancelar(o, h)
  PROVE  Clean'
  <1>0. TypeInv /\ Types
    BY DEF Reserved, TypeInv
  <1>1. screen[o].step \in {"preparando", "codigo"} =>
          i \in Requests /\ req[i].phone \in Phones /\ req[i].org = o
    BY <1>0, ScreenKnows
  <1>2. /\ UNCHANGED <<rows, number, tries>> /\ OthersStay(h) /\ i \in Requests
        /\ \/ handler'[h].pc \in {"sms", "cancel"}
           \/ /\ handler'[h].pc = "check" /\ handler'[h].id = i
              /\ handler'[h].attempts = req[i].attempts /\ handler'[h].pin = req[i].pin
              /\ \A g \in Handlers : handler[g].id = i => handler[g].pc \in {"cancel", "sms", "count"}
    BY <1>0, <1>1, CallEffect DEF BegunAt
  <1>3. req' = req /\ channel' = channel /\ number' = number /\ tries' = tries
    BY <1>2 DEF rows
  <1>4. \A j \in Requests : Sound(h, j) /\ CleanRow(j)'
    BY <1>3, CleanSameRow
  <1>5. CleanHandler(h)'
    <2>1. req[i].attempts < MaxCodes
      BY <1>2 DEF Clean, CleanRow
    <2>2. QED
      BY <1>2, <1>3, <2>1 DEF CleanHandler
  <1>6. handler'[h].pc \in Exclusive =>
          \A g \in Handlers : handler[g].pc \in Exclusive => handler[g].id # handler'[h].id
    BY <1>2 DEF Exclusive, Closing
  <1>7. \A n \in Phones : SoundPhone(n)
    BY <1>3, PhonesStay
  <1>8. QED
    BY <1>0, <1>2, <1>4, <1>5, <1>6, <1>7, CleanKept

LEMMA CleanEnviar ==
  ASSUME Reserved, Clean, NEW o \in Orgs, NEW h \in Handlers, NEW n \in Phones, Enviar(o, h, n)
  PROVE  Clean'
  <1>0. TypeInv /\ Types
    BY DEF Reserved, TypeInv
  <1>1. /\ UNCHANGED <<channel, number, tries>>
        /\ \/ /\ NextId \in Requests /\ req[NextId].status = "none" /\ OtherRowsStay(NextId)
              /\ NewAt(req'[NextId], o, n, "falhou")
              /\ UNCHANGED <<handler, screen>>
           \/ /\ UNCHANGED req /\ OthersStay(h)
              /\ BegunAt(handler'[h], "insert", o, n, None)
    BY <1>0, EnviarEffect
  <1>2. ASSUME NEW j \in Requests
        PROVE  Sound(h, j) /\ CleanRow(j)'
    <2>1. CASE req'[j] = req[j]
      BY <1>1, <2>1, CleanSameRow
    <2>2. CASE req[j].status = "none" /\ NewAt(req'[j], o, n, "falhou")
      BY <1>0, <1>1, <2>2, CleanNewRow
    <2>3. QED
      BY <1>1, <2>1, <2>2 DEF OtherRowsStay
  <1>3. OthersStay(h) /\ handler'[h].pc \in {"idle", "insert"}
    BY <1>1 DEF Enviar, Free, BegunAt, OthersStay
  <1>4. CleanHandler(h)' /\ handler'[h].pc \notin Exclusive
    BY <1>3 DEF CleanHandler, Exclusive, Closing
  <1>5. \A p \in Phones : SoundPhone(p)
    BY <1>1, PhonesStay
  <1>6. QED
    BY <1>0, <1>2, <1>3, <1>4, <1>5, CleanKept

LEMMA CleanInsert ==
  ASSUME Reserved, Clean, NEW h \in Handlers, Insert(h)
  PROVE  Clean'
  <1>0. TypeInv /\ Types
    BY DEF Reserved, TypeInv
  <1>1. Owner(h) \in Orgs /\ Phone(h) \in Phones /\ handler[h] \in Handler
    BY <1>0, HandlerKnows DEF Insert
  <1>2. PICK o \in Orgs, n \in Phones : o = Owner(h) /\ n = Phone(h)
    BY <1>1
  <1>3. /\ OthersStay(h) /\ UNCHANGED <<channel, number, tries>>
        /\ \/ /\ NextId \in Requests /\ req[NextId].status = "none" /\ OtherRowsStay(NextId)
              /\ NewAt(req'[NextId], o, n, "criando")
              /\ handler'[h] = [handler[h] EXCEPT !.pc = "add", !.id = NextId]
           \/ handler'[h] = NoHandler /\ UNCHANGED req
    BY <1>0, <1>1, <1>2, InsertEffect
  <1>4. ASSUME NEW j \in Requests
        PROVE  Sound(h, j) /\ CleanRow(j)'
    <2>1. CASE req'[j] = req[j]
      BY <1>3, <2>1, CleanSameRow
    <2>2. CASE req[j].status = "none" /\ NewAt(req'[j], o, n, "criando")
      BY <1>0, <1>3, <2>2, CleanNewRow
    <2>3. QED
      BY <1>3, <2>1, <2>2 DEF OtherRowsStay
  <1>5. \/ handler'[h].pc = "idle"
        \/ /\ handler'[h].pc = "add"
           /\ handler'[h].id \in Requests /\ req[handler'[h].id].status = "none"
    <2>1. CASE handler'[h] = NoHandler
      BY <2>1 DEF NoHandler
    <2>2. CASE /\ NextId \in Requests /\ req[NextId].status = "none"
               /\ handler'[h] = [handler[h] EXCEPT !.pc = "add", !.id = NextId]
      <3>1. PICK k \in Requests : /\ req[k].status = "none"
                                  /\ handler'[h] = [handler[h] EXCEPT !.pc = "add", !.id = k]
        BY <2>2
      <3>2. handler'[h].pc = "add" /\ handler'[h].id = k
        BY <1>1, <3>1 DEF Handler
      <3>3. QED
        BY <3>1, <3>2
    <2>3. QED
      BY <1>3, <2>1, <2>2
  <1>6. CleanHandler(h)'
    BY <1>5 DEF CleanHandler
  <1>7. handler'[h].pc \in Exclusive =>
          \A g \in Handlers : handler[g].pc \in Exclusive => handler[g].id # handler'[h].id
    BY <1>0, <1>5, HandlerKnows DEF Exclusive, Closing, HasId
  <1>8. \A p \in Phones : SoundPhone(p)
    BY <1>3, PhonesStay
  <1>9. QED
    BY <1>0, <1>3, <1>4, <1>6, <1>7, <1>8, CleanKept

LEMMA CleanAdd ==
  ASSUME Reserved, Clean, NEW h \in Handlers, Add(h) \/ AddFails(h)
  PROVE  Clean'
  <1>0. TypeInv /\ Types
    BY DEF Reserved, TypeInv
  <1>1. PICK i \in Requests : i = handler[h].id
    BY <1>0, HandlerKnows DEF Add, AddFails, HasId
  <1>2. /\ Owner(h) \in Orgs /\ Phone(h) \in Phones /\ handler[h] \in Handler /\ req[i] \in Row
    BY <1>0, <1>1, HandlerKnows DEF Add, AddFails, HasId
  <1>3. /\ OthersStay(h) /\ handler[h].pc = "add" /\ UNCHANGED <<channel, tries>>
        /\ \/ number' = number
           \/ /\ OtherNumbersStay(Phone(h))
              /\ number'[Phone(h)] = [number[Phone(h)] EXCEPT !.org = Owner(h)]
        /\ \/ UNCHANGED req /\ handler'[h] = [handler[h] EXCEPT !.pc = "update"]
           \/ /\ handler'[h] = NoHandler /\ OtherRowsStay(i)
              /\ req'[i] = [req[i] EXCEPT !.status = "falhou"]
    BY <1>0, <1>1, <1>2, AddEffect
  <1>4. ASSUME NEW j \in Requests
        PROVE  Sound(h, j) /\ CleanRow(j)'
    <2>1. CASE req'[j] = req[j]
      BY <1>3, <2>1, CleanSameRow
    <2>2. CASE j = i /\ req'[i] = [req[i] EXCEPT !.status = "falhou"]
      <3>1. /\ req'[j].attempts = req[j].attempts /\ req'[j].verified = req[j].verified
            /\ req'[j].pin = req[j].pin /\ req'[j].phone = req[j].phone /\ req'[j].status = "falhou"
            /\ req'[j].pnid = req[j].pnid
        BY <1>2, <2>2 DEF Row
      <3>2. ~Alive(j)' /\ tries'[j] = tries[j]
        BY <1>3, <3>1 DEF Alive
      <3>3. QED
        BY <3>1, <3>2, CleanRowKept
    <2>3. QED
      BY <1>1, <1>3, <2>1, <2>2 DEF OtherRowsStay
  <1>5. handler'[h].pc \in {"idle", "update"} /\ (handler'[h].pc # "idle" => handler'[h].id = i)
    BY <1>1, <1>2, <1>3 DEF Handler, NoHandler
  <1>6. CleanHandler(h)'
    BY <1>5 DEF CleanHandler
  <1>7. handler'[h].pc \in Exclusive => handler[h].pc \in Exclusive /\ handler'[h].id = handler[h].id
    BY <1>1, <1>3, <1>5 DEF Exclusive, Closing
  <1>8. \A n \in Phones : SoundPhone(n)
    <2>1. TAKE n \in Phones
    <2>2. number[n] \in Number
      BY <1>0 DEF Types
    <2>3. number'[n].pin = number[n].pin
      BY <1>3, <2>2 DEF OtherNumbersStay, Number
    <2>4. QED
      BY <1>3, <2>3 DEF SoundPhone
  <1>9. QED
    BY <1>0, <1>3, <1>4, <1>6, <1>7, <1>8, CleanKept

LEMMA CleanUpdate ==
  ASSUME Reserved, Clean, NEW h \in Handlers, Update(h)
  PROVE  Clean'
  <1>0. TypeInv /\ Types /\ ReadyInv
    BY DEF Reserved, TypeInv
  <1>1. PICK i \in Requests : i = handler[h].id
    BY <1>0, HandlerKnows DEF Update, HasId
  <1>2. req[i] \in Row
    BY <1>0, RowKnows
  <1>3. /\ OthersStay(h) /\ handler'[h] = NoHandler /\ handler[h].pc = "update"
        /\ UNCHANGED <<channel, number, tries>> /\ OtherRowsStay(i)
        /\ \/ req'[i] = [req[i] EXCEPT !.pnid = TRUE, !.codes = 1, !.status = "aguardando_codigo"]
           \/ UNCHANGED req
           \/ req'[i] = [req[i] EXCEPT !.pnid = TRUE, !.status = "falhou"]
    BY <1>0, <1>1, UpdateEffect
  <1>4. ~req[i].pnid /\ req[i].attempts = 0 /\ tries[i] = 0
    BY <1>0, <1>1, <1>3 DEF ReadyInv, ReadyHandler, ReadyRow
  <1>5. /\ req'[i].attempts = req[i].attempts /\ req'[i].verified = req[i].verified
        /\ req'[i].pin = req[i].pin
    BY <1>2, <1>3 DEF Row
  <1>6. ASSUME NEW j \in Requests
        PROVE  Sound(h, j) /\ CleanRow(j)'
    <2>1. CASE req'[j] = req[j]
      BY <1>3, <2>1, CleanSameRow
    <2>2. CASE j = i
      BY <1>3, <1>4, <1>5, <2>2 DEF Sound, CleanRow
    <2>3. QED
      BY <1>3, <2>1, <2>2 DEF OtherRowsStay
  <1>7. CleanHandler(h)' /\ handler'[h].pc \notin Exclusive
    BY <1>3 DEF CleanHandler, Exclusive, Closing, NoHandler
  <1>8. \A n \in Phones : SoundPhone(n)
    BY <1>3, PhonesStay
  <1>9. QED
    BY <1>0, <1>3, <1>6, <1>7, <1>8, CleanKept

LEMMA CleanDie ==
  ASSUME Reserved, Clean, NEW h \in Handlers, Die(h)
  PROVE  Clean'
  <1>0. TypeInv /\ Types
    BY DEF Reserved, TypeInv
  <1>1. OthersStay(h) /\ UNCHANGED <<req, channel, number, tries>> /\ handler'[h] = NoHandler
    BY <1>0, DieEffect DEF rows
  <1>2. \A i \in Requests : Sound(h, i) /\ CleanRow(i)'
    BY <1>1, CleanSameRow
  <1>3. CleanHandler(h)' /\ handler'[h].pc \notin Exclusive
    BY <1>1 DEF CleanHandler, Exclusive, Closing, NoHandler
  <1>4. \A n \in Phones : SoundPhone(n)
    BY <1>1, PhonesStay
  <1>5. QED
    BY <1>0, <1>1, <1>2, <1>3, <1>4, CleanKept

LEMMA CleanTexts ==
  ASSUME Reserved, Clean, NEW h \in Handlers, Sms(h) \/ SmsFails(h) \/ Count(h)
  PROVE  Clean'
  <1>0. TypeInv /\ Types
    BY DEF Reserved, TypeInv
  <1>1. PICK i \in Requests : i = handler[h].id /\ Works(h, i)
    BY <1>0, WorkEffect DEF WorkStep
  <1>2. req[i] \in Row /\ handler[h] \in Handler
    BY <1>0, <1>1, RowKnows, HandlerKnows
  <1>3. /\ UNCHANGED <<channel, number, tries>>
        /\ req' = req \/ req'[i] = [req[i] EXCEPT !.codes = req[i].codes + 1]
        /\ handler'[h] = NoHandler \/ handler'[h] = [handler[h] EXCEPT !.pc = "count"]
    BY <1>0, <1>1, TextEffect
  <1>4. /\ req'[i].attempts = req[i].attempts /\ req'[i].verified = req[i].verified
        /\ req'[i].pin = req[i].pin /\ req'[i].phone = req[i].phone
        /\ req'[i].pnid = req[i].pnid /\ req'[i].status = req[i].status
    BY <1>2, <1>3 DEF Row
  <1>5. \A j \in Requests : Sound(h, j) /\ CleanRow(j)'
    BY <1>1, <1>3, <1>4, CleanSameRow, CleanRowKept DEF Works, OtherRowsStay, Alive
  <1>6. CleanHandler(h)' /\ handler'[h].pc \notin Exclusive
    BY <1>2, <1>3 DEF CleanHandler, Exclusive, Closing, NoHandler, Handler
  <1>7. \A n \in Phones : SoundPhone(n)
    BY <1>3, PhonesStay
  <1>8. QED
    BY <1>0, <1>1, <1>5, <1>6, <1>7, CleanKept DEF Works

LEMMA CleanCheck ==
  ASSUME Reserved, Clean, NEW h \in Handlers, Check(h) \/ Verify(h)
  PROVE  Clean'
  <1>0. TypeInv /\ Types /\ ReadyInv
    BY DEF Reserved, TypeInv
  <1>1. PICK i \in Requests : i = handler[h].id /\ Works(h, i)
    BY <1>0, WorkEffect DEF WorkStep
  <1>2. handler[h] \in Handler /\ Phone(h) \in Phones
    BY <1>0, <1>1, HandlerKnows DEF Works, HasId, Texting, Closing
  <1>3. CleanHandler(h) /\ (req[i].verified => req[i].pin # None)
    BY <1>0 DEF Clean, ReadyInv, ReadyRow
  <1>4. /\ req' = req /\ channel' = channel /\ tries' = tries /\ handler[h].pc \in {"check", "verify"}
        /\ \A n \in Phones : number'[n].pin = number[n].pin
        /\ \/ ~req[i].verified /\ MovedTo(h, "verify")
           \/ req[i].verified /\ handler[h].pin = req[i].pin /\ MovedTo(h, "register")
           \/ ~req[i].verified /\ MovedTo(h, "mark")
    <2>1. CASE Check(h)
      <3>1. handler[h].pin = req[i].pin
        BY <1>1, <1>3, <2>1 DEF CleanHandler, Check
      <3>2. /\ UNCHANGED <<rows, number, screen, history>> /\ handler[h].pc = "check"
            /\ \/ ~req[i].verified /\ MovedTo(h, "verify")
               \/ req[i].verified /\ handler[h].pin # None /\ MovedTo(h, "register")
               \/ req[i].verified /\ handler[h].pin = None /\ MovedTo(h, "mark")
        <4>1. /\ UNCHANGED <<rows, number, screen, history>> /\ handler[h].pc = "check"
              /\ \/ ~req[i].verified /\ handler'[h] = [handler[h] EXCEPT !.pc = "verify"]
                 \/ /\ req[i].verified /\ handler[h].pin # None
                    /\ handler'[h] = [handler[h] EXCEPT !.pc = "register"]
                 \/ /\ req[i].verified /\ handler[h].pin = None
                    /\ handler'[h] = [handler[h] EXCEPT !.pc = "mark", !.pin = handler'[h].pin]
          BY <1>0, <1>1, <2>1, CheckEffect
        <4>2. /\ handler'[h] = [handler[h] EXCEPT !.pc = "verify"] => MovedTo(h, "verify")
              /\ handler'[h] = [handler[h] EXCEPT !.pc = "register"] => MovedTo(h, "register")
          BY <1>2, MovedKnows
        <4>3. handler'[h] = [handler[h] EXCEPT !.pc = "mark", !.pin = handler'[h].pin]
                => MovedTo(h, "mark")
          BY <1>2, MovedKnows
        <4>4. QED
          BY <4>1, <4>2, <4>3
      <3>3. req' = req /\ channel' = channel /\ tries' = tries /\ number' = number
        BY <3>2 DEF rows, history
      <3>4. QED
        BY <1>3, <3>1, <3>2, <3>3
    <2>2. CASE Verify(h)
      <3>1. /\ UNCHANGED <<rows, screen, history>> /\ handler[h].pc = "verify"
            /\ MovedTo(h, "mark") /\ OtherNumbersStay(Phone(h))
            /\ number'[Phone(h)] = [number[Phone(h)] EXCEPT !.verified = TRUE]
        BY <1>0, <1>2, <2>2, VerifyEffect, MovedKnows
      <3>2. req' = req /\ channel' = channel /\ tries' = tries
        BY <3>1 DEF rows, history
      <3>3. \A n \in Phones : number[n] \in Number
        BY <1>0 DEF Types
      <3>4. \A n \in Phones : number'[n].pin = number[n].pin
        BY <3>1, <3>3 DEF OtherNumbersStay, Number
      <3>5. ~req[i].verified
        BY <1>1, <1>3, <3>1 DEF CleanHandler
      <3>6. QED
        BY <3>1, <3>2, <3>4, <3>5
    <2>3. QED
      BY <2>1, <2>2
  <1>5. \A j \in Requests : Sound(h, j) /\ CleanRow(j)'
    BY <1>4, CleanSameRow
  <1>6. CleanHandler(h)'
    BY <1>1, <1>3, <1>4 DEF CleanHandler, MovedTo
  <1>7. handler'[h].pc \in Exclusive => handler[h].pc \in Exclusive /\ handler'[h].id = handler[h].id
    BY <1>4 DEF MovedTo, Exclusive, Closing
  <1>8. \A n \in Phones : SoundPhone(n)
    BY <1>4 DEF SoundPhone
  <1>9. QED
    BY <1>0, <1>1, <1>5, <1>6, <1>7, <1>8, CleanKept DEF Works

LEMMA CleanVerifyFails ==
  ASSUME Reserved, Clean, NEW h \in Handlers, VerifyFails(h)
  PROVE  Clean'
  <1>0. TypeInv /\ Types
    BY DEF Reserved, TypeInv
  <1>1. PICK i \in Requests : i = handler[h].id /\ Works(h, i)
    BY <1>0, WorkEffect DEF WorkStep
  <1>2. /\ handler[h] \in Handler /\ Phone(h) \in Phones
        /\ req[i] \in Row /\ req[i].attempts \in Nat /\ tries[i] \in Nat
    BY <1>0, <1>1, HandlerKnows, RowKnows DEF Works, HasId, Texting, Closing
  <1>3. /\ handler'[h] = NoHandler /\ handler[h].pc = "verify" /\ channel' = channel
        /\ tries'[i] = tries[i] + 1
        /\ \/ number' = number
           \/ /\ OtherNumbersStay(Phone(h))
              /\ number'[Phone(h)] = [number[Phone(h)] EXCEPT !.verified = TRUE]
    BY <1>0, <1>1, <1>2, VerifyFailsEffect
  <1>4. PICK st \in {req[i].status, "falhou"} :
          /\ req'[i] = [req[i] EXCEPT !.attempts = handler[h].attempts + 1, !.status = st]
          /\ handler[h].attempts + 1 >= MaxCodes => st = "falhou"
    BY <1>0, <1>1, <1>2, VerifyFailsEffect
  <1>5. handler[h].attempts = req[i].attempts /\ req[i].attempts < MaxCodes /\ tries[i] = req[i].attempts
    BY <1>1, <1>3 DEF Clean, CleanHandler, CleanRow
  <1>6. /\ req'[i].attempts = req[i].attempts + 1 /\ req'[i].status = st
        /\ req'[i].pnid = req[i].pnid /\ req'[i].verified = req[i].verified
        /\ req'[i].pin = req[i].pin /\ req'[i].phone = req[i].phone
    BY <1>2, <1>4, <1>5 DEF Row
  <1>7. Sound(h, i)
    BY <1>1, <1>3, <1>6 DEF Sound, Exclusive, Closing
  <1>8. CleanRow(i)'
    <2>1. tries'[i] = req'[i].attempts /\ req'[i].attempts <= MaxCodes
      BY <1>2, <1>3, <1>5, <1>6
    <2>2. Alive(i)' => req'[i].attempts < MaxCodes
      BY <1>2, <1>4, <1>5, <1>6 DEF Alive
    <2>3. QED
      BY <2>1, <2>2 DEF CleanRow
  <1>9. \A j \in Requests : Sound(h, j) /\ CleanRow(j)'
    BY <1>1, <1>7, <1>8, CleanSameRow DEF Works, OtherRowsStay
  <1>10. CleanHandler(h)' /\ handler'[h].pc \notin Exclusive
    BY <1>3 DEF CleanHandler, Exclusive, Closing, NoHandler
  <1>11. \A n \in Phones : SoundPhone(n)
    <2>1. \A n \in Phones : number[n] \in Number
      BY <1>0 DEF Types
    <2>2. \A n \in Phones : number'[n].pin = number[n].pin
      BY <1>3, <2>1 DEF OtherNumbersStay, Number
    <2>3. QED
      BY <1>3, <2>2 DEF SoundPhone
  <1>12. QED
    BY <1>0, <1>1, <1>9, <1>10, <1>11, CleanKept DEF Works

LEMMA CleanMark ==
  ASSUME Reserved, Clean, NEW h \in Handlers, Mark(h)
  PROVE  Clean'
  <1>0. TypeInv /\ Types
    BY DEF Reserved, TypeInv
  <1>1. PICK i \in Requests : i = handler[h].id /\ Works(h, i)
    BY <1>0, WorkEffect DEF WorkStep
  <1>2. req[i] \in Row /\ handler[h] \in Handler
    BY <1>0, <1>1, RowKnows, HandlerKnows
  <1>3. /\ UNCHANGED <<channel, number, history>> /\ handler[h].pc = "mark"
        /\ MovedTo(h, "register")
        /\ req'[i] = [req[i] EXCEPT !.verified = TRUE, !.pin = handler[h].pin]
    BY <1>0, <1>1, <1>2, MarkEffect, MovedKnows
  <1>4. tries' = tries
    BY <1>3 DEF history
  <1>5. ~req[i].verified
    BY <1>1, <1>3 DEF Clean, CleanHandler
  <1>6. /\ req'[i].attempts = req[i].attempts /\ req'[i].verified = TRUE
        /\ req'[i].pin = handler[h].pin /\ req'[i].status = req[i].status
    BY <1>2, <1>3 DEF Row
  <1>7. Sound(h, i)
    BY <1>1, <1>3, <1>5 DEF Sound, Exclusive, Closing
  <1>8. CleanRow(i)'
    BY <1>4, <1>6 DEF Clean, CleanRow, Alive
  <1>9. \A j \in Requests : Sound(h, j) /\ CleanRow(j)'
    BY <1>1, <1>4, <1>7, <1>8, CleanSameRow DEF Works, OtherRowsStay
  <1>10. CleanHandler(h)'
    <2>1. req'[i].verified
      BY <1>6
    <2>2. QED
      BY <1>1, <1>3, <1>6, <2>1 DEF CleanHandler, MovedTo
  <1>11. handler'[h].pc \in Exclusive => handler[h].pc \in Exclusive /\ handler'[h].id = handler[h].id
    BY <1>3 DEF MovedTo, Exclusive, Closing
  <1>12. \A n \in Phones : SoundPhone(n)
    BY <1>3, PhonesStay
  <1>13. QED
    BY <1>0, <1>1, <1>9, <1>10, <1>11, <1>12, CleanKept DEF Works

LEMMA CleanRegister ==
  ASSUME Reserved, Clean, NEW h \in Handlers, Register(h) \/ RegisterFails(h)
  PROVE  Clean'
  <1>0. TypeInv /\ Types /\ ReadyInv
    BY DEF Reserved, TypeInv
  <1>1. PICK i \in Requests : i = handler[h].id /\ Works(h, i)
    BY <1>0, WorkEffect DEF WorkStep
  <1>2. /\ handler[h] \in Handler /\ Phone(h) \in Phones /\ req[i].phone = Phone(h)
    BY <1>0, <1>1, HandlerKnows DEF Works, HasId, Texting, Closing
  <1>3. /\ UNCHANGED <<rows, tries>> /\ handler[h].pc = "register"
        /\ \/ number' = number
           \/ /\ OtherNumbersStay(Phone(h))
              /\ number'[Phone(h)] = [number[Phone(h)] EXCEPT !.pin = handler[h].pin]
        /\ MovedTo(h, "create") \/ MovedTo(h, "close") \/ handler'[h] = NoHandler
    BY <1>0, <1>2, RegisterEffect, MovedKnows
  <1>4. req' = req /\ channel' = channel
    BY <1>3 DEF rows
  <1>5. req[i].pnid /\ req[i].verified /\ req[i].pin = handler[h].pin
    BY <1>0, <1>1, <1>3 DEF Clean, CleanHandler, ReadyInv, ReadyHandler, Closing
  <1>6. \A j \in Requests : Sound(h, j) /\ CleanRow(j)'
    BY <1>3, <1>4, CleanSameRow
  <1>7. CleanHandler(h)'
    BY <1>1, <1>3, <1>4, <1>5 DEF CleanHandler, MovedTo, NoHandler
  <1>8. handler'[h].pc \in Exclusive => handler[h].pc \in Exclusive /\ handler'[h].id = handler[h].id
    BY <1>3 DEF MovedTo, Exclusive, Closing, NoHandler
  <1>9. \A n \in Phones : SoundPhone(n)
    <2>1. TAKE n \in Phones
    <2>2. number[n] \in Number
      BY <1>0 DEF Types
    <2>3. CASE number'[n] = number[n]
      BY <1>4, <2>3 DEF SoundPhone
    <2>4. CASE n = Phone(h) /\ number'[n] = [number[n] EXCEPT !.pin = handler[h].pin]
      <3>1. number'[n].pin = req[i].pin
        BY <1>5, <2>2, <2>4 DEF Number
      <3>2. Registered(n, number[n].pin)'
        BY <1>2, <1>4, <1>5, <2>4, <3>1 DEF Registered
      <3>3. QED
        BY <1>4, <3>2 DEF SoundPhone
    <2>5. QED
      BY <1>3, <2>3, <2>4 DEF OtherNumbersStay
  <1>10. QED
    BY <1>0, <1>1, <1>6, <1>7, <1>8, <1>9, CleanKept DEF Works

LEMMA CleanCreate ==
  ASSUME Reserved, Clean, NEW h \in Handlers, CreateChannel(h)
  PROVE  Clean'
  <1>0. TypeInv /\ Types /\ ReadyInv
    BY DEF Reserved, TypeInv
  <1>1. PICK i \in Requests : i = handler[h].id /\ Works(h, i)
    BY <1>0, WorkEffect DEF WorkStep
  <1>2. /\ handler[h] \in Handler /\ req[i].phone = Phone(h)
        /\ Phone(h) \in Phones /\ Owner(h) \in Orgs
    BY <1>0, <1>1, HandlerKnows DEF Works, HasId, Texting, Closing
  <1>3. /\ UNCHANGED <<req, number, history>> /\ handler[h].pc = "create"
        /\ MovedTo(h, "close")
        /\ \A n \in Phones : n # Phone(h) => channel'[n] = channel[n]
        /\ \/ channel[Phone(h)].org = Nobody /\ channel'[Phone(h)].pin = handler[h].pin
           \/ channel' = channel
    BY <1>0, <1>2, CreateEffect, MovedKnows
  <1>4. tries' = tries
    BY <1>3 DEF history
  <1>5. req[i].pnid /\ req[i].verified /\ req[i].pin = handler[h].pin
    BY <1>0, <1>1, <1>3 DEF Clean, CleanHandler, ReadyInv, ReadyHandler, Closing
  <1>6. \A j \in Requests : Sound(h, j) /\ CleanRow(j)'
    BY <1>3, <1>4, CleanSameRow
  <1>7. CleanHandler(h)' /\ handler'[h].pc \in Exclusive
    BY <1>3 DEF CleanHandler, MovedTo, Exclusive, Closing
  <1>8. handler[h].pc \in Exclusive /\ handler'[h].id = handler[h].id
    BY <1>3 DEF MovedTo, Exclusive, Closing
  <1>9. \A n \in Phones : SoundPhone(n)
    <2>1. TAKE n \in Phones
    <2>2. CASE channel'[n] = channel[n]
      BY <1>3, <2>2 DEF SoundPhone
    <2>3. CASE n = Phone(h) /\ channel'[n].pin = handler[h].pin
      <3>1. Registered(n, channel[n].pin)'
        BY <1>2, <1>3, <1>5, <2>3 DEF Registered
      <3>2. QED
        BY <1>3, <3>1 DEF SoundPhone
    <2>4. QED
      BY <1>3, <2>2, <2>3
  <1>10. QED
    BY <1>0, <1>1, <1>6, <1>7, <1>8, <1>9, CleanKept DEF Works

LEMMA CleanEnds ==
  ASSUME Reserved, Clean, NEW h \in Handlers, CreateRefused(h) \/ Close(h) \/ Cancel(h)
  PROVE  Clean'
  <1>0. TypeInv /\ Types
    BY DEF Reserved, TypeInv
  <1>1. PICK i \in Requests : i = handler[h].id /\ Works(h, i)
    BY <1>0, WorkEffect DEF WorkStep
  <1>2. req[i] \in Row
    BY <1>0, RowKnows
  <1>3. /\ UNCHANGED <<channel, number, history>> /\ handler'[h] = NoHandler
        /\ \E st \in {"falhou", "concluida", "cancelada"} : req'[i] = [req[i] EXCEPT !.status = st]
    BY <1>0, <1>1, EndEffect
  <1>4. /\ req'[i].pnid = req[i].pnid /\ req'[i].verified = req[i].verified
        /\ req'[i].pin = req[i].pin /\ req'[i].phone = req[i].phone
        /\ req'[i].attempts = req[i].attempts /\ req'[i].status \in {"falhou", "concluida", "cancelada"}
    BY <1>2, <1>3 DEF Row
  <1>5. tries' = tries /\ ~Alive(i)'
    BY <1>3, <1>4 DEF history, Alive
  <1>6. \A j \in Requests : Sound(h, j) /\ CleanRow(j)'
    BY <1>1, <1>4, <1>5, CleanSameRow, CleanRowKept DEF Works, OtherRowsStay
  <1>7. CleanHandler(h)' /\ handler'[h].pc \notin Exclusive
    BY <1>3 DEF CleanHandler, Exclusive, Closing, NoHandler
  <1>8. \A n \in Phones : SoundPhone(n)
    BY <1>3, PhonesStay
  <1>9. QED
    BY <1>0, <1>1, <1>6, <1>7, <1>8, CleanKept DEF Works

LEMMA CleanWizard ==
  ASSUME Clean, UNCHANGED <<req, handler, tries, number>>,
         \A n \in Phones : channel'[n].pin = channel[n].pin
  PROVE  Clean'
  <1>1. Alone' /\ \A i \in Requests : CleanRow(i)'
    BY DEF Clean, Alone, CleanRow, Alive
  <1>2. \A h \in Handlers : CleanHandler(h)'
    BY DEF Clean, CleanHandler
  <1>3. \A n \in Phones : CleanPhone(n)'
    BY DEF Clean, CleanPhone, Registered
  <1>4. QED
    BY <1>1, <1>2, <1>3 DEF Clean

\* raced only goes from FALSE to TRUE.
LEMMA RacedStays ==
  ASSUME TypeInv, [Next]_vars, ~raced'
  PROVE  ~raced
  <1>0. Types
    BY DEF TypeInv
  <1>1. CASE raced' = raced
    BY <1>1
  <1>2. ASSUME NEW o \in Orgs, NEW h \in Handlers, Confirmar(o, h)
        PROVE  ~raced
    BY <1>2 DEF Confirmar, Gone, history
  <1>3. ASSUME NEW h \in Handlers, Insert(h) \/ Add(h) \/ AddFails(h) \/ Update(h) \/ WorkStep(h) \/ Die(h)
        PROVE  raced' = raced
    BY <1>3 DEF Insert, Add, AddFails, Update, WorkStep, Sms, SmsFails, Count, Check, Verify,
       VerifyFails, Mark, Register, RegisterFails, CreateChannel, CreateRefused, Close, Cancel, Die, history
  <1>4. ASSUME NEW o \in Orgs, NEW h \in Handlers,
               Reenviar(o, h) \/ Cancelar(o, h) \/ \E n \in Phones : Enviar(o, h, n)
        PROVE  raced' = raced
    BY <1>4 DEF Reenviar, Cancelar, Enviar, Iniciar, Gone, history
  <1>5. ASSUME \/ \E o \in Orgs : Open(o) \/ Leave(o)
               \/ \E n \in Phones : Rewired(n)
               \/ UNCHANGED vars
        PROVE  raced' = raced
    BY <1>5 DEF Open, Leave, Rewired, Disconnect, Manual, vars, history
  <1>6. QED
    BY <1>1, <1>2, <1>3, <1>4, <1>5, Steps

LEMMA CleanStep == Reserved /\ CleanInv /\ [Next]_vars => CleanInv'
  <1> SUFFICES ASSUME Reserved, CleanInv, [Next]_vars, ~raced' PROVE Clean'
    BY DEF CleanInv
  <1>0. TypeInv /\ Types
    BY DEF Reserved, TypeInv
  <1>1. Clean
    BY <1>0, RacedStays DEF CleanInv
  <1>2. ASSUME \/ \E o \in Orgs : Open(o) \/ Leave(o) \/ (Gone(o) /\ screen[o].busy = Nobody)
               \/ \E n \in Phones : Rewired(n)
               \/ UNCHANGED vars
        PROVE  Clean'
    <2>1. /\ UNCHANGED <<req, handler, tries, number>>
          /\ \A n \in Phones : channel'[n].pin = channel[n].pin
      <3>1. ASSUME NEW o \in Orgs, Open(o) \/ Leave(o) \/ (Gone(o) /\ screen[o].busy = Nobody)
            PROVE  UNCHANGED <<req, handler, tries, number, channel>>
        BY <1>0, <3>1, WizardEffect, GoneEffect DEF rows
      <3>2. ASSUME NEW n \in Phones, Rewired(n)
            PROVE  /\ UNCHANGED <<req, handler, tries, number>>
                   /\ \A p \in Phones : channel'[p].pin = channel[p].pin
        BY <1>0, <3>2, RewiredEffect DEF history
      <3>3. CASE UNCHANGED vars
        BY <3>3 DEF vars, rows, history
      <3>4. QED
        BY <1>2, <3>1, <3>2, <3>3
    <2>2. QED
      BY <1>1, <2>1, CleanWizard
  <1>3. ASSUME NEW o \in Orgs, NEW h \in Handlers, Confirmar(o, h) \/ Reenviar(o, h) \/ Cancelar(o, h)
        PROVE  Clean'
    <2>1. CASE Alive(screen[o].id)
      BY <1>1, <1>3, <2>1, CleanCall
    <2>2. CASE ~Alive(screen[o].id)
      BY <1>2, <1>3, <2>2, DeadCall
    <2>3. QED
      BY <2>1, <2>2
  <1>4. ASSUME NEW h \in Handlers, WorkStep(h)
        PROVE  Clean'
    BY <1>1, <1>4, CleanTexts, CleanCheck, CleanVerifyFails, CleanMark, CleanRegister, CleanCreate,
       CleanEnds DEF WorkStep
  <1>5. QED
    BY <1>1, <1>2, <1>3, <1>4, Steps, CleanEnviar, CleanInsert, CleanAdd, CleanUpdate, CleanDie

(***************************************************************************)
(* Unless two verifications of a request overlap, Meta sees no more wrong   *)
(* codes than the limit, and the PIN kept with a channel is the one that    *)
(* its number was registered with, whatever answers are lost, whatever      *)
(* handlers die and however often the customer retries.                     *)
(***************************************************************************)
THEOREM CodesAndPinAlwaysAgree == Spec => []CodesAndPinAgree
  <1>1. Init => CleanInv
    BY DEF Init, CleanInv, Clean, Alone, CleanRow, CleanHandler, CleanPhone, NoRow, NoHandler,
       NoNumber, NoChannel, Alive, Exclusive, Closing
  <1>2. Reserved /\ CleanInv => CodesAndPinAgree
    <2> SUFFICES ASSUME Reserved, Clean
                 PROVE  /\ \A i \in Requests : tries[i] <= MaxCodes
                        /\ \A n \in Phones : channel[n].pin # None => channel[n].pin = number[n].pin
      BY DEF CleanInv, CodesAndPinAgree
    <2>1. \A i \in Requests : tries[i] <= MaxCodes
      BY DEF Clean, CleanRow
    <2>2. ASSUME NEW n \in Phones, channel[n].pin # None
          PROVE  channel[n].pin = number[n].pin
      <3>1. number[n].pin # None
        BY <2>2 DEF Reserved, ReadyInv, ReadyPhone
      <3>2. PICK i \in Requests : req[i].phone = n /\ req[i].pnid /\ req[i].pin = number[n].pin
        BY <3>1 DEF Clean, CleanPhone, Registered
      <3>3. PICK j \in Requests : req[j].phone = n /\ req[j].pnid /\ req[j].pin = channel[n].pin
        BY <2>2 DEF Clean, CleanPhone, Registered
      <3>4. i = j
        BY <3>2, <3>3 DEF Reserved, ReservedOnce
      <3>5. QED
        BY <3>2, <3>3, <3>4
    <2>3. QED
      BY <2>1, <2>2
  <1>3. QED
    BY <1>1, <1>2, CleanStep, ReservedAlways, PTL DEF Spec

-----------------------------------------------------------------------------
(* A number of the report that no handler has a hold of is lost for good.  *)

LEMMA StillAbandoned ==
  ASSUME NEW n \in Phones, Abandoned(n),
         number'[n].org = number[n].org, channel'[n].org = channel[n].org,
         \A i \in Requests : Alive(i)' /\ req'[i].pnid /\ req'[i].phone = n =>
           Alive(i) /\ req[i].pnid /\ req[i].phone = n,
         \A h \in Handlers : handler'[h].phone = n => handler'[h].pc \in {"insert", "add", "cancel"}
  PROVE  Abandoned(n)'
  <1>1. \A i \in Requests : Alive(i) /\ req[i].phone = n => ~req[i].pnid
    BY DEF Abandoned, Orphan, AliveWith
  <1>2. number'[n].org # Nobody /\ channel'[n].org = Nobody
    BY DEF Abandoned, Orphan
  <1>3. QED
    BY <1>1, <1>2 DEF Abandoned, Orphan, AliveWith, Phone

\* Only a handler that works on the number touches it.
LEMMA AbandonedWorks ==
  ASSUME TypeInv, NEW n \in Phones, Abandoned(n), NEW h \in Handlers, WorkStep(h)
  PROVE  Abandoned(n)'
  <1>0. Types
    BY DEF TypeInv
  <1>1. PICK i \in Requests : i = handler[h].id /\ Works(h, i)
    BY WorkEffect
  <1>2. /\ handler[h] \in Handler /\ req[i].phone = Phone(h)
        /\ Phone(h) \in Phones /\ Owner(h) \in Orgs /\ req[i] \in Row
    BY <1>1, HandlerKnows DEF Works, HasId, Texting, Closing
  <1>3. handler[h].pc # "cancel" => Phone(h) # n
    <2>1. handler[h].pc \in {"cancel"} \cup Texting \cup Closing
      BY DEF WorkStep, Sms, SmsFails, Count, Check, Verify, VerifyFails, Mark, Register,
         RegisterFails, CreateChannel, CreateRefused, Close, Cancel, Texting, Closing
    <2>2. QED
      BY <2>1 DEF Abandoned, Texting, Closing
  <1>4. /\ number'[n].org = number[n].org /\ channel'[n].org = channel[n].org
        /\ req'[i].pnid = req[i].pnid \/ Phone(h) # n
    <2>1. CASE Cancel(h)
      <3>1. /\ UNCHANGED <<channel, number>>
            /\ \E st \in {"falhou", "concluida", "cancelada"} :
                 req'[i] = [req[i] EXCEPT !.status = st]
        BY <1>0, <1>1, <2>1, EndEffect
      <3>2. req'[i].pnid = req[i].pnid
        BY <1>2, <3>1 DEF Row
      <3>3. QED
        BY <3>1, <3>2
    <2>2. CASE Sms(h) \/ SmsFails(h) \/ Count(h)
      BY <1>0, <1>1, <1>3, <2>2, TextEffect DEF Sms, SmsFails, Count
    <2>3. CASE Check(h)
      <3>1. UNCHANGED <<rows, number>>
        BY <1>0, <1>1, <2>3, CheckEffect
      <3>2. QED
        BY <3>1 DEF rows
    <2>4. CASE Verify(h)
      <3>1. Phone(h) # n /\ OtherNumbersStay(Phone(h)) /\ UNCHANGED rows
        BY <1>0, <1>2, <1>3, <2>4, VerifyEffect DEF Verify
      <3>2. QED
        BY <3>1 DEF rows, OtherNumbersStay
    <2>5. CASE VerifyFails(h)
      <3>1. /\ Phone(h) # n /\ channel' = channel
            /\ number' = number \/ OtherNumbersStay(Phone(h))
        BY <1>0, <1>1, <1>2, <1>3, <2>5, VerifyFailsEffect DEF VerifyFails
      <3>2. QED
        BY <3>1 DEF OtherNumbersStay
    <2>6. CASE Mark(h)
      BY <1>0, <1>1, <1>3, <2>6, MarkEffect
    <2>7. CASE Register(h) \/ RegisterFails(h)
      <3>1. /\ Phone(h) # n /\ UNCHANGED rows
            /\ number' = number \/ OtherNumbersStay(Phone(h))
        BY <1>0, <1>2, <1>3, <2>7, RegisterEffect
      <3>2. QED
        BY <3>1 DEF rows, OtherNumbersStay
    <2>8. CASE CreateChannel(h)
      BY <1>0, <1>2, <1>3, <2>8, CreateEffect
    <2>9. CASE CreateRefused(h) \/ Close(h)
      BY <1>0, <1>1, <1>3, <2>9, EndEffect DEF CreateRefused, Close
    <2>10. QED
      BY <2>1, <2>2, <2>3, <2>4, <2>5, <2>6, <2>7, <2>8, <2>9 DEF WorkStep
  <1>5. \A j \in Requests : Alive(j)' /\ req'[j].pnid /\ req'[j].phone = n =>
          Alive(j) /\ req[j].pnid /\ req[j].phone = n
    <2>1. Alive(i)' => Alive(i)
      BY <1>1 DEF Works, Alive
    <2>2. req'[i].phone = Phone(h)
      BY <1>1, <1>2 DEF Works
    <2>3. \A j \in Requests : j # i => req'[j] = req[j]
      BY <1>1 DEF Works, OtherRowsStay
    <2>4. QED
      BY <1>2, <1>4, <2>1, <2>2, <2>3 DEF Alive
  <1>6. \A g \in Handlers : handler'[g].phone = n => handler'[g].pc \in {"insert", "add", "cancel"}
    <2>1. handler'[h] = NoHandler \/ (handler'[h].phone = Phone(h) /\ handler[h].pc # "cancel")
      <3>1. CASE Cancel(h)
        BY <1>0, <1>1, <3>1, EndEffect
      <3>2. CASE ~Cancel(h)
        <4>1. handler[h].pc # "cancel"
          BY <3>2 DEF WorkStep, Sms, SmsFails, Count, Check, Verify,
             VerifyFails, Mark, Register, RegisterFails, CreateChannel, CreateRefused, Close
        <4>2. QED
          BY <1>1, <4>1 DEF Works, Phone
      <3>3. QED
        BY <3>1, <3>2
    <2>2. handler'[h].phone # n
      BY <1>3, <2>1 DEF NoHandler
    <2>3. QED
      BY <1>1, <2>2 DEF Works, OthersStay, Abandoned, Phone
  <1>7. QED
    BY <1>4, <1>5, <1>6, StillAbandoned

LEMMA AbandonedReserve ==
  ASSUME Reserved, NEW n \in Phones, Abandoned(n), NEW h \in Handlers,
         Insert(h) \/ Add(h) \/ AddFails(h) \/ Update(h)
  PROVE  Abandoned(n)'
  <1>0. TypeInv /\ Types /\ handler[h] \in Handler
    BY HandlerKnows DEF Reserved, TypeInv
  <1>1. Phone(h) \in Phones /\ Owner(h) \in Orgs
    BY <1>0, HandlerKnows DEF Insert, Add, AddFails, Update
  <1>2. \A g \in Handlers : handler[g].phone = n => handler[g].pc \in {"insert", "add", "cancel"}
    BY DEF Abandoned, Phone
  <1>3. CASE Insert(h)
    <2>1. /\ OthersStay(h) /\ UNCHANGED <<channel, number>>
          /\ \/ /\ NextId \in Requests /\ OtherRowsStay(NextId)
                /\ NewAt(req'[NextId], Owner(h), Phone(h), "criando")
                /\ handler'[h] = [handler[h] EXCEPT !.pc = "add", !.id = NextId]
             \/ handler'[h] = NoHandler /\ UNCHANGED req
      BY <1>0, <1>1, <1>3, InsertEffect
    <2>2. \A i \in Requests : Alive(i)' /\ req'[i].pnid /\ req'[i].phone = n =>
            Alive(i) /\ req[i].pnid /\ req[i].phone = n
      BY <2>1 DEF Alive, OtherRowsStay, NewAt
    <2>3. handler'[h].phone = n => handler'[h].pc \in {"insert", "add", "cancel"}
      <3>1. CASE handler'[h] = NoHandler
        BY <3>1 DEF NoHandler
      <3>2. CASE handler'[h] = [handler[h] EXCEPT !.pc = "add", !.id = NextId]
        BY <1>0, <3>2 DEF Handler
      <3>3. QED
        BY <2>1, <3>1, <3>2
    <2>4. QED
      BY <1>2, <2>1, <2>2, <2>3, StillAbandoned DEF OthersStay
  <1>4. CASE Add(h) \/ AddFails(h)
    <2>0. PICK i \in Requests : i = handler[h].id /\ req[i] \in Row
      BY <1>0, <1>4, HandlerKnows DEF Add, AddFails, HasId
    <2>1. /\ OthersStay(h) /\ channel' = channel
          /\ \/ number' = number
             \/ number[Phone(h)].org = Nobody /\ OtherNumbersStay(Phone(h))
          /\ \/ UNCHANGED req /\ number[Phone(h)].org = Nobody
                /\ handler'[h] = [handler[h] EXCEPT !.pc = "update"]
             \/ /\ handler'[h] = NoHandler /\ OtherRowsStay(i)
                /\ req'[i] = [req[i] EXCEPT !.status = "falhou"]
      BY <1>0, <1>1, <1>4, <2>0, AddEffect
    <2>2. number[Phone(h)].org = Nobody => Phone(h) # n
      BY DEF Abandoned, Orphan
    <2>3. number'[n].org = number[n].org
      BY <2>1, <2>2 DEF OtherNumbersStay
    <2>4. /\ req'[i].status \in {req[i].status, "falhou"} /\ req'[i].pnid = req[i].pnid
          /\ req'[i].phone = req[i].phone
      BY <2>0, <2>1 DEF Row
    <2>5. \A j \in Requests : Alive(j)' /\ req'[j].pnid /\ req'[j].phone = n =>
            Alive(j) /\ req[j].pnid /\ req[j].phone = n
      BY <2>1, <2>4 DEF Alive, OtherRowsStay
    <2>6. handler'[h].phone # n
      <3>1. CASE handler'[h] = NoHandler
        BY <3>1 DEF NoHandler
      <3>2. CASE handler'[h] = [handler[h] EXCEPT !.pc = "update"] /\ Phone(h) # n
        BY <1>0, <3>2 DEF Handler, Phone
      <3>3. QED
        BY <2>1, <2>2, <3>1, <3>2
    <2>7. QED
      BY <1>2, <2>1, <2>3, <2>5, <2>6, StillAbandoned DEF OthersStay
  <1>5. CASE Update(h)
    <2>0. PICK i \in Requests : i = handler[h].id /\ req[i] \in Row /\ req[i].phone = Phone(h)
      BY <1>0, <1>5, HandlerKnows DEF Update, HasId
    <2>1. /\ OthersStay(h) /\ UNCHANGED <<channel, number>> /\ handler'[h] = NoHandler
          /\ handler[h].pc = "update" /\ OtherRowsStay(i)
          /\ \/ req'[i] = [req[i] EXCEPT !.pnid = TRUE, !.codes = 1, !.status = "aguardando_codigo"]
             \/ UNCHANGED req
             \/ req'[i] = [req[i] EXCEPT !.pnid = TRUE, !.status = "falhou"]
      BY <1>0, <1>5, <2>0, UpdateEffect
    <2>2. req'[i].phone # n
      BY <1>2, <2>0, <2>1 DEF Row, Phone
    <2>3. \A j \in Requests : Alive(j)' /\ req'[j].pnid /\ req'[j].phone = n =>
            Alive(j) /\ req[j].pnid /\ req[j].phone = n
      BY <2>1, <2>2 DEF Alive, OtherRowsStay
    <2>4. \A g \in Handlers : handler'[g].phone = n => handler'[g].pc \in {"insert", "add", "cancel"}
      BY <1>2, <2>1 DEF OthersStay, NoHandler
    <2>5. QED
      BY <2>1, <2>3, <2>4, StillAbandoned
  <1>6. QED
    BY <1>3, <1>4, <1>5

LEMMA AbandonedCall ==
  ASSUME Reserved, NEW n \in Phones, Abandoned(n), NEW o \in Orgs, NEW h \in Handlers,
         \/ Alive(screen[o].id) /\ (Confirmar(o, h) \/ Reenviar(o, h) \/ Cancelar(o, h))
         \/ \E p \in Phones : Enviar(o, h, p)
  PROVE  Abandoned(n)'
  <1>0. TypeInv /\ Types
    BY DEF Reserved, TypeInv
  <1>1. \A g \in Handlers : handler[g].phone = n => handler[g].pc \in {"insert", "add", "cancel"}
    BY DEF Abandoned, Phone
  <1>2. ASSUME NEW i, i = screen[o].id, Alive(i),
               Confirmar(o, h) \/ Reenviar(o, h) \/ Cancelar(o, h)
        PROVE  Abandoned(n)'
    <2>1. screen[o].step \in {"preparando", "codigo"} => i \in Requests /\ req[i].phone \in Phones
      BY <1>0, <1>2, ScreenKnows
    <2>2. /\ UNCHANGED <<rows, number>> /\ OthersStay(h) /\ i \in Requests
          /\ \/ handler'[h].phone = req[i].phone /\ req[i].pnid
             \/ handler'[h].pc = "cancel"
      BY <1>0, <1>2, <2>1, CallEffect DEF BegunAt, MayResend
    <2>3. req' = req /\ channel' = channel
      BY <2>2 DEF rows
    <2>4. req[i].pnid => req[i].phone # n
      BY <1>2, <2>2 DEF Abandoned, Orphan, AliveWith
    <2>5. \A g \in Handlers : handler'[g].phone = n => handler'[g].pc \in {"insert", "add", "cancel"}
      BY <1>1, <2>2, <2>4 DEF OthersStay
    <2>6. \A j \in Requests : Alive(j)' /\ req'[j].pnid /\ req'[j].phone = n =>
            Alive(j) /\ req[j].pnid /\ req[j].phone = n
      BY <2>3 DEF Alive
    <2>7. QED
      BY <2>2, <2>3, <2>5, <2>6, StillAbandoned
  <1>3. ASSUME NEW p \in Phones, Enviar(o, h, p)
        PROVE  Abandoned(n)'
    <2>1. /\ UNCHANGED <<channel, number>>
          /\ \/ /\ NextId \in Requests /\ OtherRowsStay(NextId)
                /\ NewAt(req'[NextId], o, p, "falhou") /\ handler' = handler
             \/ UNCHANGED req /\ OthersStay(h) /\ BegunAt(handler'[h], "insert", o, p, None)
      BY <1>0, <1>3, EnviarEffect
    <2>2. \A i \in Requests : Alive(i)' /\ req'[i].pnid /\ req'[i].phone = n =>
            Alive(i) /\ req[i].pnid /\ req[i].phone = n
      BY <2>1 DEF Alive, OtherRowsStay, NewAt
    <2>3. \A g \in Handlers : handler'[g].phone = n => handler'[g].pc \in {"insert", "add", "cancel"}
      BY <1>1, <2>1 DEF OthersStay, BegunAt
    <2>4. QED
      BY <2>1, <2>2, <2>3, StillAbandoned
  <1>4. QED
    BY <1>2, <1>3

LEMMA AbandonedStep ==
  ASSUME Reserved, [Next]_vars, NEW n \in Phones, Abandoned(n)
  PROVE  Abandoned(n)' \/ (channel'[n].org # Nobody /\ channel'[n].pin = None)
  <1>0. TypeInv /\ Types
    BY DEF Reserved, TypeInv
  <1>1. \A g \in Handlers : handler[g].phone = n => handler[g].pc \in {"insert", "add", "cancel"}
    BY DEF Abandoned, Phone
  <1>2. ASSUME UNCHANGED <<req, number, handler>>, channel'[n].org = channel[n].org
        PROVE  Abandoned(n)'
    <2>1. \A i \in Requests : Alive(i)' /\ req'[i].pnid /\ req'[i].phone = n =>
            Alive(i) /\ req[i].pnid /\ req[i].phone = n
      BY <1>2 DEF Alive
    <2>2. QED
      BY <1>1, <1>2, <2>1, StillAbandoned
  <1>3. ASSUME NEW o \in Orgs, Open(o) \/ Leave(o) \/ (Gone(o) /\ screen[o].busy = Nobody)
        PROVE  Abandoned(n)'
    <2>1. UNCHANGED <<req, channel, number, handler>>
      BY <1>0, <1>3, WizardEffect, GoneEffect DEF rows
    <2>2. QED
      BY <1>2, <2>1
  <1>4. ASSUME NEW p \in Phones, Rewired(p)
        PROVE  Abandoned(n)' \/ (channel'[n].org # Nobody /\ channel'[n].pin = None)
    <2>1. CASE channel'[n].org = channel[n].org
      BY <1>0, <1>2, <1>4, <2>1, RewiredEffect DEF history
    <2>2. CASE channel'[n].org # channel[n].org
      <3>1. channel'[n].org \in Orgs /\ channel'[n].pin = channel[n].pin
        BY <1>0, <1>4, <2>2, RewiredEffect
      <3>2. channel[n].org = Nobody
        BY DEF Abandoned, Orphan
      <3>3. channel[n].pin = None
        BY <3>2 DEF Reserved, ReadyInv, ReadyPhone
      <3>4. QED
        BY <3>1, <3>3
    <2>3. QED
      BY <2>1, <2>2
  <1>5. CASE UNCHANGED vars
    BY <1>2, <1>5 DEF vars, rows
  <1>6. ASSUME NEW o \in Orgs, NEW h \in Handlers, Confirmar(o, h) \/ Reenviar(o, h) \/ Cancelar(o, h)
        PROVE  Abandoned(n)'
    <2>1. CASE Alive(screen[o].id)
      BY <1>6, <2>1, AbandonedCall
    <2>2. CASE ~Alive(screen[o].id)
      BY <1>3, <1>6, <2>2, DeadCall
    <2>3. QED
      BY <2>1, <2>2
  <1>7. ASSUME NEW h \in Handlers, Die(h)
        PROVE  Abandoned(n)'
    <2>1. OthersStay(h) /\ UNCHANGED <<req, channel, number>> /\ handler'[h] = NoHandler
      BY <1>0, <1>7, DieEffect DEF rows
    <2>2. \A g \in Handlers : handler'[g].phone = n => handler'[g].pc \in {"insert", "add", "cancel"}
      BY <1>1, <2>1 DEF OthersStay, NoHandler
    <2>3. \A i \in Requests : Alive(i)' /\ req'[i].pnid /\ req'[i].phone = n =>
            Alive(i) /\ req[i].pnid /\ req[i].phone = n
      BY <2>1 DEF Alive
    <2>4. QED
      BY <2>1, <2>2, <2>3, StillAbandoned
  <1>8. QED
    BY <1>0, <1>3, <1>4, <1>5, <1>6, <1>7, Steps, AbandonedCall, AbandonedReserve, AbandonedWorks

(***************************************************************************)
(* A number that the report of orphans lists while no handler has a hold of *)
(* it is never connected by the assisted connection afterwards: no step of  *)
(* anyone takes it off the report but a connection by hand, so the operator *)
(* may remove it at Meta.                                                   *)
(***************************************************************************)
THEOREM OrphansAlwaysStay == Spec => OrphansStay
  <1>1. Reserved /\ [Next]_vars =>
        [\A n \in Phones : Abandoned(n) =>
           Abandoned(n)' \/ (channel'[n].org # Nobody /\ channel'[n].pin = None)]_vars
    BY AbandonedStep
  <1>2. QED
    BY <1>1, ReservedAlways, PTL DEF Spec, OrphansStay

-----------------------------------------------------------------------------
(* The counts: the codes that were sent, and the slots that were taken.    *)

\* Only the wizards that wait for h, or for nobody, change.
Turns(h) == \A o \in Orgs : screen[o].busy \notin {h, Nobody} => screen'[o] = screen[o]

\* The steps of a request whose number is reserved take no slot, and of them
\* only those of reenviar send or count a code.
LEMMA WorkFacts ==
  ASSUME TypeInv, NEW h \in Handlers, NEW i \in Requests, i = handler[h].id, WorkStep(h)
  PROVE  /\ Works(h, i) /\ Turns(h) /\ slips' \in {slips, slips + 1}
         /\ handler[h].pc \notin Adding /\ handler'[h].pc \notin Adding
         /\ \A n \in Phones : number'[n].org = number[n].org
         /\ \A n \in Phones : channel'[n].org = Nobody => channel[n].org = Nobody
         /\ \A j \in Requests : req'[j].pnid = req[j].pnid
         /\ \/ Sms(h) \/ SmsFails(h) \/ Count(h)
            \/ /\ sms' = sms /\ handler[h].pc \notin Texting /\ handler'[h].pc \notin Texting
               /\ \A j \in Requests : req'[j].codes = req[j].codes
  <1>0. Types /\ Works(h, i)
    BY WorkEffect DEF TypeInv
  <1>1. /\ handler[h] \in Handler /\ req[i] \in Row
        /\ Phone(h) \in Phones /\ Owner(h) \in Orgs
        /\ \A n \in Phones : number[n] \in Number
    BY <1>0, HandlerKnows DEF Works, HasId, Texting, Closing, Types
  <1>2. Turns(h)
    BY <1>0 DEF Works, Turns, Served
  <1>3. handler[h].pc \in {"cancel"} \cup Texting \cup Closing /\ handler[h].pc \notin Adding
    BY DEF WorkStep, Sms, SmsFails, Count, Check, Verify, VerifyFails, Mark, Register,
       RegisterFails, CreateChannel, CreateRefused, Close, Cancel, Texting, Closing, Adding
  <1>4. \A j \in Requests : j # i => req'[j] = req[j]
    BY <1>0 DEF Works, OtherRowsStay
  <1>5. CASE Sms(h) \/ SmsFails(h) \/ Count(h)
    <2>1. /\ UNCHANGED <<channel, number>> /\ slips' \in {slips, slips + 1}
          /\ req' = req \/ req'[i] = [req[i] EXCEPT !.codes = req[i].codes + 1]
          /\ handler'[h] = NoHandler \/ handler'[h] = [handler[h] EXCEPT !.pc = "count"]
      BY <1>0, <1>5, TextEffect
    <2>2. req'[i].pnid = req[i].pnid
      BY <1>1, <2>1 DEF Row
    <2>3. handler'[h].pc \notin Adding
      BY <1>1, <2>1 DEF NoHandler, Handler, Adding
    <2>4. QED
      BY <1>0, <1>2, <1>3, <1>4, <1>5, <2>1, <2>2, <2>3
  <1>6. CASE Check(h) \/ Verify(h)
    <2>1. /\ UNCHANGED <<rows, history>>
          /\ MovedTo(h, "verify") \/ MovedTo(h, "register") \/ MovedTo(h, "mark")
          /\ \/ number' = number
             \/ /\ OtherNumbersStay(Phone(h))
                /\ number'[Phone(h)] = [number[Phone(h)] EXCEPT !.verified = TRUE]
      <3>1. CASE Check(h)
        <4>1. /\ UNCHANGED <<rows, number, screen, history>>
              /\ \/ handler'[h] = [handler[h] EXCEPT !.pc = "verify"]
                 \/ handler'[h] = [handler[h] EXCEPT !.pc = "register"]
                 \/ handler'[h] = [handler[h] EXCEPT !.pc = "mark", !.pin = handler'[h].pin]
          BY <1>0, <3>1, CheckEffect
        <4>2. MovedTo(h, "verify") \/ MovedTo(h, "register") \/ MovedTo(h, "mark")
          BY <1>1, <4>1, MovedKnows
        <4>3. QED
          BY <4>1, <4>2
      <3>2. CASE Verify(h)
        BY <1>0, <1>1, <3>2, VerifyEffect, MovedKnows
      <3>3. QED
        BY <1>6, <3>1, <3>2
    <2>2. req' = req /\ channel' = channel /\ sms' = sms /\ slips' = slips
      BY <2>1 DEF rows, history
    <2>3. \A n \in Phones : number'[n].org = number[n].org
      BY <1>1, <2>1 DEF OtherNumbersStay, Number
    <2>4. handler[h].pc \notin Texting /\ handler'[h].pc \notin Texting \cup Adding
      BY <1>6, <2>1 DEF MovedTo, Texting, Adding, Check, Verify
    <2>5. QED
      BY <1>0, <1>2, <1>3, <2>2, <2>3, <2>4
  <1>7. CASE VerifyFails(h)
    <2>1. /\ channel' = channel /\ sms' = sms /\ handler'[h] = NoHandler
          /\ slips' \in {slips, slips + 1} /\ handler[h].pc = "verify"
          /\ \/ number' = number
             \/ /\ OtherNumbersStay(Phone(h))
                /\ number'[Phone(h)] = [number[Phone(h)] EXCEPT !.verified = TRUE]
      BY <1>0, <1>1, <1>7, VerifyFailsEffect
    <2>2. PICK st \in {req[i].status, "falhou"} :
            /\ req'[i] = [req[i] EXCEPT !.attempts = handler[h].attempts + 1, !.status = st]
            /\ handler[h].attempts + 1 >= MaxCodes => st = "falhou"
      BY <1>0, <1>1, <1>7, VerifyFailsEffect
    <2>3. req'[i].pnid = req[i].pnid /\ req'[i].codes = req[i].codes
      BY <1>1, <2>2 DEF Row
    <2>4. \A n \in Phones : number'[n].org = number[n].org
      BY <1>1, <2>1 DEF OtherNumbersStay, Number
    <2>5. handler[h].pc \notin Texting /\ handler'[h].pc \notin Texting \cup Adding
      BY <2>1 DEF NoHandler, Texting, Adding
    <2>6. QED
      BY <1>0, <1>2, <1>3, <1>4, <2>1, <2>3, <2>4, <2>5
  <1>8. CASE Mark(h)
    <2>1. /\ UNCHANGED <<channel, number, history>> /\ handler[h].pc = "mark"
          /\ MovedTo(h, "register")
          /\ req'[i] = [req[i] EXCEPT !.verified = TRUE, !.pin = handler[h].pin]
      BY <1>0, <1>1, <1>8, MarkEffect, MovedKnows
    <2>2. req'[i].pnid = req[i].pnid /\ req'[i].codes = req[i].codes
      BY <1>1, <2>1 DEF Row
    <2>3. sms' = sms /\ slips' = slips
      BY <2>1 DEF history
    <2>4. handler[h].pc \notin Texting /\ handler'[h].pc \notin Texting \cup Adding
      BY <2>1 DEF MovedTo, Texting, Adding
    <2>5. QED
      BY <1>0, <1>2, <1>3, <1>4, <2>1, <2>2, <2>3, <2>4
  <1>9. CASE Register(h) \/ RegisterFails(h)
    <2>1. /\ UNCHANGED <<rows, sms>> /\ slips' \in {slips, slips + 1}
          /\ handler[h].pc = "register"
          /\ MovedTo(h, "create") \/ MovedTo(h, "close") \/ handler'[h] = NoHandler
          /\ \/ number' = number
             \/ /\ OtherNumbersStay(Phone(h))
                /\ number'[Phone(h)] = [number[Phone(h)] EXCEPT !.pin = handler[h].pin]
      BY <1>0, <1>1, <1>9, RegisterEffect, MovedKnows
    <2>2. req' = req /\ channel' = channel
      BY <2>1 DEF rows
    <2>3. \A n \in Phones : number'[n].org = number[n].org
      BY <1>1, <2>1 DEF OtherNumbersStay, Number
    <2>4. handler[h].pc \notin Texting /\ handler'[h].pc \notin Texting \cup Adding
      BY <2>1 DEF MovedTo, NoHandler, Texting, Adding
    <2>5. QED
      BY <1>0, <1>2, <1>3, <2>1, <2>2, <2>3, <2>4
  <1>10. CASE CreateChannel(h)
    <2>1. /\ UNCHANGED <<req, number, history>> /\ handler[h].pc = "create" /\ MovedTo(h, "close")
          /\ channel'[Phone(h)].org = Owner(h)
          /\ \A n \in Phones : n # Phone(h) => channel'[n] = channel[n]
      BY <1>0, <1>1, <1>10, CreateEffect, MovedKnows
    <2>2. sms' = sms /\ slips' = slips
      BY <2>1 DEF history
    <2>3. handler[h].pc \notin Texting /\ handler'[h].pc \notin Texting \cup Adding
      BY <2>1 DEF MovedTo, Texting, Adding
    <2>4. \A n \in Phones : channel'[n].org = Nobody => channel[n].org = Nobody
      BY <1>1, <2>1
    <2>5. QED
      BY <1>0, <1>2, <1>3, <2>1, <2>2, <2>3, <2>4
  <1>11. CASE CreateRefused(h) \/ Close(h) \/ Cancel(h)
    <2>1. /\ UNCHANGED <<channel, number, history>> /\ handler'[h] = NoHandler
          /\ handler[h].pc \in {"create", "close", "cancel"}
          /\ \E st \in {"falhou", "concluida", "cancelada"} : req'[i] = [req[i] EXCEPT !.status = st]
      BY <1>0, <1>11, EndEffect
    <2>2. req'[i].pnid = req[i].pnid /\ req'[i].codes = req[i].codes
      BY <1>1, <2>1 DEF Row
    <2>3. sms' = sms /\ slips' = slips
      BY <2>1 DEF history
    <2>4. handler[h].pc \notin Texting /\ handler'[h].pc \notin Texting \cup Adding
      BY <2>1 DEF NoHandler, Texting, Adding
    <2>5. QED
      BY <1>0, <1>2, <1>3, <1>4, <2>1, <2>2, <2>3, <2>4
  <1>12. QED
    BY <1>5, <1>6, <1>7, <1>8, <1>9, <1>10, <1>11 DEF WorkStep

LEMMA SubsetCount ==
  ASSUME NEW T, IsFiniteSet(T), NEW S, S \subseteq T
  PROVE  IsFiniteSet(S) /\ Cardinality(S) \in Nat /\ Cardinality(T) \in Nat
         /\ Cardinality(S) <= Cardinality(T)
  BY FS_Subset, FS_CardinalityType

LEMMA OneMore ==
  ASSUME NEW T, IsFiniteSet(T), NEW x, NEW S, S \subseteq T \cup {x}
  PROVE  IsFiniteSet(S) /\ Cardinality(S) \in Nat /\ Cardinality(T) \in Nat
         /\ Cardinality(S) <= Cardinality(T) + 1
  <1>1. /\ IsFiniteSet(T \cup {x}) /\ Cardinality(T) \in Nat
        /\ Cardinality(T \cup {x}) <= Cardinality(T) + 1
    <2>1. /\ IsFiniteSet(T \cup {x}) /\ Cardinality(T) \in Nat
          /\ \/ x \in T /\ Cardinality(T \cup {x}) = Cardinality(T)
             \/ x \notin T /\ Cardinality(T \cup {x}) = Cardinality(T) + 1
      BY FS_AddElement, FS_CardinalityType
    <2>2. QED
      BY <2>1
  <1>2. Cardinality(S) \in Nat /\ Cardinality(T \cup {x}) \in Nat /\ IsFiniteSet(S)
        /\ Cardinality(S) <= Cardinality(T \cup {x})
    BY <1>1, SubsetCount
  <1>3. QED
    BY <1>1, <1>2

LEMMA OneLess ==
  ASSUME NEW T, IsFiniteSet(T), NEW x \in T, NEW S, S \subseteq T \ {x}
  PROVE  Cardinality(S) \in Nat /\ Cardinality(T) \in Nat /\ Cardinality(S) + 1 <= Cardinality(T)
  <1>1. /\ IsFiniteSet(T \ {x}) /\ Cardinality(T) \in Nat
        /\ Cardinality(T \ {x}) = Cardinality(T) - 1
    BY FS_RemoveElement, FS_CardinalityType
  <1>2. Cardinality(S) \in Nat /\ Cardinality(S) <= Cardinality(T \ {x})
    BY <1>1, SubsetCount
  <1>3. QED
    BY <1>1, <1>2

\* The calls of reenviar that may yet send a code of the request.
Waiting(i) == {h \in Handlers : handler[h].pc = "sms" /\ handler[h].id = i}

\* The wizard waits for a call of reenviar on the request.
WaitedText(i) ==
  \E h \in Handlers : /\ screen[req[i].org].busy = h
                      /\ handler[h].pc \in Texting /\ handler[h].id = i
Uncounted(i) == IF WaitedText(i) THEN 1 ELSE 0

\* Codes sent, or that may be sent, and not counted were lost, but for the one
\* that the wizard waits for.
SmsRow(i) ==
  req[i].status # "none" =>
    /\ sms[i] + Cardinality(Waiting(i)) <= MaxSms + slips
    /\ req[i].codes > 0 =>
         sms[i] + Cardinality(Waiting(i)) <= req[i].codes + slips + Uncounted(i)

SmsInv == \A i \in Requests : SmsRow(i)

LEMMA WaitingCount ==
  ASSUME NEW i
  PROVE  IsFiniteSet(Waiting(i)) /\ Cardinality(Waiting(i)) \in Nat
  <1>1. Waiting(i) \subseteq Handlers
    BY DEF Waiting
  <1>2. QED
    BY <1>1, SubsetCount

LEMMA SmsNumbers ==
  ASSUME TypeInv, NEW i \in Requests
  PROVE  sms[i] \in Nat /\ req[i].codes \in Nat /\ slips \in Nat /\ Cardinality(Waiting(i)) \in Nat
         /\ Uncounted(i) \in 0..1
  BY RowKnows, WaitingCount DEF TypeInv, Types, Uncounted

\* What a step that sends nothing of the request leaves as it was.
LEMMA SmsKept ==
  ASSUME TypeInv, NEW i \in Requests, SmsRow(i), req[i].status # "none",
         NEW W, W \subseteq Waiting(i), Waiting(i)' = W,
         sms'[i] = sms[i], req'[i].codes = req[i].codes,
         slips' \in Nat, slips' >= slips,
         WaitedText(i) => WaitedText(i)' \/ slips' > slips
  PROVE  SmsRow(i)'
  <1>1. /\ sms[i] \in Nat /\ req[i].codes \in Nat /\ slips \in Nat
        /\ Cardinality(Waiting(i)) \in Nat /\ IsFiniteSet(Waiting(i))
    BY SmsNumbers, WaitingCount
  <1>2. Cardinality(W) \in Nat /\ Cardinality(W) <= Cardinality(Waiting(i))
    BY <1>1, SubsetCount
  <1>3. PICK u \in 0..1, v \in 0..1 :
          /\ u = Uncounted(i) /\ v = Uncounted(i)'
          /\ u = 1 => v = 1 \/ slips' > slips
    <2>1. CASE WaitedText(i)
      <3>1. Uncounted(i) = 1 /\ Uncounted(i)' = (IF WaitedText(i)' THEN 1 ELSE 0)
        BY <2>1 DEF Uncounted
      <3>2. Uncounted(i)' = 1 \/ (Uncounted(i)' = 0 /\ slips' > slips)
        BY <2>1, <3>1
      <3>3. QED
        BY <3>1, <3>2
    <2>2. CASE ~WaitedText(i)
      <3>1. Uncounted(i) = 0 /\ Uncounted(i)' \in 0..1
        BY <2>2 DEF Uncounted
      <3>2. QED
        BY <3>1
    <2>3. QED
      BY <2>1, <2>2
  <1>4. slips + u <= slips' + v
    BY <1>1, <1>3
  <1>5. sms'[i] + Cardinality(W) <= MaxSms + slips'
    BY <1>1, <1>2 DEF SmsRow
  <1>6. req'[i].codes > 0 => sms'[i] + Cardinality(W) <= req'[i].codes + slips' + v
    BY <1>1, <1>2, <1>3, <1>4 DEF SmsRow
  <1>7. QED
    BY <1>3, <1>5, <1>6 DEF SmsRow

LEMMA WaitedStays ==
  ASSUME TypeInv, NEW h \in Handlers, OthersStay(h), Turns(h), NEW i \in Requests,
         req[i].status # "none", req'[i].org = req[i].org,
         ~(handler[h].pc \in Texting /\ handler[h].id = i), WaitedText(i)
  PROVE  WaitedText(i)'
  <1>1. req[i].org \in Orgs
    BY RowKnows
  <1>2. PICK g \in Handlers : /\ screen[req[i].org].busy = g
                              /\ handler[g].pc \in Texting /\ handler[g].id = i
    BY DEF WaitedText
  <1>3. g # h /\ handler'[g] = handler[g] /\ screen'[req[i].org] = screen[req[i].org]
    BY <1>1, <1>2 DEF OthersStay, Turns
  <1>4. QED
    BY <1>2, <1>3 DEF WaitedText

\* A step of h on another request, or on this one without a code.
LEMMA SmsOther ==
  ASSUME TypeInv, NEW h \in Handlers, OthersStay(h), Turns(h), NEW i \in Requests,
         req[i].status # "none", SmsRow(i), req'[i].org = req[i].org,
         sms'[i] = sms[i], req'[i].codes = req[i].codes,
         slips' \in {slips, slips + 1},
         ~(handler[h].pc \in Texting /\ handler[h].id = i),
         ~(handler'[h].pc = "sms" /\ handler'[h].id = i)
  PROVE  SmsRow(i)'
  <1>1. Waiting(i)' = Waiting(i)
    <2>1. \A g \in Handlers : handler'[g].pc = "sms" /\ handler'[g].id = i
                                <=> handler[g].pc = "sms" /\ handler[g].id = i
      BY DEF OthersStay, Texting
    <2>2. QED
      BY <2>1 DEF Waiting
  <1>2. PICK W : W = Waiting(i)
    OBVIOUS
  <1>3. slips \in Nat
    BY DEF TypeInv, Types
  <1>4. WaitedText(i) => WaitedText(i)'
    BY WaitedStays
  <1>5. QED
    BY <1>1, <1>2, <1>3, <1>4, SmsKept

LEMMA SmsNew ==
  ASSUME TypeInv, NEW i \in Requests, req[i].status = "none", sms'[i] = sms[i],
         slips' \in Nat, req'[i].codes = 0,
         \A g \in Handlers : handler'[g].pc = "sms" => handler'[g] = handler[g]
  PROVE  SmsRow(i)'
  <1>1. sms[i] = 0
    BY DEF TypeInv, Fits, RowFits
  <1>2. \A g \in Handlers : handler[g].pc = "sms" => handler[g].id # i
    BY HandlerKnows DEF HasId, Texting
  <1>3. Waiting(i)' = {}
    BY <1>2 DEF Waiting
  <1>4. Cardinality(Waiting(i)') = 0
    BY <1>3, FS_EmptySet
  <1>5. MaxSms \in Nat
    OBVIOUS
  <1>6. QED
    BY <1>1, <1>4, <1>5 DEF SmsRow

LEMMA WaitedTurns ==
  ASSUME NEW h \in Handlers,
         \/ screen' = screen
         \/ Served(h)
         \/ \E o \in Orgs : Waits(o, h)
  PROVE  Turns(h)
  <1>1. CASE screen' = screen
    BY <1>1 DEF Turns
  <1>2. CASE Served(h)
    BY <1>2 DEF Turns, Served
  <1>3. ASSUME NEW o \in Orgs, Waits(o, h)
        PROVE  Turns(h)
    BY <1>3 DEF Turns, Waits
  <1>4. QED
    BY <1>1, <1>2, <1>3

LEMMA SmsTexts ==
  ASSUME Reserved, SmsInv, NEW h \in Handlers, Sms(h) \/ SmsFails(h) \/ Count(h)
  PROVE  SmsInv'
  <1>0. TypeInv /\ Types
    BY DEF Reserved, TypeInv
  <1>1. PICK i \in Requests : i = handler[h].id /\ Works(h, i) /\ Turns(h)
    BY <1>0, WorkEffect, WorkFacts DEF WorkStep
  <1>2. req[i] \in Row /\ handler[h] \in Handler /\ req[i].status # "none" /\ slips \in Nat
    BY <1>0, <1>1, RowKnows, HandlerKnows DEF Works, Types
  <1>3. /\ OthersStay(h) /\ handler[h].pc \in Texting /\ OtherRowsStay(i)
        /\ \A j \in Requests : j # i => sms'[j] = sms[j]
        /\ \/ /\ handler'[h] = [handler[h] EXCEPT !.pc = "count"] /\ handler[h].pc = "sms"
              /\ UNCHANGED <<req, screen, slips>> /\ sms'[i] = sms[i] + 1
           \/ /\ handler'[h] = NoHandler /\ handler[h].pc = "sms" /\ UNCHANGED req
              /\ \/ sms'[i] = sms[i] /\ slips' = slips
                 \/ sms'[i] = sms[i] + 1 /\ slips' = slips + 1
           \/ /\ handler'[h] = NoHandler /\ handler[h].pc = "count"
              /\ UNCHANGED <<sms, slips>>
              /\ req'[i] = [req[i] EXCEPT !.codes = req[i].codes + 1]
    BY <1>0, <1>1, TextEffect
  <1>4. /\ slips' \in {slips, slips + 1} /\ req'[i].org = req[i].org
        /\ handler'[h].pc # "sms"
    BY <1>2, <1>3 DEF Row, NoHandler, Handler
  <1>5. ASSUME NEW j \in Requests, j # i
        PROVE  SmsRow(j)'
    <2>1. req'[j] = req[j] /\ sms'[j] = sms[j]
      BY <1>3, <1>5 DEF OtherRowsStay
    <2>2. CASE req[j].status # "none"
      BY <1>0, <1>1, <1>3, <1>4, <1>5, <2>1, <2>2, SmsOther DEF SmsInv
    <2>3. CASE req[j].status = "none"
      BY <2>1, <2>3 DEF SmsRow
    <2>4. QED
      BY <2>2, <2>3
  <1>6. SmsRow(i)'
    <2>1. /\ sms[i] \in Nat /\ req[i].codes \in Nat /\ Cardinality(Waiting(i)) \in Nat
          /\ Uncounted(i) \in 0..1 /\ IsFiniteSet(Waiting(i))
      BY <1>0, SmsNumbers, WaitingCount
    <2>2. PICK W : W = Waiting(i)'
      OBVIOUS
    <2>3. W = Waiting(i) \ {h}
      BY <1>3, <1>4, <2>2 DEF Waiting, OthersStay
    <2>4. IsFiniteSet(W) /\ Cardinality(W) \in Nat /\ Cardinality(W) <= Cardinality(Waiting(i))
      BY <2>1, <2>3, SubsetCount
    <2>5. handler[h].pc = "sms" => Cardinality(W) + 1 <= Cardinality(Waiting(i))
      <3>1. handler[h].pc = "sms" => h \in Waiting(i)
        BY <1>1 DEF Waiting
      <3>2. QED
        BY <2>1, <2>3, <3>1, OneLess
    <2>6. /\ sms[i] + Cardinality(Waiting(i)) <= MaxSms + slips
          /\ req[i].codes > 0 =>
               sms[i] + Cardinality(Waiting(i)) <= req[i].codes + slips + Uncounted(i)
          /\ req[i].codes > 0
      BY <1>1, <1>2, <1>3 DEF SmsInv, SmsRow, Reserved, ReadyInv, ReadyHandler
    <2>7. PICK v \in 0..1 : v = Uncounted(i)'
      BY DEF Uncounted
    <2>8. req[i].codes + 1 > 0 /\ MaxSms \in Nat
      BY <2>1
    <2>9. CASE /\ handler'[h] = [handler[h] EXCEPT !.pc = "count"] /\ handler[h].pc = "sms"
               /\ UNCHANGED <<req, screen, slips>> /\ sms'[i] = sms[i] + 1
      <3>1. WaitedText(i) => WaitedText(i)'
        <4>1. SUFFICES ASSUME WaitedText(i) PROVE WaitedText(i)'
          OBVIOUS
        <4>2. PICK g \in Handlers : /\ screen[req[i].org].busy = g
                                    /\ handler[g].pc \in Texting /\ handler[g].id = i
          BY <4>1 DEF WaitedText
        <4>3. handler'[h].pc = "count" /\ handler'[h].id = i
          BY <1>1, <1>2, <2>9 DEF Handler
        <4>4. handler'[g].pc \in Texting /\ handler'[g].id = i
          BY <1>3, <4>2, <4>3 DEF OthersStay, Texting
        <4>5. screen'[req'[i].org].busy = g
          BY <2>9, <4>2
        <4>6. QED
          BY <4>4, <4>5 DEF WaitedText
      <3>2. Uncounted(i) <= v
        BY <2>7, <3>1 DEF Uncounted
      <3>3. /\ sms'[i] + Cardinality(W) <= MaxSms + slips'
            /\ sms'[i] + Cardinality(W) <= req'[i].codes + slips' + v
        BY <1>2, <2>1, <2>4, <2>5, <2>6, <2>8, <2>9, <3>2
      <3>4. QED
        BY <2>2, <2>7, <3>3 DEF SmsRow
    <2>10. CASE /\ handler[h].pc = "sms" /\ UNCHANGED req
                /\ \/ sms'[i] = sms[i] /\ slips' = slips
                   \/ sms'[i] = sms[i] + 1 /\ slips' = slips + 1
      <3>1. /\ sms'[i] + Cardinality(W) <= MaxSms + slips'
            /\ sms'[i] + Cardinality(W) <= req'[i].codes + slips' + v
        BY <1>2, <2>1, <2>4, <2>5, <2>6, <2>8, <2>10
      <3>2. QED
        BY <2>2, <2>7, <3>1 DEF SmsRow
    <2>11. CASE /\ UNCHANGED <<sms, slips>>
                /\ req'[i] = [req[i] EXCEPT !.codes = req[i].codes + 1]
      <3>1. req'[i].codes = req[i].codes + 1
        BY <1>2, <2>11 DEF Row
      <3>2. /\ sms'[i] + Cardinality(W) <= MaxSms + slips'
            /\ sms'[i] + Cardinality(W) <= req'[i].codes + slips' + v
        BY <1>2, <2>1, <2>4, <2>6, <2>8, <2>11, <3>1
      <3>3. QED
        BY <2>2, <2>7, <3>2 DEF SmsRow
    <2>12. QED
      BY <1>3, <2>9, <2>10, <2>11
  <1>7. QED
    BY <1>5, <1>6 DEF SmsInv

LEMMA SmsWork ==
  ASSUME Reserved, SmsInv, NEW h \in Handlers, WorkStep(h)
  PROVE  SmsInv'
  <1>0. TypeInv /\ Types
    BY DEF Reserved, TypeInv
  <1>1. PICK i \in Requests : i = handler[h].id /\ Works(h, i)
    BY <1>0, WorkEffect DEF WorkStep
  <1>2. CASE Sms(h) \/ SmsFails(h) \/ Count(h)
    BY <1>2, SmsTexts
  <1>3. CASE ~(Sms(h) \/ SmsFails(h) \/ Count(h))
    <2>1. /\ Turns(h) /\ slips' \in {slips, slips + 1}
          /\ sms' = sms /\ handler[h].pc \notin Texting /\ handler'[h].pc \notin Texting
          /\ \A j \in Requests : req'[j].codes = req[j].codes
      BY <1>0, <1>1, <1>3, WorkFacts
    <2>2. OthersStay(h) /\ \A j \in Requests : req'[j].org = req[j].org
      BY <1>1 DEF Works, OtherRowsStay
    <2>3. ASSUME NEW j \in Requests
          PROVE  SmsRow(j)'
      <3>1. CASE req[j].status # "none"
        BY <1>0, <2>1, <2>2, <3>1, SmsOther DEF SmsInv, Texting
      <3>2. CASE req[j].status = "none"
        <4>1. j # i
          BY <1>0, <1>1, <3>2, HandlerKnows DEF Works
        <4>2. req'[j] = req[j]
          BY <1>1, <4>1 DEF Works, OtherRowsStay
        <4>3. QED
          BY <3>2, <4>2 DEF SmsRow
      <3>3. QED
        BY <3>1, <3>2
    <2>4. QED
      BY <2>3 DEF SmsInv
  <1>4. QED
    BY <1>2, <1>3

LEMMA SmsDie ==
  ASSUME Reserved, SmsInv, NEW h \in Handlers, Die(h)
  PROVE  SmsInv'
  <1>0. TypeInv /\ Types
    BY DEF Reserved, TypeInv
  <1>1. /\ OthersStay(h) /\ req' = req /\ sms' = sms /\ handler'[h] = NoHandler /\ slips \in Nat
        /\ slips' = slips + 1
    BY <1>0, DieEffect DEF rows, Types
  <1>2. ASSUME NEW i \in Requests
        PROVE  SmsRow(i)'
    <2>1. CASE req[i].status = "none"
      BY <1>1, <2>1 DEF SmsRow
    <2>2. CASE req[i].status # "none"
      <3>1. Waiting(i)' = Waiting(i) \ {h}
        BY <1>1 DEF Waiting, OthersStay, NoHandler
      <3>2. PICK W : W = Waiting(i) \ {h}
        OBVIOUS
      <3>3. slips' \in Nat /\ slips' > slips /\ slips' >= slips
        BY <1>1
      <3>4. QED
        BY <1>0, <1>1, <2>2, <3>1, <3>2, <3>3, SmsKept DEF SmsInv
    <2>3. QED
      BY <2>1, <2>2
  <1>3. QED
    BY <1>2 DEF SmsInv

LEMMA SmsReserve ==
  ASSUME Reserved, SmsInv, NEW h \in Handlers, Insert(h) \/ Add(h) \/ AddFails(h)
  PROVE  SmsInv'
  <1>0. TypeInv /\ Types /\ handler[h] \in Handler /\ slips \in Nat
    BY HandlerKnows DEF Reserved, TypeInv, Types
  <1>1. Owner(h) \in Orgs /\ Phone(h) \in Phones
    BY <1>0, HandlerKnows DEF Insert, Add, AddFails
  <1>2. CASE Insert(h)
    <2>1. /\ OthersStay(h) /\ handler[h].pc = "insert" /\ UNCHANGED <<sms, slips>>
          /\ \/ /\ NextId \in Requests /\ req[NextId].status = "none" /\ OtherRowsStay(NextId)
                /\ NewAt(req'[NextId], Owner(h), Phone(h), "criando")
                /\ handler'[h] = [handler[h] EXCEPT !.pc = "add", !.id = NextId]
                /\ UNCHANGED screen
             \/ handler'[h] = NoHandler /\ Served(h) /\ UNCHANGED req
      BY <1>0, <1>1, <1>2, InsertEffect
    <2>2. handler'[h].pc \notin Texting /\ handler[h].pc \notin Texting
      <3>1. PICK k : k = NextId
        OBVIOUS
      <3>2. handler'[h] = NoHandler \/ handler'[h] = [handler[h] EXCEPT !.pc = "add", !.id = k]
        BY <2>1, <3>1
      <3>3. CASE handler'[h] = NoHandler
        BY <2>1, <3>3 DEF NoHandler, Texting
      <3>4. CASE handler'[h] = [handler[h] EXCEPT !.pc = "add", !.id = k]
        BY <1>0, <2>1, <3>4 DEF Handler, Texting
      <3>5. QED
        BY <3>2, <3>3, <3>4
    <2>3. Turns(h)
      BY <2>1, WaitedTurns
    <2>4. ASSUME NEW j \in Requests
          PROVE  SmsRow(j)'
      <3>1. CASE req'[j] = req[j] /\ req[j].status # "none"
        BY <1>0, <2>1, <2>2, <2>3, <3>1, SmsOther DEF SmsInv, Texting
      <3>2. CASE req'[j] = req[j] /\ req[j].status = "none"
        BY <3>2 DEF SmsRow
      <3>3. CASE req[j].status = "none" /\ NewAt(req'[j], Owner(h), Phone(h), "criando")
        <4>1. req'[j].codes = 0
          BY <3>3 DEF NewAt
        <4>2. \A g \in Handlers : handler'[g].pc = "sms" => handler'[g] = handler[g]
          BY <2>1, <2>2 DEF OthersStay, Texting
        <4>3. slips' \in Nat /\ sms'[j] = sms[j]
          BY <1>0, <2>1
        <4>4. QED
          BY <1>0, <3>3, <4>1, <4>2, <4>3, SmsNew
      <3>4. QED
        BY <2>1, <3>1, <3>2, <3>3 DEF OtherRowsStay
    <2>5. QED
      BY <2>4 DEF SmsInv
  <1>3. CASE Add(h) \/ AddFails(h)
    <2>0. PICK i \in Requests : i = handler[h].id /\ req[i] \in Row /\ req[i].status # "none"
      BY <1>0, <1>3, HandlerKnows DEF Add, AddFails, HasId
    <2>1. /\ OthersStay(h) /\ handler[h].pc = "add" /\ sms' = sms
          /\ \/ /\ UNCHANGED <<req, screen, slips>>
                /\ handler'[h] = [handler[h] EXCEPT !.pc = "update"]
             \/ /\ handler'[h] = NoHandler /\ Served(h) /\ OtherRowsStay(i)
                /\ req'[i] = [req[i] EXCEPT !.status = "falhou"]
                /\ slips' \in {slips, slips + 1}
      BY <1>0, <1>1, <1>3, <2>0, AddEffect
    <2>2. handler'[h].pc \notin Texting /\ handler[h].pc \notin Texting
      BY <1>0, <2>1 DEF Handler, NoHandler, Texting
    <2>3. Turns(h)
      BY <2>1, WaitedTurns
    <2>4. /\ req'[i].codes = req[i].codes /\ req'[i].org = req[i].org
          /\ \A j \in Requests : j # i => req'[j] = req[j]
      BY <2>0, <2>1 DEF OtherRowsStay, Row
    <2>5. ASSUME NEW j \in Requests
          PROVE  SmsRow(j)'
      <3>1. CASE req[j].status # "none"
        BY <1>0, <2>1, <2>2, <2>3, <2>4, <3>1, SmsOther DEF SmsInv, Texting
      <3>2. CASE req[j].status = "none"
        BY <2>0, <2>4, <3>2 DEF SmsRow
      <3>3. QED
        BY <3>1, <3>2
    <2>6. QED
      BY <2>5 DEF SmsInv
  <1>4. QED
    BY <1>2, <1>3

\* The first code is sent for a request that has no number recorded yet.
LEMMA SmsUpdate ==
  ASSUME Reserved, SmsInv, NEW h \in Handlers, Update(h)
  PROVE  SmsInv'
  <1>0. TypeInv /\ Types /\ ReadyInv /\ slips \in Nat
    BY DEF Reserved, TypeInv, Types
  <1>1. PICK i \in Requests : i = handler[h].id /\ req[i] \in Row /\ req[i].status # "none"
    BY <1>0, HandlerKnows DEF Update, HasId
  <1>2. /\ OthersStay(h) /\ handler'[h] = NoHandler /\ handler[h].pc = "update"
        /\ slips' = slips /\ OtherRowsStay(i)
        /\ sms'[i] = 1 /\ \A j \in Requests : j # i => sms'[j] = sms[j]
        /\ \/ req'[i] = [req[i] EXCEPT !.pnid = TRUE, !.codes = 1, !.status = "aguardando_codigo"]
           \/ UNCHANGED req
           \/ req'[i] = [req[i] EXCEPT !.pnid = TRUE, !.status = "falhou"]
    BY <1>0, <1>1, UpdateEffect
  <1>3. ~req[i].pnid /\ req[i].codes = 0
    BY <1>0, <1>1, <1>2 DEF ReadyInv, ReadyHandler, ReadyRow
  <1>4. Turns(h)
    <2>1. \A o \in Orgs : screen[o].busy # h => screen'[o] = screen[o]
      BY <1>0, <1>1, UpdateEffect DEF Served
    <2>2. QED
      BY <2>1 DEF Turns
  <1>5. ASSUME NEW j \in Requests, j # i
        PROVE  SmsRow(j)'
    <2>1. req'[j] = req[j] /\ sms'[j] = sms[j]
      BY <1>2, <1>5 DEF OtherRowsStay
    <2>2. CASE req[j].status # "none"
      <3>1. handler'[h].pc = "idle" /\ slips' \in {slips, slips + 1}
        BY <1>2 DEF NoHandler
      <3>2. QED
        BY <1>0, <1>2, <1>4, <2>1, <2>2, <3>1, SmsOther DEF SmsInv, Texting
    <2>3. CASE req[j].status = "none"
      BY <2>1, <2>3 DEF SmsRow
    <2>4. QED
      BY <2>2, <2>3
  <1>6. SmsRow(i)'
    <2>1. req'[i].codes \in {0, 1}
      BY <1>1, <1>2, <1>3 DEF Row
    <2>2. \A g \in Handlers : handler[g].pc = "sms" => handler[g].id # i
      BY <1>0, <1>3 DEF ReadyInv, ReadyHandler, Texting
    <2>3. Waiting(i)' = {}
      BY <1>2, <2>2 DEF Waiting, OthersStay, NoHandler
    <2>4. Cardinality(Waiting(i)') = 0
      BY <2>3, FS_EmptySet
    <2>5. PICK v \in 0..1 : v = Uncounted(i)'
      BY DEF Uncounted
    <2>6. MaxSms \in Nat \ {0}
      OBVIOUS
    <2>7. QED
      BY <1>0, <1>2, <2>1, <2>4, <2>5, <2>6 DEF SmsRow
  <1>7. QED
    BY <1>5, <1>6 DEF SmsInv

\* A call of reenviar starts only while no other is waited for.
LEMMA SmsCall ==
  ASSUME Reserved, SmsInv, NEW o \in Orgs, NEW h \in Handlers,
         Reenviar(o, h) \/ Confirmar(o, h) \/ Cancelar(o, h), Alive(screen[o].id)
  PROVE  SmsInv'
  <1>0. TypeInv /\ Types /\ ReadyInv /\ slips \in Nat
    BY DEF Reserved, TypeInv, Types
  <1>1. screen[o].step \in {"preparando", "codigo"}
    BY DEF Confirmar, Reenviar, Cancelar, Free
  <1>2. PICK i \in Requests : /\ i = screen[o].id /\ req[i] \in Row /\ req[i].status # "none"
                              /\ req[i].org = o /\ req[i].phone \in Phones
    BY <1>0, <1>1, ScreenKnows
  <1>3. /\ UNCHANGED <<rows, sms, slips>> /\ Waits(o, h) /\ OthersStay(h)
        /\ \/ BegunAt(handler'[h], "sms", o, req[i].phone, i) /\ MayResend(i)
           \/ BegunAt(handler'[h], "check", req[i].org, req[i].phone, i)
           \/ BegunAt(handler'[h], "cancel", o, req[i].phone, i)
    BY <1>0, <1>2, CallEffect
  <1>4. req' = req /\ Turns(h) /\ handler[h].pc = "idle" /\ slips' \in {slips, slips + 1}
    BY <1>3, WaitedTurns DEF rows, Waits
  <1>5. ASSUME NEW j \in Requests, ~(handler'[h].pc = "sms" /\ handler'[h].id = j)
        PROVE  SmsRow(j)'
    <2>1. CASE req[j].status # "none"
      BY <1>0, <1>3, <1>4, <1>5, <2>1, SmsOther DEF SmsInv, Texting
    <2>2. CASE req[j].status = "none"
      BY <1>4, <2>2 DEF SmsRow
    <2>3. QED
      BY <2>1, <2>2
  <1>6. ASSUME BegunAt(handler'[h], "sms", o, req[i].phone, i), MayResend(i)
        PROVE  SmsRow(i)'
    <2>1. /\ sms[i] \in Nat /\ req[i].codes \in Nat /\ Cardinality(Waiting(i)) \in Nat
          /\ IsFiniteSet(Waiting(i)) /\ MaxSms \in Nat
      BY <1>0, SmsNumbers, WaitingCount
    <2>2. req[i].codes > 0 /\ req[i].codes < MaxSms
      BY <1>0, <1>2, <1>6 DEF ReadyInv, ReadyRow, MayResend
    <2>3. ~WaitedText(i) /\ Uncounted(i) = 0
      BY <1>2, <1>3 DEF Waits, WaitedText, Uncounted
    <2>4. WaitedText(i)'
      <3>1. screen'[o].busy = h
        BY <1>0, <1>3 DEF Waits, Types, Screen
      <3>2. handler'[h].pc \in Texting /\ handler'[h].id = i
        BY <1>6 DEF BegunAt, Texting
      <3>3. QED
        BY <1>2, <1>4, <3>1, <3>2 DEF WaitedText
    <2>5. PICK W : W = Waiting(i)'
      OBVIOUS
    <2>6. W \subseteq Waiting(i) \cup {h}
      BY <1>3, <2>5 DEF Waiting, OthersStay
    <2>7. Cardinality(W) \in Nat /\ Cardinality(W) <= Cardinality(Waiting(i)) + 1
      BY <2>1, <2>6, OneMore
    <2>8. sms[i] + Cardinality(Waiting(i)) <= req[i].codes + slips
      BY <1>0, <1>2, <2>1, <2>2, <2>3 DEF SmsInv, SmsRow
    <2>9. sms' = sms /\ slips' = slips /\ Uncounted(i)' = 1
      BY <1>3, <2>4 DEF Uncounted
    <2>10. /\ sms'[i] + Cardinality(W) <= MaxSms + slips'
           /\ sms'[i] + Cardinality(W) <= req'[i].codes + slips' + 1
      BY <1>0, <1>4, <2>1, <2>2, <2>7, <2>8, <2>9
    <2>11. QED
      BY <2>5, <2>9, <2>10 DEF SmsRow
  <1>7. ASSUME NEW j \in Requests
        PROVE  SmsRow(j)'
    <2>1. CASE handler'[h].pc = "sms" /\ handler'[h].id = j
      BY <1>3, <1>6, <2>1 DEF BegunAt
    <2>2. QED
      BY <1>5, <2>1
  <1>8. QED
    BY <1>7 DEF SmsInv

LEMMA SmsEnviar ==
  ASSUME Reserved, SmsInv, NEW o \in Orgs, NEW h \in Handlers, NEW n \in Phones, Enviar(o, h, n)
  PROVE  SmsInv'
  <1>0. TypeInv /\ Types /\ slips \in Nat
    BY DEF Reserved, TypeInv, Types
  <1>1. /\ UNCHANGED <<sms, slips>>
        /\ \/ /\ NextId \in Requests /\ req[NextId].status = "none" /\ OtherRowsStay(NextId)
              /\ NewAt(req'[NextId], o, n, "falhou")
              /\ UNCHANGED <<handler, screen>>
           \/ /\ UNCHANGED req /\ Waits(o, h) /\ OthersStay(h)
              /\ BegunAt(handler'[h], "insert", o, n, None)
    BY <1>0, EnviarEffect
  <1>2. CASE /\ NextId \in Requests /\ req[NextId].status = "none" /\ OtherRowsStay(NextId)
             /\ NewAt(req'[NextId], o, n, "falhou")
             /\ UNCHANGED <<handler, screen>>
    <2>1. PICK k \in Requests : /\ req[k].status = "none" /\ OtherRowsStay(k)
                                /\ NewAt(req'[k], o, n, "falhou")
      BY <1>2
    <2>2. SmsRow(k)'
      BY <1>0, <1>1, <1>2, <2>1, SmsNew DEF NewAt
    <2>3. ASSUME NEW j \in Requests, j # k
          PROVE  SmsRow(j)'
      <3>1. req'[j] = req[j] /\ sms'[j] = sms[j] /\ slips' = slips
        BY <1>1, <2>1, <2>3 DEF OtherRowsStay
      <3>2. Waiting(j)' = Waiting(j) /\ (WaitedText(j)' <=> WaitedText(j))
        BY <1>2, <3>1 DEF Waiting, WaitedText
      <3>3. Uncounted(j)' = Uncounted(j)
        BY <3>2 DEF Uncounted
      <3>4. QED
        BY <3>1, <3>2, <3>3 DEF SmsInv, SmsRow
    <2>4. QED
      BY <2>2, <2>3 DEF SmsInv
  <1>3. CASE /\ UNCHANGED req /\ Waits(o, h) /\ OthersStay(h)
             /\ BegunAt(handler'[h], "insert", o, n, None)
    <2>1. /\ Turns(h) /\ handler[h].pc = "idle" /\ handler'[h].pc = "insert"
          /\ slips' \in {slips, slips + 1}
      BY <1>1, <1>3, WaitedTurns DEF Waits, BegunAt
    <2>2. ASSUME NEW j \in Requests
          PROVE  SmsRow(j)'
      <3>1. CASE req[j].status # "none"
        BY <1>0, <1>1, <1>3, <2>1, <3>1, SmsOther DEF SmsInv, Texting
      <3>2. CASE req[j].status = "none"
        BY <1>3, <3>2 DEF SmsRow
      <3>3. QED
        BY <3>1, <3>2
    <2>3. QED
      BY <2>2 DEF SmsInv
  <1>4. QED
    BY <1>1, <1>2, <1>3

\* What happens to the wizards alone.
Quiet ==
  /\ UNCHANGED <<req, handler, sms, number>> /\ slips' \in Nat /\ slips' >= slips
  /\ \A n \in Phones : channel[n].org # Nobody => channel'[n].org = channel[n].org
  /\ \A o \in Orgs : \/ screen'[o].busy = screen[o].busy \/ screen[o].busy = Nobody
                     \/ slips' > slips /\ screen'[o].busy = Nobody
  /\ \A o \in Orgs : screen'[o].busy \in {screen[o].busy, Nobody}

LEMMA WizardIsQuiet ==
  ASSUME TypeInv, \/ \E o \in Orgs : Open(o) \/ Leave(o) \/ (Gone(o) /\ screen[o].busy = Nobody)
                  \/ \E n \in Phones : Rewired(n)
                  \/ UNCHANGED vars
  PROVE  Quiet
  <1>0. Types /\ slips \in Nat
    BY DEF TypeInv, Types
  <1>1. ASSUME NEW o \in Orgs, Open(o) \/ Leave(o)
        PROVE  Quiet
    BY <1>0, <1>1, WizardEffect DEF rows, Quiet
  <1>2. ASSUME NEW o \in Orgs, Gone(o), screen[o].busy = Nobody
        PROVE  Quiet
    BY <1>0, <1>2, GoneEffect DEF rows, Quiet
  <1>3. ASSUME NEW n \in Phones, Rewired(n)
        PROVE  Quiet
    BY <1>0, <1>3, RewiredEffect DEF history, Quiet
  <1>4. CASE UNCHANGED vars
    BY <1>0, <1>4 DEF vars, rows, history, Quiet
  <1>5. QED
    BY <1>1, <1>2, <1>3, <1>4

LEMMA SmsQuiet ==
  ASSUME TypeInv, SmsInv, Quiet
  PROVE  SmsInv'
  <1>1. ASSUME NEW i \in Requests
        PROVE  SmsRow(i)'
    <2>1. CASE req[i].status = "none"
      BY <2>1 DEF SmsRow, Quiet
    <2>2. CASE req[i].status # "none"
      <3>1. req[i].org \in Orgs
        BY <2>2, RowKnows
      <3>2. Waiting(i)' = Waiting(i)
        BY DEF Waiting, Quiet
      <3>3. PICK W : W = Waiting(i)
        OBVIOUS
      <3>4. WaitedText(i) => WaitedText(i)' \/ slips' > slips
        <4>1. SUFFICES ASSUME WaitedText(i) PROVE WaitedText(i)' \/ slips' > slips
          OBVIOUS
        <4>2. PICK g \in Handlers : /\ screen[req[i].org].busy = g
                                    /\ handler[g].pc \in Texting /\ handler[g].id = i
          BY <4>1 DEF WaitedText
        <4>3. screen'[req[i].org].busy = g \/ slips' > slips
          BY <3>1, <4>2 DEF Quiet
        <4>4. QED
          BY <4>2, <4>3 DEF WaitedText, Quiet
      <3>5. QED
        BY <2>2, <3>2, <3>3, <3>4, SmsKept DEF SmsInv, Quiet
    <2>3. QED
      BY <2>1, <2>2
  <1>2. QED
    BY <1>1 DEF SmsInv

LEMMA SmsStep == Reserved /\ SmsInv /\ [Next]_vars => SmsInv'
  <1> SUFFICES ASSUME Reserved, SmsInv, [Next]_vars PROVE SmsInv'
    OBVIOUS
  <1>0. TypeInv
    BY DEF Reserved
  <1>1. CASE \/ \E o \in Orgs : Open(o) \/ Leave(o) \/ (Gone(o) /\ screen[o].busy = Nobody)
             \/ \E n \in Phones : Rewired(n)
             \/ UNCHANGED vars
    BY <1>0, <1>1, WizardIsQuiet, SmsQuiet
  <1>2. ASSUME NEW o \in Orgs, NEW h \in Handlers,
               Confirmar(o, h) \/ Reenviar(o, h) \/ Cancelar(o, h)
        PROVE  SmsInv'
    <2>1. CASE ~Alive(screen[o].id)
      BY <1>1, <1>2, <2>1, DeadCall
    <2>2. QED
      BY <1>2, <2>1, SmsCall
  <1>3. ASSUME NEW h \in Handlers, \/ Insert(h) \/ Add(h) \/ AddFails(h) \/ Update(h)
                                   \/ WorkStep(h) \/ Die(h)
        PROVE  SmsInv'
    BY <1>3, SmsReserve, SmsUpdate, SmsWork, SmsDie
  <1>4. QED
    BY <1>1, <1>2, <1>3, SmsEnviar, Steps

LEMMA SmsAlways == Spec => []SmsInv
  <1>1. Init => SmsInv
    BY DEF Init, SmsInv, SmsRow, NoRow
  <1>2. QED
    BY <1>1, SmsStep, ReservedAlways, PTL DEF Spec

\* A request that has become a channel is that of its organization.
DoneInv == \A i \in Requests :
  req[i].status = "concluida" => channel[req[i].phone].org = req[i].org

LEMMA ChannelsStay ==
  ASSUME TypeInv, [Next]_vars
  PROVE  \A n \in Phones : channel[n].org # Nobody => channel'[n].org = channel[n].org
  <1>0. Types
    BY DEF TypeInv
  <1>1. ASSUME NEW h \in Handlers, CreateChannel(h)
        PROVE  \A n \in Phones : channel[n].org # Nobody => channel'[n].org = channel[n].org
    <2>1. Phone(h) \in Phones /\ Owner(h) \in Orgs
      BY <1>1, HandlerKnows DEF CreateChannel
    <2>2. QED
      BY <1>0, <1>1, <2>1, CreateEffect
  <1>2. ASSUME NEW h \in Handlers, ~CreateChannel(h),
               Insert(h) \/ Add(h) \/ AddFails(h) \/ Update(h) \/ WorkStep(h) \/ Die(h)
        PROVE  channel' = channel
    BY <1>2 DEF Insert, Add, AddFails, Update, WorkStep, Sms, SmsFails, Count, Check, Verify,
       VerifyFails, Mark, Register, RegisterFails, CreateRefused, Close, Cancel, Die, rows
  <1>3. ASSUME NEW o \in Orgs, NEW h \in Handlers,
               \/ Confirmar(o, h) \/ Reenviar(o, h) \/ Cancelar(o, h)
               \/ \E n \in Phones : Enviar(o, h, n)
        PROVE  channel' = channel
    BY <1>3 DEF Confirmar, Reenviar, Cancelar, Enviar, Iniciar, Gone, rows
  <1>4. ASSUME NEW n \in Phones, Rewired(n)
        PROVE  \A p \in Phones : channel[p].org # Nobody => channel'[p].org = channel[p].org
    BY <1>0, <1>4, RewiredEffect
  <1>5. ASSUME (\E o \in Orgs : Open(o) \/ Leave(o)) \/ UNCHANGED vars
        PROVE  channel' = channel
    BY <1>5 DEF Open, Leave, vars, rows
  <1>6. QED
    BY <1>1, <1>2, <1>3, <1>4, <1>5, Steps

\* Only Close says of a request that it has become a channel.
LEMMA DoneOnlyClosed ==
  ASSUME TypeInv, [Next]_vars, NEW i \in Requests, req'[i].status = "concluida",
         \A h \in Handlers : ~(Close(h) /\ handler[h].id = i)
  PROVE  req[i].status = "concluida" /\ req'[i].phone = req[i].phone /\ req'[i].org = req[i].org
  <1>0. Types /\ \A j \in Requests : req[j] \in Row
    BY DEF TypeInv, Types
  <1>1. ASSUME NEW h \in Handlers, WorkStep(h), ~Close(h)
        PROVE  req[i].status = "concluida" /\ req'[i].phone = req[i].phone /\ req'[i].org = req[i].org
    <2>1. PICK k \in Requests : k = handler[h].id /\ Works(h, k)
      BY <1>1, WorkEffect
    <2>2. req'[i].phone = req[i].phone /\ req'[i].org = req[i].org
      BY <2>1 DEF Works, OtherRowsStay
    <2>3. CASE i # k
      BY <2>1, <2>2, <2>3 DEF Works, OtherRowsStay
    <2>4. CASE i = k
      <3>1. CASE Count(h)
        <4>1. req' = req \/ req'[k] = [req[k] EXCEPT !.codes = req[k].codes + 1]
          BY <1>0, <2>1, <3>1, TextEffect
        <4>2. QED
          BY <1>0, <2>2, <2>4, <4>1 DEF Row
      <3>2. CASE VerifyFails(h)
        <4>1. Phone(h) \in Phones
          BY <3>2, HandlerKnows DEF VerifyFails
        <4>2. PICK st \in {req[k].status, "falhou"} :
                /\ req'[k] = [req[k] EXCEPT !.attempts = handler[h].attempts + 1, !.status = st]
                /\ handler[h].attempts + 1 >= MaxCodes => st = "falhou"
          BY <1>0, <2>1, <3>2, <4>1, VerifyFailsEffect
        <4>3. req'[k].status \in {req[k].status, "falhou"}
          BY <1>0, <4>2 DEF Row
        <4>4. QED
          BY <2>2, <2>4, <4>3
      <3>3. CASE Mark(h)
        <4>1. req'[k] = [req[k] EXCEPT !.verified = TRUE, !.pin = handler[h].pin]
          BY <1>0, <2>1, <3>3, MarkEffect
        <4>2. QED
          BY <1>0, <2>2, <2>4, <4>1 DEF Row
      <3>4. CASE Cancel(h)
        <4>1. handler[h].pc = "cancel"
          BY <3>4 DEF Cancel
        <4>2. req'[k] = [req[k] EXCEPT !.status = "cancelada"]
          BY <1>0, <2>1, <3>4, <4>1, EndEffect
        <4>3. QED
          BY <1>0, <2>4, <4>2 DEF Row
      <3>5. CASE CreateRefused(h)
        <4>1. handler[h].pc = "create"
          BY <3>5 DEF CreateRefused
        <4>2. req'[k] = [req[k] EXCEPT !.status = "falhou"]
          BY <1>0, <2>1, <3>5, <4>1, EndEffect
        <4>3. QED
          BY <1>0, <2>4, <4>2 DEF Row
      <3>6. CASE ~(Count(h) \/ VerifyFails(h) \/ Mark(h) \/ CreateRefused(h) \/ Cancel(h))
        <4>1. req' = req
          BY <1>1, <3>6 DEF WorkStep, Sms, SmsFails, Check, Verify, Register, RegisterFails,
             CreateChannel, rows
        <4>2. QED
          BY <4>1
      <3>7. QED
        BY <3>1, <3>2, <3>3, <3>4, <3>5, <3>6
    <2>5. QED
      BY <2>3, <2>4
  <1>2. ASSUME NEW h \in Handlers, Close(h)
        PROVE  req'[i] = req[i]
    <2>1. PICK k \in Requests : k = handler[h].id /\ Works(h, k)
      BY <1>2, WorkEffect DEF WorkStep
    <2>2. QED
      BY <1>2, <2>1 DEF Works, OtherRowsStay
  <1>3. ASSUME NEW h \in Handlers, Insert(h)
        PROVE  req'[i] = req[i]
    <2>1. Owner(h) \in Orgs /\ Phone(h) \in Phones
      BY <1>3, HandlerKnows DEF Insert
    <2>2. \/ NextId \in Requests /\ OtherRowsStay(NextId) /\ req'[NextId].status = "criando"
          \/ UNCHANGED req
      BY <1>0, <1>3, <2>1, InsertEffect DEF NewAt
    <2>3. QED
      BY <2>2 DEF OtherRowsStay
  <1>4. ASSUME NEW h \in Handlers, Add(h) \/ AddFails(h) \/ Update(h)
        PROVE  req'[i] = req[i]
    <2>1. PICK k \in Requests : k = handler[h].id /\ Phone(h) \in Phones /\ Owner(h) \in Orgs
      BY <1>4, HandlerKnows DEF Add, AddFails, Update, HasId
    <2>2. CASE Add(h) \/ AddFails(h)
      <3>1. \/ UNCHANGED req
            \/ OtherRowsStay(k) /\ req'[k] = [req[k] EXCEPT !.status = "falhou"]
        BY <1>0, <2>1, <2>2, AddEffect
      <3>2. UNCHANGED req \/ (OtherRowsStay(k) /\ req'[k].status = "falhou")
        BY <1>0, <3>1 DEF Row
      <3>3. QED
        BY <3>2 DEF OtherRowsStay
    <2>3. CASE Update(h)
      <3>1. /\ OtherRowsStay(k)
            /\ \/ req'[k] = [req[k] EXCEPT !.pnid = TRUE, !.codes = 1, !.status = "aguardando_codigo"]
               \/ UNCHANGED req
               \/ req'[k] = [req[k] EXCEPT !.pnid = TRUE, !.status = "falhou"]
        BY <1>0, <2>1, <2>3, UpdateEffect
      <3>2. OtherRowsStay(k) /\ (UNCHANGED req \/ req'[k].status # "concluida")
        BY <1>0, <3>1 DEF Row
      <3>3. QED
        BY <3>2 DEF OtherRowsStay
    <2>4. QED
      BY <1>4, <2>2, <2>3
  <1>5. ASSUME NEW o \in Orgs, NEW h \in Handlers, NEW n \in Phones, Enviar(o, h, n)
        PROVE  req'[i] = req[i]
    <2>1. \/ NextId \in Requests /\ OtherRowsStay(NextId) /\ req'[NextId].status = "falhou"
          \/ UNCHANGED req
      BY <1>0, <1>5, EnviarEffect DEF NewAt
    <2>2. QED
      BY <2>1 DEF OtherRowsStay
  <1>6. ASSUME NEW o \in Orgs, NEW h \in Handlers,
               Confirmar(o, h) \/ Reenviar(o, h) \/ Cancelar(o, h)
        PROVE  req' = req
    BY <1>6 DEF Confirmar, Reenviar, Cancelar, Gone, rows
  <1>7. ASSUME \/ \E o \in Orgs : Open(o) \/ Leave(o)
               \/ \E h \in Handlers : Die(h)
               \/ \E n \in Phones : Rewired(n)
               \/ UNCHANGED vars
        PROVE  req' = req
    BY <1>7 DEF Open, Leave, Die, Rewired, Disconnect, Manual, vars, rows
  <1>8. QED
    BY <1>1, <1>2, <1>3, <1>4, <1>5, <1>6, <1>7, Steps

LEMMA DoneStep == Reserved /\ DoneInv /\ [Next]_vars => DoneInv'
  <1> SUFFICES ASSUME Reserved, DoneInv, [Next]_vars, NEW i \in Requests, req'[i].status = "concluida"
               PROVE  channel'[req'[i].phone].org = req'[i].org
    BY DEF DoneInv
  <1>0. TypeInv /\ Types /\ ReadyInv
    BY DEF Reserved, TypeInv
  <1>1. CASE \E h \in Handlers : Close(h) /\ handler[h].id = i
    <2>1. PICK h \in Handlers : Close(h) /\ handler[h].id = i
      BY <1>1
    <2>2. /\ handler[h].pc = "close" /\ req[i] \in Row
          /\ req[i].org = Owner(h) /\ req[i].phone = Phone(h) /\ Works(h, i)
      BY <1>0, <2>1, HandlerKnows, WorkEffect DEF Close, WorkStep, HasId, Closing
    <2>3. channel' = channel /\ req'[i].org = req[i].org /\ req'[i].phone = req[i].phone
      BY <1>0, <2>1, <2>2, EndEffect DEF Works
    <2>4. QED
      BY <1>0, <2>2, <2>3 DEF ReadyInv, ReadyHandler
  <1>2. CASE \A h \in Handlers : ~(Close(h) /\ handler[h].id = i)
    <2>1. req[i].status = "concluida" /\ req'[i].phone = req[i].phone /\ req'[i].org = req[i].org
      BY <1>0, <1>2, DoneOnlyClosed
    <2>2. req[i].phone \in Phones /\ req[i].org \in Orgs
      BY <1>0, <2>1, RowKnows
    <2>3. QED
      BY <1>0, <2>1, <2>2, ChannelsStay DEF DoneInv
  <1>3. QED
    BY <1>1, <1>2

\* While the wizard waits for the call that adds its number, the request of
\* that call is alive, and no other call works on it.
WaitedAlone(h) ==
  handler[h].pc \in {"add", "update"} /\ screen[Owner(h)].busy = h =>
    /\ Alive(handler[h].id)
    /\ \A g \in Handlers : handler[g].id = handler[h].id => g = h

WaitedInv == \A h \in Handlers : WaitedAlone(h)

\* A step of another handler, on a request of its own.
LEMMA WaitedKept ==
  ASSUME TypeInv, NEW h \in Handlers, WaitedAlone(h), NEW g \in Handlers, g # h, OthersStay(g),
         \A o \in Orgs : screen'[o].busy = h => screen[o].busy = h,
         \A j \in Requests : j # handler[g].id /\ req[j].status # "none" => req'[j] = req[j],
         \/ handler'[g].id \in {None, handler[g].id}
         \/ req[handler'[g].id].status = "none" \/ req[handler'[g].id].org # Owner(h)
  PROVE  WaitedAlone(h)'
  <1> SUFFICES ASSUME handler'[h].pc \in {"add", "update"}, screen'[handler'[h].org].busy = h
               PROVE  /\ req'[handler'[h].id].status \in {"criando", "aguardando_codigo"}
                      /\ \A f \in Handlers : handler'[f].id = handler'[h].id => f = h
    BY DEF WaitedAlone, Owner, Alive
  <1>1. handler'[h] = handler[h]
    BY DEF OthersStay
  <1>2. PICK i \in Requests : /\ i = handler[h].id /\ req[i].status # "none"
                              /\ req[i].org = Owner(h) /\ Owner(h) \in Orgs
    BY <1>1, HandlerKnows DEF HasId
  <1>3. screen[Owner(h)].busy = h
    BY <1>1, <1>2 DEF Owner
  <1>4. Alive(i) /\ \A f \in Handlers : handler[f].id = i => f = h
    BY <1>1, <1>2, <1>3 DEF WaitedAlone
  <1>5. req'[i] = req[i]
    BY <1>2, <1>4
  <1>6. ASSUME NEW f \in Handlers, handler'[f].id = i, f # h
        PROVE  FALSE
    BY <1>2, <1>4, <1>6 DEF OthersStay
  <1>7. QED
    BY <1>1, <1>2, <1>4, <1>5, <1>6 DEF Alive

LEMMA WaitedQuiet ==
  ASSUME TypeInv, WaitedInv, Quiet
  PROVE  WaitedInv'
  <1> SUFFICES ASSUME NEW h \in Handlers, handler'[h].pc \in {"add", "update"},
                      screen'[handler'[h].org].busy = h
               PROVE  /\ req'[handler'[h].id].status \in {"criando", "aguardando_codigo"}
                      /\ \A f \in Handlers : handler'[f].id = handler'[h].id => f = h
    BY DEF WaitedInv, WaitedAlone, Owner, Alive
  <1>1. handler' = handler /\ req' = req
    BY DEF Quiet
  <1>2. Owner(h) \in Orgs
    BY <1>1, HandlerKnows
  <1>3. screen[Owner(h)].busy = h
    BY <1>1, <1>2 DEF Quiet, Owner
  <1>4. QED
    BY <1>1, <1>3 DEF WaitedInv, WaitedAlone, Alive

LEMMA WaitedWork ==
  ASSUME TypeInv, WaitedInv, NEW g \in Handlers, WorkStep(g) \/ Die(g)
  PROVE  WaitedInv'
  <1>0. Types
    BY DEF TypeInv
  <1>1. /\ OthersStay(g) /\ handler'[g].pc \notin {"add", "update"}
        /\ handler'[g].id \in {None, handler[g].id}
        /\ \A j \in Requests : j # handler[g].id => req'[j] = req[j]
        /\ screen' = screen \/ Served(g)
    <2>1. CASE WorkStep(g)
      <3>1. PICK i \in Requests : i = handler[g].id /\ Works(g, i)
        BY <2>1, WorkEffect
      <3>2. handler'[g].pc \notin {"add", "update"}
        BY <2>1, <3>1, WorkFacts DEF Adding
      <3>3. QED
        BY <3>1, <3>2 DEF Works, OtherRowsStay, NoHandler
    <2>2. CASE Die(g)
      BY <1>0, <2>2, DieEffect DEF rows, NoHandler
    <2>3. QED
      BY <2>1, <2>2
  <1>2. \A o \in Orgs, h \in Handlers : screen'[o].busy = h => screen[o].busy = h
    BY <1>1 DEF Served
  <1>3. ASSUME NEW h \in Handlers
        PROVE  WaitedAlone(h)'
    <2>1. CASE h = g
      BY <1>1, <2>1 DEF WaitedAlone
    <2>2. CASE h # g
      BY <1>1, <1>2, <2>2, WaitedKept DEF WaitedInv
    <2>3. QED
      BY <2>1, <2>2
  <1>4. QED
    BY <1>3 DEF WaitedInv

LEMMA WaitedCall ==
  ASSUME TypeInv, WaitedInv, NEW o \in Orgs, NEW g \in Handlers,
         \/ (Reenviar(o, g) \/ Confirmar(o, g) \/ Cancelar(o, g)) /\ Alive(screen[o].id)
         \/ \E n \in Phones : Enviar(o, g, n)
  PROVE  WaitedInv'
  <1>0. Types
    BY DEF TypeInv
  <1>1. ASSUME Waits(o, g), OthersStay(g), handler'[g].pc \notin {"add", "update"}, req' = req,
               handler'[g].id = None \/ req[handler'[g].id].org = o
        PROVE  WaitedInv'
    <2>1. ASSUME NEW h \in Handlers, h # g, screen[Owner(h)].busy = h
          PROVE  Owner(h) # o
      BY <1>1, <2>1 DEF Waits
    <2>2. ASSUME NEW h \in Handlers, h # g
          PROVE  WaitedAlone(h)'
      <3>1. CASE screen[Owner(h)].busy = h
        <4>1. \A p \in Orgs : screen'[p].busy = h => screen[p].busy = h
          BY <1>0, <1>1, <2>2 DEF Waits, Types, Screen
        <4>2. QED
          BY <1>1, <2>1, <2>2, <3>1, <4>1, WaitedKept DEF WaitedInv
      <3>2. CASE screen[Owner(h)].busy # h
        <4>1. handler'[h] = handler[h]
          BY <1>1, <2>2 DEF OthersStay
        <4>2. handler[h].pc # "idle" => screen'[Owner(h)].busy # h
          BY <1>0, <1>1, <2>2, <3>2, HandlerKnows DEF Waits, Types, Screen
        <4>3. QED
          BY <4>1, <4>2 DEF WaitedAlone, Owner
      <3>3. QED
        BY <3>1, <3>2
    <2>3. WaitedAlone(g)'
      BY <1>1 DEF WaitedAlone
    <2>4. QED
      BY <2>2, <2>3 DEF WaitedInv
  <1>2. CASE (Reenviar(o, g) \/ Confirmar(o, g) \/ Cancelar(o, g)) /\ Alive(screen[o].id)
    <2>1. screen[o].step \in {"preparando", "codigo"}
      BY <1>2 DEF Confirmar, Reenviar, Cancelar, Free
    <2>2. PICK i \in Requests : i = screen[o].id /\ req[i].org = o /\ req[i].phone \in Phones
      BY <2>1, ScreenKnows
    <2>3. /\ UNCHANGED rows /\ Waits(o, g) /\ OthersStay(g)
          /\ \E l \in {"sms", "check", "cancel"} : BegunAt(handler'[g], l, o, req[i].phone, i)
      BY <1>0, <1>2, <2>2, CallEffect
    <2>4. req' = req /\ handler'[g].pc \notin {"add", "update"} /\ handler'[g].id = i
      BY <2>3 DEF rows, BegunAt
    <2>5. QED
      BY <1>1, <2>2, <2>3, <2>4
  <1>3. ASSUME NEW n \in Phones, Enviar(o, g, n)
        PROVE  WaitedInv'
    <2>1. \/ /\ NextId \in Requests /\ req[NextId].status = "none" /\ OtherRowsStay(NextId)
             /\ UNCHANGED <<handler, screen>>
          \/ /\ UNCHANGED req /\ Waits(o, g) /\ OthersStay(g)
             /\ BegunAt(handler'[g], "insert", o, n, None)
      BY <1>0, <1>3, EnviarEffect
    <2>2. CASE /\ NextId \in Requests /\ req[NextId].status = "none" /\ OtherRowsStay(NextId)
               /\ UNCHANGED <<handler, screen>>
      <3>1. \A j \in Requests : req[j].status # "none" => req'[j] = req[j]
        BY <2>2 DEF OtherRowsStay
      <3>2. ASSUME NEW h \in Handlers
            PROVE  WaitedAlone(h)'
        <4>1. handler[h].pc \in {"add", "update"} => req'[handler[h].id] = req[handler[h].id]
          BY <3>1, HandlerKnows DEF HasId
        <4>2. QED
          BY <2>2, <4>1 DEF WaitedInv, WaitedAlone, Owner, Alive
      <3>3. QED
        BY <3>2 DEF WaitedInv
    <2>3. CASE /\ UNCHANGED req /\ Waits(o, g) /\ OthersStay(g)
               /\ BegunAt(handler'[g], "insert", o, n, None)
      BY <1>1, <2>3 DEF BegunAt
    <2>4. QED
      BY <2>1, <2>2, <2>3
  <1>4. QED
    BY <1>2, <1>3

LEMMA WaitedReserve ==
  ASSUME TypeInv, WaitedInv, NEW g \in Handlers, Insert(g) \/ Add(g) \/ AddFails(g) \/ Update(g)
  PROVE  WaitedInv'
  <1>0. Types /\ handler[g] \in Handler /\ Owner(g) \in Orgs /\ Phone(g) \in Phones
    BY HandlerKnows DEF TypeInv, Insert, Add, AddFails, Update
  <1>1. CASE Insert(g)
    <2>1. /\ OthersStay(g) /\ handler[g].pc = "insert"
          /\ \/ /\ NextId \in Requests /\ req[NextId].status = "none" /\ OtherRowsStay(NextId)
                /\ NewAt(req'[NextId], Owner(g), Phone(g), "criando")
                /\ handler'[g] = [handler[g] EXCEPT !.pc = "add", !.id = NextId]
                /\ UNCHANGED screen
             \/ handler'[g] = NoHandler /\ Served(g) /\ UNCHANGED req
      BY <1>0, <1>1, InsertEffect
    <2>2. CASE /\ NextId \in Requests /\ req[NextId].status = "none" /\ OtherRowsStay(NextId)
               /\ NewAt(req'[NextId], Owner(g), Phone(g), "criando")
               /\ handler'[g] = [handler[g] EXCEPT !.pc = "add", !.id = NextId]
               /\ UNCHANGED screen
      <3>1. PICK k \in Requests : /\ req[k].status = "none" /\ OtherRowsStay(k)
                                  /\ NewAt(req'[k], Owner(g), Phone(g), "criando")
                                  /\ handler'[g] = [handler[g] EXCEPT !.pc = "add", !.id = k]
        BY <2>2
      <3>2. handler'[g].id = k
        BY <1>0, <3>1 DEF Handler
      <3>3. ASSUME NEW h \in Handlers, h # g
            PROVE  WaitedAlone(h)'
        <4>1. \A o \in Orgs : screen'[o].busy = h => screen[o].busy = h
          BY <2>2
        <4>2. \A j \in Requests : j # handler[g].id /\ req[j].status # "none" => req'[j] = req[j]
          BY <3>1 DEF OtherRowsStay
        <4>3. QED
          BY <2>1, <3>1, <3>2, <3>3, <4>1, <4>2, WaitedKept DEF WaitedInv
      <3>4. WaitedAlone(g)'
        <4>1. req'[k].status = "criando"
          BY <3>1 DEF NewAt
        <4>2. ASSUME NEW f \in Handlers, f # g, handler'[f].id = k
              PROVE  FALSE
          <5>1. handler[f].id = k /\ None # k
            BY <2>1, <4>2 DEF OthersStay
          <5>2. handler[f].pc \in HasId
            <6>1. handler[f] \in Handler /\ HandlerFits(f)
              BY HandlerKnows DEF TypeInv, Fits
            <6>2. handler[f].pc \in {"idle", "insert"} \cup HasId
              BY <6>1 DEF Handler
            <6>3. QED
              BY <5>1, <6>1, <6>2 DEF HandlerFits, NoHandler
          <5>3. QED
            BY <3>1, <5>1, <5>2, HandlerKnows
        <4>3. QED
          BY <3>2, <4>1, <4>2 DEF WaitedAlone, Alive
      <3>5. QED
        BY <3>3, <3>4 DEF WaitedInv
    <2>3. CASE handler'[g] = NoHandler /\ Served(g) /\ UNCHANGED req
      <3>1. handler'[g].pc = "idle" /\ handler'[g].id = None
        BY <2>3 DEF NoHandler
      <3>2. ASSUME NEW h \in Handlers, h # g
            PROVE  WaitedAlone(h)'
        <4>1. \A o \in Orgs : screen'[o].busy = h => screen[o].busy = h
          BY <2>3 DEF Served
        <4>2. QED
          BY <2>1, <2>3, <3>1, <3>2, <4>1, WaitedKept DEF WaitedInv
      <3>3. WaitedAlone(g)'
        BY <3>1 DEF WaitedAlone
      <3>4. QED
        BY <3>2, <3>3 DEF WaitedInv
    <2>4. QED
      BY <2>1, <2>2, <2>3
  <1>2. CASE Add(g) \/ AddFails(g) \/ Update(g)
    <2>1. PICK i \in Requests : i = handler[g].id
      BY <1>2, HandlerKnows DEF Add, AddFails, Update, HasId
    <2>2. /\ OthersStay(g) /\ OtherRowsStay(i)
          /\ \/ /\ handler[g].pc = "add" /\ handler'[g] = [handler[g] EXCEPT !.pc = "update"]
                /\ UNCHANGED <<req, screen>>
             \/ handler'[g] = NoHandler
          /\ \A o \in Orgs, h \in Handlers : screen'[o].busy = h => screen[o].busy = h
      <3>1. CASE Add(g) \/ AddFails(g)
        <4>1. /\ OthersStay(g) /\ handler[g].pc = "add"
              /\ \/ /\ UNCHANGED <<req, screen>>
                    /\ handler'[g] = [handler[g] EXCEPT !.pc = "update"]
                 \/ handler'[g] = NoHandler /\ Served(g) /\ OtherRowsStay(i)
          BY <1>0, <2>1, <3>1, AddEffect
        <4>2. QED
          BY <4>1 DEF Served, OtherRowsStay
      <3>2. CASE Update(g)
        <4>1. OthersStay(g) /\ OtherRowsStay(i) /\ handler'[g] = NoHandler
          BY <1>0, <2>1, <3>2, UpdateEffect
        <4>2. \A o \in Orgs : /\ screen[o].busy # g => screen'[o] = screen[o]
                              /\ screen[o].busy = g => screen'[o].busy = Nobody
          BY <1>0, <3>2, UpdateFrees
        <4>3. QED
          BY <4>1, <4>2
      <3>3. QED
        BY <1>2, <3>1, <3>2
    <2>3. ASSUME NEW h \in Handlers, h # g
          PROVE  WaitedAlone(h)'
      <3>1. handler'[g].id \in {None, handler[g].id}
        BY <1>0, <2>2 DEF Handler, NoHandler
      <3>2. \A j \in Requests : j # handler[g].id => req'[j] = req[j]
        BY <2>1, <2>2 DEF OtherRowsStay
      <3>3. \A o \in Orgs : screen'[o].busy = h => screen[o].busy = h
        BY <2>2
      <3>4. QED
        BY <2>2, <2>3, <3>1, <3>2, <3>3, WaitedKept DEF WaitedInv
    <2>4. WaitedAlone(g)'
      <3>1. CASE handler'[g] = NoHandler
        BY <3>1 DEF WaitedAlone, NoHandler
      <3>2. CASE /\ handler[g].pc = "add" /\ handler'[g] = [handler[g] EXCEPT !.pc = "update"]
                 /\ UNCHANGED <<req, screen>>
        <4>1. handler'[g].id = handler[g].id /\ handler'[g].org = Owner(g)
          BY <1>0, <3>2 DEF Handler, Owner
        <4>2. \A f \in Handlers : handler'[f].id = handler[f].id
          BY <2>2, <4>1 DEF OthersStay
        <4>3. WaitedAlone(g)
          BY DEF WaitedInv
        <4>4. QED
          BY <3>2, <4>1, <4>2, <4>3 DEF WaitedAlone, Alive, Owner
      <3>3. QED
        BY <2>2, <3>1, <3>2
    <2>5. QED
      BY <2>3, <2>4 DEF WaitedInv
  <1>3. QED
    BY <1>1, <1>2

LEMMA WaitedStep == TypeInv /\ WaitedInv /\ [Next]_vars => WaitedInv'
  <1> SUFFICES ASSUME TypeInv, WaitedInv, [Next]_vars PROVE WaitedInv'
    OBVIOUS
  <1>1. CASE \/ \E o \in Orgs : Open(o) \/ Leave(o) \/ (Gone(o) /\ screen[o].busy = Nobody)
             \/ \E n \in Phones : Rewired(n)
             \/ UNCHANGED vars
    BY <1>1, WizardIsQuiet, WaitedQuiet
  <1>2. ASSUME NEW o \in Orgs, NEW h \in Handlers,
               Confirmar(o, h) \/ Reenviar(o, h) \/ Cancelar(o, h)
        PROVE  WaitedInv'
    <2>1. CASE ~Alive(screen[o].id)
      BY <1>1, <1>2, <2>1, DeadCall
    <2>2. QED
      BY <1>2, <2>1, WaitedCall
  <1>3. ASSUME NEW h \in Handlers, \/ Insert(h) \/ Add(h) \/ AddFails(h) \/ Update(h)
                                   \/ WorkStep(h) \/ Die(h)
        PROVE  WaitedInv'
    BY <1>3, WaitedReserve, WaitedWork
  <1>4. QED
    BY <1>1, <1>2, <1>3, WaitedCall, Steps

\* The slots that an organization has taken and that are no channel, those of
\* them that no request records, and the calls that may yet take one.
Slots(o)      == {n \in Phones : number[n].org = o /\ channel[n].org = Nobody}
Unrecorded(o) == {n \in Phones : /\ number[n].org = o
                                 /\ \A i \in Requests : req[i].pnid => req[i].phone # n}
Claiming(o)   == {h \in Handlers : handler[h].org = o /\ handler[h].pc \in {"insert", "add"}}

\* The wizard waits for a call that adds its number.
WaitedAdd(o)  == \E h \in Handlers : screen[o].busy = h /\ handler[h].pc \in Adding
Awaited(o)    == IF WaitedAdd(o) THEN 1 ELSE 0

SlotRow(o) ==
  /\ Cardinality(Slots(o)) + Cardinality(Claiming(o)) <= MaxBurned + slips
  /\ Cardinality(Unrecorded(o)) + Cardinality(Claiming(o)) <= slips + Awaited(o)

SlotInv == \A o \in Orgs : SlotRow(o)

LEMMA SlotCounts ==
  ASSUME NEW o
  PROVE  /\ IsFiniteSet(Slots(o)) /\ Cardinality(Slots(o)) \in Nat
         /\ IsFiniteSet(Unrecorded(o)) /\ Cardinality(Unrecorded(o)) \in Nat
         /\ IsFiniteSet(Claiming(o)) /\ Cardinality(Claiming(o)) \in Nat
  <1>1. Slots(o) \subseteq Phones /\ Unrecorded(o) \subseteq Phones /\ Claiming(o) \subseteq Handlers
    BY DEF Slots, Unrecorded, Claiming
  <1>2. IsFiniteSet(Slots(o)) /\ Cardinality(Slots(o)) \in Nat
    BY <1>1, SubsetCount
  <1>3. IsFiniteSet(Unrecorded(o)) /\ Cardinality(Unrecorded(o)) \in Nat
    BY <1>1, SubsetCount
  <1>4. IsFiniteSet(Claiming(o)) /\ Cardinality(Claiming(o)) \in Nat
    BY <1>1, SubsetCount
  <1>5. QED
    BY <1>2, <1>3, <1>4

\* The wizard waits as it did, or something was lost.
AwaitedStays(o) == WaitedAdd(o) => WaitedAdd(o)' \/ slips' > slips

LEMMA AwaitedCount ==
  ASSUME TypeInv, NEW o, AwaitedStays(o), slips' \in Nat, slips' >= slips
  PROVE  slips + Awaited(o) <= slips' + Awaited(o)' /\ Awaited(o) \in 0..1 /\ Awaited(o)' \in 0..1
  <1>1. slips \in Nat
    BY DEF TypeInv, Types
  <1>2. PICK u \in 0..1, v \in 0..1 : u = Awaited(o) /\ v = Awaited(o)' /\ (u = 1 => v = 1 \/ slips' > slips)
    <2>1. CASE WaitedAdd(o)
      <3>1. Awaited(o) = 1 /\ Awaited(o)' = (IF WaitedAdd(o)' THEN 1 ELSE 0)
        BY <2>1 DEF Awaited
      <3>2. Awaited(o)' = 1 \/ (Awaited(o)' = 0 /\ slips' > slips)
        BY <2>1, <3>1 DEF AwaitedStays
      <3>3. QED
        BY <3>1, <3>2
    <2>2. CASE ~WaitedAdd(o)
      <3>1. Awaited(o) = 0 /\ Awaited(o)' \in 0..1
        BY <2>2 DEF Awaited
      <3>2. QED
        BY <3>1
    <2>3. QED
      BY <2>1, <2>2
  <1>3. QED
    BY <1>1, <1>2

\* A step that takes no slot, for an organization that starts no call.
LEMMA SlotKept ==
  ASSUME TypeInv, NEW o \in Orgs, SlotRow(o), NEW S, NEW U, NEW C,
         S \subseteq Slots(o), U \subseteq Unrecorded(o), C \subseteq Claiming(o),
         Slots(o)' = S, Unrecorded(o)' = U, Claiming(o)' = C,
         slips' \in Nat, slips' >= slips, AwaitedStays(o)
  PROVE  SlotRow(o)'
  <1>1. /\ slips \in Nat /\ MaxBurned \in Nat
        /\ IsFiniteSet(Slots(o)) /\ IsFiniteSet(Unrecorded(o)) /\ IsFiniteSet(Claiming(o))
    BY SlotCounts DEF TypeInv, Types
  <1>2. /\ Cardinality(S) \in Nat /\ Cardinality(Slots(o)) \in Nat
        /\ Cardinality(S) <= Cardinality(Slots(o))
    BY <1>1, SubsetCount
  <1>3. /\ Cardinality(U) \in Nat /\ Cardinality(Unrecorded(o)) \in Nat
        /\ Cardinality(U) <= Cardinality(Unrecorded(o))
    BY <1>1, SubsetCount
  <1>4. /\ Cardinality(C) \in Nat /\ Cardinality(Claiming(o)) \in Nat
        /\ Cardinality(C) <= Cardinality(Claiming(o))
    BY <1>1, SubsetCount
  <1>5. PICK u \in 0..1, v \in 0..1 : u = Awaited(o) /\ v = Awaited(o)' /\ slips + u <= slips' + v
    BY AwaitedCount
  <1>6. Cardinality(S) + Cardinality(C) <= MaxBurned + slips'
    BY <1>1, <1>2, <1>4 DEF SlotRow
  <1>7. Cardinality(U) + Cardinality(C) <= slips' + v
    BY <1>1, <1>3, <1>4, <1>5 DEF SlotRow
  <1>8. QED
    BY <1>5, <1>6, <1>7 DEF SlotRow

\* A call that was to take a slot ends, or takes that of the phone.
LEMMA SlotClaimed ==
  ASSUME TypeInv, NEW o \in Orgs, SlotRow(o), NEW n, NEW h \in Claiming(o), NEW S, NEW U, NEW C,
         C \subseteq Claiming(o) \ {h},
         Slots(o)' = S, Unrecorded(o)' = U, Claiming(o)' = C,
         slips' \in Nat, slips' >= slips,
         \/ S \subseteq Slots(o) /\ U \subseteq Unrecorded(o)
         \/ S \subseteq Slots(o) \cup {n} /\ U \subseteq Unrecorded(o) \cup {n} /\ AwaitedStays(o)
  PROVE  SlotRow(o)'
  <1>1. /\ slips \in Nat /\ MaxBurned \in Nat
        /\ IsFiniteSet(Slots(o)) /\ IsFiniteSet(Unrecorded(o)) /\ IsFiniteSet(Claiming(o))
    BY SlotCounts DEF TypeInv, Types
  <1>2. /\ Cardinality(C) \in Nat /\ Cardinality(Claiming(o)) \in Nat
        /\ Cardinality(C) + 1 <= Cardinality(Claiming(o))
    BY <1>1, OneLess
  <1>3. PICK u \in 0..1, v \in 0..1 : u = Awaited(o) /\ v = Awaited(o)'
    BY DEF Awaited
  <1>4. CASE S \subseteq Slots(o) /\ U \subseteq Unrecorded(o)
    <2>1. /\ Cardinality(S) \in Nat /\ Cardinality(Slots(o)) \in Nat
          /\ Cardinality(S) <= Cardinality(Slots(o))
      BY <1>1, <1>4, SubsetCount
    <2>2. /\ Cardinality(U) \in Nat /\ Cardinality(Unrecorded(o)) \in Nat
          /\ Cardinality(U) <= Cardinality(Unrecorded(o))
      BY <1>1, <1>4, SubsetCount
    <2>3. Cardinality(S) + Cardinality(C) <= MaxBurned + slips'
      BY <1>1, <1>2, <2>1 DEF SlotRow
    <2>4. Cardinality(U) + Cardinality(C) <= slips' + v
      BY <1>1, <1>2, <1>3, <2>2 DEF SlotRow
    <2>5. QED
      BY <1>3, <2>3, <2>4 DEF SlotRow
  <1>5. CASE S \subseteq Slots(o) \cup {n} /\ U \subseteq Unrecorded(o) \cup {n} /\ AwaitedStays(o)
    <2>1. /\ Cardinality(S) \in Nat /\ Cardinality(Slots(o)) \in Nat
          /\ Cardinality(S) <= Cardinality(Slots(o)) + 1
      BY <1>1, <1>5, OneMore
    <2>2. /\ Cardinality(U) \in Nat /\ Cardinality(Unrecorded(o)) \in Nat
          /\ Cardinality(U) <= Cardinality(Unrecorded(o)) + 1
      BY <1>1, <1>5, OneMore
    <2>3. slips + u <= slips' + v
      BY <1>3, <1>5, AwaitedCount
    <2>4. Cardinality(S) + Cardinality(C) <= MaxBurned + slips'
      BY <1>1, <1>2, <2>1 DEF SlotRow
    <2>5. Cardinality(U) + Cardinality(C) <= slips' + v
      BY <1>1, <1>2, <1>3, <2>2, <2>3 DEF SlotRow
    <2>6. QED
      BY <1>3, <2>4, <2>5 DEF SlotRow
  <1>6. QED
    BY <1>4, <1>5

LEMMA AwaitedTurns ==
  ASSUME NEW h \in Handlers, OthersStay(h), Turns(h), NEW o \in Orgs,
         handler[h].pc \notin Adding \/ screen[o].busy # h
  PROVE  AwaitedStays(o)
  <1> SUFFICES ASSUME WaitedAdd(o) PROVE WaitedAdd(o)'
    BY DEF AwaitedStays
  <1>1. PICK g \in Handlers : screen[o].busy = g /\ handler[g].pc \in Adding
    BY DEF WaitedAdd
  <1>2. g # h /\ handler'[g] = handler[g] /\ screen'[o] = screen[o]
    BY <1>1 DEF OthersStay, Turns
  <1>3. QED
    BY <1>1, <1>2 DEF WaitedAdd

\* The slots and their records stay as they are.
SlotsStay ==
  /\ \A n \in Phones : number'[n].org = number[n].org
  /\ \A n \in Phones : channel'[n].org = Nobody => channel[n].org = Nobody
  /\ \A i \in Requests : /\ req'[i].pnid = req[i].pnid
                         /\ req[i].pnid => req'[i].phone = req[i].phone

LEMMA SlotsStayed ==
  ASSUME SlotsStay, NEW o
  PROVE  Slots(o)' \subseteq Slots(o) /\ Unrecorded(o)' \subseteq Unrecorded(o)
  BY DEF SlotsStay, Slots, Unrecorded

LEMMA SlotSame ==
  ASSUME TypeInv, NEW o \in Orgs, SlotRow(o), SlotsStay, NEW C, C \subseteq Claiming(o),
         Claiming(o)' = C, slips' \in Nat, slips' >= slips, AwaitedStays(o)
  PROVE  SlotRow(o)'
  <1>1. PICK S, U : S = Slots(o)' /\ U = Unrecorded(o)'
    OBVIOUS
  <1>2. S \subseteq Slots(o) /\ U \subseteq Unrecorded(o)
    BY <1>1, SlotsStayed
  <1>3. QED
    BY <1>1, <1>2, SlotKept

LEMMA SlotQuiet ==
  ASSUME TypeInv, SlotInv, Quiet
  PROVE  SlotInv'
  <1>1. SlotsStay
    BY DEF Quiet, SlotsStay
  <1>2. ASSUME NEW o \in Orgs
        PROVE  SlotRow(o)'
    <2>1. PICK C : C = Claiming(o)
      OBVIOUS
    <2>2. Claiming(o)' = C
      BY <2>1 DEF Claiming, Quiet
    <2>3. AwaitedStays(o)
      BY DEF AwaitedStays, WaitedAdd, Quiet
    <2>4. QED
      BY <1>1, <2>1, <2>2, <2>3, SlotSame DEF SlotInv, Quiet
  <1>3. QED
    BY <1>2 DEF SlotInv

LEMMA SlotWork ==
  ASSUME TypeInv, SlotInv, NEW h \in Handlers, WorkStep(h)
  PROVE  SlotInv'
  <1>0. slips \in Nat
    BY DEF TypeInv, Types
  <1>1. PICK i \in Requests : i = handler[h].id /\ Works(h, i)
    BY WorkEffect
  <1>2. /\ Turns(h) /\ slips' \in {slips, slips + 1}
        /\ handler[h].pc \notin Adding /\ handler'[h].pc \notin Adding
        /\ \A n \in Phones : number'[n].org = number[n].org
        /\ \A n \in Phones : channel'[n].org = Nobody => channel[n].org = Nobody
        /\ \A j \in Requests : req'[j].pnid = req[j].pnid
    BY <1>1, WorkFacts
  <1>3. SlotsStay /\ OthersStay(h)
    BY <1>1, <1>2 DEF Works, OtherRowsStay, SlotsStay
  <1>4. ASSUME NEW o \in Orgs
        PROVE  SlotRow(o)'
    <2>1. PICK C : C = Claiming(o)
      OBVIOUS
    <2>2. Claiming(o)' = C
      BY <1>2, <1>3, <2>1 DEF Claiming, OthersStay, Adding
    <2>3. slips' \in Nat /\ slips' >= slips
      BY <1>0, <1>2
    <2>4. QED
      BY <1>2, <1>3, <2>1, <2>2, <2>3, AwaitedTurns, SlotSame DEF SlotInv
  <1>5. QED
    BY <1>4 DEF SlotInv

LEMMA SlotDie ==
  ASSUME TypeInv, SlotInv, NEW h \in Handlers, Die(h)
  PROVE  SlotInv'
  <1>0. Types /\ slips \in Nat
    BY DEF TypeInv, Types
  <1>1. /\ OthersStay(h) /\ UNCHANGED <<req, channel, number>> /\ handler'[h] = NoHandler
        /\ slips' = slips + 1
    BY <1>0, DieEffect DEF rows
  <1>2. SlotsStay /\ slips' \in Nat /\ slips' > slips /\ slips' >= slips
    BY <1>0, <1>1 DEF SlotsStay
  <1>3. ASSUME NEW o \in Orgs
        PROVE  SlotRow(o)'
    <2>1. PICK C : C = Claiming(o)'
      OBVIOUS
    <2>2. C \subseteq Claiming(o)
      BY <1>1, <2>1 DEF Claiming, OthersStay, NoHandler
    <2>3. QED
      BY <1>2, <2>1, <2>2, SlotSame DEF SlotInv, AwaitedStays
  <1>4. QED
    BY <1>3 DEF SlotInv

LEMMA SlotCall ==
  ASSUME TypeInv, SlotInv, NEW o \in Orgs, NEW h \in Handlers,
         Reenviar(o, h) \/ Confirmar(o, h) \/ Cancelar(o, h), Alive(screen[o].id)
  PROVE  SlotInv'
  <1>0. Types /\ slips \in Nat
    BY DEF TypeInv, Types
  <1>1. screen[o].step \in {"preparando", "codigo"}
    BY DEF Confirmar, Reenviar, Cancelar, Free
  <1>2. PICK i \in Requests : i = screen[o].id /\ req[i].phone \in Phones
    BY <1>1, ScreenKnows
  <1>3. /\ UNCHANGED <<rows, number, slips>> /\ Waits(o, h) /\ OthersStay(h)
        /\ handler'[h].pc \in {"sms", "check", "cancel"}
    BY <1>0, <1>2, CallEffect DEF BegunAt
  <1>4. /\ SlotsStay /\ Turns(h) /\ handler[h].pc = "idle"
        /\ slips' \in Nat /\ slips' >= slips
    BY <1>0, <1>3, WaitedTurns DEF rows, Waits, SlotsStay
  <1>5. ASSUME NEW p \in Orgs
        PROVE  SlotRow(p)'
    <2>1. PICK C : C = Claiming(p)
      OBVIOUS
    <2>2. Claiming(p)' = C
      BY <1>3, <1>4, <2>1 DEF Claiming, OthersStay
    <2>3. AwaitedStays(p)
      BY <1>3, <1>4, AwaitedTurns DEF Adding
    <2>4. QED
      BY <1>4, <2>1, <2>2, <2>3, SlotSame DEF SlotInv
  <1>6. QED
    BY <1>5 DEF SlotInv

LEMMA SlotInsert ==
  ASSUME TypeInv, SlotInv, NEW h \in Handlers, Insert(h)
  PROVE  SlotInv'
  <1>0. Types /\ handler[h] \in Handler /\ Owner(h) \in Orgs /\ Phone(h) \in Phones /\ slips \in Nat
    BY HandlerKnows DEF TypeInv, Types, Insert
  <1>1. /\ OthersStay(h) /\ handler[h].pc = "insert" /\ UNCHANGED <<channel, number, slips>>
        /\ \/ /\ NextId \in Requests /\ req[NextId].status = "none" /\ OtherRowsStay(NextId)
              /\ NewAt(req'[NextId], Owner(h), Phone(h), "criando")
              /\ handler'[h] = [handler[h] EXCEPT !.pc = "add", !.id = NextId]
              /\ UNCHANGED screen
           \/ handler'[h] = NoHandler /\ Served(h) /\ UNCHANGED req
    BY <1>0, InsertEffect
  <1>2. slips' \in Nat /\ slips' >= slips
    BY <1>0, <1>1
  <1>3. CASE /\ NextId \in Requests /\ req[NextId].status = "none" /\ OtherRowsStay(NextId)
             /\ NewAt(req'[NextId], Owner(h), Phone(h), "criando")
             /\ handler'[h] = [handler[h] EXCEPT !.pc = "add", !.id = NextId]
             /\ UNCHANGED screen
    <2>1. PICK k \in Requests : /\ req[k].status = "none" /\ OtherRowsStay(k)
                                /\ NewAt(req'[k], Owner(h), Phone(h), "criando")
                                /\ handler'[h] = [handler[h] EXCEPT !.pc = "add", !.id = k]
      BY <1>3
    <2>2. ~req[k].pnid /\ req[k] \in Row
      BY <2>1, RowKnows
    <2>3. SlotsStay
      BY <1>1, <2>1, <2>2 DEF SlotsStay, OtherRowsStay, NewAt, Row
    <2>4. handler'[h].org = handler[h].org /\ handler'[h].pc = "add"
      BY <1>0, <2>1 DEF Handler
    <2>5. ASSUME NEW o \in Orgs
          PROVE  SlotRow(o)'
      <3>1. PICK C : C = Claiming(o)
        OBVIOUS
      <3>2. Claiming(o)' = C
        BY <1>1, <2>4, <3>1 DEF Claiming, OthersStay
      <3>3. AwaitedStays(o)
        <4>1. \A g \in Handlers : handler[g].pc \in Adding => handler'[g].pc \in Adding
          BY <1>1, <2>4 DEF OthersStay, Adding
        <4>2. QED
          BY <1>3, <4>1 DEF AwaitedStays, WaitedAdd
      <3>4. QED
        BY <1>2, <2>3, <3>1, <3>2, <3>3, SlotSame DEF SlotInv
    <2>6. QED
      BY <2>5 DEF SlotInv
  <1>4. CASE handler'[h] = NoHandler /\ Served(h) /\ UNCHANGED req
    <2>1. SlotsStay /\ Turns(h)
      BY <1>1, <1>4, WaitedTurns DEF SlotsStay
    <2>2. ASSUME NEW o \in Orgs
          PROVE  SlotRow(o)'
      <3>1. PICK S, U, C : S = Slots(o)' /\ U = Unrecorded(o)' /\ C = Claiming(o)'
        OBVIOUS
      <3>2. S \subseteq Slots(o) /\ U \subseteq Unrecorded(o)
        BY <2>1, <3>1, SlotsStayed
      <3>3. C \subseteq Claiming(o) \ {h}
        BY <1>1, <1>4, <3>1 DEF Claiming, OthersStay, NoHandler
      <3>4. CASE o = Owner(h)
        <4>1. h \in Claiming(o)
          BY <1>1, <3>4 DEF Claiming, Owner
        <4>2. QED
          BY <1>2, <3>1, <3>2, <3>3, <4>1, SlotClaimed DEF SlotInv
      <3>5. CASE o # Owner(h)
        <4>1. screen[o].busy # h
          BY <1>1, <3>5 DEF TypeInv, Fits, ScreenFits
        <4>2. AwaitedStays(o)
          BY <1>1, <2>1, <4>1, AwaitedTurns
        <4>3. C \subseteq Claiming(o)
          BY <3>3
        <4>4. QED
          BY <1>2, <2>1, <3>1, <4>2, <4>3, SlotSame DEF SlotInv
      <3>6. QED
        BY <3>4, <3>5
    <2>3. QED
      BY <2>2 DEF SlotInv
  <1>5. QED
    BY <1>1, <1>3, <1>4

\* Every slot that is recorded and no channel counts as burned.
LEMMA RecordedBurned ==
  ASSUME Reserved, DoneInv, NEW o \in Orgs
  PROVE  Cardinality(Slots(o)) <= Cardinality(Burned(o)) + Cardinality(Unrecorded(o))
         /\ Cardinality(Burned(o)) \in Nat
  <1>0. TypeInv /\ ReadyInv
    BY DEF Reserved
  <1> DEFINE R == Slots(o) \ Unrecorded(o)
             f == [n \in R |-> CHOOSE i \in Burned(o) : req[i].phone = n]
  <1>1. ASSUME NEW n \in R
        PROVE  \E i \in Burned(o) : req[i].phone = n
    <2>1. PICK i \in Requests : req[i].pnid /\ req[i].phone = n
      BY <1>1 DEF Slots, Unrecorded
    <2>2. number[n].org = o /\ channel[n].org = Nobody
      BY <1>1 DEF Slots
    <2>3. req[i].org = o /\ req[i].status # "concluida"
      BY <1>0, <2>1, <2>2 DEF ReadyInv, ReadyRow, DoneInv
    <2>4. QED
      BY <2>1, <2>3 DEF Burned
  <1>2. \A n \in R : f[n] \in Burned(o) /\ req[f[n]].phone = n
    BY <1>1
  <1>3. IsFiniteSet(Burned(o)) /\ Cardinality(Burned(o)) \in Nat
    <2>1. Burned(o) \subseteq Requests
      BY DEF Burned
    <2>2. QED
      BY <2>1, SubsetCount
  <1>4. f \in Injection(R, Burned(o))
    <2>1. f \in [R -> Burned(o)]
      BY <1>2
    <2>2. \A m, n \in R : f[m] = f[n] => m = n
      BY <1>2
    <2> HIDE DEF f, R
    <2>3. QED
      BY <2>1, <2>2 DEF Injection, IsInjective
  <1>5. IsFiniteSet(R) /\ Cardinality(R) <= Cardinality(Burned(o))
    <2> HIDE DEF f, R
    <2>1. QED
      BY <1>3, <1>4, FS_Injection
  <1>6. /\ IsFiniteSet(Unrecorded(o)) /\ Cardinality(Unrecorded(o)) \in Nat
        /\ Cardinality(Slots(o)) \in Nat
    BY SlotCounts
  <1>7. /\ IsFiniteSet(R \cup Unrecorded(o)) /\ Cardinality(R) \in Nat
        /\ Cardinality(R \cup Unrecorded(o)) <= Cardinality(R) + Cardinality(Unrecorded(o))
    <2>1. /\ IsFiniteSet(R \cup Unrecorded(o))
          /\ Cardinality(R \cup Unrecorded(o)) =
               Cardinality(R) + Cardinality(Unrecorded(o)) - Cardinality(R \cap Unrecorded(o))
      <3> HIDE DEF R
      <3>1. QED
        BY <1>5, <1>6, FS_Union
    <2>2. R \cap Unrecorded(o) = {}
      OBVIOUS
    <2>3. Cardinality(R \cap Unrecorded(o)) = 0 /\ Cardinality(R) \in Nat
      BY <1>5, <2>2, FS_EmptySet, FS_CardinalityType
    <2> HIDE DEF R
    <2>4. QED
      BY <1>6, <2>1, <2>3
  <1>8. Cardinality(Slots(o)) <= Cardinality(R \cup Unrecorded(o))
        /\ Cardinality(R \cup Unrecorded(o)) \in Nat
    <2>1. Slots(o) \subseteq R \cup Unrecorded(o)
      OBVIOUS
    <2> HIDE DEF R
    <2>2. QED
      BY <1>7, <2>1, SubsetCount
  <1> HIDE DEF R
  <1>9. QED
    BY <1>3, <1>5, <1>6, <1>7, <1>8

LEMMA SlotEnviar ==
  ASSUME Reserved, DoneInv, SlotInv, NEW o \in Orgs, NEW h \in Handlers, NEW n \in Phones,
         Enviar(o, h, n)
  PROVE  SlotInv'
  <1>0. TypeInv /\ Types /\ slips \in Nat /\ MaxBurned \in Nat
    BY DEF Reserved, TypeInv, Types
  <1>1. /\ UNCHANGED <<channel, number, slips>> /\ Cardinality(Burned(o)) < MaxBurned
        /\ \/ /\ NextId \in Requests /\ req[NextId].status = "none" /\ OtherRowsStay(NextId)
              /\ NewAt(req'[NextId], o, n, "falhou")
              /\ UNCHANGED <<handler, screen>>
           \/ /\ UNCHANGED req /\ Waits(o, h) /\ OthersStay(h)
              /\ BegunAt(handler'[h], "insert", o, n, None)
    BY <1>0, EnviarEffect
  <1>2. slips' \in Nat /\ slips' >= slips
    BY <1>0, <1>1
  <1>3. CASE /\ NextId \in Requests /\ req[NextId].status = "none" /\ OtherRowsStay(NextId)
             /\ NewAt(req'[NextId], o, n, "falhou")
             /\ UNCHANGED <<handler, screen>>
    <2>1. PICK k \in Requests : /\ req[k].status = "none" /\ OtherRowsStay(k)
                                /\ NewAt(req'[k], o, n, "falhou")
      BY <1>3
    <2>2. ~req[k].pnid /\ req[k] \in Row
      BY <1>0, <2>1, RowKnows
    <2>3. SlotsStay
      BY <1>1, <2>1, <2>2 DEF SlotsStay, OtherRowsStay, NewAt, Row
    <2>4. ASSUME NEW p \in Orgs
          PROVE  SlotRow(p)'
      <3>1. PICK C : C = Claiming(p)
        OBVIOUS
      <3>2. Claiming(p)' = C /\ AwaitedStays(p)
        BY <1>3, <3>1 DEF Claiming, AwaitedStays, WaitedAdd
      <3>3. QED
        BY <1>0, <1>2, <2>3, <3>1, <3>2, SlotSame DEF SlotInv
    <2>5. QED
      BY <2>4 DEF SlotInv
  <1>4. CASE /\ UNCHANGED req /\ Waits(o, h) /\ OthersStay(h)
             /\ BegunAt(handler'[h], "insert", o, n, None)
    <2>1. SlotsStay /\ Turns(h) /\ handler[h].pc = "idle"
          /\ handler'[h].pc = "insert" /\ handler'[h].org = o
      BY <1>1, <1>4, WaitedTurns DEF SlotsStay, Waits, BegunAt
    <2>2. ASSUME NEW p \in Orgs, p # o
          PROVE  SlotRow(p)'
      <3>1. PICK C : C = Claiming(p)
        OBVIOUS
      <3>2. Claiming(p)' = C
        BY <1>4, <2>1, <2>2, <3>1 DEF Claiming, OthersStay
      <3>3. AwaitedStays(p)
        BY <1>4, <2>1, AwaitedTurns DEF Adding
      <3>4. QED
        BY <1>0, <1>2, <2>1, <3>1, <3>2, <3>3, SlotSame DEF SlotInv
    <2>3. SlotRow(o)'
      <3>1. PICK S, U, C : S = Slots(o)' /\ U = Unrecorded(o)' /\ C = Claiming(o)'
        OBVIOUS
      <3>2. S \subseteq Slots(o) /\ U \subseteq Unrecorded(o)
        BY <2>1, <3>1, SlotsStayed
      <3>3. C \subseteq Claiming(o) \cup {h}
        BY <1>4, <3>1 DEF Claiming, OthersStay
      <3>4. /\ IsFiniteSet(Slots(o)) /\ IsFiniteSet(Unrecorded(o)) /\ IsFiniteSet(Claiming(o))
            /\ Cardinality(Slots(o)) \in Nat /\ Cardinality(Unrecorded(o)) \in Nat
            /\ Cardinality(Claiming(o)) \in Nat
        BY SlotCounts
      <3>5. Cardinality(S) \in Nat /\ Cardinality(S) <= Cardinality(Slots(o))
        BY <3>2, <3>4, SubsetCount
      <3>6. Cardinality(U) \in Nat /\ Cardinality(U) <= Cardinality(Unrecorded(o))
        BY <3>2, <3>4, SubsetCount
      <3>7. Cardinality(C) \in Nat /\ Cardinality(C) <= Cardinality(Claiming(o)) + 1
        BY <3>3, <3>4, OneMore
      <3>8. ~WaitedAdd(o) /\ Awaited(o) = 0
        BY <1>4 DEF Waits, WaitedAdd, Awaited
      <3>9. WaitedAdd(o)' /\ Awaited(o)' = 1
        <4>1. screen'[o].busy = h /\ handler'[h].pc \in Adding
          BY <1>0, <1>4, <2>1 DEF Waits, Types, Screen, Adding
        <4>2. WaitedAdd(o)'
          BY <4>1 DEF WaitedAdd
        <4>3. QED
          BY <4>2 DEF Awaited
      <3>10. Cardinality(Unrecorded(o)) + Cardinality(Claiming(o)) <= slips
        BY <1>0, <3>4, <3>8 DEF SlotInv, SlotRow
      <3>11. Cardinality(Slots(o)) <= Cardinality(Burned(o)) + Cardinality(Unrecorded(o))
             /\ Cardinality(Burned(o)) \in Nat
        BY RecordedBurned
      <3>12. Cardinality(S) + Cardinality(C) <= MaxBurned + slips'
        BY <1>0, <1>1, <3>4, <3>5, <3>7, <3>10, <3>11
      <3>13. Cardinality(U) + Cardinality(C) <= slips' + 1
        BY <1>0, <1>1, <3>4, <3>6, <3>7, <3>10
      <3>14. QED
        BY <3>1, <3>9, <3>12, <3>13 DEF SlotRow
    <2>4. QED
      BY <2>2, <2>3 DEF SlotInv
  <1>5. QED
    BY <1>1, <1>3, <1>4

LEMMA SlotAdd ==
  ASSUME TypeInv, SlotInv, NEW h \in Handlers, Add(h) \/ AddFails(h)
  PROVE  SlotInv'
  <1>0. /\ Types /\ handler[h] \in Handler /\ slips \in Nat
        /\ \A n \in Phones : number[n] \in Number
    BY HandlerKnows DEF TypeInv, Types
  <1>1. PICK o \in Orgs, n \in Phones, i \in Requests :
          /\ o = Owner(h) /\ n = Phone(h) /\ i = handler[h].id /\ req[i] \in Row
    BY HandlerKnows DEF Add, AddFails, HasId
  <1>2. /\ OthersStay(h) /\ handler[h].pc = "add" /\ channel' = channel
        /\ \/ number' = number
           \/ /\ number[n].org = Nobody /\ OtherNumbersStay(n)
              /\ number'[n] = [number[n] EXCEPT !.org = o]
        /\ \/ /\ UNCHANGED <<req, screen, slips>>
              /\ handler'[h] = [handler[h] EXCEPT !.pc = "update"]
           \/ /\ handler'[h] = NoHandler /\ Served(h) /\ OtherRowsStay(i)
              /\ req'[i] = [req[i] EXCEPT !.status = "falhou"]
              /\ \/ slips' = slips /\ number' = number
                 \/ slips' = slips + 1
    BY <1>0, <1>1, AddEffect
  <1>3. slips' \in Nat /\ slips' >= slips
    BY <1>0, <1>2
  <1>4. \A j \in Requests : req'[j].pnid = req[j].pnid /\ req'[j].phone = req[j].phone
    <2>1. \/ req' = req
          \/ OtherRowsStay(i) /\ req'[i].pnid = req[i].pnid /\ req'[i].phone = req[i].phone
      BY <1>1, <1>2 DEF Row
    <2>2. QED
      BY <2>1 DEF OtherRowsStay
  <1>5. \A m \in Phones : number'[m].org = number[m].org \/ (m = n /\ number'[n].org = o)
    BY <1>0, <1>1, <1>2 DEF OtherNumbersStay, Number
  <1>6. handler'[h].pc \in {"idle", "update"} /\ Turns(h)
    BY <1>0, <1>2, WaitedTurns DEF Handler, NoHandler
  <1>7. ASSUME NEW p \in Orgs, p # o
        PROVE  SlotRow(p)'
    <2>1. PICK S, U, C : S = Slots(p)' /\ U = Unrecorded(p)' /\ C = Claiming(p)'
      OBVIOUS
    <2>2. S \subseteq Slots(p) /\ U \subseteq Unrecorded(p)
      BY <1>2, <1>4, <1>5, <1>7, <2>1 DEF Slots, Unrecorded
    <2>3. C \subseteq Claiming(p)
      BY <1>2, <1>6, <2>1 DEF Claiming, OthersStay
    <2>4. screen[p].busy # h
      BY <1>1, <1>2, <1>7 DEF TypeInv, Fits, ScreenFits
    <2>5. AwaitedStays(p)
      BY <1>2, <1>6, <2>4, AwaitedTurns
    <2>6. QED
      BY <1>3, <2>1, <2>2, <2>3, <2>5, SlotKept DEF SlotInv
  <1>8. SlotRow(o)'
    <2>1. PICK S, U, C : S = Slots(o)' /\ U = Unrecorded(o)' /\ C = Claiming(o)'
      OBVIOUS
    <2>2. h \in Claiming(o) /\ C \subseteq Claiming(o) \ {h}
      BY <1>1, <1>2, <1>6, <2>1 DEF Claiming, OthersStay, Owner
    <2>3. CASE number' = number
      <3>1. S \subseteq Slots(o) /\ U \subseteq Unrecorded(o)
        BY <1>2, <1>4, <2>1, <2>3 DEF Slots, Unrecorded
      <3>2. QED
        BY <1>3, <2>1, <2>2, <3>1, SlotClaimed DEF SlotInv
    <2>4. CASE number' # number
      <3>1. S \subseteq Slots(o) \cup {n} /\ U \subseteq Unrecorded(o) \cup {n}
        BY <1>2, <1>4, <1>5, <2>1 DEF Slots, Unrecorded
      <3>2. AwaitedStays(o)
        <4>1. CASE slips' = slips + 1
          BY <1>0, <4>1 DEF AwaitedStays
        <4>2. CASE screen' = screen /\ handler'[h] = [handler[h] EXCEPT !.pc = "update"]
          <5>1. handler'[h].pc = "update"
            BY <1>0, <4>2 DEF Handler
          <5>2. \A g \in Handlers : handler[g].pc \in Adding => handler'[g].pc \in Adding
            BY <1>2, <5>1 DEF OthersStay, Adding
          <5>3. QED
            BY <4>2, <5>2 DEF AwaitedStays, WaitedAdd
        <4>3. QED
          BY <1>2, <2>4, <4>1, <4>2
      <3>3. QED
        BY <1>3, <2>1, <2>2, <3>1, <3>2, SlotClaimed DEF SlotInv
    <2>5. QED
      BY <2>3, <2>4
  <1>9. QED
    BY <1>7, <1>8 DEF SlotInv

\* The last write records the slot, unless another request is alive, which
\* cannot be while the wizard waits.
LEMMA SlotUpdate ==
  ASSUME Reserved, WaitedInv, SlotInv, NEW h \in Handlers, Update(h)
  PROVE  SlotInv'
  <1>0. TypeInv /\ Types /\ ReadyInv /\ ReservedOnce /\ slips \in Nat /\ MaxBurned \in Nat
    BY DEF Reserved, TypeInv, Types
  <1>1. PICK o \in Orgs, n \in Phones, i \in Requests :
          /\ o = Owner(h) /\ n = Phone(h) /\ i = handler[h].id /\ req[i] \in Row
          /\ req[i].org = o /\ req[i].phone = n
    BY <1>0, HandlerKnows DEF Update, HasId
  <1>2. /\ OthersStay(h) /\ handler'[h] = NoHandler /\ handler[h].pc = "update"
        /\ UNCHANGED <<channel, number, slips>> /\ OtherRowsStay(i)
        /\ \/ req'[i] = [req[i] EXCEPT !.pnid = TRUE, !.codes = 1, !.status = "aguardando_codigo"]
           \/ ~Indexed(h) /\ UNCHANGED req /\ Served(h)
           \/ req'[i] = [req[i] EXCEPT !.pnid = TRUE, !.status = "falhou"]
    BY <1>0, <1>1, UpdateEffect
  <1>3. Turns(h)
    <2>1. \A p \in Orgs : screen[p].busy # h => screen'[p] = screen[p]
      BY <1>0, <1>1, UpdateEffect DEF Served
    <2>2. QED
      BY <2>1 DEF Turns
  <1>4. slips' \in Nat /\ slips' >= slips
    BY <1>0, <1>2
  <1>5. \A p \in Orgs : Claiming(p)' = Claiming(p)
    BY <1>2 DEF Claiming, OthersStay, NoHandler
  <1>6. CASE ~Indexed(h) /\ UNCHANGED req /\ Served(h)
    <2>1. SlotsStay
      BY <1>2, <1>6 DEF SlotsStay
    <2>2. \A p \in Orgs : screen[p].busy # h
      <3>1. SUFFICES ASSUME NEW p \in Orgs, screen[p].busy = h PROVE FALSE
        OBVIOUS
      <3>2. screen[Owner(h)].busy = h
        BY <1>0, <3>1 DEF TypeInv, Fits, ScreenFits
      <3>3. Alive(i)
        BY <1>1, <1>2, <3>2 DEF WaitedInv, WaitedAlone
      <3>4. PICK j \in Requests : j # i /\ Alive(j) /\ (req[j].org = o \/ req[j].phone = n)
        BY <1>1, <1>6 DEF Indexed, AliveOf, AliveWith
      <3>5. QED
        BY <1>0, <1>1, <3>3, <3>4 DEF TypeInv, AliveOnce
    <2>3. ASSUME NEW p \in Orgs
          PROVE  SlotRow(p)'
      <3>1. PICK C : C = Claiming(p)
        OBVIOUS
      <3>2. AwaitedStays(p)
        BY <1>2, <1>3, <2>2, AwaitedTurns
      <3>3. QED
        BY <1>0, <1>4, <1>5, <2>1, <3>1, <3>2, SlotSame DEF SlotInv
    <2>4. QED
      BY <2>3 DEF SlotInv
  <1>7. CASE \/ req'[i] = [req[i] EXCEPT !.pnid = TRUE, !.codes = 1, !.status = "aguardando_codigo"]
             \/ req'[i] = [req[i] EXCEPT !.pnid = TRUE, !.status = "falhou"]
    <2>1. req'[i].pnid /\ req'[i].phone = n
      BY <1>1, <1>7 DEF Row
    <2>2. \A p \in Orgs : Slots(p)' = Slots(p)
      BY <1>2 DEF Slots
    <2>3. \A p \in Orgs : Unrecorded(p)' \subseteq Unrecorded(p) \ {n}
      BY <1>1, <1>2, <2>1 DEF Unrecorded, OtherRowsStay
    <2>4. n \in Unrecorded(o)
      BY <1>0, <1>1, <1>2 DEF Unrecorded, ReadyInv, ReadyHandler, ReservedOnce
    <2>5. ASSUME NEW p \in Orgs, p # o
          PROVE  SlotRow(p)'
      <3>1. PICK S, U, C : S = Slots(p)' /\ U = Unrecorded(p)' /\ C = Claiming(p)'
        OBVIOUS
      <3>2. S \subseteq Slots(p) /\ U \subseteq Unrecorded(p) /\ C \subseteq Claiming(p)
        BY <1>5, <2>2, <2>3, <3>1
      <3>3. screen[p].busy # h
        BY <1>0, <1>1, <2>5 DEF TypeInv, Fits, ScreenFits
      <3>4. AwaitedStays(p)
        BY <1>2, <1>3, <3>3, AwaitedTurns
      <3>5. QED
        BY <1>0, <1>4, <3>1, <3>2, <3>4, SlotKept DEF SlotInv
    <2>6. SlotRow(o)'
      <3>1. PICK U, v : U = Unrecorded(o)' /\ v = Awaited(o)' /\ v \in 0..1
        BY DEF Awaited
      <3>2. /\ IsFiniteSet(Unrecorded(o)) /\ Cardinality(Slots(o)) \in Nat
            /\ Cardinality(Claiming(o)) \in Nat
        BY SlotCounts
      <3>3. /\ Cardinality(U) \in Nat /\ Cardinality(Unrecorded(o)) \in Nat
            /\ Cardinality(U) + 1 <= Cardinality(Unrecorded(o))
        BY <2>3, <2>4, <3>1, <3>2, OneLess
      <3>4. Awaited(o) \in 0..1
        BY DEF Awaited
      <3>5. Cardinality(Slots(o)) + Cardinality(Claiming(o)) <= MaxBurned + slips'
        BY <1>0, <1>2, <3>2 DEF SlotInv, SlotRow
      <3>6. Cardinality(U) + Cardinality(Claiming(o)) <= slips' + v
        BY <1>0, <1>2, <3>1, <3>2, <3>3, <3>4 DEF SlotInv, SlotRow
      <3>7. QED
        BY <1>5, <2>2, <3>1, <3>5, <3>6 DEF SlotRow
    <2>7. QED
      BY <2>5, <2>6 DEF SlotInv
  <1>8. QED
    BY <1>2, <1>6, <1>7

LEMMA SlotStep == Reserved /\ DoneInv /\ WaitedInv /\ SlotInv /\ [Next]_vars => SlotInv'
  <1> SUFFICES ASSUME Reserved, DoneInv, WaitedInv, SlotInv, [Next]_vars PROVE SlotInv'
    OBVIOUS
  <1>0. TypeInv
    BY DEF Reserved
  <1>1. CASE \/ \E o \in Orgs : Open(o) \/ Leave(o) \/ (Gone(o) /\ screen[o].busy = Nobody)
             \/ \E n \in Phones : Rewired(n)
             \/ UNCHANGED vars
    BY <1>0, <1>1, WizardIsQuiet, SlotQuiet
  <1>2. ASSUME NEW o \in Orgs, NEW h \in Handlers,
               Confirmar(o, h) \/ Reenviar(o, h) \/ Cancelar(o, h)
        PROVE  SlotInv'
    <2>1. CASE ~Alive(screen[o].id)
      BY <1>1, <1>2, <2>1, DeadCall
    <2>2. QED
      BY <1>0, <1>2, <2>1, SlotCall
  <1>3. ASSUME NEW h \in Handlers, \/ Insert(h) \/ Add(h) \/ AddFails(h) \/ Update(h)
                                   \/ WorkStep(h) \/ Die(h)
        PROVE  SlotInv'
    BY <1>0, <1>3, SlotInsert, SlotAdd, SlotUpdate, SlotWork, SlotDie
  <1>4. QED
    BY <1>1, <1>2, <1>3, SlotEnviar, Steps

(***************************************************************************)
(* An organization never has more numbers at Meta that lead nowhere than    *)
(* the limit of burned slots, and a request never sends more codes than its *)
(* limit, by more than one for each call that was left to another tab, lost *)
(* its answer or died, for any number of phones, calls and requests.        *)
(***************************************************************************)
THEOREM SlotsAreBounded == Spec => []SlotsBounded
  <1>1. Init => DoneInv /\ WaitedInv /\ SlotInv
    <2> SUFFICES ASSUME Init PROVE DoneInv /\ WaitedInv /\ SlotInv
      OBVIOUS
    <2>1. DoneInv /\ WaitedInv
      BY DEF Init, DoneInv, WaitedInv, WaitedAlone, NoRow, NoHandler
    <2>2. ASSUME NEW o \in Orgs
          PROVE  SlotRow(o)
      <3>1. Slots(o) = {} /\ Unrecorded(o) = {} /\ Claiming(o) = {}
        BY DEF Init, Slots, Unrecorded, Claiming, NoNumber, NoHandler
      <3>2. Cardinality({}) = 0 /\ Awaited(o) \in 0..1 /\ MaxBurned \in Nat
        BY FS_EmptySet DEF Awaited
      <3>3. QED
        BY <3>1, <3>2 DEF Init, SlotRow
    <2>3. QED
      BY <2>1, <2>2 DEF SlotInv
  <1>2. Reserved /\ SmsInv /\ SlotInv => SlotsBounded
    <2> SUFFICES ASSUME Reserved, SmsInv, SlotInv PROVE SlotsBounded
      OBVIOUS
    <2>0. TypeInv /\ slips \in Nat /\ MaxSms \in Nat /\ MaxBurned \in Nat
      BY DEF Reserved, TypeInv, Types
    <2>1. ASSUME NEW o \in Orgs
          PROVE  Cardinality({n \in Phones : number[n].org = o /\ Orphan(n)}) <= MaxBurned + slips
      <3>1. {n \in Phones : number[n].org = o /\ Orphan(n)} \subseteq Slots(o)
        BY DEF Orphan, Slots
      <3>2. /\ IsFiniteSet(Slots(o)) /\ Cardinality(Slots(o)) \in Nat
            /\ Cardinality(Claiming(o)) \in Nat
        BY SlotCounts
      <3>3. /\ Cardinality({n \in Phones : number[n].org = o /\ Orphan(n)}) \in Nat
            /\ Cardinality({n \in Phones : number[n].org = o /\ Orphan(n)}) <= Cardinality(Slots(o))
        BY <3>1, <3>2, SubsetCount
      <3>4. Cardinality(Slots(o)) + Cardinality(Claiming(o)) <= MaxBurned + slips
        BY DEF SlotInv, SlotRow
      <3>5. QED
        BY <2>0, <3>2, <3>3, <3>4
    <2>2. ASSUME NEW i \in Requests
          PROVE  sms[i] <= MaxSms + slips
      <3>1. sms[i] \in Nat /\ Cardinality(Waiting(i)) \in Nat
        BY <2>0, SmsNumbers
      <3>2. req[i].status = "none" => sms[i] = 0
        BY <2>0 DEF TypeInv, Fits, RowFits
      <3>3. QED
        BY <2>0, <3>1, <3>2 DEF SmsInv, SmsRow
    <2>3. QED
      BY <2>1, <2>2 DEF SlotsBounded
  <1>3. Reserved /\ DoneInv /\ WaitedInv /\ SlotInv /\ [Next]_vars => DoneInv' /\ WaitedInv' /\ SlotInv'
    BY DoneStep, WaitedStep, SlotStep DEF Reserved
  <1>4. QED
    BY <1>1, <1>2, <1>3, ReservedAlways, SmsAlways, PTL DEF Spec
=============================================================================
