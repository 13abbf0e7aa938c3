---------------------------- MODULE InboxProofs ----------------------------
(* Theorems about Inbox, for every value of its constants.                 *)
EXTENDS Inbox, TLAPS

USE InboxAssumption

(***************************************************************************)
(* The types, and the inductive invariants: one per idea.                  *)
(***************************************************************************)

Instants  == Nat \cup {Never}
Event     == [id : Nat, phone : Phones, at : Nat, keyword : BOOLEAN]
AtHandler == [pc : {"idle", "optout", "ack"}, event : Event \cup {NoHandler.event}]
Rows      == {"absent", "typed", "present", "opted_out"}
Somebody  == Phones \cup {Nobody}
View      == [phone : Somebody, open : BOOLEAN, at : Int, crossed : BOOLEAN]
Request   == [phone : Phones, alive : BOOLEAN, answered : BOOLEAN, open : BOOLEAN, at : Int]

Sending   == [stage : {"none", "asked", "queued", "error"}, to : Somebody, typedFor : Somebody]

ServerTypes ==
  /\ now \in Nat /\ writes \in Nat
  /\ wrote \in [Phones -> Instants] /\ received \in [Phones -> Instants]
  /\ hooks \subseteq Event
  /\ handler \in [Handlers -> AtHandler]
  /\ \A h \in Handlers : handler[h].pc # "idle" => handler[h].event \in Event
  /\ contact \in [Phones -> Rows]
  /\ asked \subseteq [phone : Phones, found : BOOLEAN]

ScreenTypes ==
  /\ thread \in View /\ arrived \in View
  /\ loads \subseteq Request
  /\ sel \in Somebody /\ draft \in Somebody /\ sending \in Sending

\* A keyword that was written: the contact has opted out, or an event brings it
\* that no handler is about to acknowledge.
Carries(e, p) ==
  /\ e.phone = p /\ e.keyword
  /\ \A h \in Handlers : handler[h].pc = "ack" => handler[h].event # e

Settled(p) == contact[p] = "opted_out" \/ \E e \in hooks : Carries(e, p)

\* No event of the future is in anybody's hands, so a new one is one of its own.
KeywordInv ==
  /\ \A e \in hooks : e.id < writes
  /\ \A h \in Handlers : handler[h].event.id < writes
  /\ \A a \in asked : a.found => Found(a.phone) /\ Settled(a.phone)

\* An answer of this instant that says "open" is not too late for p.
InTime(p, t) ==
  /\ p \in Phones /\ wrote[p] # Never
  /\ t < wrote[p] + WindowLength + MaxDelay

\* Webhooks are no older than Meta lets them be, so what was received follows
\* what was written, and so does every answer on its way to the screen.
WindowInv ==
  /\ \A p \in Phones : wrote[p] <= now
  /\ \A e \in hooks : /\ wrote[e.phone] # Never /\ e.at <= wrote[e.phone]
                      /\ now - e.at <= MaxDelay
  /\ \A p \in Phones : received[p] # Never =>
       wrote[p] # Never /\ received[p] <= wrote[p] + MaxDelay
  /\ \A l \in loads : l.open => InTime(l.phone, l.at)
  /\ arrived.open => InTime(arrived.phone, arrived.at)
  /\ thread.open => InTime(thread.phone, thread.at)

\* What is on the screen, or on its way to it, is of the conversation selected.
ShownInv ==
  /\ \A l \in loads : l.alive => l.phone = sel
  /\ arrived # Nothing /\ ~arrived.crossed => arrived.phone = sel
  /\ thread # Nothing /\ ~thread.crossed => thread.phone = sel

\* A draft is for the conversation selected, and a text on its way for whom it was typed.
DraftInv ==
  /\ draft \in {Nobody, sel}
  /\ sending.to = sending.typedFor
  /\ \A m \in texts : m.to = m.typedFor
-----------------------------------------------------------------------------
(* What the steps of the screen and of the server leave alone.             *)

OfLoads    == (\E l \in loads : Serve(l) \/ Arrive(l) \/ LoseLoad(l)) \/ Poll \/ Render
OfComposer == Type \/ Enviar \/ SendText \/ Sent \/ LoseText
OfScreen   == (\E p \in Phones \cup {Nobody} : Select(p)) \/ OfLoads \/ OfComposer
OfCustomer == \E p \in Phones : Import(p) \/ CreateTyped(p) \/ \E keyword \in BOOLEAN : Write(p, keyword)
OfHandler  == \E h \in Handlers : Insert(h) \/ OptOut(h) \/ Acknowledge(h) \/ Fail(h)

LEMMA NextCases == Next => OfScreen \/ OfCustomer \/ OfHandler \/ Tick
  BY DEF Next, OfScreen, OfLoads, OfComposer, OfCustomer, OfHandler

LEMMA ScreenIsQuiet ==
  ASSUME OfScreen
  PROVE  UNCHANGED <<server, writes>>
  <1>1. CASE \E p \in Phones \cup {Nobody} : Select(p)
    BY <1>1 DEF Select, Screen, bounds
  <1>2. CASE OfLoads
    BY <1>2 DEF OfLoads, Serve, Arrive, LoseLoad, Mishap, Poll, Render, Screen, bounds
  <1>3. CASE OfComposer
    BY <1>3 DEF OfComposer, Type, Enviar, SendText, Sent, LoseText, Mishap, Screen, bounds
  <1>4. QED
    BY <1>1, <1>2, <1>3 DEF OfScreen

LEMMA ServerIsQuiet ==
  ASSUME OfCustomer \/ OfHandler \/ Tick
  PROVE  UNCHANGED <<screen, texts>>
  BY DEF OfCustomer, OfHandler, Tick, Import, CreateTyped, Stored, Write, Insert, OptOut, Acknowledge, Fail
-----------------------------------------------------------------------------
(* Types.                                                                  *)

LEMMA Constants ==
  /\ Never \in Int /\ Never < 0 /\ Never \notin Nat
  /\ NoText \in Sending /\ Nothing \in View /\ ~Nothing.open /\ Nothing.phone = Nobody
  /\ NoHandler \in AtHandler /\ NoHandler.pc = "idle" /\ NoHandler.event.id = Never
  /\ WindowLength \in Nat /\ MaxDelay \in Nat
  BY DEF Never, Nothing, View, Somebody, NoHandler, AtHandler, NoText, Sending

LEMMA TypeInit == Init => ServerTypes /\ ScreenTypes
  BY Constants DEF Init, ServerTypes, ScreenTypes, Instants, Somebody, Rows

LEMMA ServerTypesQuiet ==
  ASSUME ServerTypes, UNCHANGED <<server, writes>>
  PROVE  ServerTypes'
  BY DEF ServerTypes, server

LEMMA HandlerTypes ==
  ASSUME ServerTypes, OfHandler
  PROVE  ServerTypes'
  <1>1. PICK h \in Handlers : Insert(h) \/ OptOut(h) \/ Acknowledge(h) \/ Fail(h)
    BY DEF OfHandler
  <1>2. CASE Insert(h)
    <2>1. PICK e \in hooks :
            /\ received' = [received EXCEPT ![e.phone] = now]
            /\ handler' = [handler EXCEPT ![h] = [event |-> e,
                 pc |-> IF e.keyword /\ contact[e.phone] = "present" THEN "optout" ELSE "ack"]]
      BY <1>2 DEF Insert
    <2>2. PICK l \in {"optout", "ack"} : handler' = [handler EXCEPT ![h] = [event |-> e, pc |-> l]]
      BY <2>1
    <2>3. [event |-> e, pc |-> l] \in AtHandler /\ e \in Event /\ e.phone \in Phones
      BY DEF AtHandler, ServerTypes, Event
    <2>4. QED
      BY <1>2, <2>1, <2>2, <2>3 DEF ServerTypes, Insert, bounds, Instants
  <1>3. CASE OptOut(h)
    <2>1. /\ handler[h] \in AtHandler /\ handler[h].event \in Event
          /\ handler' = [handler EXCEPT ![h] = [handler[h] EXCEPT !.pc = "ack"]]
      BY <1>3 DEF OptOut, ServerTypes
    <2>2. /\ [handler[h] EXCEPT !.pc = "ack"] \in AtHandler
          /\ [handler[h] EXCEPT !.pc = "ack"].event = handler[h].event
      BY <2>1 DEF AtHandler
    <2>3. handler[h].event.phone \in Phones
      BY <2>1 DEF Event
    <2>4. contact' \in [Phones -> Rows]
      BY <1>3, <2>3 DEF OptOut, ServerTypes, Rows
    <2>5. /\ handler' \in [Handlers -> AtHandler]
          /\ \A g \in Handlers : handler'[g].pc # "idle" => handler'[g].event \in Event
      BY <2>1, <2>2 DEF ServerTypes
    <2>6. QED
      BY <1>3, <2>4, <2>5 DEF ServerTypes, OptOut, bounds
  <1>4. CASE Acknowledge(h) \/ Fail(h)
    <2>1. handler' = [handler EXCEPT ![h] = NoHandler] /\ hooks' \subseteq hooks
      BY <1>4 DEF Acknowledge, Fail, Repeated
    <2>2. QED
      BY <1>4, <2>1, Constants DEF ServerTypes, Acknowledge, Fail, bounds
  <1>5. QED
    BY <1>1, <1>2, <1>3, <1>4

LEMMA ServerTypesStep ==
  ASSUME ServerTypes, OfCustomer \/ OfHandler \/ Tick
  PROVE  ServerTypes'
  <1>1. ASSUME NEW p \in Phones, Import(p) \/ CreateTyped(p)
        PROVE  ServerTypes'
    BY <1>1 DEF ServerTypes, Import, CreateTyped, Stored, Rows, bounds
  <1>2. ASSUME NEW p \in Phones, NEW keyword \in BOOLEAN, Write(p, keyword)
        PROVE  ServerTypes'
    <2>1. [id |-> writes, phone |-> p, at |-> now, keyword |-> keyword] \in Event
      BY DEF ServerTypes, Event
    <2>2. hooks' \subseteq Event /\ wrote' \in [Phones -> Instants] /\ writes' \in Nat
      BY <1>2, <2>1 DEF ServerTypes, Write, Instants
    <2>3. asked' \subseteq [phone : Phones, found : BOOLEAN]
      <3>1. Found(p) \in BOOLEAN
        BY DEF Found
      <3>2. [phone |-> p, found |-> Found(p)] \in [phone : Phones, found : BOOLEAN]
        BY <3>1
      <3>3. QED
        BY <1>2, <3>2 DEF ServerTypes, Write
    <2>4. QED
      BY <1>2, <2>2, <2>3 DEF ServerTypes, Write
  <1>3. CASE Tick
    BY <1>3 DEF ServerTypes, Tick, bounds
  <1>4. QED
    BY <1>1, <1>2, <1>3, HandlerTypes DEF OfCustomer

LEMMA ReloadTypes ==
  ASSUME ScreenTypes, NEW p \in Somebody, Reload(p)
  PROVE  /\ loads' \subseteq Request
         /\ \A l \in loads' : (l.alive => l.phone = p) /\
                              (l.open => \E k \in loads : k.open /\ k.phone = l.phone /\ k.at = l.at)
  <1>1. SUFFICES ASSUME NEW l \in loads'
                 PROVE  /\ l \in Request /\ (l.alive => l.phone = p)
                        /\ l.open => \E k \in loads : k.open /\ k.phone = l.phone /\ k.at = l.at
    OBVIOUS
  <1>2. CASE p # Nobody /\ l = Load(p)
    BY <1>2 DEF Load, Request, Somebody, Never
  <1>3. ASSUME NEW k \in loads, l = [k EXCEPT !.alive = FALSE]
        PROVE  l \in Request /\ ~l.alive /\ l.open = k.open /\ l.phone = k.phone /\ l.at = k.at
    BY <1>3 DEF ScreenTypes, Request
  <1>4. (p # Nobody /\ l = Load(p)) \/ \E k \in loads : l = [k EXCEPT !.alive = FALSE]
    BY DEF Reload
  <1>5. QED
    BY <1>2, <1>3, <1>4

\* The answer of l, as a load and as what arrives of it.
Answered(l) == [l EXCEPT !.answered = TRUE, !.open = Open(l.phone),
                         !.at = IF Open(l.phone) THEN now ELSE Never]
Arrived(l)  == [phone |-> l.phone, open |-> l.open, at |-> l.at, crossed |-> FALSE]

LEMMA AnsweredTypes ==
  ASSUME ServerTypes, ScreenTypes, NEW l \in loads
  PROVE  /\ Answered(l) \in Request /\ Arrived(l) \in View
         /\ Answered(l).alive = l.alive /\ Answered(l).phone = l.phone
         /\ Answered(l).open = Open(l.phone) /\ (Open(l.phone) => Answered(l).at = now)
  <1>1. l \in Request /\ now \in Int /\ Never \in Int
    BY DEF ScreenTypes, ServerTypes, Never
  <1>2. Open(l.phone) \in BOOLEAN
    BY DEF Open
  <1>3. QED
    BY <1>1, <1>2 DEF Answered, Arrived, Request, View, Somebody

LEMMA LoadsEffect ==
  ASSUME ServerTypes, ScreenTypes, OfLoads
  PROVE  /\ UNCHANGED <<sel, draft, sending, texts>>
         /\ \/ /\ UNCHANGED <<thread, arrived>>
               /\ \E l \in loads : loads' \subseteq loads \cup {Answered(l)}
            \/ /\ thread' = thread /\ loads' \subseteq loads
               /\ \E l \in loads : arrived' = Arrived(l) /\ l.alive
            \/ UNCHANGED <<thread, arrived>> /\ loads' \subseteq loads
            \/ UNCHANGED <<thread, arrived>> /\ Reload(sel)
            \/ thread' = arrived /\ arrived' = Nothing /\ UNCHANGED loads
  <1>1. ASSUME NEW l \in loads, Serve(l)
        PROVE  /\ UNCHANGED <<sel, draft, sending, texts, thread, arrived>>
               /\ loads' \subseteq loads \cup {Answered(l)}
    BY <1>1 DEF Serve, Answered, Screen
  <1>2. ASSUME NEW l \in loads, Arrive(l)
        PROVE  /\ UNCHANGED <<sel, draft, sending, texts, thread>> /\ loads' \subseteq loads
               /\ arrived' = arrived \/ (arrived' = Arrived(l) /\ l.alive)
    BY <1>2 DEF Arrive, Arrived, Alive, Screen
  <1>3. ASSUME NEW l \in loads, LoseLoad(l)
        PROVE  /\ UNCHANGED <<sel, draft, sending, texts, thread, arrived>> /\ loads' \subseteq loads
    BY <1>3 DEF LoseLoad, Screen
  <1>4. CASE Poll
    BY <1>4 DEF Poll, Screen
  <1>5. CASE Render
    BY <1>5 DEF Render, Screen
  <1>6. QED
    BY <1>1, <1>2, <1>3, <1>4, <1>5 DEF OfLoads

LEMMA SelectEffect ==
  ASSUME NEW p \in Somebody, Select(p)
  PROVE  /\ sel' = p /\ thread' = Nothing /\ draft' = Nobody /\ Reload(p)
         /\ UNCHANGED <<sending, texts>>
         /\ (arrived = Nothing /\ arrived' = Nothing)
              \/ (arrived # Nothing /\ arrived' = [arrived EXCEPT !.crossed = TRUE])
  BY DEF Select, Emptied, Screen

LEMMA ComposerEffect ==
  ASSUME OfComposer
  PROVE  /\ UNCHANGED <<sel, thread, arrived>>
         /\ UNCHANGED loads \/ Reload(sel)
         /\ draft' \in {draft, Nobody, sel}
         /\ \/ sending' = sending \/ sending' = NoText
            \/ draft # Nobody /\ sending' = [stage |-> "asked", to |-> sel, typedFor |-> draft]
            \/ sending' = [sending EXCEPT !.stage = "queued"]
            \/ sending' = [sending EXCEPT !.stage = "error"]
         /\ \/ texts' = texts
            \/ texts' = texts \cup {[to |-> sending.to, typedFor |-> sending.typedFor]}
  <1>1. CASE Type
    BY <1>1 DEF Type, Screen
  <1>2. CASE Enviar
    BY <1>2 DEF Enviar
  <1>3. CASE SendText
    BY <1>3 DEF SendText
  <1>4. CASE Sent
    BY <1>4 DEF Sent, Emptied, Screen
  <1>5. CASE LoseText
    BY <1>5 DEF LoseText
  <1>6. QED
    BY <1>1, <1>2, <1>3, <1>4, <1>5 DEF OfComposer

LEMMA CrossedType ==
  ASSUME NEW v \in View
  PROVE  /\ [v EXCEPT !.crossed = TRUE] \in View /\ [v EXCEPT !.crossed = TRUE].crossed
         /\ [v EXCEPT !.crossed = TRUE].open = v.open /\ [v EXCEPT !.crossed = TRUE].at = v.at
         /\ [v EXCEPT !.crossed = TRUE].phone = v.phone
  BY DEF View

LEMMA ScreenTypesStep ==
  ASSUME ServerTypes, ScreenTypes, OfScreen
  PROVE  ScreenTypes'
  <1>1. ASSUME NEW p \in Somebody, Select(p)
        PROVE  ScreenTypes'
    <2>1. arrived' \in View
      BY <1>1, SelectEffect, CrossedType, Constants DEF ScreenTypes
    <2>2. loads' \subseteq Request
      BY <1>1, SelectEffect, ReloadTypes
    <2>3. QED
      BY <1>1, <2>1, <2>2, SelectEffect, Constants DEF ScreenTypes, Somebody
  <1>2. CASE OfLoads
    <2>1. thread' \in View /\ arrived' \in View
      BY <1>2, LoadsEffect, AnsweredTypes, Constants DEF ScreenTypes
    <2>2. sel \in Somebody
      BY DEF ScreenTypes
    <2>3. loads' \subseteq Request
      BY <1>2, <2>2, LoadsEffect, AnsweredTypes, ReloadTypes DEF ScreenTypes
    <2>4. QED
      BY <1>2, <2>1, <2>3, LoadsEffect DEF ScreenTypes
  <1>3. CASE OfComposer
    <2>1. sel \in Somebody
      BY DEF ScreenTypes
    <2>2. loads' \subseteq Request
      BY <1>3, <2>1, ComposerEffect, ReloadTypes DEF ScreenTypes
    <2>3. sending' \in Sending
      BY <1>3, ComposerEffect, Constants DEF ScreenTypes, Sending
    <2>4. QED
      BY <1>3, <2>1, <2>2, <2>3, ComposerEffect DEF ScreenTypes, Somebody
  <1>4. QED
    BY <1>1, <1>2, <1>3 DEF OfScreen, Somebody
-----------------------------------------------------------------------------
(* What is shown.                                                          *)

LEMMA ShownStep ==
  ASSUME ServerTypes, ScreenTypes, ShownInv, OfScreen
  PROVE  ShownInv'
  <1>0. sel \in Somebody
    BY DEF ScreenTypes
  <1>1. ASSUME NEW p \in Somebody, Select(p)
        PROVE  ShownInv'
    <2>1. arrived' = Nothing \/ arrived'.crossed
      BY <1>1, SelectEffect, CrossedType DEF ScreenTypes
    <2>2. \A l \in loads' : l.alive => l.phone = p
      BY <1>1, SelectEffect, ReloadTypes
    <2>3. QED
      BY <1>1, <2>1, <2>2, SelectEffect DEF ShownInv
  <1>2. CASE OfLoads
    <2>1. sel' = sel
      BY <1>2, LoadsEffect
    <2>2. \A l \in loads' : l.alive => l.phone = sel
      BY <1>0, <1>2, LoadsEffect, AnsweredTypes, ReloadTypes DEF ShownInv
    <2>3. arrived' # Nothing /\ ~arrived'.crossed => arrived'.phone = sel
      BY <1>2, LoadsEffect DEF ShownInv, Arrived
    <2>4. thread' # Nothing /\ ~thread'.crossed => thread'.phone = sel
      BY <1>2, LoadsEffect DEF ShownInv
    <2>5. QED
      BY <2>1, <2>2, <2>3, <2>4 DEF ShownInv
  <1>3. CASE OfComposer
    BY <1>0, <1>3, ComposerEffect, ReloadTypes DEF ShownInv
  <1>4. QED
    BY <1>1, <1>2, <1>3 DEF OfScreen, Somebody

LEMMA DraftStep ==
  ASSUME ServerTypes, ScreenTypes, DraftInv, OfScreen
  PROVE  DraftInv'
  <1>1. ASSUME NEW p \in Somebody, Select(p)
        PROVE  DraftInv'
    BY <1>1, SelectEffect DEF DraftInv
  <1>2. CASE OfLoads
    BY <1>2, LoadsEffect DEF DraftInv
  <1>3. CASE OfComposer
    <2>1. draft' \in {Nobody, sel'}
      BY <1>3, ComposerEffect DEF DraftInv
    <2>2. sending'.to = sending'.typedFor
      BY <1>3, ComposerEffect DEF DraftInv, ScreenTypes, Sending, NoText
    <2>3. \A m \in texts' : m.to = m.typedFor
      BY <1>3, ComposerEffect DEF DraftInv
    <2>4. QED
      BY <2>1, <2>2, <2>3 DEF DraftInv
  <1>4. QED
    BY <1>1, <1>2, <1>3 DEF OfScreen, Somebody
-----------------------------------------------------------------------------
(* The window.                                                             *)

LEMMA WindowScreenStep ==
  ASSUME ServerTypes, ScreenTypes, WindowInv, OfScreen
  PROVE  WindowInv'
  <1>0. /\ UNCHANGED server /\ sel \in Somebody
        /\ \A p, t : InTime(p, t) <=> InTime(p, t)'
    BY ScreenIsQuiet DEF server, InTime, ScreenTypes
  <1>1. ASSUME NEW l \in loads, Open(l.phone)
        PROVE  InTime(l.phone, now)
    <2>1. l.phone \in Phones
      BY DEF ScreenTypes, Request
    <2>2. /\ wrote[l.phone] # Never /\ wrote[l.phone] \in Int /\ received[l.phone] \in Int
          /\ received[l.phone] <= wrote[l.phone] + MaxDelay
          /\ received[l.phone] + WindowLength > now
      BY <1>1, <2>1, Constants DEF WindowInv, Open, ServerTypes, Instants
    <2>3. QED
      BY <2>1, <2>2, Constants DEF InTime, ServerTypes
  <1>2. ASSUME NEW p \in Somebody, Reload(p)
        PROVE  \A l \in loads' : l.open => InTime(l.phone, l.at)
    BY <1>2, ReloadTypes DEF WindowInv
  <1>3. ASSUME NEW p \in Somebody, Select(p)
        PROVE  /\ \A l \in loads' : l.open => InTime(l.phone, l.at)
               /\ arrived'.open => InTime(arrived'.phone, arrived'.at)
               /\ thread'.open => InTime(thread'.phone, thread'.at)
    <2>1. arrived'.open => InTime(arrived'.phone, arrived'.at)
      BY <1>3, SelectEffect, CrossedType, Constants DEF ScreenTypes, WindowInv
    <2>2. QED
      BY <1>2, <1>3, <2>1, SelectEffect, Constants
  <1>4. CASE OfLoads
    <2>1. \A l \in loads' : l.open => InTime(l.phone, l.at)
      BY <1>0, <1>1, <1>2, <1>4, LoadsEffect, AnsweredTypes DEF WindowInv
    <2>2. arrived'.open => InTime(arrived'.phone, arrived'.at)
      BY <1>4, LoadsEffect, Constants DEF WindowInv, Arrived
    <2>3. thread'.open => InTime(thread'.phone, thread'.at)
      BY <1>4, LoadsEffect DEF WindowInv
    <2>4. QED
      BY <1>0, <2>1, <2>2, <2>3 DEF WindowInv, server
  <1>5. CASE OfComposer
    <2>1. \A l \in loads' : l.open => InTime(l.phone, l.at)
      BY <1>0, <1>2, <1>5, ComposerEffect DEF WindowInv
    <2>2. QED
      BY <1>0, <1>5, <2>1, ComposerEffect DEF WindowInv, server
  <1>6. ASSUME NEW p \in Somebody, Select(p)
        PROVE  WindowInv'
    BY <1>0, <1>3, <1>6 DEF WindowInv, server
  <1>7. QED
    BY <1>4, <1>5, <1>6 DEF OfScreen, Somebody

\* The other steps: what was written only grows, and so what was in time stays so.
LEMMA InTimeKept ==
  ASSUME ServerTypes, ServerTypes', \A p \in Phones : wrote'[p] >= wrote[p]
  PROVE  \A p, t : t \in Int /\ InTime(p, t) => InTime(p, t)'
  <1>1. ASSUME NEW p \in Phones, NEW t \in Int, InTime(p, t)
        PROVE  InTime(p, t)'
    <2>1. wrote[p] \in Nat /\ wrote'[p] \in Instants
      BY <1>1 DEF InTime, ServerTypes, Instants
    <2>2. wrote'[p] \in Nat /\ wrote'[p] # Never
      BY <2>1, Constants DEF Instants, Never
    <2>3. QED
      BY <1>1, <2>1, <2>2, Constants DEF InTime
  <1>2. QED
    BY <1>1 DEF InTime

\* The server's part of the invariant.
Punctuality ==
  /\ \A p \in Phones : wrote[p] <= now
  /\ \A e \in hooks : wrote[e.phone] # Never /\ e.at <= wrote[e.phone] /\ now - e.at <= MaxDelay
  /\ \A p \in Phones : received[p] # Never =>
       wrote[p] # Never /\ received[p] <= wrote[p] + MaxDelay

LEMMA PunctualityStep ==
  ASSUME ServerTypes, ServerTypes', Punctuality, OfCustomer \/ OfHandler \/ Tick
  PROVE  Punctuality' /\ \A p \in Phones : wrote'[p] >= wrote[p]
  <1>0. /\ now \in Nat /\ MaxDelay \in Nat
        /\ \A p \in Phones : wrote[p] \in Int /\ received[p] \in Int
        /\ \A e \in hooks : e.phone \in Phones /\ e.at \in Nat
    BY Constants DEF ServerTypes, Instants, Event
  <1>1. ASSUME NEW p \in Phones, Import(p) \/ CreateTyped(p)
        PROVE  Punctuality' /\ \A q \in Phones : wrote'[q] >= wrote[q]
    BY <1>0, <1>1 DEF Punctuality, Import, CreateTyped, Stored
  <1>2. ASSUME NEW p \in Phones, NEW keyword \in BOOLEAN, Write(p, keyword)
        PROVE  Punctuality' /\ \A q \in Phones : wrote'[q] >= wrote[q]
    <2> DEFINE new == [id |-> writes, phone |-> p, at |-> now, keyword |-> keyword]
    <2>1. /\ UNCHANGED <<now, received>> /\ hooks' = hooks \cup {new}
          /\ wrote' = [wrote EXCEPT ![p] = now] /\ new.phone = p /\ new.at = now
      BY <1>2 DEF Write
    <2> HIDE DEF new
    <2>2. /\ wrote'[p] = now /\ now # Never
          /\ \A q \in Phones : q # p => wrote'[q] = wrote[q]
      BY <1>0, <2>1, Constants DEF ServerTypes
    <2>3. \A q \in Phones : wrote'[q] >= wrote[q] /\ wrote'[q] <= now /\ (wrote[q] # Never => wrote'[q] # Never)
      BY <1>0, <2>2 DEF Punctuality
    <2>4. \A e \in hooks' : wrote'[e.phone] # Never /\ e.at <= wrote'[e.phone] /\ now - e.at <= MaxDelay
      <3>1. ASSUME NEW e \in hooks
            PROVE  wrote'[e.phone] # Never /\ e.at <= wrote'[e.phone] /\ now - e.at <= MaxDelay
        <4>1. /\ e.phone \in Phones /\ e.at \in Nat /\ wrote[e.phone] \in Int
              /\ wrote'[e.phone] >= wrote[e.phone] /\ wrote'[e.phone] # Never
              /\ e.at <= wrote[e.phone] /\ now - e.at <= MaxDelay
          BY <1>0, <2>3 DEF Punctuality
        <4>2. wrote'[e.phone] \in Int
          BY <1>0, <2>2, <4>1
        <4>3. QED
          BY <4>1, <4>2
      <3>2. QED
        BY <1>0, <2>1, <2>2, <3>1
    <2>5. ASSUME NEW q \in Phones, received[q] # Never
          PROVE  wrote'[q] # Never /\ received[q] <= wrote'[q] + MaxDelay
      <3>1. wrote'[q] \in Int /\ wrote'[q] >= wrote[q] /\ wrote'[q] # Never
        BY <1>0, <2>2, <2>3, <2>5 DEF Punctuality
      <3>2. QED
        BY <1>0, <2>5, <3>1 DEF Punctuality
    <2>6. QED
      BY <2>1, <2>3, <2>4, <2>5 DEF Punctuality
  <1>3. ASSUME NEW h \in Handlers, Insert(h)
        PROVE  Punctuality' /\ \A q \in Phones : wrote'[q] >= wrote[q]
    <2>1. PICK e \in hooks : received' = [received EXCEPT ![e.phone] = now]
      BY <1>3 DEF Insert
    <2>2. UNCHANGED <<now, wrote, hooks>>
      BY <1>3 DEF Insert
    <2>3. /\ e.phone \in Phones /\ wrote[e.phone] # Never
          /\ now <= wrote[e.phone] + MaxDelay
      BY <1>0 DEF Punctuality
    <2>4. \A q \in Phones : received'[q] # Never => wrote[q] # Never /\ received'[q] <= wrote[q] + MaxDelay
      BY <2>1, <2>3 DEF Punctuality, ServerTypes
    <2>5. QED
      BY <1>0, <2>2, <2>4 DEF Punctuality
  <1>4. ASSUME NEW h \in Handlers, OptOut(h) \/ Acknowledge(h) \/ Fail(h)
        PROVE  Punctuality' /\ \A q \in Phones : wrote'[q] >= wrote[q]
    <2>1. UNCHANGED <<now, wrote, received>> /\ hooks' \subseteq hooks
      BY <1>4 DEF OptOut, Acknowledge, Fail, Repeated
    <2>2. QED
      BY <1>0, <2>1 DEF Punctuality
  <1>5. CASE Tick
    <2>1. UNCHANGED <<wrote, hooks, received>> /\ now' = now + 1 /\ \A e \in hooks : now - e.at < MaxDelay
      BY <1>5 DEF Tick
    <2>2. QED
      BY <1>0, <2>1 DEF Punctuality
  <1>6. QED
    BY <1>1, <1>2, <1>3, <1>4, <1>5 DEF OfCustomer, OfHandler

LEMMA WindowStep ==
  ASSUME ServerTypes, ScreenTypes, ServerTypes', WindowInv, OfCustomer \/ OfHandler \/ Tick
  PROVE  WindowInv'
  <1>1. Punctuality' /\ \A p \in Phones : wrote'[p] >= wrote[p]
    BY PunctualityStep DEF WindowInv, Punctuality
  <1>2. UNCHANGED <<loads, arrived, thread>>
    BY ServerIsQuiet DEF screen
  <1>3. \A p, t : t \in Int /\ InTime(p, t) => InTime(p, t)'
    BY <1>1, InTimeKept
  <1>4. /\ \A l \in loads : l.at \in Int
        /\ arrived.at \in Int /\ thread.at \in Int
    BY DEF ScreenTypes, Request, View
  <1>5. /\ \A l \in loads' : l.open => InTime(l.phone, l.at)'
        /\ arrived'.open => InTime(arrived.phone, arrived.at)'
        /\ thread'.open => InTime(thread.phone, thread.at)'
    BY <1>2, <1>3, <1>4 DEF WindowInv
  <1>6. QED
    BY <1>1, <1>5 DEF WindowInv, Punctuality
-----------------------------------------------------------------------------
(* The keyword.                                                            *)

LEMMA KeywordStep ==
  ASSUME ServerTypes, KeywordInv, OfCustomer \/ OfHandler \/ Tick
  PROVE  KeywordInv'
  <1>0. /\ writes \in Nat /\ \A e \in hooks : e.id \in Nat
        /\ \A h \in Handlers : handler[h].event.id \in Int /\ handler[h] \in AtHandler
        /\ \A a \in asked : a.phone \in Phones
    BY Constants DEF ServerTypes, Event, AtHandler, NoHandler
  <1>1. ASSUME NEW p \in Phones, Import(p) \/ CreateTyped(p)
        PROVE  KeywordInv'
    <2>1. /\ UNCHANGED <<hooks, handler, asked, writes>> /\ ~Found(p)
          /\ \A q \in Phones : q # p => contact'[q] = contact[q]
      BY <1>1 DEF Import, CreateTyped, Stored, Found, ServerTypes, bounds
    <2>2. \A a \in asked : a.found => contact'[a.phone] = contact[a.phone]
      BY <1>0, <2>1 DEF KeywordInv
    <2>3. QED
      BY <2>1, <2>2 DEF KeywordInv, Settled, Found, Carries
  <1>2. ASSUME NEW p \in Phones, NEW keyword \in BOOLEAN, Write(p, keyword)
        PROVE  KeywordInv'
    <2>1. PICK e : e = [id |-> writes, phone |-> p, at |-> now, keyword |-> keyword]
      OBVIOUS
    <2>2. /\ UNCHANGED <<handler, contact>> /\ writes' = writes + 1
          /\ hooks' = hooks \cup {e} /\ e.id = writes /\ e.phone = p /\ e.keyword = keyword
          /\ \A a \in asked' : a \in asked \/ (keyword /\ a = [phone |-> p, found |-> Found(p)])
      BY <1>2, <2>1 DEF Write
    <2>3. \A h \in Handlers : handler[h].event # e
      BY <1>0, <2>2 DEF KeywordInv
    <2>4. /\ \A d \in hooks' : d.id < writes'
          /\ \A h \in Handlers : handler[h].event.id < writes'
      BY <1>0, <2>2 DEF KeywordInv
    <2>5. \A q : (Found(q) => Found(q)') /\ (Settled(q) => Settled(q)')
      <3>1. \A q, d : Carries(d, q) => Carries(d, q)'
        BY <2>2 DEF Carries
      <3>2. QED
        BY <2>2, <3>1 DEF Found, Settled
    <2>6. keyword => Settled(p)'
      <3>1. keyword => Carries(e, p)'
        BY <2>2, <2>3 DEF Carries
      <3>2. QED
        BY <2>2, <3>1 DEF Settled
    <2>7. \A a \in asked' : a.found => Found(a.phone)' /\ Settled(a.phone)'
      <3>1. ASSUME NEW a \in asked, a.found
            PROVE  Found(a.phone)' /\ Settled(a.phone)'
        BY <2>5, <3>1 DEF KeywordInv
      <3>2. Found(p) => Found(p)'
        BY <2>5
      <3>3. QED
        BY <2>2, <2>6, <3>1, <3>2
    <2>8. QED
      BY <2>2, <2>4, <2>7 DEF KeywordInv
  <1>3. ASSUME NEW h \in Handlers, Insert(h)
        PROVE  KeywordInv'
    <2>1. PICK e \in hooks :
            handler' = [handler EXCEPT ![h] = [event |-> e,
              pc |-> IF e.keyword /\ contact[e.phone] = "present" THEN "optout" ELSE "ack"]]
      BY <1>3 DEF Insert
    <2>2. UNCHANGED <<hooks, contact, asked, writes>>
      BY <1>3 DEF Insert, bounds
    <2>3. /\ handler'[h].event = e /\ \A g \in Handlers : g # h => handler'[g] = handler[g]
          /\ handler'[h].pc = "ack" => ~(e.keyword /\ contact[e.phone] = "present")
      BY <2>1 DEF ServerTypes
    <2>4. ASSUME NEW p, Found(p), contact[p] # "opted_out", NEW d \in hooks, Carries(d, p)
          PROVE  Carries(d, p)'
      BY <2>3, <2>4 DEF Carries, Found
    <2>5. \A p : Found(p) /\ Settled(p) => Found(p)' /\ Settled(p)'
      BY <2>2, <2>4 DEF Settled, Found
    <2>6. (\A d \in hooks' : d.id < writes') /\ \A g \in Handlers : handler'[g].event.id < writes'
      BY <2>2, <2>3 DEF KeywordInv
    <2>7. QED
      BY <2>2, <2>5, <2>6 DEF KeywordInv
  <1>4. ASSUME NEW h \in Handlers, OptOut(h)
        PROVE  KeywordInv'
    <2>1. PICK p \in Phones : p = handler[h].event.phone
      BY <1>4 DEF OptOut, ServerTypes, Event
    <2>2. /\ UNCHANGED <<hooks, asked, writes>>
          /\ contact'[p] = "opted_out" /\ \A q \in Phones : q # p => contact'[q] = contact[q]
          /\ handler'[h].event = handler[h].event
          /\ \A g \in Handlers : g # h => handler'[g] = handler[g]
      BY <1>0, <1>4, <2>1 DEF OptOut, ServerTypes, bounds, AtHandler
    <2>3. ASSUME NEW q \in Phones, q # p, NEW d \in hooks, Carries(d, q)
          PROVE  Carries(d, q)'
      BY <2>1, <2>2, <2>3 DEF Carries
    <2>4. \A q \in Phones : Found(q) /\ Settled(q) => Found(q)' /\ Settled(q)'
      BY <2>2, <2>3 DEF Found, Settled
    <2>5. (\A d \in hooks' : d.id < writes') /\ \A g \in Handlers : handler'[g].event.id < writes'
      BY <2>2 DEF KeywordInv
    <2>6. QED
      BY <1>0, <2>2, <2>4, <2>5 DEF KeywordInv
  <1>5. ASSUME NEW h \in Handlers, Acknowledge(h) \/ Fail(h)
        PROVE  KeywordInv'
    <2>1. /\ UNCHANGED <<contact, asked, writes>> /\ handler' = [handler EXCEPT ![h] = NoHandler]
          /\ \/ handler[h].pc = "ack" /\ hooks' = hooks \ {handler[h].event}
             \/ hooks' = hooks
      BY <1>5 DEF Acknowledge, Fail, Repeated, bounds
    <2>2. /\ handler'[h].pc = "idle" /\ handler'[h].event.id = Never
          /\ \A g \in Handlers : g # h => handler'[g] = handler[g]
      BY <2>1, Constants DEF ServerTypes
    <2>3. ASSUME NEW p, NEW d \in hooks, Carries(d, p)
          PROVE  d \in hooks' /\ Carries(d, p)'
      BY <2>1, <2>2, <2>3 DEF Carries
    <2>4. \A e \in hooks' : e.id < writes
      BY <2>1 DEF KeywordInv
    <2>5. \A g \in Handlers : handler'[g].event.id < writes
      BY <1>0, <2>2, Constants DEF KeywordInv
    <2>6. QED
      BY <2>1, <2>3, <2>4, <2>5 DEF KeywordInv, Settled, Found
  <1>6. CASE Tick
    BY <1>6 DEF Tick, KeywordInv, Settled, Found, Carries, bounds
  <1>7. QED
    BY <1>1, <1>2, <1>3, <1>4, <1>5, <1>6 DEF OfCustomer, OfHandler

LEMMA KeywordQuiet ==
  ASSUME KeywordInv, UNCHANGED <<server, writes>>
  PROVE  KeywordInv'
  BY DEF KeywordInv, Settled, Found, Carries, server
-----------------------------------------------------------------------------
(* The invariants, and the theorems.                                       *)

LEMMA Stuttering ==
  ASSUME UNCHANGED vars
  PROVE  UNCHANGED <<server, screen, texts, writes>>
  BY DEF vars, bounds

\* Every variable keeps its type: events are numbered, a busy handler has one.
THEOREM TypesHold == Spec => [](ServerTypes /\ ScreenTypes)
  <1>1. ServerTypes /\ ScreenTypes /\ [Next]_vars => (ServerTypes /\ ScreenTypes)'
    <2>1. SUFFICES ASSUME ServerTypes, ScreenTypes, [Next]_vars
                   PROVE  ServerTypes' /\ ScreenTypes'
      OBVIOUS
    <2>2. CASE OfScreen
      BY <2>1, <2>2, ScreenIsQuiet, ServerTypesQuiet, ScreenTypesStep
    <2>3. CASE OfCustomer \/ OfHandler \/ Tick
      BY <2>1, <2>3, ServerTypesStep, ServerIsQuiet DEF ScreenTypes, screen
    <2>4. CASE UNCHANGED vars
      BY <2>1, <2>4, Stuttering, ServerTypesQuiet DEF ScreenTypes, screen
    <2>5. QED
      BY <2>1, <2>2, <2>3, <2>4, NextCases
  <1>2. QED
    BY <1>1, TypeInit, PTL DEF Spec

\* "evita enviar texto de A para B" (Conversas.jsx): whatever the user selects, types
\* and sends while loads are answered late, out of order or not at all, a text goes
\* to the customer it was typed for, and a thread is that of the conversation selected.
THEOREM TextsGoWhereTyped == Spec => []RightConversation
  <1>1. Init => ShownInv /\ DraftInv
    BY DEF Init, ShownInv, DraftInv, NoText
  <1>2. /\ ServerTypes /\ ScreenTypes /\ ShownInv /\ DraftInv /\ [Next]_vars
        => (ShownInv /\ DraftInv)'
    <2>1. SUFFICES ASSUME ServerTypes, ScreenTypes, ShownInv, DraftInv, [Next]_vars
                   PROVE  ShownInv' /\ DraftInv'
      OBVIOUS
    <2>2. CASE OfScreen
      BY <2>1, <2>2, ShownStep, DraftStep
    <2>3. CASE OfCustomer \/ OfHandler \/ Tick
      BY <2>1, <2>3, ServerIsQuiet DEF ShownInv, DraftInv, screen
    <2>4. CASE UNCHANGED vars
      BY <2>1, <2>4, Stuttering DEF ShownInv, DraftInv, screen
    <2>5. QED
      BY <2>1, <2>2, <2>3, <2>4, NextCases
  <1>3. ShownInv /\ DraftInv => RightConversation
    BY DEF ShownInv, DraftInv, RightConversation
  <1>4. QED
    BY <1>1, <1>2, <1>3, TypesHold, PTL DEF Spec

\* The window of 24 hours of computeWindow, against Meta's: an answer that says
\* "open" is of a customer who wrote less than a window and a delivery ago,
\* however many times his webhooks were delivered.
THEOREM WindowIsOfACustomer == Spec => []WindowFollowsCustomer
  <1>1. Init => WindowInv
    BY Constants DEF Init, WindowInv, Nothing
  <1>2. ServerTypes /\ ScreenTypes /\ ServerTypes' /\ WindowInv /\ [Next]_vars => WindowInv'
    <2>1. SUFFICES ASSUME ServerTypes, ScreenTypes, ServerTypes', WindowInv, [Next]_vars
                   PROVE  WindowInv'
      OBVIOUS
    <2>2. CASE OfScreen
      BY <2>1, <2>2, WindowScreenStep
    <2>3. CASE OfCustomer \/ OfHandler \/ Tick
      BY <2>1, <2>3, WindowStep
    <2>4. CASE UNCHANGED vars
      BY <2>1, <2>4, Stuttering DEF WindowInv, InTime, server, screen
    <2>5. QED
      BY <2>1, <2>2, <2>3, <2>4, NextCases
  <1>3. WindowInv => WindowFollowsCustomer
    BY DEF WindowInv, WindowFollowsCustomer, InTime
  <1>4. QED
    BY <1>1, <1>2, <1>3, TypesHold, PTL DEF Spec

\* handleInbound, the opt-out by keyword: of a contact that the look-up by the
\* normalized number finds, the row has opted out or Meta still delivers a message
\* with the keyword, whichever handlers fail at whichever step.
THEOREM KeywordIsKept == Spec => []KeywordIsNotLost
  <1>1. Init => KeywordInv
    BY Constants DEF Init, KeywordInv
  <1>2. ServerTypes /\ KeywordInv /\ [Next]_vars => KeywordInv'
    <2>1. SUFFICES ASSUME ServerTypes, KeywordInv, [Next]_vars
                   PROVE  KeywordInv'
      OBVIOUS
    <2>2. CASE OfScreen
      BY <2>1, <2>2, ScreenIsQuiet, KeywordQuiet
    <2>3. CASE OfCustomer \/ OfHandler \/ Tick
      BY <2>1, <2>3, KeywordStep
    <2>4. CASE UNCHANGED vars
      BY <2>1, <2>4, Stuttering, KeywordQuiet
    <2>5. QED
      BY <2>1, <2>2, <2>3, <2>4, NextCases
  <1>3. KeywordInv => KeywordIsNotLost
    BY DEF KeywordInv, KeywordIsNotLost, Settled, Kept, Carries
  <1>4. QED
    BY <1>1, <1>2, <1>3, TypesHold, PTL DEF Spec
=============================================================================
