------------------------------- MODULE Inbox -------------------------------
(***************************************************************************)
(* Conversations: what customers write (webhooks.service.ts,               *)
(* handleInbound), the window of 24 hours that it opens                    *)
(* (conversations.service.ts), and the screen that polls a conversation    *)
(* and answers with free text (Conversas.jsx, useResource.js, sendText of  *)
(* messages.service.ts).                                                   *)
(*                                                                         *)
(* Meta delivers a webhook until a handler has finished it.  A load of the *)
(* screen that is superseded is ignored when it arrives; an answer that    *)
(* arrived is rendered a moment later, after clicks that come first.       *)
(***************************************************************************)
EXTENDS Integers, FiniteSets

CONSTANTS
  Phones,       (* customers                                                *)
  Handlers,     (* webhooks handled at the same time                        *)
  Nobody,       (* no conversation                                          *)
  WindowLength, (* 24 hours                                                 *)
  MaxDelay,     (* Meta delivers a webhook within this time                 *)
  MaxTime,      (* bound: the clock                                         *)
  MaxContacts,  (* bound: contacts of the base                              *)
  MaxWrites,    (* bound: messages of customers                             *)
  MaxLoads,     (* bound: loads without answer at the same time             *)
  MaxSends,     (* bound: texts                                             *)
  MaxMishaps    (* bound: handlers that die and answers lost                *)

ASSUME InboxAssumption ==
  /\ Nobody \notin Phones
  /\ WindowLength \in Nat \ {0}
  /\ {MaxDelay, MaxTime, MaxContacts, MaxWrites, MaxLoads, MaxSends, MaxMishaps} \subseteq Nat

VARIABLES
  now,          (* the clock                                                *)
  wrote,        (* when each customer last wrote, which opens Meta's window *)
  hooks,        (* webhooks that Meta has to deliver                        *)
  handler,      (* pc and the event of each handler                         *)
  received,     (* MAX(received_at) of inbound_messages, by phone           *)
  contact,      (* contacts: absent, typed, present or opted_out            *)
  asked,        (* history: contacts who wrote a keyword, found or not      *)
  texts,        (* outbound_messages: to whom, and for whom it was typed    *)
  sel,          (* the conversation that is selected                        *)
  thread,       (* what is shown of it: the answer of a load                *)
  arrived,      (* an answer that is not rendered yet                       *)
  loads,        (* loads in progress                                        *)
  draft,        (* for whom the text in the composer was typed              *)
  sending,      (* the text that is being sent                              *)
  writes, sends, mishaps

server == <<now, wrote, hooks, handler, received, contact, asked>>
screen == <<sel, thread, arrived, loads, draft, sending>>
bounds == <<writes, sends, mishaps>>
vars   == <<server, texts, screen, bounds>>

Never     == 0 - 1
Nothing   == [phone |-> Nobody, open |-> FALSE, at |-> Never, crossed |-> FALSE]
NoHandler == [pc |-> "idle", event |-> [id |-> Never, phone |-> Nobody, at |-> Never,
                                        keyword |-> FALSE]]
NoText    == [stage |-> "none", to |-> Nobody, typedFor |-> Nobody]

Mishap == mishaps < MaxMishaps /\ mishaps' = mishaps + 1
-----------------------------------------------------------------------------
(* Customers, Meta and handleInbound.                                      *)

\* normalizeBrPhone adds the ninth digit to the sender's number, and the look-up
\* compares phone_e164: of a contact whose only row is as it was "typed", without
\* that digit, nothing is found.
Found(p) == contact[p] \in {"present", "opted_out"}

Write(p, keyword) ==
  /\ writes < MaxWrites /\ writes' = writes + 1
  /\ wrote' = [wrote EXCEPT ![p] = now]
  /\ hooks' = hooks \cup {[id |-> writes, phone |-> p, at |-> now, keyword |-> keyword]}
  /\ asked' = IF keyword /\ contact[p] # "absent"
              THEN asked \cup {[phone |-> p, found |-> Found(p)]} ELSE asked
  /\ UNCHANGED <<now, handler, received, contact, texts, screen, sends, mishaps>>

\* Each delivery is a row of its own, received now.  Only a contact that is found
\* can opt out; who becomes one after he was looked up is as one who comes later.
\* The name of his profile, which is saved before, is left out.
Insert(h) ==
  /\ handler[h].pc = "idle"
  /\ \E e \in hooks :
       /\ received' = [received EXCEPT ![e.phone] = now]
       /\ handler' = [handler EXCEPT ![h] = [event |-> e,
            pc |-> IF e.keyword /\ contact[e.phone] = "present" THEN "optout" ELSE "ack"]]
  /\ UNCHANGED <<now, wrote, hooks, contact, asked, texts, screen, bounds>>

OptOut(h) ==
  /\ handler[h].pc = "optout"
  /\ contact' = [contact EXCEPT ![handler[h].event.phone] = "opted_out"]
  /\ handler' = [handler EXCEPT ![h].pc = "ack"]
  /\ UNCHANGED <<now, wrote, hooks, received, asked, texts, screen, bounds>>

\* receive answers 200 only after process.
Acknowledge(h) ==
  /\ handler[h].pc = "ack"
  /\ hooks' = hooks \ {handler[h].event}
  /\ handler' = [handler EXCEPT ![h] = NoHandler]
  /\ UNCHANGED <<now, wrote, received, contact, asked, texts, screen, bounds>>

\* Mutant of Repeated: an error is answered with 200.
MutRepeatedNever(e) == hooks \ {e}

\* An error, a restart or a lost answer: Meta delivers once more.
Repeated(e) == hooks

Fail(h) ==
  /\ handler[h].pc # "idle" /\ Mishap
  /\ hooks' = Repeated(handler[h].event)
  /\ handler' = [handler EXCEPT ![h] = NoHandler]
  /\ UNCHANGED <<now, wrote, received, contact, asked, texts, screen, writes, sends>>

Contacts == {p \in Phones : contact[p] # "absent"}

\* A new row, or one more for somebody who has one that is not found.
Stored(p, as) ==
  /\ contact[p] = "absent" => Cardinality(Contacts) < MaxContacts
  /\ contact' = [contact EXCEPT ![p] = as]
  /\ UNCHANGED <<now, wrote, hooks, handler, received, asked, texts, screen, bounds>>

\* An import, whose spreadsheet was normalized, or contacts.create with the whole
\* number: a row that is found, next to the one that was typed if there is one.
Import(p) == ~Found(p) /\ Stored(p, "present")

\* contacts.create with a number typed without the ninth digit: normalizeBR only
\* adds the country.
CreateTyped(p) == contact[p] = "absent" /\ Stored(p, "typed")

\* Time passes, unless Meta has to deliver first.
Tick ==
  /\ now < MaxTime /\ \A e \in hooks : now - e.at < MaxDelay
  /\ now' = now + 1
  /\ UNCHANGED <<wrote, hooks, handler, received, contact, asked, texts, screen, bounds>>
-----------------------------------------------------------------------------
(* The screen: useResource, and the thread of the selected conversation.   *)

Screen == <<server, texts, bounds>>

Load(p) == [phone |-> p, alive |-> TRUE, answered |-> FALSE, open |-> FALSE, at |-> Never]

\* The effect of a new load: the one before is no longer alive.
Reload(p) == loads' = {[l EXCEPT !.alive = FALSE] : l \in loads}
                      \cup (IF p = Nobody THEN {} ELSE {Load(p)})

\* Mutant of Emptied: the draft stays when the conversation changes.
MutEmptiedNever == draft

Emptied == Nobody

\* setSel, whose effects clear thread and draft.
Select(p) ==
  /\ sel # p /\ Cardinality(loads) < MaxLoads
  /\ sel' = p /\ thread' = Nothing /\ draft' = Emptied
  /\ arrived' = IF arrived = Nothing THEN Nothing ELSE [arrived EXCEPT !.crossed = TRUE]
  /\ Reload(p)
  /\ UNCHANGED <<Screen, sending>>

\* Every five seconds.
Poll ==
  /\ sel # Nobody /\ Cardinality(loads) < MaxLoads
  /\ Reload(sel)
  /\ UNCHANGED <<Screen, sel, thread, arrived, draft, sending>>

\* Mutant of Open: once written, for ever.
MutOpenForever(p) == received[p] # Never

\* computeWindow.
Open(p) == received[p] # Never /\ received[p] + WindowLength > now

\* thread, of the service; the instant of a refusal is of no use.
Serve(l) ==
  /\ ~l.answered
  /\ loads' = (loads \ {l}) \cup
       {[l EXCEPT !.answered = TRUE, !.open = Open(l.phone),
                  !.at = IF Open(l.phone) THEN now ELSE Never]}
  /\ UNCHANGED <<Screen, sel, thread, arrived, draft, sending>>

\* Mutant of Alive: whatever arrives is taken.
MutAliveAlways(l) == TRUE

Alive(l) == l.alive

Arrive(l) ==
  /\ l.answered
  /\ loads' = loads \ {l}
  /\ arrived' = IF Alive(l) THEN [phone |-> l.phone, open |-> l.open, at |-> l.at, crossed |-> FALSE]
                ELSE arrived
  /\ UNCHANGED <<Screen, sel, thread, draft, sending>>

LoseLoad(l) ==
  /\ Mishap /\ loads' = loads \ {l}
  /\ UNCHANGED <<server, texts, writes, sends, sel, thread, arrived, draft, sending>>

\* The effect on threadRes.data.
Render ==
  /\ arrived # Nothing
  /\ thread' = arrived /\ arrived' = Nothing
  /\ UNCHANGED <<Screen, sel, loads, draft, sending>>
-----------------------------------------------------------------------------
(* The composer, which is there while the thread says that the window is    *)
(* open, and sendText.                                                      *)

Composer == sel # Nobody /\ thread.open

Type ==
  /\ Composer /\ draft = Nobody
  /\ draft' = sel
  /\ UNCHANGED <<Screen, sel, thread, arrived, loads, sending>>

Enviar ==
  /\ Composer /\ draft # Nobody /\ sending = NoText
  /\ sends < MaxSends /\ sends' = sends + 1
  /\ sending' = [stage |-> "asked", to |-> sel, typedFor |-> draft]
  /\ UNCHANGED <<server, texts, writes, mishaps, sel, thread, arrived, loads, draft>>

\* The window is Meta's to check.
SendText ==
  /\ sending.stage = "asked"
  /\ IF contact[sending.to] = "opted_out"
     THEN sending' = [sending EXCEPT !.stage = "error"] /\ UNCHANGED texts
     ELSE /\ sending' = [sending EXCEPT !.stage = "queued"]
          /\ texts' = texts \cup {[to |-> sending.to, typedFor |-> sending.typedFor]}
  /\ UNCHANGED <<server, bounds, sel, thread, arrived, loads, draft>>

\* The answer empties the composer, whatever is in it by now, and loads again.
Sent ==
  /\ sending.stage \in {"queued", "error"}
  /\ IF sending.stage = "queued"
     THEN Cardinality(loads) < MaxLoads /\ draft' = Emptied /\ Reload(sel)
     ELSE UNCHANGED <<draft, loads>>
  /\ sending' = NoText
  /\ UNCHANGED <<Screen, sel, thread, arrived>>

LoseText ==
  /\ sending # NoText /\ Mishap
  /\ sending' = NoText
  /\ UNCHANGED <<server, texts, writes, sends, sel, thread, arrived, loads, draft>>
-----------------------------------------------------------------------------
Init ==
  /\ now = 0
  /\ wrote = [p \in Phones |-> Never] /\ received = [p \in Phones |-> Never]
  /\ hooks = {} /\ handler = [h \in Handlers |-> NoHandler]
  /\ contact \in [Phones -> {"absent", "typed", "present"}]
  /\ Cardinality(Contacts) <= MaxContacts
  /\ asked = {} /\ texts = {} /\ sel = Nobody /\ thread = Nothing /\ arrived = Nothing
  /\ loads = {} /\ draft = Nobody /\ sending = NoText
  /\ writes = 0 /\ sends = 0 /\ mishaps = 0

Next ==
  \/ \E p \in Phones : Import(p) \/ CreateTyped(p) \/ Select(p) \/ \E keyword \in BOOLEAN : Write(p, keyword)
  \/ \E h \in Handlers : Insert(h) \/ OptOut(h) \/ Acknowledge(h) \/ Fail(h)
  \/ \E l \in loads : Serve(l) \/ Arrive(l) \/ LoseLoad(l)
  \/ Tick \/ Select(Nobody) \/ Poll \/ Render \/ Type \/ Enviar \/ SendText \/ Sent \/ LoseText

Spec == Init /\ [][Next]_vars
-----------------------------------------------------------------------------
(* Properties.                                                             *)

\* "evita enviar texto de A para B": a text goes to the customer it was typed
\* for, and the thread that is shown is that of the selected conversation,
\* unless its answer had arrived and was to be rendered when the user switched.
RightConversation ==
  /\ \A m \in texts : m.to = m.typedFor
  /\ thread # Nothing /\ ~thread.crossed => thread.phone = sel

\* A window that the screen shows as open is that of a customer who wrote, and
\* it closed at Meta no longer before the answer than webhooks may be late,
\* however often they are repeated.
WindowFollowsCustomer ==
  thread.open =>
    /\ wrote[thread.phone] # Never
    /\ thread.at < wrote[thread.phone] + WindowLength + MaxDelay

\* Opted out, or to be: Meta still has to deliver a message with the keyword.
Kept(p) == contact[p] = "opted_out" \/ \E e \in hooks : e.phone = p /\ e.keyword

\* The keyword of a contact whose row has the phone that the webhook looks up takes
\* effect, whatever handlers fail after they have recorded the message.
KeywordIsNotLost == \A a \in asked : a.found => Kept(a.phone)

\* What the comment of phone.util.ts says: inbound messages, contacts and sends use
\* the same format.  Then the keyword of every contact would take effect.
OneFormat == \A a \in asked : Kept(a.phone)
=============================================================================
