----------------------------- MODULE Dispatcher -----------------------------
(***************************************************************************)
(* The dispatcher of services/dispatcher: replicas of one Go process, each *)
(* with several workers and one reaper, that consume the table             *)
(* outbound_messages, POST every message to Meta and record the outcome.   *)
(*                                                                         *)
(* What the replicas share is the database: the rows of outbound_messages  *)
(* and paused_until of whatsapp_channels.  Every SQL statement of          *)
(* internal/store/store.go is one atomic step; between two statements any  *)
(* other worker, reaper, signal or crash may act.                          *)
(*                                                                         *)
(* Time is discrete and relative: a row keeps the age of its locked_at and *)
(* the time left until next_attempt_at, a worker the time since it last    *)
(* re-stamped its batch, and Tick advances them all together.              *)
(***************************************************************************)
EXTENDS Integers, FiniteSets

CONSTANTS
  Msgs,           (* rows of outbound_messages                              *)
  Channels,       (* rows of whatsapp_channels                              *)
  channelOf,      (* channel_id of each message                             *)
  Workers,        (* worker ids "<instance>-w<i>", one per incarnation      *)
  Replicas,       (* dispatcher processes                                   *)
  replicaOf,      (* the process each worker is a goroutine of              *)
  Stable,         (* replicas that are neither signalled nor killed         *)
  Nobody,         (* locked_by IS NULL                                      *)
  NoMsg,          (* a worker that is not handling any message              *)
  BatchSize,      (* cfg.BatchSize                                          *)
  MaxAttempts,    (* max_attempts of every message                          *)
  RenewAfter,     (* limiarRenovacao(): StuckAfterSecs / 3                  *)
  MaxStep,        (* longest time between two passed renewal checks         *)
  StuckAfter,     (* cfg.StuckAfterSecs                                     *)
  PauseRateLimit, (* cfg.PauseRateLimitSecs                                 *)
  PauseAuth,      (* cfg.PauseAuthSecs                                      *)
  MaxBackoff,     (* backoffSecs() returns between 1 and MaxBackoff ticks   *)
  Punctual,       (* TRUE: live workers keep to MaxStep                     *)
  MaxClaims,      (* bound: a row is claimed at most up to this attempts    *)
  MaxDbFailures,  (* bound: how many statements may fail                    *)
  MaxBlocks       (* bound: how many answers may block a channel            *)

(***************************************************************************)
(* What the code and its configuration guarantee about the parameters.     *)
(* The last conjunct is the comment of internal/config/config.go: the      *)
(* reaper's threshold exceeds the worst legitimate send.                   *)
(***************************************************************************)
ASSUME ConstantsAssumption ==
  /\ channelOf \in [Msgs -> Channels]
  /\ replicaOf \in [Workers -> Replicas]
  /\ Stable \subseteq Replicas
  /\ Nobody \notin Workers
  /\ NoMsg \notin Msgs
  /\ BatchSize \in Nat \ {0}
  /\ MaxAttempts \in Nat \ {0}
  /\ MaxBackoff \in Nat \ {0}
  /\ PauseRateLimit \in Nat \ {0}
  /\ PauseAuth \in Nat \ {0}
  /\ Punctual \in BOOLEAN
  /\ MaxClaims \in Nat
  /\ MaxDbFailures \in Nat
  /\ MaxBlocks \in Nat
  /\ RenewAfter \in Nat
  /\ MaxStep \in Nat
  /\ StuckAfter \in Nat
  /\ RenewAfter + MaxStep <= StuckAfter

VARIABLES
  \* outbound_messages
  status,        (* status                                                  *)
  attempts,      (* attempts                                                *)
  lockedBy,      (* locked_by                                               *)
  age,           (* now() - locked_at, while status = 'sending'             *)
  wait,          (* next_attempt_at - now(), while status = 'queued'        *)
  \* whatsapp_channels
  pausedFor,     (* paused_until - now()                                    *)
  \* one worker goroutine
  pc,            (* where it is                                             *)
  batch,         (* msgs[i:] of processarLote: not yet visited              *)
  cur,           (* the message in process()                                *)
  answer,        (* class of Meta's answer for cur                          *)
  pausados,      (* channels that paused during this batch                  *)
  perdidas,      (* messages of the batch that are no longer its own        *)
  sinceRenewal,  (* time since renovarApos was last set                     *)
  step,          (* time since it last passed the renewal check             *)
  until,         (* pausadoAte - now(), between the two statements of a pause *)
  \* one process
  ctx,           (* "alive", "cancelled" by SIGTERM, or "dead"              *)
  reaper,        (* "idle" or "between" the two statements of ReapStale     *)
  \* history, for the properties only
  counted,       (* increments of sent_count / failed_count on its behalf   *)
  accepted,      (* acceptances by Meta whose answer was not lost since     *)
  spent,         (* POSTs that Meta did not refuse for the channel          *)
  torn,          (* claims whose answer a SIGTERM cancelled                 *)
  orphans,       (* rows in 'sending' whose holder could not write them     *)
  \* bounds
  dbFailures, blocks

rows    == <<status, attempts, lockedBy, age, wait>>
local   == <<batch, pausados, perdidas, sinceRenewal, step>>
current == <<cur, answer, until>>
process == <<ctx, reaper>>
history == <<counted, accepted, spent, torn, orphans>>
bounds  == <<dbFailures, blocks>>
vars    == <<rows, pausedFor, pc, local, current, process, history, bounds>>

Final   == {"sent", "failed"}
Status  == {"queued", "sending"} \cup Final
Answers == {"none", "ok", "transient", "permanent", "rate_limit", "auth",
            "lookup_error"}
Blocking == {"rate_limit", "auth"}
PCs     == {"loop", "batch", "process", "outcome", "count", "push",
            "release", "return_channel", "return_batch", "stopped"}

Smaller(a, b) == IF a < b THEN a ELSE b
Larger(a, b)  == IF a < b THEN b ELSE a
Minus1(n)     == IF n > 0 THEN n - 1 ELSE 0
-----------------------------------------------------------------------------
(* Statements of internal/store/store.go, as sets of affected rows.        *)

\* Mutant of Own: the UPDATE only says `WHERE id = ANY($2)`.
MutOwnUnguarded(S, w) == S

\* Mutant of Own: the UPDATE forgets locked_by.
MutOwnAnyHolder(S, w) == {m \in S : status[m] = "sending"}

\* The guard `id = ANY($2) AND locked_by = $1 AND status = 'sending'`.
Own(S, w) == {m \in S : status[m] = "sending" /\ lockedBy[m] = w}

\* Mutant of Stale: the reaper only looks at exhausted rows.
MutStaleExhausted(m) ==
  status[m] = "sending" /\ age[m] > StuckAfter /\ attempts[m] >= MaxAttempts

\* Mutant of Stale: locked_at is not looked at.
MutStaleAnyAge(m) == status[m] = "sending"

\* `status = 'sending' AND locked_at < now() - interval`.
Stale(m) == status[m] = "sending" /\ age[m] > StuckAfter

\* The rows the inner SELECT of ClaimBatch may lock.
Ready(m) ==
  /\ status[m] = "queued"
  /\ wait[m] = 0
  /\ pausedFor[channelOf[m]] = 0

\* `attempts = attempts + 1`.
Claimed(n) == n + 1

\* The UPDATE of ClaimBatch: SKIP LOCKED and LIMIT leave any non-empty part
\* of the ready rows.
Lock(S, w) ==
  /\ S \subseteq {m \in Msgs : Ready(m) /\ attempts[m] < MaxClaims}
  /\ S # {}
  /\ Cardinality(S) <= BatchSize
  /\ status'   = [m \in Msgs |-> IF m \in S THEN "sending" ELSE status[m]]
  /\ attempts' = [m \in Msgs |-> IF m \in S THEN Claimed(attempts[m]) ELSE attempts[m]]
  /\ lockedBy' = [m \in Msgs |-> IF m \in S THEN w ELSE lockedBy[m]]
  /\ age'      = [m \in Msgs |-> IF m \in S THEN 0 ELSE age[m]]
  /\ wait'     = wait

\* Every statement that ends a possession: new status, no holder, and the
\* delay until the next attempt.
Unlock(E, st, delay) ==
  /\ status'   = [m \in Msgs |-> IF m \in E THEN st ELSE status[m]]
  /\ lockedBy' = [m \in Msgs |-> IF m \in E THEN Nobody ELSE lockedBy[m]]
  /\ age'      = [m \in Msgs |-> IF m \in E THEN 0 ELSE age[m]]
  /\ wait'     = [m \in Msgs |-> IF m \in E THEN delay ELSE wait[m]]

\* Mutant of Undone: the row goes back with its attempt consumed.
MutUndoneKept(n) == n

\* `attempts = GREATEST(attempts - 1, 0)`.
Undone(n) == Minus1(n)

\* ReleaseBatch: back to the queue, and the attempt is undone.
ReleaseBatch(S, w) ==
  LET E == Own(S, w) IN
  /\ Unlock(E, "queued", 0)
  /\ attempts' = [m \in Msgs |-> IF m \in E THEN Undone(attempts[m]) ELSE attempts[m]]
  /\ orphans'  = orphans \ E

DbOk    == UNCHANGED dbFailures
DbFails == /\ dbFailures < MaxDbFailures
           /\ dbFailures' = dbFailures + 1

\* A statement that fails leaves the rows of S as they were: nobody will
\* write those that are still w's.
Abandon(S, w) == /\ orphans' = orphans \cup Own(S, w)
                 /\ UNCHANGED rows

\* devolver(): an error is only logged, the reaper recovers the rows.
Devolver(S, w) ==
  \/ DbOk /\ ReleaseBatch(S, w)
  \/ S # {} /\ DbFails /\ Abandon(S, w)

-----------------------------------------------------------------------------
(* The worker goroutine, internal/worker/worker.go.                        *)

Alive(w)     == ctx[replicaOf[w]] # "dead"
Running(w)   == ctx[replicaOf[w]] = "alive"
Cancelled(w) == ctx[replicaOf[w]] = "cancelled"
Busy(w)      == pc[w] \notin {"loop", "stopped"}

Goto(w, l) == pc' = [pc EXCEPT ![w] = l]

\* Leaving the current message, for the next iteration of processarLote.
NextIteration(w) ==
  /\ Goto(w, "batch")
  /\ cur'    = [cur EXCEPT ![w] = NoMsg]
  /\ answer' = [answer EXCEPT ![w] = "none"]
  /\ until'  = [until EXCEPT ![w] = 0]

\* The local state of processarLote: set up for the batch S, or gone.
SetBatch(w, S) ==
  /\ batch'        = [batch EXCEPT ![w] = S]
  /\ pausados'     = [pausados EXCEPT ![w] = {}]
  /\ perdidas'     = [perdidas EXCEPT ![w] = {}]
  /\ sinceRenewal' = [sinceRenewal EXCEPT ![w] = 0]
  /\ step'         = [step EXCEPT ![w] = 0]

ClaimBatch(w) ==
  /\ pc[w] = "loop" /\ Running(w)
  /\ \E S \in SUBSET Msgs : Lock(S, w) /\ SetBatch(w, S)
  /\ Goto(w, "batch")
  /\ UNCHANGED <<pausedFor, current, process, history, bounds>>

\* The UPDATE of ClaimBatch commits but its answer is lost, because the
\* connection failed or because SIGTERM cancelled the query: the worker
\* never learns of the rows it now holds.  No ReleaseBatch undoes their
\* attempt; the reaper returns the rows with it consumed.
ClaimLost(w) ==
  /\ pc[w] = "loop"
  /\ \E S \in SUBSET Msgs :
       /\ Lock(S, w)
       /\ orphans' = orphans \cup S
       /\ \/ Running(w) /\ DbFails /\ UNCHANGED <<pc, torn>>
          \/ /\ Cancelled(w) /\ DbOk
             /\ Goto(w, "stopped")
             /\ torn' = [m \in Msgs |-> IF m \in S THEN torn[m] + 1 ELSE torn[m]]
  /\ UNCHANGED <<pausedFor, local, current, process, counted, accepted, spent, blocks>>

\* Mutant of Stop: the error of the cancelled query is taken for a passing
\* one, and the loop sleeps and tries again.
MutStopNever(w) == FALSE

Stop(w) ==
  /\ pc[w] = "loop" /\ Cancelled(w)
  /\ Goto(w, "stopped")
  /\ UNCHANGED <<rows, pausedFor, local, current, process, history, bounds>>

\* Messages of the batch that the loop of processarLote does not skip.
Pending(w) == {m \in batch[w] : m \notin perdidas[w] /\ channelOf[m] \notin pausados[w]}

\* Mutant of RenewDue: the batch keeps the stamp of its claim.
MutRenewNever(w) == FALSE

RenewDue(w) == sinceRenewal[w] > RenewAfter

Skip(w) ==
  /\ pc[w] = "batch" /\ Running(w)
  /\ \E m \in batch[w] \ Pending(w) : batch' = [batch EXCEPT ![w] = @ \ {m}]
  /\ UNCHANGED <<rows, pausedFor, pc, pausados, perdidas, sinceRenewal, step,
                 current, process, history, bounds>>

\* Mutant of Unsent: the POST runs under the cancellable context, so a
\* SIGTERM also gives up on a message that is already with Meta.
MutUnsentPosted(w) ==
  CASE pc[w] = "batch" -> batch[w]
    [] pc[w] \in {"process", "outcome"} -> batch[w] \cup {cur[w]}
    [] OTHER -> {}

\* msgs[i:] where the loop may give up: nothing of it is with Meta yet.
Unsent(w) ==
  CASE pc[w] = "batch" -> batch[w]
    [] pc[w] = "process" -> batch[w] \cup {cur[w]}
    [] OTHER -> {}

\* ctx.Err() != nil at the top of an iteration, or inside process() before
\* the POST: everything not sent yet goes back, the current message included.
Interrupted(w) ==
  /\ Cancelled(w)
  /\ Unsent(w) # {} /\ Devolver(Unsent(w), w)
  /\ SetBatch(w, {})
  /\ Goto(w, "stopped")
  /\ cur' = [cur EXCEPT ![w] = NoMsg]
  /\ UNCHANGED <<pausedFor, answer, until, process, counted, accepted, spent, torn, blocks>>

BatchDone(w) ==
  /\ pc[w] = "batch" /\ Alive(w) /\ batch[w] = {}
  /\ SetBatch(w, {})
  /\ Goto(w, "loop")
  /\ UNCHANGED <<rows, pausedFor, current, process, history, bounds>>

Start(w) ==
  /\ pc[w] = "batch" /\ Running(w) /\ ~RenewDue(w)
  /\ \E m \in Pending(w) :
       /\ batch' = [batch EXCEPT ![w] = @ \ {m}]
       /\ cur'   = [cur EXCEPT ![w] = m]
  /\ step' = [step EXCEPT ![w] = 0]
  /\ Goto(w, "process")
  /\ UNCHANGED <<rows, pausedFor, pausados, perdidas, sinceRenewal, answer,
                 until, process, history, bounds>>

\* renovarPosse(): RenovarPosse re-stamps what is still this worker's, and
\* what it does not return is lost.  The iteration goes on with m if m survived.
RenewAndStart(w) ==
  /\ pc[w] = "batch" /\ Running(w) /\ RenewDue(w)
  /\ \E m \in Pending(w) :
       LET asked    == batch[w] \ perdidas[w]
           survived == Own(asked, w) IN
       /\ age' = [n \in Msgs |-> IF n \in survived THEN 0 ELSE age[n]]
       /\ perdidas' = [perdidas EXCEPT ![w] = @ \cup (asked \ survived)]
       /\ batch' = [batch EXCEPT ![w] = @ \ {m}]
       /\ IF m \in survived
          THEN Goto(w, "process") /\ cur' = [cur EXCEPT ![w] = m]
          ELSE UNCHANGED <<pc, cur>>
  /\ sinceRenewal' = [sinceRenewal EXCEPT ![w] = 0]
  /\ step' = [step EXCEPT ![w] = 0]
  /\ UNCHANGED <<status, attempts, lockedBy, wait, pausedFor, pausados, answer,
                 until, process, history, bounds>>

\* The renewal fails, with or without having been applied: everything left
\* counts as lost and is returned to the queue.
RenewFails(w) ==
  /\ pc[w] = "batch" /\ RenewDue(w) /\ Pending(w) # {}
  /\ \/ Running(w) /\ DbFails
     \/ Cancelled(w) /\ DbOk  \* SIGTERM while the query is in flight
  /\ LET mine == Own(batch[w] \ perdidas[w], w) IN
     /\ \/ UNCHANGED age
        \/ age' = [m \in Msgs |-> IF m \in mine THEN 0 ELSE age[m]]
     /\ orphans' = orphans \cup mine
  /\ perdidas' = [perdidas EXCEPT ![w] = @ \cup batch[w]]
  /\ sinceRenewal' = [sinceRenewal EXCEPT ![w] = 0]
  /\ Goto(w, "return_batch")
  /\ UNCHANGED <<status, attempts, lockedBy, wait, pausedFor, batch, pausados, step,
                 current, process, counted, accepted, spent, torn, blocks>>

ReturnBatch(w) ==
  /\ pc[w] = "return_batch" /\ Alive(w)
  /\ Devolver(batch[w], w)
  /\ Goto(w, "batch")
  /\ UNCHANGED <<pausedFor, local, current, process, counted, accepted, spent, torn, blocks>>

-----------------------------------------------------------------------------
(* process(): one message.                                                 *)

Answered(w, a) ==
  /\ answer' = [answer EXCEPT ![w] = a]
  /\ Goto(w, "outcome")

\* The channel cannot be used: no row or no token is a permanent failure of
\* the message, a failing read only postpones it.
ChannelUnusable(w) ==
  /\ pc[w] = "process" /\ Alive(w)
  /\ \/ Answered(w, "permanent") /\ DbOk
     \/ Running(w) /\ Answered(w, "lookup_error") /\ DbFails
  /\ UNCHANGED <<rows, pausedFor, local, cur, until, process, history, blocks>>

\* The POST and its classification.  It does not look at ctx: after the last
\* check a SIGTERM no longer stops it.  A timeout is "transient" whether or
\* not Meta accepted the message; only an acceptance whose answer arrives is
\* counted in `accepted`.
Post(w) ==
  /\ pc[w] = "process" /\ Alive(w)
  /\ \E a \in Answers \ {"none", "lookup_error"} :
       /\ Answered(w, a)
       /\ IF a \in Blocking
          THEN blocks < MaxBlocks /\ blocks' = blocks + 1
          ELSE UNCHANGED blocks
       /\ accepted' = IF a = "ok" THEN [accepted EXCEPT ![cur[w]] = @ + 1] ELSE accepted
       /\ spent' = IF a \in Blocking THEN spent ELSE [spent EXCEPT ![cur[w]] = @ + 1]
  /\ UNCHANGED <<rows, pausedFor, local, cur, until, process, counted, torn, orphans,
                 dbFailures>>

Outcome(w) == pc[w] = "outcome" /\ Alive(w)

GivesUp(w) ==
  \/ answer[w] = "permanent"
  \/ answer[w] = "transient" /\ attempts[cur[w]] >= MaxAttempts

\* Mutant of Recorded: RowsAffected is not looked at.
MutRecordedAlways(w) == TRUE

\* RowsAffected() = 1; otherwise ErrPosseperdida.
Recorded(w) == Own({cur[w]}, w) # {}

\* The guarded UPDATE of MarkSent and MarkFailed, then the counter.  When
\* only the answer of the UPDATE fails, the counter is skipped.
Finish(w, st) ==
  /\ \/ DbOk /\ IF Recorded(w) THEN Goto(w, "count") /\ UNCHANGED current
                                ELSE NextIteration(w)
     \/ Recorded(w) /\ DbFails /\ NextIteration(w)
  /\ Unlock(Own({cur[w]}, w), st, 0)
  /\ UNCHANGED <<attempts, orphans>>

\* MarkSent.  When its UPDATE fails, the fact that Meta accepted is lost.
MarkSent(w) ==
  /\ Outcome(w) /\ answer[w] = "ok"
  /\ \/ Finish(w, "sent") /\ UNCHANGED accepted
     \/ /\ DbFails /\ Abandon({cur[w]}, w)
        /\ NextIteration(w)
        /\ accepted' = [accepted EXCEPT ![cur[w]] = Minus1(@)]
  /\ UNCHANGED <<pausedFor, local, process, counted, spent, torn, blocks>>

\* MarkFailed: permanent errors, and transient ones with no attempts left.
MarkFailed(w) ==
  /\ Outcome(w) /\ GivesUp(w)
  /\ \/ Finish(w, "failed")
     \/ DbFails /\ Abandon({cur[w]}, w) /\ NextIteration(w)
  /\ UNCHANGED <<pausedFor, local, process, counted, accepted, spent, torn, blocks>>

\* The second statement of MarkSent and MarkFailed; its error is ignored.
Count(w) ==
  /\ pc[w] = "count" /\ Alive(w)
  /\ \/ DbOk /\ counted' = [counted EXCEPT ![cur[w]] = @ + 1]
     \/ DbFails /\ UNCHANGED counted
  /\ NextIteration(w)
  /\ UNCHANGED <<rows, pausedFor, local, process, accepted, spent, torn, orphans,
                 blocks>>

\* Reschedule: transient errors while attempts are left, and failed channel
\* reads whatever the attempts.
Reschedule(w) ==
  /\ Outcome(w)
  /\ \/ answer[w] = "transient" /\ attempts[cur[w]] < MaxAttempts
     \/ answer[w] = "lookup_error"
  /\ \/ /\ DbOk
        /\ \E d \in 1..MaxBackoff : Unlock(Own({cur[w]}, w), "queued", d)
        /\ UNCHANGED <<attempts, orphans>>
     \/ DbFails /\ Abandon({cur[w]}, w)
  /\ NextIteration(w)
  /\ UNCHANGED <<pausedFor, local, process, counted, accepted, spent, torn, blocks>>

(***************************************************************************)
(* pausarCanal(): the pause and its commit, then, only for the first pause, *)
(* the postponement of the queued messages, then the return of the current  *)
(* message and of the rest of the channel's messages in the batch.          *)
(***************************************************************************)
PauseChannel(w) ==
  LET c    == channelOf[cur[w]]
      secs == IF answer[w] = "auth" THEN PauseAuth ELSE PauseRateLimit
      ate  == Larger(pausedFor[c], secs)
      Pause == pausedFor' = [pausedFor EXCEPT ![c] = ate] IN
  /\ Outcome(w) /\ answer[w] \in Blocking
  /\ \/ /\ DbOk /\ Pause
        /\ IF pausedFor[c] > 0
           THEN Goto(w, "release") /\ UNCHANGED until
           ELSE Goto(w, "push") /\ until' = [until EXCEPT ![w] = ate]
     \/ /\ DbFails
        /\ Pause \/ UNCHANGED pausedFor
        /\ Goto(w, "release")
        /\ UNCHANGED until
  /\ UNCHANGED <<rows, local, cur, answer, process, history, blocks>>

\* adiarMensagensDoCanal
PushQueued(w) ==
  /\ pc[w] = "push" /\ Alive(w)
  /\ \/ /\ DbOk
        /\ wait' = [m \in Msgs |->
             IF status[m] = "queued" /\ channelOf[m] = channelOf[cur[w]]
             THEN Larger(wait[m], until[w]) ELSE wait[m]]
     \/ DbFails /\ UNCHANGED wait
  /\ Goto(w, "release")
  /\ until' = [until EXCEPT ![w] = 0]
  /\ UNCHANGED <<status, attempts, lockedBy, age, pausedFor, local, cur, answer,
                 process, history, blocks>>

\* Mutant of RestOfChannel: only the message that failed goes back.
MutRestOfChannelNone(w, c) == {}

\* restantesDoCanal
RestOfChannel(w, c) == {m \in batch[w] : channelOf[m] = c}

ReleaseCurrent(w) ==
  /\ pc[w] = "release" /\ Alive(w)
  /\ Devolver({cur[w]}, w)
  /\ pausados' = [pausados EXCEPT ![w] = @ \cup {channelOf[cur[w]]}]
  /\ Goto(w, "return_channel")
  /\ UNCHANGED <<pausedFor, batch, perdidas, sinceRenewal, step, current,
                 process, counted, accepted, spent, torn, blocks>>

ReturnChannel(w) ==
  /\ pc[w] = "return_channel" /\ Alive(w)
  /\ Devolver(RestOfChannel(w, channelOf[cur[w]]), w)
  /\ NextIteration(w)
  /\ UNCHANGED <<pausedFor, local, process, counted, accepted, spent, torn, blocks>>

WorkerStep(w) ==
  \/ ClaimBatch(w) \/ ClaimLost(w) \/ Stop(w)
  \/ Skip(w) \/ Interrupted(w) \/ BatchDone(w)
  \/ Start(w) \/ RenewAndStart(w) \/ RenewFails(w) \/ ReturnBatch(w)
  \/ ChannelUnusable(w) \/ Post(w)
  \/ MarkSent(w) \/ MarkFailed(w) \/ Count(w) \/ Reschedule(w)
  \/ PauseChannel(w) \/ PushQueued(w) \/ ReleaseCurrent(w) \/ ReturnChannel(w)
-----------------------------------------------------------------------------
(* The reaper goroutine of a replica: the two statements of ReapStale.     *)

ReapExhausted(r) ==
  /\ ctx[r] = "alive" /\ reaper[r] = "idle"
  /\ LET mortas == {m \in Msgs : Stale(m) /\ attempts[m] >= MaxAttempts} IN
     /\ Unlock(mortas, "failed", 0)
     /\ counted' = [m \in Msgs |-> IF m \in mortas THEN counted[m] + 1 ELSE counted[m]]
     /\ orphans' = orphans \ mortas
  /\ reaper' = [reaper EXCEPT ![r] = "between"]
  /\ UNCHANGED <<attempts, pausedFor, pc, local, current, ctx, accepted, spent, torn,
                 bounds>>

ReapRest(r) ==
  /\ ctx[r] = "alive" /\ reaper[r] = "between"
  /\ LET devolvidas == {m \in Msgs : Stale(m)} IN
     /\ Unlock(devolvidas, "queued", 0)
     /\ orphans' = orphans \ devolvidas
  /\ reaper' = [reaper EXCEPT ![r] = "idle"]
  /\ UNCHANGED <<attempts, pausedFor, pc, local, current, ctx, counted, accepted, spent,
                 torn, bounds>>

\* The second statement fails; the next tick of the reaper starts over.
ReapFails(r) ==
  /\ ctx[r] = "alive" /\ reaper[r] = "between"
  /\ DbFails
  /\ reaper' = [reaper EXCEPT ![r] = "idle"]
  /\ UNCHANGED <<rows, pausedFor, pc, local, current, ctx, history, blocks>>

ReaperStep(r) == ReapExhausted(r) \/ ReapRest(r) \/ ReapFails(r)
-----------------------------------------------------------------------------
(* The environment: signals, crashes, time.                                *)

\* cmd/dispatcher/main.go: SIGTERM cancels the context of the process.
Sigterm(r) ==
  /\ r \notin Stable /\ ctx[r] = "alive"
  /\ ctx' = [ctx EXCEPT ![r] = "cancelled"]
  /\ UNCHANGED <<rows, pausedFor, pc, local, current, reaper, history, bounds>>

\* OOM, SIGKILL, loss of the machine.  An acceptance nobody recorded is lost.
Crash(r) ==
  /\ r \notin Stable /\ ctx[r] # "dead"
  /\ \E w \in Workers : replicaOf[w] = r /\ pc[w] # "stopped"
  /\ ctx' = [ctx EXCEPT ![r] = "dead"]
  /\ accepted' = [m \in Msgs |->
       IF \E w \in Workers : /\ replicaOf[w] = r
                             /\ pc[w] = "outcome" /\ answer[w] = "ok" /\ cur[w] = m
       THEN Minus1(accepted[m]) ELSE accepted[m]]
  /\ UNCHANGED <<rows, pausedFor, pc, local, current, reaper, counted, spent, torn,
                 orphans, bounds>>

\* Ages saturate just above the threshold they are compared with.
Aged(n) == Smaller(n + 1, StuckAfter + 1)

Ticking(w) == Alive(w) /\ Busy(w)

Tick ==
  /\ Punctual => \A w \in Workers : Ticking(w) => step[w] < MaxStep
  /\ age'  = [m \in Msgs |-> IF status[m] = "sending" THEN Aged(age[m]) ELSE age[m]]
  /\ wait' = [m \in Msgs |-> Minus1(wait[m])]
  /\ pausedFor'    = [c \in Channels |-> Minus1(pausedFor[c])]
  /\ sinceRenewal' = [w \in Workers |-> IF Ticking(w) THEN Aged(sinceRenewal[w])
                                                      ELSE sinceRenewal[w]]
  /\ step'  = [w \in Workers |-> IF Ticking(w) THEN Smaller(step[w] + 1, MaxStep)
                                               ELSE step[w]]
  /\ until' = [w \in Workers |-> IF Alive(w) THEN Minus1(until[w]) ELSE until[w]]
  /\ UNCHANGED <<status, attempts, lockedBy, pc, batch, cur, answer, pausados,
                 perdidas, process, history, bounds>>

Init ==
  /\ status   = [m \in Msgs |-> "queued"]
  /\ attempts = [m \in Msgs |-> 0]
  /\ lockedBy = [m \in Msgs |-> Nobody]
  /\ age      = [m \in Msgs |-> 0]
  /\ wait     = [m \in Msgs |-> 0]
  /\ pausedFor = [c \in Channels |-> 0]
  /\ pc       = [w \in Workers |-> "loop"]
  /\ batch    = [w \in Workers |-> {}]
  /\ cur      = [w \in Workers |-> NoMsg]
  /\ answer   = [w \in Workers |-> "none"]
  /\ pausados = [w \in Workers |-> {}]
  /\ perdidas = [w \in Workers |-> {}]
  /\ sinceRenewal = [w \in Workers |-> 0]
  /\ step     = [w \in Workers |-> 0]
  /\ until    = [w \in Workers |-> 0]
  /\ ctx      = [r \in Replicas |-> "alive"]
  /\ reaper   = [r \in Replicas |-> "idle"]
  /\ counted  = [m \in Msgs |-> 0]
  /\ accepted = [m \in Msgs |-> 0]
  /\ spent    = [m \in Msgs |-> 0]
  /\ torn     = [m \in Msgs |-> 0]
  /\ orphans  = {}
  /\ dbFailures = 0
  /\ blocks   = 0

Next ==
  \/ \E w \in Workers : WorkerStep(w)
  \/ \E r \in Replicas : ReaperStep(r) \/ Sigterm(r) \/ Crash(r)
  \/ Tick

Spec == Init /\ [][Next]_vars

(***************************************************************************)
(* Scheduling: the Go runtime keeps running the goroutines of a live        *)
(* process, the reaper's ticker keeps firing, and time passes.              *)
(***************************************************************************)
Fairness ==
  /\ \A w \in Workers : WF_vars(WorkerStep(w))
  /\ \A r \in Replicas : WF_vars(ReaperStep(r))
  /\ WF_vars(Tick)

FairSpec == Spec /\ Fairness
-----------------------------------------------------------------------------
RowTypes ==
  /\ status \in [Msgs -> Status]
  /\ attempts \in [Msgs -> 0..MaxClaims]
  /\ lockedBy \in [Msgs -> Workers \cup {Nobody}]
  /\ age \in [Msgs -> 0..(StuckAfter + 1)]
  /\ wait \in [Msgs -> Nat]

WorkerTypes ==
  /\ pc \in [Workers -> PCs]
  /\ batch \in [Workers -> SUBSET Msgs]
  /\ cur \in [Workers -> Msgs \cup {NoMsg}]
  /\ answer \in [Workers -> Answers]
  /\ pausados \in [Workers -> SUBSET Channels]
  /\ perdidas \in [Workers -> SUBSET Msgs]
  /\ sinceRenewal \in [Workers -> 0..(StuckAfter + 1)]
  /\ step \in [Workers -> 0..MaxStep]
  /\ until \in [Workers -> Nat]

SharedTypes ==
  /\ pausedFor \in [Channels -> Nat]
  /\ ctx \in [Replicas -> {"alive", "cancelled", "dead"}]
  /\ reaper \in [Replicas -> {"idle", "between"}]
  /\ counted \in [Msgs -> Nat]
  /\ accepted \in [Msgs -> Nat]
  /\ spent \in [Msgs -> Nat]
  /\ torn \in [Msgs -> Nat]
  /\ orphans \subseteq Msgs
  /\ dbFailures \in 0..MaxDbFailures
  /\ blocks \in 0..MaxBlocks

TypeOK == RowTypes /\ WorkerTypes /\ SharedTypes

\* w has m in process(), and the row has not been written yet.
Handling(w, m) == cur[w] = m /\ pc[w] \in {"process", "outcome", "push", "release"}

\* m is still to be POSTed, or its outcome to be written, by w.
InHand(w, m) == m \in Pending(w) \/ (cur[w] = m /\ pc[w] \in {"process", "outcome"})

(***************************************************************************)
(* Exclusive lease.  Every message that a live worker may still POST or    *)
(* whose outcome it may still write is a row in 'sending' locked by that   *)
(* worker, so no two live workers ever have the same message in hand       *)
(* (worker.go: "mensagens que deixaram de ser nossas: enviá-las seria      *)
(* entrega duplicada").  It rests on renovarPosse keeping every age under  *)
(* the reaper's threshold.                                                 *)
(***************************************************************************)
LeaseHeld ==
  \A w \in Workers, m \in Msgs :
    Alive(w) /\ InHand(w, m) => status[m] = "sending" /\ lockedBy[m] = w

(***************************************************************************)
(* The dispatcher is a LeaseQueue.  A message is in the hands of a worker   *)
(* while its process lives and it may still POST it or write its outcome.  *)
(***************************************************************************)
HandsOf   == [w \in Workers |-> {m \in Msgs : Alive(w) /\ InHand(w, m)}]
OutcomeOf == [m \in Msgs |-> IF status[m] \in Final THEN status[m] ELSE "none"]

Queue == INSTANCE LeaseQueue
           WITH hands <- HandsOf, outcome <- OutcomeOf, delivered <- accepted

\* One worker at a time has a message; only it delivers it, once as far as is
\* known, and it records 'sent' exactly when it knows that Meta accepted it
\* (worker.go: "enviá-las seria entrega duplicada"), whatever is claimed,
\* renewed, reaped, paused, stopped or killed meanwhile.
QueueImplemented == Queue!Spec

(***************************************************************************)
(* No known duplicate.  Meta accepts a message a second time only if the    *)
(* answer to the first acceptance was lost (timeout, failed MarkSent, crash *)
(* before it): through batches, renewals, reaper, pauses, SIGTERM and       *)
(* replacement replicas, nothing else sends a message twice.                *)
(***************************************************************************)
NoKnownDuplicate == \A m \in Msgs : accepted[m] <= 1

(***************************************************************************)
(* No leak, and no false orphan.  A row in 'sending' that was locked by a   *)
(* process that lives is in the hands of that worker, and too fresh for the *)
(* reaper, unless a write of it failed (ReapStale: "um worker vivo          *)
(* re-carimba locked_at antes de cada envio, então só chega aqui o que      *)
(* realmente ficou órfão").  In particular a replica stopped by SIGTERM     *)
(* leaves no row behind.                                                    *)
(***************************************************************************)
HeldOrOrphan ==
  \A m \in Msgs : status[m] = "sending" /\ m \notin orphans =>
    LET w == lockedBy[m] IN
    Alive(w) => (m \in batch[w] \/ Handling(w, m)) /\ ~Stale(m)

(***************************************************************************)
(* The campaign counters never count a message twice, nor one that is not  *)
(* final (MarkSent: "sent_count + failed_count passando de                 *)
(* total_recipients"), whatever stale workers and reapers write.           *)
(***************************************************************************)
CountedOnce ==
  \A m \in Msgs : counted[m] <= 1 /\ (counted[m] = 1 => status[m] \in Final)

(***************************************************************************)
(* A deploy and a pause are free (ReleaseBatch: "um deploy não pode        *)
(* consumir a cota de retentativas do cliente"; pausarCanal: "A mensagem   *)
(* NÃO gasta tentativa aqui"), but for one statement.  With no crash and   *)
(* no failed statement, a queued message has used exactly one attempt for  *)
(* every POST that Meta did not refuse for its channel, and one for every  *)
(* ClaimBatch that committed while SIGTERM was cancelling it: the loop     *)
(* returns without the rows, and nothing gives them their attempt back.    *)
(***************************************************************************)
DeployAndPauseAreFree ==
  dbFailures = 0 /\ (\A r \in Replicas : ctx[r] # "dead") =>
    \A m \in Msgs : status[m] = "queued" => attempts[m] = spent[m] + torn[m]

(***************************************************************************)
(* What the comment of ReleaseBatch says without that exception: "um deploy *)
(* não pode consumir a cota de retentativas do cliente".  A SIGTERM while  *)
(* ClaimBatch is in flight consumes an attempt of every row it claimed.    *)
(***************************************************************************)
DeployIsFree ==
  dbFailures = 0 /\ (\A r \in Replicas : ctx[r] # "dead") =>
    \A m \in Msgs : status[m] = "queued" => attempts[m] = spent[m]

(***************************************************************************)
(* A final outcome is never overwritten, even by a worker that lost the    *)
(* row long ago and only now answers.                                      *)
(***************************************************************************)
FinalIsFinal ==
  [][\A m \in Msgs : status[m] \in Final => status'[m] = status[m]]_vars

(***************************************************************************)
(* A row in 'sending' is only changed by the worker that locked it or,     *)
(* past the threshold, by a reaper: a late worker never disturbs the       *)
(* possession of its successor.                                            *)
(***************************************************************************)
OnlyHolderOrReaper ==
  [][\A m \in Msgs :
       status[m] = "sending" /\ (status'[m] # "sending" \/ lockedBy'[m] # lockedBy[m])
       => \/ age[m] > StuckAfter
          \/ pc'[lockedBy[m]] # pc[lockedBy[m]]]_vars

(***************************************************************************)
(* No message is lost: as long as one replica survives, every message ends *)
(* as 'sent' or 'failed', whatever crashed, failed or was paused on the    *)
(* way (ReapStale: "Sem isso elas somem").                                 *)
(***************************************************************************)
EveryMessageSettles == \A m \in Msgs : <>(status[m] \in Final)

(***************************************************************************)
(* A replica that receives SIGTERM stops all its workers, unless it is     *)
(* killed first.                                                           *)
(***************************************************************************)
SigtermStops ==
  \A r \in Replicas : ctx[r] = "cancelled" ~>
    \/ ctx[r] = "dead"
    \/ \A w \in Workers : replicaOf[w] = r => pc[w] = "stopped"

(***************************************************************************)
(* What the comment of ReapStale says: "As que já esgotaram max_attempts   *)
(* viram falha definitiva — senão ficariam circulando para sempre".        *)
(***************************************************************************)
ExhaustedNeverCirculates ==
  \A m \in Msgs : status[m] = "queued" => attempts[m] < MaxAttempts
=============================================================================
