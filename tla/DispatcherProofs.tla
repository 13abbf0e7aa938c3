-------------------------- MODULE DispatcherProofs --------------------------
(* Theorems about Dispatcher, for every value of its constants.            *)
EXTENDS Dispatcher, TLAPS

(***************************************************************************)
(* The inductive invariant, one conjunct per idea.                         *)
(***************************************************************************)

\* Where a worker has no current message.
Between == {"loop", "batch", "stopped", "return_batch"}

\* The control points of a worker agree with its local variables.
LocalAt(w) ==
  /\ pc[w] \in Between => cur[w] = NoMsg
  /\ pc[w] \notin Between => cur[w] \in Msgs
  /\ cur[w] \notin batch[w]
  /\ ~Busy(w) => batch[w] = {}
  /\ pc[w] = "return_batch" => batch[w] \subseteq perdidas[w]
  /\ pc[w] = "return_channel" => channelOf[cur[w]] \in pausados[w]

LocalOK == \A w \in Workers : LocalAt(w)

TypeInv == TypeOK /\ LocalOK
-----------------------------------------------------------------------------
(* What the statements and helpers of Dispatcher do to the types.          *)

USE ConstantsAssumption

LEMMA ArithTypes ==
  /\ \A a, b \in Nat : Smaller(a, b) \in Nat /\ Larger(a, b) \in Nat
  /\ \A a \in Nat : Minus1(a) \in Nat /\ Minus1(a) <= a
  /\ \A a \in Nat : Aged(a) \in 0..(StuckAfter + 1)
  BY DEF Smaller, Larger, Minus1, Aged

\* ClaimBatch's UPDATE keeps the rows well typed and touches queued rows only.
LEMMA LockRows ==
  ASSUME RowTypes, NEW w \in Workers, NEW S, Lock(S, w)
  PROVE  /\ RowTypes'
         /\ S \subseteq Msgs
         /\ \A m \in S : status[m] = "queued"
  <1>1. S \subseteq Msgs /\ \A m \in S : status[m] = "queued" /\ attempts[m] < MaxClaims
    BY DEF Lock, Ready
  <1>2. attempts' \in [Msgs -> 0..MaxClaims]
    BY <1>1 DEF Lock, RowTypes, Claimed
  <1>3. QED
    BY <1>1, <1>2 DEF Lock, RowTypes, Status

\* So does the end of a possession.
LEMMA UnlockRows ==
  ASSUME RowTypes, NEW E, NEW st \in Status, NEW d \in Nat, Unlock(E, st, d),
         attempts' \in [Msgs -> 0..MaxClaims]
  PROVE  RowTypes'
  BY DEF RowTypes, Unlock

LEMMA DevolverTypes ==
  ASSUME RowTypes, SharedTypes, NEW S, NEW w \in Workers, Devolver(S, w), S \subseteq Msgs
  PROVE  RowTypes' /\ orphans' \subseteq Msgs /\ dbFailures' \in 0..MaxDbFailures
  <1>1. CASE DbOk /\ ReleaseBatch(S, w)
    <2>1. attempts' \in [Msgs -> 0..MaxClaims]
      BY <1>1, ArithTypes DEF ReleaseBatch, Undone, RowTypes
    <2>2. RowTypes'
      BY <1>1, <2>1, UnlockRows DEF ReleaseBatch, Status
    <2>3. QED
      BY <1>1, <2>2 DEF ReleaseBatch, DbOk, SharedTypes
  <1>2. CASE S # {} /\ DbFails /\ Abandon(S, w)
    BY <1>2 DEF Abandon, DbFails, rows, RowTypes, SharedTypes, Own
  <1>3. QED
    BY <1>1, <1>2 DEF Devolver

LEMMA SetBatchTypes ==
  ASSUME WorkerTypes, NEW w \in Workers, NEW S \in SUBSET Msgs, SetBatch(w, S)
  PROVE  /\ batch' \in [Workers -> SUBSET Msgs]
         /\ pausados' \in [Workers -> SUBSET Channels]
         /\ perdidas' \in [Workers -> SUBSET Msgs]
         /\ sinceRenewal' \in [Workers -> 0..(StuckAfter + 1)]
         /\ step' \in [Workers -> 0..MaxStep]
  BY DEF SetBatch, WorkerTypes

LEMMA NextIterationTypes ==
  ASSUME WorkerTypes, NEW w \in Workers, NextIteration(w)
  PROVE  /\ pc' \in [Workers -> PCs]
         /\ cur' \in [Workers -> Msgs \cup {NoMsg}]
         /\ answer' \in [Workers -> Answers]
         /\ until' \in [Workers -> Nat]
  BY DEF NextIteration, Goto, WorkerTypes, PCs, Answers

-----------------------------------------------------------------------------
(* Every action keeps the types.                                           *)

LEMMA TypeInit == Init => TypeInv
  BY DEF Init, TypeInv, TypeOK, RowTypes, WorkerTypes, SharedTypes, LocalOK, LocalAt, Between,
     Busy, Status, Final, PCs, Answers

LEMMA TypeClaim ==
  ASSUME TypeOK, NEW w \in Workers, ClaimBatch(w) \/ ClaimLost(w) \/ Stop(w)
  PROVE  TypeOK'
  <1>1. CASE ClaimBatch(w)
    <2>1. PICK S \in SUBSET Msgs : Lock(S, w) /\ SetBatch(w, S)
      BY <1>1 DEF ClaimBatch
    <2>2. RowTypes'
      BY <2>1, LockRows DEF TypeOK
    <2>3. WorkerTypes'
      BY <1>1, <2>1, SetBatchTypes DEF ClaimBatch, TypeOK, WorkerTypes, Goto, PCs, current
    <2>4. SharedTypes'
      BY <1>1 DEF ClaimBatch, TypeOK, SharedTypes, process, history, bounds
    <2>5. QED
      BY <2>2, <2>3, <2>4 DEF TypeOK
  <1>2. CASE ClaimLost(w)
    <2>1. PICK S \in SUBSET Msgs :
            /\ Lock(S, w)
            /\ orphans' = orphans \cup S
            /\ \/ torn' = torn
               \/ torn' = [m \in Msgs |-> IF m \in S THEN torn[m] + 1 ELSE torn[m]]
      BY <1>2 DEF ClaimLost
    <2>2. RowTypes'
      BY <2>1, LockRows DEF TypeOK
    <2>3. WorkerTypes'
      BY <1>2 DEF ClaimLost, TypeOK, WorkerTypes, Goto, PCs, current, local
    <2>4. SharedTypes'
      BY <1>2, <2>1 DEF ClaimLost, TypeOK, SharedTypes, process, DbOk, DbFails
    <2>5. QED
      BY <2>2, <2>3, <2>4 DEF TypeOK
  <1>3. CASE Stop(w)
    BY <1>3 DEF Stop, TypeOK, RowTypes, WorkerTypes, SharedTypes, Goto, PCs, rows, local,
       current, process, history, bounds
  <1>4. QED
    BY <1>1, <1>2, <1>3

LEMMA TypeBatch ==
  ASSUME TypeInv, NEW w \in Workers,
         \/ Skip(w) \/ Interrupted(w) \/ BatchDone(w) \/ Start(w)
         \/ RenewAndStart(w) \/ RenewFails(w) \/ ReturnBatch(w)
  PROVE  TypeOK'
  <1>0. TypeOK /\ (pc[w] = "process" => cur[w] \in Msgs)
    BY DEF TypeInv, LocalOK, LocalAt, Between
  <1>1. CASE Skip(w)
    BY <1>0, <1>1 DEF Skip, TypeOK, RowTypes, WorkerTypes, SharedTypes, rows, current, process,
       history, bounds
  <1>2. CASE Interrupted(w)
    <2>1. Unsent(w) \in SUBSET Msgs
      BY <1>0 DEF Unsent, TypeOK, WorkerTypes
    <2>2. RowTypes' /\ orphans' \subseteq Msgs /\ dbFailures' \in 0..MaxDbFailures
      BY <1>0, <1>2, <2>1, DevolverTypes DEF Interrupted, TypeOK
    <2>3. WorkerTypes'
      BY <1>0, <1>2, SetBatchTypes DEF Interrupted, TypeOK, WorkerTypes, Goto, PCs
    <2>4. SharedTypes'
      BY <1>0, <1>2, <2>2 DEF Interrupted, TypeOK, SharedTypes, process
    <2>5. QED
      BY <2>2, <2>3, <2>4 DEF TypeOK
  <1>3. CASE BatchDone(w)
    BY <1>0, <1>3, SetBatchTypes DEF BatchDone, TypeOK, RowTypes, WorkerTypes, SharedTypes, Goto,
       PCs, rows, current, process, history, bounds
  <1>4. CASE Start(w)
    BY <1>0, <1>4 DEF Start, Pending, TypeOK, RowTypes, WorkerTypes, SharedTypes, Goto, PCs, rows,
       process, history, bounds
  <1>5. CASE RenewAndStart(w)
    <2>1. PICK m \in Pending(w) :
            LET asked    == batch[w] \ perdidas[w]
                survived == Own(asked, w) IN
            /\ age' = [n \in Msgs |-> IF n \in survived THEN 0 ELSE age[n]]
            /\ perdidas' = [perdidas EXCEPT ![w] = @ \cup (asked \ survived)]
            /\ batch' = [batch EXCEPT ![w] = @ \ {m}]
            /\ IF m \in survived
               THEN Goto(w, "process") /\ cur' = [cur EXCEPT ![w] = m]
               ELSE UNCHANGED <<pc, cur>>
      BY <1>0, <1>5 DEF RenewAndStart
    <2>2. m \in Msgs
      BY <1>0 DEF Pending, TypeOK, WorkerTypes
    <2>3. RowTypes'
      BY <1>0, <1>5, <2>1 DEF RenewAndStart, TypeOK, RowTypes
    <2>4. WorkerTypes'
      BY <1>0, <1>5, <2>1, <2>2 DEF RenewAndStart, TypeOK, WorkerTypes, Goto, PCs
    <2>5. SharedTypes'
      BY <1>0, <1>5 DEF RenewAndStart, TypeOK, SharedTypes, process, history, bounds
    <2>6. QED
      BY <2>3, <2>4, <2>5 DEF TypeOK
  <1>6. CASE RenewFails(w)
    <2>1. RowTypes'
      BY <1>0, <1>6 DEF RenewFails, TypeOK, RowTypes
    <2>2. WorkerTypes'
      BY <1>0, <1>6 DEF RenewFails, TypeOK, WorkerTypes, Goto, PCs, current
    <2>3. SharedTypes'
      BY <1>0, <1>6 DEF RenewFails, TypeOK, SharedTypes, WorkerTypes, process, Own, DbOk, DbFails
    <2>4. QED
      BY <2>1, <2>2, <2>3 DEF TypeOK
  <1>7. CASE ReturnBatch(w)
    <2>1. batch[w] \subseteq Msgs
      BY <1>0 DEF TypeOK, WorkerTypes
    <2>2. RowTypes' /\ orphans' \subseteq Msgs /\ dbFailures' \in 0..MaxDbFailures
      BY <1>0, <1>7, <2>1, DevolverTypes DEF ReturnBatch, TypeOK
    <2>3. WorkerTypes'
      BY <1>0, <1>7 DEF ReturnBatch, TypeOK, WorkerTypes, Goto, PCs, local, current
    <2>4. SharedTypes'
      BY <1>0, <1>7, <2>2 DEF ReturnBatch, TypeOK, SharedTypes, process
    <2>5. QED
      BY <2>2, <2>3, <2>4 DEF TypeOK
  <1>8. QED
    BY <1>1, <1>2, <1>3, <1>4, <1>5, <1>6, <1>7

\* The two statements that close a row, and their counter.
LEMMA FinishTypes ==
  ASSUME TypeOK, NEW w \in Workers, NEW st \in Status, Finish(w, st)
  PROVE  /\ RowTypes'
         /\ pc' \in [Workers -> PCs]
         /\ cur' \in [Workers -> Msgs \cup {NoMsg}]
         /\ answer' \in [Workers -> Answers]
         /\ until' \in [Workers -> Nat]
         /\ orphans' \subseteq Msgs
         /\ dbFailures' \in 0..MaxDbFailures
  <1>1. RowTypes'
    BY UnlockRows DEF Finish, TypeOK, RowTypes
  <1>2. dbFailures' \in 0..MaxDbFailures /\ orphans' \subseteq Msgs
    BY DEF Finish, DbOk, DbFails, TypeOK, SharedTypes
  <1>3. CASE NextIteration(w)
    BY <1>1, <1>2, <1>3, NextIterationTypes DEF TypeOK
  <1>4. CASE Goto(w, "count") /\ UNCHANGED current
    BY <1>1, <1>2, <1>4 DEF Goto, current, TypeOK, WorkerTypes, PCs
  <1>5. QED
    BY <1>3, <1>4 DEF Finish

\* A statement that fails.
LEMMA AbandonTypes ==
  ASSUME TypeOK, NEW w \in Workers, NEW S \in SUBSET Msgs, Abandon(S, w), DbFails
  PROVE  /\ RowTypes'
         /\ orphans' \subseteq Msgs
         /\ dbFailures' \in 0..MaxDbFailures
  BY DEF Abandon, DbFails, rows, Own, TypeOK, RowTypes, SharedTypes

LEMMA TypeProcess ==
  ASSUME TypeInv, NEW w \in Workers,
         \/ ChannelUnusable(w) \/ Post(w) \/ MarkSent(w) \/ MarkFailed(w)
         \/ Count(w) \/ Reschedule(w)
  PROVE  TypeOK'
  <1>0. TypeOK /\ (pc[w] \in {"process", "outcome", "count"} => cur[w] \in Msgs)
    BY DEF TypeInv, LocalOK, LocalAt, Between
  <1>1. CASE ChannelUnusable(w)
    <2>1. RowTypes'
      BY <1>0, <1>1 DEF ChannelUnusable, TypeOK, RowTypes, rows
    <2>2. WorkerTypes'
      BY <1>0, <1>1 DEF ChannelUnusable, Answered, Goto, PCs, Answers, TypeOK, WorkerTypes, local
    <2>3. SharedTypes'
      BY <1>0, <1>1 DEF ChannelUnusable, DbOk, DbFails, TypeOK, SharedTypes, process, history
    <2>4. QED
      BY <2>1, <2>2, <2>3 DEF TypeOK
  <1>2. CASE Post(w)
    <2>1. PICK a \in Answers \ {"none", "lookup_error"} :
            /\ Answered(w, a)
            /\ IF a \in Blocking
               THEN blocks < MaxBlocks /\ blocks' = blocks + 1
               ELSE UNCHANGED blocks
            /\ accepted' = IF a = "ok" THEN [accepted EXCEPT ![cur[w]] = @ + 1] ELSE accepted
            /\ spent' = IF a \in Blocking THEN spent ELSE [spent EXCEPT ![cur[w]] = @ + 1]
      BY <1>2 DEF Post
    <2>2. RowTypes'
      BY <1>0, <1>2 DEF Post, TypeOK, RowTypes, rows
    <2>3. WorkerTypes'
      BY <1>0, <1>2, <2>1 DEF Post, Answered, Goto, PCs, TypeOK, WorkerTypes, local
    <2>4. SharedTypes'
      BY <1>0, <1>2, <2>1 DEF Post, TypeOK, SharedTypes, process
    <2>5. QED
      BY <2>2, <2>3, <2>4 DEF TypeOK
  <1>3. CASE MarkSent(w)
    <2>1. cur[w] \in Msgs
      BY <1>0, <1>3 DEF MarkSent, Outcome
    <2>2. CASE Finish(w, "sent") /\ UNCHANGED accepted
      <3>1. "sent" \in Status
        BY DEF Status, Final
      <3>2. /\ RowTypes'
            /\ pc' \in [Workers -> PCs]
            /\ cur' \in [Workers -> Msgs \cup {NoMsg}]
            /\ answer' \in [Workers -> Answers]
            /\ until' \in [Workers -> Nat]
            /\ orphans' \subseteq Msgs
            /\ dbFailures' \in 0..MaxDbFailures
        BY <1>0, <2>2, <3>1, FinishTypes
      <3>3. QED
        BY <1>0, <1>3, <2>2, <3>2 DEF MarkSent, TypeOK, WorkerTypes, SharedTypes, local, process
    <2>3. CASE /\ DbFails /\ Abandon({cur[w]}, w)
               /\ NextIteration(w)
               /\ accepted' = [accepted EXCEPT ![cur[w]] = Minus1(@)]
      <3>1. RowTypes' /\ orphans' \subseteq Msgs /\ dbFailures' \in 0..MaxDbFailures
        BY <1>0, <2>1, <2>3, AbandonTypes
      <3>2. accepted' \in [Msgs -> Nat]
        BY <1>0, <2>3, ArithTypes DEF TypeOK, SharedTypes
      <3>3. QED
        BY <1>0, <1>3, <2>3, <3>1, <3>2, NextIterationTypes DEF MarkSent, TypeOK, WorkerTypes,
           SharedTypes, local, process
    <2>4. QED
      BY <1>3, <2>2, <2>3 DEF MarkSent
  <1>4. CASE MarkFailed(w)
    <2>1. cur[w] \in Msgs
      BY <1>0, <1>4 DEF MarkFailed, Outcome
    <2>2. CASE Finish(w, "failed")
      BY <1>0, <1>4, <2>2, FinishTypes DEF MarkFailed, Status, Final, TypeOK, WorkerTypes,
         SharedTypes, local, process
    <2>3. CASE DbFails /\ Abandon({cur[w]}, w) /\ NextIteration(w)
      <3>1. RowTypes' /\ orphans' \subseteq Msgs /\ dbFailures' \in 0..MaxDbFailures
        BY <1>0, <2>1, <2>3, AbandonTypes
      <3>2. QED
        BY <1>0, <1>4, <2>3, <3>1, NextIterationTypes DEF MarkFailed, TypeOK, WorkerTypes,
           SharedTypes, local, process
    <2>4. QED
      BY <1>4, <2>2, <2>3 DEF MarkFailed
  <1>5. CASE Count(w)
    <2>1. RowTypes' /\ WorkerTypes'
      BY <1>0, <1>5, NextIterationTypes DEF Count, TypeOK, RowTypes, WorkerTypes, rows, local
    <2>2. SharedTypes'
      BY <1>0, <1>5 DEF Count, DbOk, DbFails, TypeOK, SharedTypes, process
    <2>3. QED
      BY <2>1, <2>2 DEF TypeOK
  <1>6. CASE Reschedule(w)
    <2>1. cur[w] \in Msgs
      BY <1>0, <1>6 DEF Reschedule, Outcome
    <2>2. RowTypes' /\ orphans' \subseteq Msgs /\ dbFailures' \in 0..MaxDbFailures
      <3>1. CASE DbFails /\ Abandon({cur[w]}, w)
        BY <1>0, <2>1, <3>1, AbandonTypes
      <3>2. CASE /\ DbOk
                 /\ \E d \in 1..MaxBackoff : Unlock(Own({cur[w]}, w), "queued", d)
                 /\ UNCHANGED <<attempts, orphans>>
        <4>1. PICK d \in 1..MaxBackoff : Unlock(Own({cur[w]}, w), "queued", d)
          BY <3>2
        <4>2. d \in Nat /\ attempts' \in [Msgs -> 0..MaxClaims]
          BY <1>0, <3>2 DEF TypeOK, RowTypes
        <4>3. RowTypes'
          BY <1>0, <4>1, <4>2, UnlockRows DEF TypeOK, Status
        <4>4. QED
          BY <1>0, <3>2, <4>3 DEF DbOk, TypeOK, SharedTypes
      <3>3. QED
        BY <1>6, <3>1, <3>2 DEF Reschedule
    <2>3. QED
      BY <1>0, <1>6, <2>2, NextIterationTypes DEF Reschedule, TypeOK, WorkerTypes, SharedTypes,
         local, process
  <1>7. QED
    BY <1>1, <1>2, <1>3, <1>4, <1>5, <1>6

LEMMA TypePause ==
  ASSUME TypeInv, NEW w \in Workers,
         PauseChannel(w) \/ PushQueued(w) \/ ReleaseCurrent(w) \/ ReturnChannel(w)
  PROVE  TypeOK'
  <1>0. /\ TypeOK
        /\ pc[w] \in {"outcome", "push", "release", "return_channel"} => cur[w] \in Msgs
    BY DEF TypeInv, LocalOK, LocalAt, Between
  <1>1. CASE PauseChannel(w)
    <2> DEFINE c    == channelOf[cur[w]]
               secs == IF answer[w] = "auth" THEN PauseAuth ELSE PauseRateLimit
               ate  == Larger(pausedFor[c], secs)
    <2>1. c \in Channels /\ ate \in Nat
      <3>1. cur[w] \in Msgs
        BY <1>0, <1>1 DEF PauseChannel, Outcome
      <3>2. secs \in Nat /\ c \in Channels /\ pausedFor[c] \in Nat
        BY <1>0, <3>1 DEF TypeOK, SharedTypes
      <3>3. QED
        BY <3>2, ArithTypes
    <2> HIDE DEF ate, c
    <2>2. /\ pausedFor' = [pausedFor EXCEPT ![c] = ate] \/ pausedFor' = pausedFor
          /\ until' = [until EXCEPT ![w] = ate] \/ until' = until
          /\ Goto(w, "release") \/ Goto(w, "push")
          /\ DbOk \/ DbFails
          /\ UNCHANGED <<rows, local, cur, answer, process, history, blocks>>
      BY <1>1 DEF PauseChannel, ate, c
    <2>3. RowTypes'
      BY <1>0, <2>2 DEF TypeOK, RowTypes, rows
    <2>4. WorkerTypes'
      BY <1>0, <2>1, <2>2 DEF TypeOK, WorkerTypes, Goto, PCs, local
    <2>5. SharedTypes'
      BY <1>0, <2>1, <2>2 DEF TypeOK, SharedTypes, process, history, DbOk, DbFails
    <2>6. QED
      BY <2>3, <2>4, <2>5 DEF TypeOK
  <1>2. CASE PushQueued(w)
    <2>1. \A m \in Msgs : Larger(wait[m], until[w]) \in Nat
      BY <1>0, ArithTypes DEF TypeOK, RowTypes, WorkerTypes
    <2>2. RowTypes'
      BY <1>0, <1>2, <2>1 DEF PushQueued, TypeOK, RowTypes
    <2>3. WorkerTypes'
      BY <1>0, <1>2 DEF PushQueued, TypeOK, WorkerTypes, Goto, PCs, local
    <2>4. SharedTypes'
      BY <1>0, <1>2 DEF PushQueued, TypeOK, SharedTypes, process, history, DbOk, DbFails
    <2>5. QED
      BY <2>2, <2>3, <2>4 DEF TypeOK
  <1>3. CASE ReleaseCurrent(w)
    <2>1. cur[w] \in Msgs
      BY <1>0, <1>3 DEF ReleaseCurrent
    <2>2. RowTypes' /\ orphans' \subseteq Msgs /\ dbFailures' \in 0..MaxDbFailures
      BY <1>0, <1>3, <2>1, DevolverTypes DEF ReleaseCurrent, TypeOK
    <2>3. WorkerTypes'
      BY <1>0, <1>3, <2>1 DEF ReleaseCurrent, TypeOK, WorkerTypes, Goto, PCs, current
    <2>4. SharedTypes'
      BY <1>0, <1>3, <2>2 DEF ReleaseCurrent, TypeOK, SharedTypes, process
    <2>5. QED
      BY <2>2, <2>3, <2>4 DEF TypeOK
  <1>4. CASE ReturnChannel(w)
    <2>1. RestOfChannel(w, channelOf[cur[w]]) \subseteq Msgs
      BY <1>0 DEF RestOfChannel, TypeOK, WorkerTypes
    <2>2. RowTypes' /\ orphans' \subseteq Msgs /\ dbFailures' \in 0..MaxDbFailures
      BY <1>0, <1>4, <2>1, DevolverTypes DEF ReturnChannel, TypeOK
    <2>3. WorkerTypes'
      BY <1>0, <1>4, NextIterationTypes DEF ReturnChannel, TypeOK, WorkerTypes, local
    <2>4. SharedTypes'
      BY <1>0, <1>4, <2>2 DEF ReturnChannel, TypeOK, SharedTypes, process
    <2>5. QED
      BY <2>2, <2>3, <2>4 DEF TypeOK
  <1>5. QED
    BY <1>1, <1>2, <1>3, <1>4

LEMMA TypeReaper ==
  ASSUME TypeOK, NEW r \in Replicas, ReaperStep(r)
  PROVE  TypeOK'
  <1>1. CASE ReapExhausted(r)
    <2>1. PICK E \in SUBSET Msgs :
            /\ Unlock(E, "failed", 0)
            /\ counted' = [m \in Msgs |-> IF m \in E THEN counted[m] + 1 ELSE counted[m]]
            /\ orphans' = orphans \ E
      BY <1>1 DEF ReapExhausted
    <2>2. RowTypes'
      BY <1>1, <2>1, UnlockRows DEF ReapExhausted, TypeOK, RowTypes, Status, Final
    <2>3. WorkerTypes'
      BY <1>1 DEF ReapExhausted, TypeOK, WorkerTypes, local, current
    <2>4. SharedTypes'
      BY <1>1, <2>1 DEF ReapExhausted, TypeOK, SharedTypes, bounds
    <2>5. QED
      BY <2>2, <2>3, <2>4 DEF TypeOK
  <1>2. CASE ReapRest(r)
    <2>1. PICK E \in SUBSET Msgs : Unlock(E, "queued", 0) /\ orphans' = orphans \ E
      BY <1>2 DEF ReapRest
    <2>2. RowTypes'
      BY <1>2, <2>1, UnlockRows DEF ReapRest, TypeOK, RowTypes, Status
    <2>3. WorkerTypes'
      BY <1>2 DEF ReapRest, TypeOK, WorkerTypes, local, current
    <2>4. SharedTypes'
      BY <1>2, <2>1 DEF ReapRest, TypeOK, SharedTypes, bounds
    <2>5. QED
      BY <2>2, <2>3, <2>4 DEF TypeOK
  <1>3. CASE ReapFails(r)
    BY <1>3 DEF ReapFails, DbFails, TypeOK, RowTypes, WorkerTypes, SharedTypes, rows, local,
       current, history
  <1>4. QED
    BY <1>1, <1>2, <1>3 DEF ReaperStep

LEMMA TypeEnvironment ==
  ASSUME TypeOK, (\E r \in Replicas : Sigterm(r) \/ Crash(r)) \/ Tick
  PROVE  TypeOK'
  <1>1. ASSUME NEW r \in Replicas, Sigterm(r)
        PROVE  TypeOK'
    BY <1>1 DEF Sigterm, TypeOK, RowTypes, WorkerTypes, SharedTypes, rows, local, current,
       history, bounds
  <1>2. ASSUME NEW r \in Replicas, Crash(r)
        PROVE  TypeOK'
    <2>1. \A m \in Msgs : Minus1(accepted[m]) \in Nat
      BY ArithTypes DEF TypeOK, SharedTypes
    <2>2. accepted' \in [Msgs -> Nat]
      BY <1>2, <2>1 DEF Crash, TypeOK, SharedTypes
    <2>3. QED
      BY <1>2, <2>2 DEF Crash, TypeOK, RowTypes, WorkerTypes, SharedTypes, rows, local,
         current, bounds
  <1>3. CASE Tick
    <2>1. RowTypes'
      <3>1. \A m \in Msgs : Aged(age[m]) \in 0..(StuckAfter + 1) /\ Minus1(wait[m]) \in Nat
        BY ArithTypes DEF TypeOK, RowTypes
      <3>2. QED
        BY <1>3, <3>1 DEF Tick, TypeOK, RowTypes
    <2>2. WorkerTypes'
      <3>1. \A v \in Workers : Smaller(step[v] + 1, MaxStep) \in 0..MaxStep
        BY DEF Smaller, TypeOK, WorkerTypes
      <3>2. \A v \in Workers : Aged(sinceRenewal[v]) \in 0..(StuckAfter + 1)
        BY ArithTypes DEF TypeOK, WorkerTypes
      <3>3. \A v \in Workers : Minus1(until[v]) \in Nat
        BY ArithTypes DEF TypeOK, WorkerTypes
      <3>4. QED
        BY <1>3, <3>1, <3>2, <3>3 DEF Tick, TypeOK, WorkerTypes
    <2>3. SharedTypes'
      BY <1>3, ArithTypes DEF Tick, TypeOK, SharedTypes, process, history, bounds
    <2>4. QED
      BY <2>1, <2>2, <2>3 DEF TypeOK
  <1>4. QED
    BY <1>1, <1>2, <1>3
-----------------------------------------------------------------------------
(* Every action keeps the control points and the local variables in step.  *)

\* A worker's step reaches no local variable of another worker.
LEMMA OthersUntouched ==
  ASSUME TypeOK, NEW w \in Workers, WorkerStep(w), NEW v \in Workers, v # w
  PROVE  /\ pc'[v] = pc[v] /\ cur'[v] = cur[v] /\ answer'[v] = answer[v]
         /\ batch'[v] = batch[v] /\ pausados'[v] = pausados[v] /\ perdidas'[v] = perdidas[v]
         /\ sinceRenewal'[v] = sinceRenewal[v] /\ step'[v] = step[v]
         /\ ctx' = ctx
  <1>1. CASE ClaimBatch(w) \/ ClaimLost(w) \/ Stop(w)
    BY <1>1 DEF ClaimBatch, ClaimLost, Stop, SetBatch, Goto, local, current, process, TypeOK, WorkerTypes
  <1>2. CASE Skip(w) \/ Interrupted(w) \/ BatchDone(w) \/ Start(w)
    BY <1>2 DEF Skip, Interrupted, BatchDone, Start, SetBatch, Goto, local, current, process,
       TypeOK, WorkerTypes
  <1>3. CASE RenewAndStart(w)
    BY <1>3 DEF RenewAndStart, Goto, process, TypeOK, WorkerTypes
  <1>4. CASE RenewFails(w) \/ ReturnBatch(w)
    BY <1>4 DEF RenewFails, ReturnBatch, Goto, local, current, process, TypeOK, WorkerTypes
  <1>5. CASE ChannelUnusable(w) \/ Post(w)
    BY <1>5 DEF ChannelUnusable, Post, Answered, Goto, local, process, TypeOK, WorkerTypes
  <1>6. CASE MarkSent(w) \/ MarkFailed(w)
    BY <1>6 DEF MarkSent, MarkFailed, Finish, NextIteration, Goto, local, current, process,
       TypeOK, WorkerTypes
  <1>7. CASE Count(w) \/ Reschedule(w)
    BY <1>7 DEF Count, Reschedule, NextIteration, Goto, local, process, TypeOK, WorkerTypes
  <1>8. CASE PauseChannel(w) \/ PushQueued(w)
    BY <1>8 DEF PauseChannel, PushQueued, Goto, local, process, TypeOK, WorkerTypes
  <1>9. CASE ReleaseCurrent(w) \/ ReturnChannel(w)
    BY <1>9 DEF ReleaseCurrent, ReturnChannel, NextIteration, Goto, local, current, process,
       TypeOK, WorkerTypes
  <1>10. QED
    BY <1>1, <1>2, <1>3, <1>4, <1>5, <1>6, <1>7, <1>8, <1>9 DEF WorkerStep

LEMMA LocalOfWorker ==
  ASSUME TypeInv, NEW w \in Workers, WorkerStep(w)
  PROVE  LocalAt(w)'
  <1>0. TypeOK /\ LocalAt(w) /\ NoMsg \notin batch[w]
    BY DEF TypeInv, LocalOK, TypeOK, WorkerTypes
  <1>1. CASE ClaimBatch(w)
    <2>1. PICK S \in SUBSET Msgs : SetBatch(w, S)
      BY <1>1 DEF ClaimBatch
    <2>2. QED
      BY <1>0, <1>1, <2>1 DEF ClaimBatch, SetBatch, Goto, current, LocalAt, Between, Busy,
         TypeOK, WorkerTypes
  <1>2. CASE ClaimLost(w) \/ Stop(w)
    BY <1>0, <1>2 DEF ClaimLost, Stop, Goto, local, current, LocalAt, Between, Busy, TypeOK,
       WorkerTypes
  <1>3. CASE Skip(w) \/ BatchDone(w)
    BY <1>0, <1>3 DEF Skip, BatchDone, SetBatch, Goto, current, LocalAt, Between, Busy, TypeOK,
       WorkerTypes
  <1>4. CASE Interrupted(w)
    BY <1>0, <1>4 DEF Interrupted, SetBatch, Goto, LocalAt, Between, Busy, TypeOK, WorkerTypes
  <1>5. CASE Start(w)
    BY <1>0, <1>5 DEF Start, Pending, Goto, LocalAt, Between, Busy, TypeOK, WorkerTypes
  <1>6. CASE RenewAndStart(w)
    <2>1. PICK m \in Pending(w) :
            /\ batch' = [batch EXCEPT ![w] = @ \ {m}]
            /\ \/ Goto(w, "process") /\ cur' = [cur EXCEPT ![w] = m]
               \/ UNCHANGED <<pc, cur>>
      BY <1>6 DEF RenewAndStart
    <2>2. m \in Msgs
      BY <1>0 DEF Pending, TypeOK, WorkerTypes
    <2>3. QED
      BY <1>0, <1>6, <2>1, <2>2 DEF RenewAndStart, Goto, LocalAt, Between, Busy, TypeOK, WorkerTypes
  <1>7. CASE RenewFails(w) \/ ReturnBatch(w)
    BY <1>0, <1>7 DEF RenewFails, ReturnBatch, Goto, local, current, LocalAt, Between, Busy,
       TypeOK, WorkerTypes
  <1>8. CASE ChannelUnusable(w) \/ Post(w)
    BY <1>0, <1>8 DEF ChannelUnusable, Post, Answered, Goto, local, LocalAt, Between, Busy,
       TypeOK, WorkerTypes
  <1>9. CASE MarkSent(w) \/ MarkFailed(w)
    BY <1>0, <1>9 DEF MarkSent, MarkFailed, Outcome, Finish, NextIteration, Goto, local, current,
       LocalAt, Between, Busy, TypeOK, WorkerTypes
  <1>10. CASE Count(w) \/ Reschedule(w) \/ ReturnChannel(w)
    BY <1>0, <1>10 DEF Count, Reschedule, ReturnChannel, NextIteration, Goto, local, LocalAt,
       Between, Busy, TypeOK, WorkerTypes
  <1>11. CASE PauseChannel(w) \/ PushQueued(w)
    BY <1>0, <1>11 DEF PauseChannel, PushQueued, Outcome, Goto, local, LocalAt, Between, Busy,
       TypeOK, WorkerTypes
  <1>12. CASE ReleaseCurrent(w)
    BY <1>0, <1>12 DEF ReleaseCurrent, Goto, current, LocalAt, Between, Busy, TypeOK, WorkerTypes
  <1>13. QED
    BY <1>1, <1>2, <1>3, <1>4, <1>5, <1>6, <1>7, <1>8, <1>9, <1>10, <1>11, <1>12 DEF WorkerStep

\* Reapers, signals, crashes and time touch no control point and no batch.
LEMMA NotAWorkerStep ==
  ASSUME (\E r \in Replicas : ReaperStep(r) \/ Sigterm(r) \/ Crash(r)) \/ Tick
  PROVE  UNCHANGED <<pc, cur, answer, batch, pausados, perdidas>>
  BY DEF ReaperStep, ReapExhausted, ReapRest, ReapFails, Sigterm, Crash, Tick, local, current

LEMMA LocalStep ==
  ASSUME TypeInv, [Next]_vars
  PROVE  LocalOK'
  <1>1. ASSUME NEW w \in Workers, WorkerStep(w)
        PROVE  LocalOK'
    <2>1. ASSUME NEW v \in Workers, v # w
          PROVE  LocalAt(v)'
      <3>1. /\ pc'[v] = pc[v] /\ cur'[v] = cur[v] /\ batch'[v] = batch[v]
            /\ pausados'[v] = pausados[v] /\ perdidas'[v] = perdidas[v]
        BY <1>1, <2>1, OthersUntouched DEF TypeInv
      <3>2. LocalAt(v)
        BY DEF TypeInv, LocalOK
      <3>3. QED
        BY <3>1, <3>2 DEF LocalAt, Busy
    <2>2. LocalAt(w)'
      BY <1>1, LocalOfWorker
    <2>3. QED
      BY <2>1, <2>2 DEF LocalOK
  <1>2. ASSUME UNCHANGED <<pc, cur, answer, batch, pausados, perdidas>>
        PROVE  LocalOK'
    <2>1. ASSUME NEW v \in Workers
          PROVE  LocalAt(v)'
      BY <1>2 DEF TypeInv, LocalOK, LocalAt, Busy
    <2>2. QED
      BY <2>1 DEF LocalOK
  <1>3. CASE UNCHANGED vars
    BY <1>2, <1>3 DEF vars, local, current
  <1>4. QED
    BY <1>1, <1>2, <1>3, NotAWorkerStep DEF Next

LEMMA TypeStep ==
  ASSUME TypeInv, [Next]_vars
  PROVE  TypeInv'
  <1>0. TypeOK
    BY DEF TypeInv
  <1>1. TypeOK'
    <2>1. ASSUME NEW w \in Workers, WorkerStep(w)
          PROVE  TypeOK'
      <3>1. CASE ClaimBatch(w) \/ ClaimLost(w) \/ Stop(w)
        BY <1>0, <3>1, TypeClaim
      <3>2. CASE \/ Skip(w) \/ Interrupted(w) \/ BatchDone(w) \/ Start(w)
                 \/ RenewAndStart(w) \/ RenewFails(w) \/ ReturnBatch(w)
        BY <3>2, TypeBatch
      <3>3. CASE \/ ChannelUnusable(w) \/ Post(w) \/ MarkSent(w) \/ MarkFailed(w)
                 \/ Count(w) \/ Reschedule(w)
        BY <3>3, TypeProcess
      <3>4. CASE PauseChannel(w) \/ PushQueued(w) \/ ReleaseCurrent(w) \/ ReturnChannel(w)
        BY <3>4, TypePause
      <3>5. QED
        BY <2>1, <3>1, <3>2, <3>3, <3>4 DEF WorkerStep
    <2>2. CASE (\E r \in Replicas : ReaperStep(r) \/ Sigterm(r) \/ Crash(r)) \/ Tick
      <3>1. CASE \E r \in Replicas : ReaperStep(r)
        BY <1>0, <3>1, TypeReaper
      <3>2. CASE (\E r \in Replicas : Sigterm(r) \/ Crash(r)) \/ Tick
        BY <1>0, <3>2, TypeEnvironment
      <3>3. QED
        BY <2>2, <3>1, <3>2
    <2>3. CASE UNCHANGED vars
      <3>1. RowTypes'
        BY <1>0, <2>3 DEF vars, rows, TypeOK, RowTypes
      <3>2. WorkerTypes'
        BY <1>0, <2>3 DEF vars, local, current, TypeOK, WorkerTypes
      <3>3. SharedTypes'
        BY <1>0, <2>3 DEF vars, process, history, bounds, TypeOK, SharedTypes
      <3>4. QED
        BY <3>1, <3>2, <3>3 DEF TypeOK
    <2>4. QED
      BY <2>1, <2>2, <2>3 DEF Next
  <1>2. QED
    BY <1>1, LocalStep DEF TypeInv

(***************************************************************************)
(* Every variable keeps its type, and every control point of a worker      *)
(* agrees with its local variables: attempts never pass the number of      *)
(* claims, a message is never in the batch and in process() at once.       *)
(***************************************************************************)
THEOREM TypeInvariant == Spec => []TypeInv
  <1>1. Init => TypeInv
    BY TypeInit
  <1>2. TypeInv /\ [Next]_vars => TypeInv'
    BY TypeStep
  <1>3. QED
    BY <1>1, <1>2, PTL DEF Spec

\* The type invariant that the runs check, for any number of rows and workers.
THEOREM TypeCorrect == Spec => []TypeOK
  <1>1. TypeInv => TypeOK
    BY DEF TypeInv
  <1>2. QED
    BY <1>1, TypeInvariant, PTL

-----------------------------------------------------------------------------
(* What a step may do to a row.                                            *)

Unchanged(m) == status'[m] = status[m] /\ lockedBy'[m] = lockedBy[m]

\* The three things a worker's step may do to the row m.
Kept(w, m)     == Unchanged(m) /\ (age'[m] = age[m] \/ m \in Own(Msgs, w))
Taken(w, m)    == /\ status[m] = "queued" /\ pc[w] = "loop"
                  /\ status'[m] = "sending" /\ lockedBy'[m] = w /\ age'[m] = 0
Released(w, m) == /\ m \in Own(Msgs, w) /\ pc'[w] # pc[w]
                  /\ status'[m] # "sending"

LEMMA LockEffect ==
  ASSUME TypeOK, NEW w \in Workers, NEW S, Lock(S, w), pc[w] = "loop", NEW m \in Msgs
  PROVE  Kept(w, m) \/ (Taken(w, m) /\ m \in S)
  BY DEF Lock, Ready, Kept, Unchanged, Taken, TypeOK, RowTypes

LEMMA UnlockEffect ==
  ASSUME TypeOK, NEW w \in Workers, NEW S, S \subseteq Msgs, NEW st \in {"queued", "sent", "failed"},
         NEW d, Unlock(Own(S, w), st, d), pc'[w] # pc[w], NEW m \in Msgs
  PROVE  Kept(w, m) \/ Released(w, m)
  BY DEF Unlock, Own, Kept, Unchanged, Released, TypeOK, RowTypes

LEMMA DevolverEffect ==
  ASSUME TypeOK, NEW w \in Workers, NEW S, S \subseteq Msgs, Devolver(S, w), pc'[w] # pc[w], NEW m \in Msgs
  PROVE  Kept(w, m) \/ Released(w, m)
  <1>1. CASE ReleaseBatch(S, w)
    BY <1>1, UnlockEffect DEF ReleaseBatch
  <1>2. CASE Abandon(S, w)
    BY <1>2 DEF Abandon, rows, Kept, Unchanged
  <1>3. QED
    BY <1>1, <1>2 DEF Devolver

\* The outcome of a message is written to its row only, if at all.
LEMMA OutcomeWrites ==
  ASSUME NEW w \in Workers, MarkSent(w) \/ MarkFailed(w) \/ Reschedule(w)
  PROVE  \/ \E st \in {"queued", "sent", "failed"}, d \in Nat : Unlock(Own({cur[w]}, w), st, d)
         \/ Abandon({cur[w]}, w)
  <1>1. CASE MarkSent(w) \/ MarkFailed(w)
    BY <1>1 DEF MarkSent, MarkFailed, Finish
  <1>2. CASE Reschedule(w)
    BY <1>2 DEF Reschedule
  <1>3. QED
    BY <1>1, <1>2

\* A worker takes queued rows, releases rows of its own, and leaves every
\* other possession alone.
LEMMA WorkerEffect ==
  ASSUME TypeInv, NEW w \in Workers, WorkerStep(w), NEW m \in Msgs
  PROVE  Kept(w, m) \/ Taken(w, m) \/ Released(w, m)
  <1>0. /\ TypeOK /\ batch[w] \subseteq Msgs /\ pc \in [Workers -> PCs]
        /\ pc[w] \notin Between => cur[w] \in Msgs
    BY DEF TypeInv, TypeOK, WorkerTypes, LocalOK, LocalAt
  <1>1. CASE ClaimBatch(w) \/ ClaimLost(w)
    BY <1>0, <1>1, LockEffect DEF ClaimBatch, ClaimLost
  <1>2. CASE \/ Stop(w) \/ Skip(w) \/ BatchDone(w) \/ Start(w) \/ ChannelUnusable(w)
             \/ Post(w) \/ Count(w) \/ PauseChannel(w) \/ PushQueued(w)
    BY <1>2 DEF Stop, Skip, BatchDone, Start, ChannelUnusable, Post, Count, PauseChannel,
       PushQueued, rows, Kept, Unchanged
  <1>3. CASE Interrupted(w)
    <2>1. pc'[w] # pc[w] /\ Unsent(w) \subseteq Msgs
      BY <1>0, <1>3 DEF Interrupted, Unsent, Goto, Between
    <2>2. QED
      BY <1>0, <1>3, <2>1, DevolverEffect DEF Interrupted
  <1>4. CASE RenewAndStart(w)
    <2>1. PICK S : /\ S \subseteq Own(Msgs, w)
                   /\ age' = [n \in Msgs |-> IF n \in S THEN 0 ELSE age[n]]
      BY <1>0, <1>4 DEF RenewAndStart, Own
    <2>2. QED
      BY <1>4, <2>1 DEF RenewAndStart, Kept, Unchanged
  <1>5. CASE RenewFails(w)
    <2>1. PICK S : /\ S \subseteq Own(Msgs, w)
                   /\ \/ UNCHANGED age
                      \/ age' = [n \in Msgs |-> IF n \in S THEN 0 ELSE age[n]]
      BY <1>0, <1>5 DEF RenewFails, Own
    <2>2. QED
      BY <1>5, <2>1 DEF RenewFails, Kept, Unchanged
  <1>6. CASE ReturnBatch(w)
    <2>1. pc'[w] # pc[w]
      BY <1>0, <1>6 DEF ReturnBatch, Goto
    <2>2. QED
      BY <1>0, <1>6, <2>1, DevolverEffect DEF ReturnBatch
  <1>7. CASE MarkSent(w) \/ MarkFailed(w) \/ Reschedule(w)
    <2>1. {cur[w]} \subseteq Msgs /\ pc[w] = "outcome"
      BY <1>0, <1>7 DEF MarkSent, MarkFailed, Reschedule, Outcome, Between
    <2>2. pc'[w] # pc[w]
      BY <1>0, <1>7, <2>1 DEF MarkSent, MarkFailed, Reschedule, Finish, NextIteration, Goto
    <2>3. \/ \E st \in {"queued", "sent", "failed"}, d \in Nat : Unlock(Own({cur[w]}, w), st, d)
          \/ Abandon({cur[w]}, w)
      BY <1>7, OutcomeWrites
    <2>4. CASE Abandon({cur[w]}, w)
      BY <2>4 DEF Abandon, rows, Kept, Unchanged
    <2>5. CASE \E st \in {"queued", "sent", "failed"}, d \in Nat : Unlock(Own({cur[w]}, w), st, d)
      BY <1>0, <2>1, <2>2, <2>5, UnlockEffect
    <2>6. QED
      BY <2>3, <2>4, <2>5
  <1>8. CASE ReleaseCurrent(w)
    <2>1. {cur[w]} \subseteq Msgs /\ pc'[w] # pc[w]
      BY <1>0, <1>8 DEF ReleaseCurrent, Goto, Between
    <2>2. QED
      BY <1>0, <1>8, <2>1, DevolverEffect DEF ReleaseCurrent
  <1>9. CASE ReturnChannel(w)
    <2>1. RestOfChannel(w, channelOf[cur[w]]) \subseteq Msgs /\ pc'[w] # pc[w]
      BY <1>0, <1>9 DEF ReturnChannel, RestOfChannel, NextIteration, Goto
    <2>2. QED
      BY <1>0, <1>9, <2>1, DevolverEffect DEF ReturnChannel
  <1>10. QED
    BY <1>1, <1>2, <1>3, <1>4, <1>5, <1>6, <1>7, <1>8, <1>9 DEF WorkerStep

\* The reaper changes stale rows only.
LEMMA ReaperEffect ==
  ASSUME TypeOK, NEW r \in Replicas, ReaperStep(r), NEW m \in Msgs
  PROVE  \/ Unchanged(m) /\ age'[m] = age[m] /\ counted'[m] = counted[m]
         \/ /\ Stale(m) /\ status'[m] # "sending"
            /\ \/ counted'[m] = counted[m]
               \/ counted'[m] = counted[m] + 1 /\ status'[m] = "failed"
  BY DEF ReaperStep, ReapExhausted, ReapRest, ReapFails, Unlock, Stale, Unchanged, TypeOK,
     RowTypes, SharedTypes, rows, history

\* Signals, crashes and time change no status and no holder.
LEMMA EnvironmentEffect ==
  ASSUME (\E r \in Replicas : Sigterm(r) \/ Crash(r)) \/ Tick
  PROVE  UNCHANGED <<status, lockedBy, counted>>
  BY DEF Sigterm, Crash, Tick, rows, history

-----------------------------------------------------------------------------
(* The action properties.                                                  *)

LEMMA FinalStep ==
  ASSUME TypeInv, [Next]_vars, NEW m \in Msgs, status[m] \in Final
  PROVE  status'[m] = status[m]
  <1>0. status[m] \notin {"queued", "sending"}
    BY DEF Final
  <1>1. CASE \E w \in Workers : WorkerStep(w)
    BY <1>0, <1>1, WorkerEffect DEF Kept, Taken, Released, Unchanged, Own
  <1>2. CASE \E r \in Replicas : ReaperStep(r)
    BY <1>0, <1>2, ReaperEffect DEF Stale, Unchanged, TypeInv
  <1>3. CASE (\E r \in Replicas : Sigterm(r) \/ Crash(r)) \/ Tick
    BY <1>3, EnvironmentEffect
  <1>4. CASE UNCHANGED vars
    BY <1>4 DEF vars, rows
  <1>5. QED
    BY <1>1, <1>2, <1>3, <1>4 DEF Next

LEMMA HolderStep ==
  ASSUME TypeInv, [Next]_vars, NEW m \in Msgs, status[m] = "sending",
         status'[m] # "sending" \/ lockedBy'[m] # lockedBy[m]
  PROVE  age[m] > StuckAfter \/ pc'[lockedBy[m]] # pc[lockedBy[m]]
  <1>1. CASE \E w \in Workers : WorkerStep(w)
    BY <1>1, WorkerEffect DEF Kept, Taken, Released, Unchanged, Own
  <1>2. CASE \E r \in Replicas : ReaperStep(r)
    BY <1>2, ReaperEffect DEF Stale, Unchanged, TypeInv
  <1>3. CASE (\E r \in Replicas : Sigterm(r) \/ Crash(r)) \/ Tick
    BY <1>3, EnvironmentEffect
  <1>4. CASE UNCHANGED vars
    BY <1>4 DEF vars, rows
  <1>5. QED
    BY <1>1, <1>2, <1>3, <1>4 DEF Next

(***************************************************************************)
(* Whatever late workers, reapers and replicas do, and for any number of   *)
(* them, a final outcome of a message is never overwritten.                *)
(***************************************************************************)
THEOREM OutcomeIsFinal == Spec => FinalIsFinal
  <1>1. TypeInv /\ [Next]_vars => [\A m \in Msgs : status[m] \in Final => status'[m] = status[m]]_vars
    BY FinalStep
  <1>2. QED
    BY <1>1, TypeInvariant, PTL DEF Spec, FinalIsFinal

(***************************************************************************)
(* A possession ends by a step of its holder or, past the threshold, by a  *)
(* reaper's: a late worker never writes the row of its successor.          *)
(***************************************************************************)
THEOREM OnlyTheHolderReleases == Spec => OnlyHolderOrReaper
  <1>1. TypeInv /\ [Next]_vars =>
          [\A m \in Msgs :
             status[m] = "sending" /\ (status'[m] # "sending" \/ lockedBy'[m] # lockedBy[m])
             => \/ age[m] > StuckAfter
                \/ pc'[lockedBy[m]] # pc[lockedBy[m]]]_vars
    BY HolderStep
  <1>2. QED
    BY <1>1, TypeInvariant, PTL DEF Spec, OnlyHolderOrReaper

-----------------------------------------------------------------------------
(* The campaign counters.                                                  *)

\* A row whose counter is still to be written is final and uncounted, and
\* only one worker will count it.
CountInv ==
  /\ CountedOnce
  /\ \A w \in Workers : pc[w] = "count" => status[cur[w]] \in Final /\ counted[cur[w]] = 0
  /\ \A v, w \in Workers : pc[v] = "count" /\ pc[w] = "count" /\ cur[v] = cur[w] => v = w

\* A worker is about to count only what it has just closed.
LEMMA CountEntry ==
  ASSUME TypeInv, NEW w \in Workers, WorkerStep(w)
  PROVE  /\ pc'[w] = "count" =>
              /\ cur'[w] \in Msgs /\ status[cur'[w]] = "sending"
              /\ status'[cur'[w]] \in Final /\ counted' = counted
         /\ \A m \in Msgs : \/ counted'[m] = counted[m]
                           \/ /\ pc[w] = "count" /\ cur[w] = m
                              /\ counted'[m] = counted[m] + 1 /\ status' = status
  <1>0. /\ TypeOK /\ pc \in [Workers -> PCs] /\ counted \in [Msgs -> Nat]
        /\ pc[w] \notin Between => cur[w] \in Msgs
    BY DEF TypeInv, TypeOK, WorkerTypes, SharedTypes, LocalOK, LocalAt
  <1>1. CASE ClaimBatch(w) \/ ClaimLost(w) \/ Stop(w) \/ Skip(w) \/ Interrupted(w) \/ BatchDone(w)
    BY <1>0, <1>1 DEF ClaimBatch, ClaimLost, Stop, Skip, Interrupted, BatchDone, Goto, history
  <1>2. CASE Start(w) \/ RenewAndStart(w) \/ RenewFails(w) \/ ReturnBatch(w)
    BY <1>0, <1>2 DEF Start, RenewAndStart, RenewFails, ReturnBatch, Goto, history
  <1>3. CASE ChannelUnusable(w) \/ Post(w) \/ Reschedule(w)
    BY <1>0, <1>3 DEF ChannelUnusable, Post, Reschedule, Answered, NextIteration, Goto, history
  <1>4. CASE PauseChannel(w) \/ PushQueued(w) \/ ReleaseCurrent(w) \/ ReturnChannel(w)
    BY <1>0, <1>4 DEF PauseChannel, PushQueued, ReleaseCurrent, ReturnChannel, NextIteration,
       Goto, history
  <1>5. CASE MarkSent(w) \/ MarkFailed(w)
    <2>1. counted' = counted
      BY <1>5 DEF MarkSent, MarkFailed
    <2>2. CASE pc'[w] = "count"
      <3>1. PICK st \in Final : Finish(w, st) /\ ~NextIteration(w)
        BY <1>0, <1>5, <2>2 DEF MarkSent, MarkFailed, NextIteration, Goto, Final
      <3>2. Recorded(w) /\ cur' = cur /\ Unlock(Own({cur[w]}, w), st, 0)
        BY <3>1 DEF Finish, current
      <3>3. cur[w] \in Msgs /\ status[cur[w]] = "sending" /\ cur[w] \in Own({cur[w]}, w)
        BY <1>0, <1>5, <3>2 DEF MarkSent, MarkFailed, Outcome, Between, Recorded, Own
      <3>4. QED
        BY <2>1, <3>2, <3>3 DEF Unlock
    <2>3. QED
      BY <2>1, <2>2
  <1>6. CASE Count(w)
    BY <1>0, <1>6 DEF Count, NextIteration, Goto, rows, Between
  <1>7. QED
    BY <1>1, <1>2, <1>3, <1>4, <1>5, <1>6 DEF WorkerStep

LEMMA CountStep ==
  ASSUME TypeInv, CountInv, [Next]_vars
  PROVE  CountInv'
  <1>0. /\ counted \in [Msgs -> Nat] /\ TypeOK
        /\ \A v \in Workers : pc[v] = "count" => cur[v] \in Msgs
    BY DEF TypeInv, TypeOK, SharedTypes, LocalOK, LocalAt, Between
  <1>1. ASSUME NEW w \in Workers, WorkerStep(w)
        PROVE  CountInv'
    <2>1. \A m \in Msgs : status[m] \in Final => status'[m] = status[m]
      BY <1>1, FinalStep DEF Next
    <2>2. \A v \in Workers : v # w => pc'[v] = pc[v] /\ cur'[v] = cur[v]
      BY <1>0, <1>1, OthersUntouched
    <2>3. CountedOnce'
      <3>1. ASSUME NEW m \in Msgs
            PROVE  counted'[m] <= 1 /\ (counted'[m] = 1 => status'[m] \in Final)
        BY <1>0, <1>1, <2>1, CountEntry DEF CountInv, CountedOnce
      <3>2. QED
        BY <3>1 DEF CountedOnce
    <2>4. ASSUME NEW v \in Workers, pc'[v] = "count"
          PROVE  status'[cur'[v]] \in Final /\ counted'[cur'[v]] = 0
      <3>1. CASE v = w
        <4>1. /\ cur'[w] \in Msgs /\ status[cur'[w]] = "sending"
              /\ status'[cur'[w]] \in Final /\ counted' = counted
          BY <1>1, <2>4, <3>1, CountEntry
        <4>2. counted[cur'[w]] = 0
          BY <1>0, <4>1 DEF CountInv, CountedOnce, Final
        <4>3. QED
          BY <3>1, <4>1, <4>2
      <3>2. CASE v # w
        <4>1. pc[v] = "count" /\ cur'[v] = cur[v] /\ cur[v] \in Msgs
          BY <1>0, <2>2, <2>4, <3>2
        <4>2. status'[cur[v]] \in Final /\ counted[cur[v]] = 0
          BY <2>1, <4>1 DEF CountInv
        <4>3. counted'[cur[v]] = counted[cur[v]]
          BY <1>1, <3>2, <4>1, CountEntry DEF CountInv
        <4>4. QED
          BY <4>1, <4>2, <4>3
      <3>3. QED
        BY <3>1, <3>2
    <2>5. ASSUME NEW v \in Workers, NEW u \in Workers,
                 pc'[v] = "count", pc'[u] = "count", cur'[v] = cur'[u], v # u
          PROVE  FALSE
      <3>1. PICK x \in Workers : x # w /\ pc'[x] = "count" /\ (w \in {v, u} => cur'[w] = cur'[x])
        BY <2>5
      <3>2. pc[x] = "count" /\ cur'[x] = cur[x] /\ status[cur[x]] \in Final
        BY <2>2, <3>1 DEF CountInv
      <3>3. CASE w \in {v, u}
        BY <1>1, <2>5, <3>1, <3>2, <3>3, CountEntry DEF Final
      <3>4. CASE w \notin {v, u}
        BY <2>2, <2>5, <3>4 DEF CountInv
      <3>5. QED
        BY <3>3, <3>4
    <2>6. QED
      BY <2>3, <2>4, <2>5 DEF CountInv
  <1>2. ASSUME NEW r \in Replicas, ReaperStep(r)
        PROVE  CountInv'
    <2>1. UNCHANGED <<pc, cur>>
      BY <1>2, NotAWorkerStep
    <2>2. ASSUME NEW m \in Msgs
          PROVE  /\ counted'[m] <= 1 /\ (counted'[m] = 1 => status'[m] \in Final)
                 /\ status[m] \in Final => status'[m] = status[m] /\ counted'[m] = counted[m]
      BY <1>0, <1>2, ReaperEffect DEF CountInv, CountedOnce, Stale, Unchanged, Final
    <2>3. QED
      BY <1>0, <2>1, <2>2 DEF CountInv, CountedOnce
  <1>3. CASE (\E r \in Replicas : Sigterm(r) \/ Crash(r)) \/ Tick
    <2>1. UNCHANGED <<pc, cur, status, counted>>
      BY <1>3, NotAWorkerStep, EnvironmentEffect
    <2>2. QED
      BY <2>1 DEF CountInv, CountedOnce
  <1>4. CASE UNCHANGED vars
    BY <1>4 DEF vars, rows, current, history, CountInv, CountedOnce
  <1>5. QED
    BY <1>1, <1>2, <1>3, <1>4 DEF Next

(***************************************************************************)
(* The counters of a campaign never count a message twice, nor one that is *)
(* not final, however long workers stall and whoever closes the row.       *)
(***************************************************************************)
THEOREM CountersAreExact == Spec => []CountedOnce
  <1>1. Init => CountInv
    BY DEF Init, CountInv, CountedOnce
  <1>2. TypeInv /\ CountInv /\ [Next]_vars => CountInv'
    BY CountStep
  <1>3. CountInv => CountedOnce
    BY DEF CountInv
  <1>4. QED
    BY <1>1, <1>2, <1>3, TypeInvariant, PTL DEF Spec

-----------------------------------------------------------------------------
(* The lease: between two renewal checks no message in hand grows old.     *)

\* The clock of a batch is at most one step behind the last passed check.
TimelyAt(w) == Busy(w) => sinceRenewal[w] <= RenewAfter + step[w]

\* What w has in hand is its own, and no older than its last renewal.
HeldAt(w) ==
  \A m \in Msgs : InHand(w, m) => m \in Own(Msgs, w) /\ age[m] <= sinceRenewal[w]

LeaseInv == \A w \in Workers : Alive(w) => TimelyAt(w) /\ HeldAt(w)

\* A message in hand is out of the reaper's reach.
LEMMA InHandIsFresh ==
  ASSUME TypeOK, LeaseInv, NEW w \in Workers, Alive(w), NEW m \in Msgs, InHand(w, m), LocalAt(w)
  PROVE  m \in Own(Msgs, w) /\ ~Stale(m) /\ Busy(w)
  <1>1. Busy(w)
    BY DEF InHand, Pending, LocalAt, Busy
  <1>2. step[w] \in 0..MaxStep /\ sinceRenewal[w] \in Nat /\ age[m] \in Nat
    BY DEF TypeOK, WorkerTypes, RowTypes
  <1>3. QED
    BY <1>1, <1>2 DEF LeaseInv, TimelyAt, HeldAt, Stale

LEMMA TimelyStep ==
  ASSUME TypeInv, NEW w \in Workers, TimelyAt(w), WorkerStep(w)
  PROVE  TimelyAt(w)'
  <1>0. /\ pc \in [Workers -> PCs] /\ sinceRenewal \in [Workers -> Nat]
        /\ step \in [Workers -> Nat]
    BY DEF TypeInv, TypeOK, WorkerTypes
  <1>1. CASE ClaimBatch(w)
    BY <1>0, <1>1 DEF ClaimBatch, SetBatch, TimelyAt
  <1>2. CASE ClaimLost(w) \/ Stop(w) \/ Interrupted(w) \/ BatchDone(w)
    BY <1>0, <1>2 DEF ClaimLost, Stop, Interrupted, BatchDone, Goto, local, TimelyAt, Busy
  <1>3. CASE Start(w)
    BY <1>0, <1>3 DEF Start, RenewDue, TimelyAt
  <1>4. CASE RenewAndStart(w) \/ RenewFails(w)
    BY <1>0, <1>4 DEF RenewAndStart, RenewFails, TimelyAt
  <1>5. CASE Skip(w) \/ ReturnBatch(w) \/ ChannelUnusable(w) \/ Post(w)
    BY <1>0, <1>5 DEF Skip, ReturnBatch, ChannelUnusable, Post, local, TimelyAt, Busy
  <1>6. CASE MarkSent(w) \/ MarkFailed(w) \/ Count(w) \/ Reschedule(w)
    BY <1>0, <1>6 DEF MarkSent, MarkFailed, Count, Reschedule, Outcome, local, TimelyAt, Busy
  <1>7. CASE PauseChannel(w) \/ PushQueued(w) \/ ReleaseCurrent(w) \/ ReturnChannel(w)
    BY <1>0, <1>7 DEF PauseChannel, PushQueued, ReleaseCurrent, ReturnChannel, Outcome, local,
       TimelyAt, Busy
  <1>8. QED
    BY <1>1, <1>2, <1>3, <1>4, <1>5, <1>6, <1>7 DEF WorkerStep

\* What a worker has in hand after its own step it had before, untouched, or
\* has just claimed or re-stamped.
LEMMA HeldOwnStep ==
  ASSUME TypeInv, NEW w \in Workers, HeldAt(w), WorkerStep(w)
  PROVE  HeldAt(w)'
  <1>0. /\ TypeOK /\ LocalAt(w) /\ pc \in [Workers -> PCs] /\ cur[w] \in Msgs \cup {NoMsg}
        /\ batch \in [Workers -> SUBSET Msgs] /\ sinceRenewal \in [Workers -> Nat]
        /\ age \in [Msgs -> Nat] /\ lockedBy \in [Msgs -> Workers \cup {Nobody}]
        /\ pausados \in [Workers -> SUBSET Channels] /\ perdidas \in [Workers -> SUBSET Msgs]
        /\ cur \in [Workers -> Msgs \cup {NoMsg}]
        /\ answer \in [Workers -> Answers]
    BY DEF TypeInv, TypeOK, WorkerTypes, RowTypes, LocalOK
  <1> SUFFICES ASSUME NEW m \in Msgs, InHand(w, m)'
               PROVE  (m \in Own(Msgs, w) /\ age[m] <= sinceRenewal[w])'
    BY DEF HeldAt
  <1>1. CASE ClaimBatch(w)
    <2>1. PICK S \in SUBSET Msgs : Lock(S, w) /\ SetBatch(w, S)
      BY <1>1 DEF ClaimBatch
    <2>2. m \in S /\ sinceRenewal'[w] = 0
      BY <1>0, <1>1, <2>1 DEF ClaimBatch, SetBatch, Goto, current, InHand, Pending, LocalAt, Between
    <2>3. QED
      BY <2>1, <2>2 DEF Lock, Own
  <1>2. CASE ClaimLost(w) \/ Stop(w) \/ BatchDone(w) \/ Interrupted(w)
    BY <1>0, <1>2 DEF ClaimLost, Stop, BatchDone, Interrupted, SetBatch, Goto, local, current,
       InHand, Pending, LocalAt, Between, Busy
  <1>3. CASE Skip(w) \/ Start(w)
    <2>1. InHand(w, m)
      BY <1>0, <1>3 DEF Skip, Start, Goto, current, InHand, Pending
    <2>2. QED
      BY <1>3, <2>1 DEF Skip, Start, rows, HeldAt, Own
  <1>4. CASE RenewAndStart(w)
    <2>1. PICK n \in Pending(w) :
            LET asked    == batch[w] \ perdidas[w]
                survived == Own(asked, w) IN
            /\ age' = [k \in Msgs |-> IF k \in survived THEN 0 ELSE age[k]]
            /\ perdidas' = [perdidas EXCEPT ![w] = @ \cup (asked \ survived)]
            /\ batch' = [batch EXCEPT ![w] = @ \ {n}]
            /\ IF n \in survived
               THEN Goto(w, "process") /\ cur' = [cur EXCEPT ![w] = n]
               ELSE UNCHANGED <<pc, cur>>
      BY <1>4 DEF RenewAndStart
    <2>2. m \in Own(batch[w] \ perdidas[w], w)
      BY <1>0, <1>4, <2>1 DEF RenewAndStart, Goto, InHand, Pending, LocalAt, Between
    <2>3. QED
      BY <1>0, <1>4, <2>1, <2>2 DEF RenewAndStart, Own
  <1>5. CASE RenewFails(w) \/ ReturnBatch(w)
    BY <1>0, <1>5 DEF RenewFails, ReturnBatch, Goto, local, current, InHand, Pending, LocalAt, Between
  <1>6. CASE ChannelUnusable(w) \/ Post(w) \/ PauseChannel(w)
    <2>1. InHand(w, m)
      BY <1>0, <1>6 DEF ChannelUnusable, Post, PauseChannel, Outcome, Answered, Goto, local, InHand, Pending
    <2>2. QED
      BY <1>6, <2>1 DEF ChannelUnusable, Post, PauseChannel, rows, local, HeldAt, Own
  <1>7. CASE MarkSent(w) \/ MarkFailed(w) \/ Reschedule(w)
    <2>1. m # cur[w] /\ m \in Pending(w)
      <3>1. UNCHANGED local /\ pc'[w] \in {"count", "batch"}
        BY <1>0, <1>7 DEF MarkSent, MarkFailed, Reschedule, Finish, NextIteration, Goto
      <3>2. pc'[w] = "batch" => cur'[w] = NoMsg
        BY <1>0, <1>7 DEF MarkSent, MarkFailed, Reschedule, Finish, NextIteration, Goto
      <3>3. QED
        BY <1>0, <3>1, <3>2 DEF local, InHand, Pending, LocalAt
    <2>2. sinceRenewal' = sinceRenewal
      BY <1>7 DEF MarkSent, MarkFailed, Reschedule, local
    <2>3. \/ \E st \in {"queued", "sent", "failed"}, d \in Nat : Unlock(Own({cur[w]}, w), st, d)
          \/ Abandon({cur[w]}, w)
      BY <1>7, OutcomeWrites
    <2>4. status'[m] = status[m] /\ lockedBy'[m] = lockedBy[m] /\ age'[m] = age[m]
      BY <2>1, <2>3 DEF Unlock, Abandon, rows, Own
    <2>5. QED
      BY <2>1, <2>2, <2>4 DEF HeldAt, InHand, Own
  <1>8. CASE Count(w) \/ PushQueued(w)
    <2>1. InHand(w, m)
      BY <1>0, <1>8 DEF Count, PushQueued, NextIteration, Goto, local, InHand, Pending
    <2>2. QED
      BY <1>8, <2>1 DEF Count, PushQueued, rows, local, HeldAt, Own
  <1>9. CASE ReleaseCurrent(w) \/ ReturnChannel(w)
    <2>1. m \in Pending(w) /\ sinceRenewal' = sinceRenewal
      BY <1>0, <1>9 DEF ReleaseCurrent, ReturnChannel, NextIteration, Goto, local, current, InHand, Pending
    <2>2. PICK S : S \subseteq Msgs /\ Devolver(S, w) /\ m \notin S
      <3>1. CASE ReleaseCurrent(w)
        BY <1>0, <2>1, <3>1 DEF ReleaseCurrent, Pending, LocalAt, Between
      <3>2. CASE ReturnChannel(w)
        BY <1>0, <2>1, <3>2 DEF ReturnChannel, RestOfChannel, Pending, LocalAt
      <3>3. QED
        BY <1>9, <3>1, <3>2
    <2>3. status'[m] = status[m] /\ lockedBy'[m] = lockedBy[m] /\ age'[m] = age[m]
      BY <1>0, <2>2 DEF Devolver, ReleaseBatch, Unlock, Abandon, rows, Own, TypeOK, RowTypes
    <2>4. QED
      BY <2>1, <2>3 DEF HeldAt, InHand, Own
  <1>10. QED
    BY <1>1, <1>2, <1>3, <1>4, <1>5, <1>6, <1>7, <1>8, <1>9 DEF WorkerStep

\* Nobody else's step touches what a live worker has in hand.
LEMMA LeaseStep ==
  ASSUME Punctual, TypeInv, LeaseInv, [Next]_vars
  PROVE  LeaseInv'
  <1>0. /\ TypeOK /\ \A v \in Workers : LocalAt(v)
    BY DEF TypeInv, LocalOK
  <1>1. ASSUME NEW w \in Workers, WorkerStep(w)
        PROVE  LeaseInv'
    <2> SUFFICES ASSUME NEW v \in Workers, Alive(v)'
                 PROVE  TimelyAt(v)' /\ HeldAt(v)'
      BY DEF LeaseInv
    <2>1. CASE v = w
      <3>1. Alive(w)
        BY <1>1 DEF WorkerStep, ClaimBatch, ClaimLost, Stop, Skip, Interrupted, BatchDone, Start,
           RenewAndStart, RenewFails, ReturnBatch, ChannelUnusable, Post, MarkSent, MarkFailed,
           Outcome, Count, Reschedule, PauseChannel, PushQueued, ReleaseCurrent, ReturnChannel,
           Running, Cancelled, Alive
      <3>2. QED
        BY <1>1, <2>1, <3>1, TimelyStep, HeldOwnStep DEF LeaseInv
    <2>2. CASE v # w
      <3>1. /\ pc'[v] = pc[v] /\ cur'[v] = cur[v] /\ batch'[v] = batch[v]
            /\ pausados'[v] = pausados[v] /\ perdidas'[v] = perdidas[v]
            /\ sinceRenewal'[v] = sinceRenewal[v] /\ step'[v] = step[v] /\ ctx' = ctx
        BY <1>0, <1>1, <2>2, OthersUntouched
      <3>2. Alive(v) /\ TimelyAt(v) /\ HeldAt(v)
        BY <3>1 DEF LeaseInv, Alive
      <3>3. TimelyAt(v)'
        BY <3>1, <3>2 DEF TimelyAt, Busy
      <3>4. ASSUME NEW m \in Msgs, InHand(v, m)'
            PROVE  (m \in Own(Msgs, v) /\ age[m] <= sinceRenewal[v])'
        <4>1. InHand(v, m)
          BY <3>1, <3>4 DEF InHand, Pending
        <4>2. m \in Own(Msgs, v) /\ age[m] <= sinceRenewal[v]
          BY <3>2, <4>1 DEF HeldAt
        <4>3. Kept(w, m) /\ m \notin Own(Msgs, w)
          BY <1>1, <2>2, <4>2, WorkerEffect DEF Own, Taken, Released
        <4>4. QED
          BY <3>1, <4>2, <4>3 DEF Kept, Unchanged, Own
      <3>5. QED
        BY <3>3, <3>4 DEF HeldAt
    <2>3. QED
      BY <2>1, <2>2
  <1>2. ASSUME NEW r \in Replicas, ReaperStep(r)
        PROVE  LeaseInv'
    <2>1. UNCHANGED <<pc, cur, batch, pausados, perdidas, sinceRenewal, step, ctx>>
      BY <1>2 DEF ReaperStep, ReapExhausted, ReapRest, ReapFails, local, current, process
    <2>2. ASSUME NEW v \in Workers, Alive(v)'
          PROVE  TimelyAt(v)' /\ HeldAt(v)'
      <3>1. Alive(v) /\ TimelyAt(v) /\ HeldAt(v)
        BY <2>1, <2>2 DEF LeaseInv, Alive
      <3>2. ASSUME NEW m \in Msgs, InHand(v, m)'
            PROVE  (m \in Own(Msgs, v) /\ age[m] <= sinceRenewal[v])'
        <4>1. InHand(v, m)
          BY <2>1, <3>2 DEF InHand, Pending
        <4>2. m \in Own(Msgs, v) /\ ~Stale(m) /\ age[m] <= sinceRenewal[v]
          BY <1>0, <3>1, <4>1, InHandIsFresh DEF HeldAt
        <4>3. Unchanged(m) /\ age'[m] = age[m]
          BY <1>0, <1>2, <4>2, ReaperEffect
        <4>4. QED
          BY <2>1, <4>2, <4>3 DEF Unchanged, Own
      <3>3. QED
        BY <2>1, <3>1, <3>2 DEF TimelyAt, HeldAt, Busy
    <2>3. QED
      BY <2>2 DEF LeaseInv
  <1>3. ASSUME NEW r \in Replicas, Sigterm(r) \/ Crash(r)
        PROVE  LeaseInv'
    <2>1. UNCHANGED <<status, lockedBy, age, pc, cur, batch, pausados, perdidas, sinceRenewal, step>>
      BY <1>3 DEF Sigterm, Crash, rows, local, current
    <2>2. \A v \in Workers : Alive(v)' => Alive(v)
      BY <1>0, <1>3 DEF Sigterm, Crash, Alive, TypeOK, SharedTypes
    <2>3. QED
      BY <2>1, <2>2 DEF LeaseInv, TimelyAt, HeldAt, Busy, InHand, Pending, Own
  <1>4. CASE Tick
    <2> SUFFICES ASSUME NEW v \in Workers, Alive(v)'
                 PROVE  TimelyAt(v)' /\ HeldAt(v)'
      BY DEF LeaseInv
    <2>1. /\ UNCHANGED <<status, lockedBy, pc, cur, batch, pausados, perdidas, ctx>>
          /\ Alive(v) /\ TimelyAt(v) /\ HeldAt(v)
      BY <1>4 DEF Tick, process, Alive, LeaseInv
    <2>2. step[v] \in Nat /\ sinceRenewal[v] \in Nat
      BY <1>0 DEF TypeOK, WorkerTypes
    <2>3. Busy(v) => /\ step'[v] = step[v] + 1
                     /\ sinceRenewal'[v] = Aged(sinceRenewal[v])
      BY <1>0, <1>4, <2>1, <2>2 DEF Tick, Ticking, Smaller, TypeOK, WorkerTypes
    <2>4. TimelyAt(v)'
      BY <2>1, <2>2, <2>3 DEF TimelyAt, Busy, Aged, Smaller
    <2>5. ASSUME NEW m \in Msgs, InHand(v, m)'
          PROVE  (m \in Own(Msgs, v) /\ age[m] <= sinceRenewal[v])'
      <3>1. InHand(v, m)
        BY <2>1, <2>5 DEF InHand, Pending
      <3>2. m \in Own(Msgs, v) /\ Busy(v) /\ age[m] <= sinceRenewal[v] /\ age[m] \in Nat
        BY <1>0, <2>1, <3>1, InHandIsFresh DEF HeldAt, TypeOK, RowTypes
      <3>3. age'[m] = Aged(age[m])
        BY <1>4, <3>2 DEF Tick, Own
      <3>4. age'[m] <= sinceRenewal'[v]
        BY <2>2, <2>3, <3>2, <3>3 DEF Aged, Smaller
      <3>5. QED
        BY <2>1, <3>2, <3>4 DEF Own
    <2>6. QED
      BY <2>4, <2>5 DEF HeldAt
  <1>5. CASE UNCHANGED vars
    BY <1>5 DEF vars, rows, local, current, process, LeaseInv, TimelyAt, HeldAt, Alive, Busy,
       InHand, Pending, Own
  <1>6. QED
    BY <1>1, <1>2, <1>3, <1>4, <1>5 DEF Next

(***************************************************************************)
(* As long as live workers pass a renewal check every MaxStep, and          *)
(* RenewAfter + MaxStep <= StuckAfter, no message in hand is ever lost to   *)
(* the reaper or to another worker, for any number of replicas, workers,   *)
(* messages, crashes, signals, failures and pauses.                        *)
(***************************************************************************)
THEOREM LeaseIsExclusive ==
  ASSUME Punctual
  PROVE  Spec => []LeaseHeld
  <1>1. Init => LeaseInv
    BY DEF Init, LeaseInv, TimelyAt, HeldAt, Busy, InHand, Pending
  <1>2. TypeInv /\ LeaseInv /\ [Next]_vars => LeaseInv'
    BY LeaseStep
  <1>3. LeaseInv => LeaseHeld
    BY DEF LeaseInv, HeldAt, LeaseHeld, Own
  <1>4. QED
    BY <1>1, <1>2, <1>3, TypeInvariant, PTL DEF Spec

-----------------------------------------------------------------------------
(* Deliveries: every known acceptance is recorded, or about to be.         *)

\* A live worker knows that Meta accepted m and has not written it yet.
Knows(w, m) == Alive(w) /\ pc[w] = "outcome" /\ answer[w] = "ok" /\ cur[w] = m

DeliveryInv ==
  \A m \in Msgs :
    /\ accepted[m] <= 1
    /\ accepted[m] = 1 => status[m] = "sent" \/ \E w \in Workers : Knows(w, m)

\* How a worker's step may change what is known of the deliveries of m.
LEMMA AcceptedEffect ==
  ASSUME TypeInv, NEW w \in Workers, WorkerStep(w), NEW m \in Msgs
  PROVE  \/ accepted'[m] = accepted[m]
         \/ /\ pc[w] = "process" /\ cur[w] = m /\ accepted'[m] = accepted[m] + 1
            /\ Alive(w) /\ Knows(w, m)'
         \/ accepted'[m] = Minus1(accepted[m])
  <1>0. /\ accepted \in [Msgs -> Nat] /\ pc \in [Workers -> PCs] /\ answer \in [Workers -> Answers]
    BY DEF TypeInv, TypeOK, WorkerTypes, SharedTypes
  <1>1. CASE Post(w)
    BY <1>0, <1>1 DEF Post, Answered, Goto, process, Knows, Alive
  <1>2. CASE MarkSent(w)
    BY <1>0, <1>2 DEF MarkSent
  <1>3. CASE \/ ClaimBatch(w) \/ ClaimLost(w) \/ Stop(w) \/ Skip(w) \/ Interrupted(w)
             \/ BatchDone(w) \/ Start(w) \/ RenewAndStart(w) \/ RenewFails(w) \/ ReturnBatch(w)
    BY <1>3 DEF ClaimBatch, ClaimLost, Stop, Skip, Interrupted, BatchDone, Start, RenewAndStart,
       RenewFails, ReturnBatch, history
  <1>4. CASE \/ ChannelUnusable(w) \/ MarkFailed(w) \/ Count(w) \/ Reschedule(w)
             \/ PauseChannel(w) \/ PushQueued(w) \/ ReleaseCurrent(w) \/ ReturnChannel(w)
    BY <1>4 DEF ChannelUnusable, MarkFailed, Count, Reschedule, PauseChannel, PushQueued,
       ReleaseCurrent, ReturnChannel, history
  <1>5. QED
    BY <1>1, <1>2, <1>3, <1>4 DEF WorkerStep

\* An acceptance in the hands of its holder is recorded by its next step, or
\* forgotten.
LEMMA KnownIsRecorded ==
  ASSUME TypeInv, NEW w \in Workers, WorkerStep(w), NEW m \in Msgs, Knows(w, m), m \in Own(Msgs, w)
  PROVE  status'[m] = "sent" \/ accepted'[m] = Minus1(accepted[m])
  <1>0. accepted \in [Msgs -> Nat]
    BY DEF TypeInv, TypeOK, SharedTypes
  <1>1. MarkSent(w)
    BY DEF WorkerStep, Knows, ClaimBatch, ClaimLost, Stop, Skip, Interrupted, Unsent, BatchDone,
       Start, RenewAndStart, RenewFails, ReturnBatch, ChannelUnusable, Post, MarkFailed, GivesUp,
       Count, Reschedule, PauseChannel, Blocking, PushQueued, ReleaseCurrent, ReturnChannel
  <1>2. CASE Finish(w, "sent")
    <2>1. m \in Own({cur[w]}, w) /\ Unlock(Own({cur[w]}, w), "sent", 0)
      BY <1>2 DEF Finish, Knows, Own
    <2>2. QED
      BY <2>1 DEF Unlock
  <1>3. CASE accepted' = [accepted EXCEPT ![cur[w]] = Minus1(@)]
    BY <1>0, <1>3 DEF Knows
  <1>4. QED
    BY <1>1, <1>2, <1>3 DEF MarkSent

LEMMA DeliveryStep ==
  ASSUME Punctual, TypeInv, LeaseInv, DeliveryInv, [Next]_vars
  PROVE  DeliveryInv'
  <1>0. /\ TypeOK /\ accepted \in [Msgs -> Nat]
        /\ \A m \in Msgs : status[m] = "sent" => status'[m] = "sent"
        /\ \A v \in Workers, m \in Msgs : Knows(v, m) => m \in Own(Msgs, v)
    <2>1. \A m \in Msgs : status[m] = "sent" => status'[m] = "sent"
      BY FinalStep DEF Final
    <2>2. \A v \in Workers, m \in Msgs : Knows(v, m) => m \in Own(Msgs, v)
      BY DEF LeaseInv, HeldAt, InHand, Knows
    <2>3. QED
      BY <2>1, <2>2 DEF TypeInv, TypeOK, SharedTypes
  <1>1. ASSUME NEW w \in Workers, WorkerStep(w)
        PROVE  DeliveryInv'
    <2> SUFFICES ASSUME NEW m \in Msgs
                 PROVE  /\ accepted'[m] <= 1
                        /\ accepted'[m] = 1 =>
                             status'[m] = "sent" \/ \E v \in Workers : Knows(v, m)'
      BY DEF DeliveryInv
    <2>1. ASSUME NEW v \in Workers, v # w, Knows(v, m)
          PROVE  Knows(v, m)'
      BY <1>0, <1>1, <2>1, OthersUntouched DEF Knows, Alive
    <2>2. CASE accepted'[m] = accepted[m]
      BY <1>0, <1>1, <2>1, <2>2, KnownIsRecorded DEF DeliveryInv, Minus1
    <2>3. CASE accepted'[m] = Minus1(accepted[m])
      <3>1. accepted[m] \in {0, 1}
        BY <1>0 DEF DeliveryInv
      <3>2. QED
        BY <2>3, <3>1 DEF Minus1
    <2>4. CASE /\ pc[w] = "process" /\ cur[w] = m /\ accepted'[m] = accepted[m] + 1
               /\ Alive(w) /\ Knows(w, m)'
      <3>1. m \in Own(Msgs, w)
        BY <2>4 DEF LeaseInv, HeldAt, InHand
      <3>2. ~ \E v \in Workers : Knows(v, m)
        BY <1>0, <2>4, <3>1 DEF Own, Knows
      <3>3. accepted[m] = 0
        BY <1>0, <3>1, <3>2 DEF DeliveryInv, Own
      <3>4. QED
        BY <2>4, <3>3
    <2>5. QED
      BY <1>1, <2>2, <2>3, <2>4, AcceptedEffect
  <1>2. ASSUME NEW r \in Replicas, ReaperStep(r)
        PROVE  DeliveryInv'
    <2>1. UNCHANGED <<pc, cur, answer, ctx, accepted>>
      BY <1>2 DEF ReaperStep, ReapExhausted, ReapRest, ReapFails, current, process, history
    <2>2. QED
      BY <1>0, <2>1 DEF DeliveryInv, Knows, Alive
  <1>3. ASSUME NEW r \in Replicas, Crash(r)
        PROVE  DeliveryInv'
    <2> SUFFICES ASSUME NEW m \in Msgs
                 PROVE  /\ accepted'[m] <= 1
                        /\ accepted'[m] = 1 =>
                             status'[m] = "sent" \/ \E v \in Workers : Knows(v, m)'
      BY DEF DeliveryInv
    <2>1. UNCHANGED <<pc, cur, answer, status>>
      BY <1>3 DEF Crash, rows, current
    <2>2. CASE \E w \in Workers : replicaOf[w] = r /\ pc[w] = "outcome" /\ answer[w] = "ok" /\ cur[w] = m
      <3>1. accepted'[m] = Minus1(accepted[m]) /\ accepted[m] \in {0, 1}
        BY <1>0, <1>3, <2>2 DEF Crash, DeliveryInv
      <3>2. QED
        BY <3>1 DEF Minus1
    <2>3. CASE ~ \E w \in Workers : replicaOf[w] = r /\ pc[w] = "outcome" /\ answer[w] = "ok" /\ cur[w] = m
      <3>1. accepted'[m] = accepted[m]
        BY <1>3, <2>3 DEF Crash
      <3>2. ASSUME NEW v \in Workers, Knows(v, m)
            PROVE  Knows(v, m)'
        <4>1. replicaOf[v] # r /\ replicaOf[v] \in Replicas
          BY <2>3, <3>2 DEF Knows
        <4>2. ctx'[replicaOf[v]] = ctx[replicaOf[v]]
          BY <1>0, <1>3, <4>1 DEF Crash, TypeOK, SharedTypes
        <4>3. QED
          BY <2>1, <3>2, <4>2 DEF Knows, Alive
      <3>3. QED
        BY <2>1, <3>1, <3>2 DEF DeliveryInv
    <2>4. QED
      BY <2>2, <2>3
  <1>4. ASSUME NEW r \in Replicas, Sigterm(r)
        PROVE  DeliveryInv'
    <2>1. /\ UNCHANGED <<pc, cur, answer, status, accepted>>
          /\ \A v \in Workers : Alive(v) => Alive(v)'
      BY <1>0, <1>4 DEF Sigterm, rows, current, history, Alive, TypeOK, SharedTypes
    <2>2. QED
      BY <2>1 DEF DeliveryInv, Knows
  <1>5. CASE Tick \/ UNCHANGED vars
    <2>1. UNCHANGED <<pc, cur, answer, ctx, status, accepted>>
      BY <1>5 DEF Tick, vars, rows, current, process, history
    <2>2. QED
      BY <2>1 DEF DeliveryInv, Knows, Alive
  <1>6. QED
    BY <1>1, <1>2, <1>3, <1>4, <1>5 DEF Next

(***************************************************************************)
(* With punctual workers, nothing but the loss of Meta's answer makes a     *)
(* message be sent twice, for any number of replicas, workers and crashes. *)
(***************************************************************************)
THEOREM NoDuplicateDelivery ==
  ASSUME Punctual
  PROVE  Spec => []NoKnownDuplicate
  <1>1. Init => DeliveryInv /\ LeaseInv
    BY DEF Init, DeliveryInv, LeaseInv, TimelyAt, HeldAt, Busy, InHand, Pending
  <1>2. TypeInv /\ LeaseInv /\ DeliveryInv /\ [Next]_vars => LeaseInv' /\ DeliveryInv'
    BY LeaseStep, DeliveryStep
  <1>3. DeliveryInv => NoKnownDuplicate
    BY DEF DeliveryInv, NoKnownDuplicate
  <1>4. QED
    BY <1>1, <1>2, <1>3, TypeInvariant, PTL DEF Spec

-----------------------------------------------------------------------------
(* No leak and no false orphan: what a live worker locked it still has.    *)

\* A row of w that nobody gave up is in its batch or in process(); of a
\* channel that has paused only while the rest of the channel goes back.
HolderAt(w) ==
  \A m \in Own(Msgs, w) \ orphans :
    /\ m \in batch[w] \/ Handling(w, m)
    /\ m \notin perdidas[w]
    /\ m \in batch[w] /\ channelOf[m] \in pausados[w] =>
         pc[w] = "return_channel" /\ channelOf[m] = channelOf[cur[w]]
    /\ age[m] <= sinceRenewal[w]

HolderInv == \A w \in Workers : Alive(w) => TimelyAt(w) /\ HolderAt(w)

\* A statement that ends the possession of S leaves no row of S without
\* holder or orphan, and touches no other row of the worker.
LEMMA EndedOrOrphan ==
  ASSUME TypeOK, NEW w \in Workers, NEW S, S \subseteq Msgs,
         \/ Devolver(S, w)
         \/ Abandon(S, w)
         \/ orphans' = orphans /\ \E st \in {"queued", "sent", "failed"}, d \in Nat :
                                    Unlock(Own(S, w), st, d),
         NEW m \in Msgs, (m \in Own(Msgs, w) \ orphans)'
  PROVE  m \in Own(Msgs, w) \ orphans /\ m \notin S /\ age'[m] = age[m]
  <1>1. CASE \E st \in {"queued", "sent", "failed"}, d \in Nat : Unlock(Own(S, w), st, d)
    <2>1. PICK st \in {"queued", "sent", "failed"}, d \in Nat : Unlock(Own(S, w), st, d)
      BY <1>1
    <2>2. m \notin Own(S, w)
      BY <2>1 DEF Unlock, Own
    <2>3. m \in Own(Msgs, w) /\ m \notin S /\ age'[m] = age[m]
      BY <2>1, <2>2 DEF Unlock, Own
    <2>4. m \notin orphans
      BY <2>2 DEF Devolver, Abandon, ReleaseBatch
    <2>5. QED
      BY <2>3, <2>4
  <1>2. CASE Abandon(S, w)
    BY <1>2 DEF Abandon, rows, Own
  <1>3. CASE Devolver(S, w)
    BY <1>1, <1>2, <1>3 DEF Devolver, ReleaseBatch
  <1>4. QED
    BY <1>1, <1>2, <1>3

LEMMA HolderOwnStep ==
  ASSUME TypeInv, NEW w \in Workers, HolderAt(w), WorkerStep(w)
  PROVE  HolderAt(w)'
  <1>0. /\ TypeOK /\ LocalAt(w) /\ pc \in [Workers -> PCs] /\ cur[w] \in Msgs \cup {NoMsg}
        /\ batch \in [Workers -> SUBSET Msgs] /\ sinceRenewal \in [Workers -> Nat]
        /\ age \in [Msgs -> Nat] /\ lockedBy \in [Msgs -> Workers \cup {Nobody}]
        /\ pausados \in [Workers -> SUBSET Channels] /\ perdidas \in [Workers -> SUBSET Msgs]
        /\ cur \in [Workers -> Msgs \cup {NoMsg}] /\ batch[w] \subseteq Msgs
    BY DEF TypeInv, TypeOK, WorkerTypes, RowTypes, LocalOK
  <1> SUFFICES ASSUME NEW m \in Msgs, (m \in Own(Msgs, w) \ orphans)'
               PROVE  (/\ m \in batch[w] \/ Handling(w, m)
                       /\ m \notin perdidas[w]
                       /\ m \in batch[w] /\ channelOf[m] \in pausados[w] =>
                            pc[w] = "return_channel" /\ channelOf[m] = channelOf[cur[w]]
                       /\ age[m] <= sinceRenewal[w])'
    BY DEF HolderAt, Own
  <1>h. m \in Own(Msgs, w) \ orphans =>
          /\ m \in batch[w] \/ Handling(w, m)
          /\ m \notin perdidas[w]
          /\ m \in batch[w] /\ channelOf[m] \in pausados[w] =>
               pc[w] = "return_channel" /\ channelOf[m] = channelOf[cur[w]]
          /\ age[m] <= sinceRenewal[w]
    BY DEF HolderAt
  <1>1. CASE ClaimBatch(w)
    <2>1. PICK S \in SUBSET Msgs : Lock(S, w) /\ SetBatch(w, S)
      BY <1>1 DEF ClaimBatch
    <2>2. m \notin Own(Msgs, w) \ orphans
      BY <1>0, <1>h, <1>1 DEF ClaimBatch, Handling, LocalAt, Busy
    <2>3. m \in S
      BY <1>1, <2>1, <2>2 DEF ClaimBatch, history, Lock, Own
    <2>4. QED
      BY <1>0, <2>1, <2>3 DEF Lock, SetBatch
  <1>2. CASE ClaimLost(w) \/ Stop(w)
    <2>1. m \notin Own(Msgs, w) \ orphans
      BY <1>0, <1>h, <1>2 DEF ClaimLost, Stop, Handling, LocalAt, Busy
    <2>2. m \in Own(Msgs, w) \ orphans
      BY <1>2 DEF ClaimLost, Stop, Lock, Own, rows, history
    <2>3. QED
      BY <2>1, <2>2
  <1>3. CASE Skip(w) \/ Start(w)
    <2>1. m \in Own(Msgs, w) \ orphans /\ age' = age /\ sinceRenewal' = sinceRenewal
          /\ perdidas' = perdidas /\ pausados' = pausados
      BY <1>3 DEF Skip, Start, rows, history, Own
    <2>2. m \in Pending(w) /\ channelOf[m] \notin pausados[w]
      BY <1>h, <1>3, <2>1 DEF Skip, Start, Handling, Pending
    <2>3. m \in batch'[w] \/ Handling(w, m)'
      <3>1. CASE Skip(w)
        BY <1>0, <2>2, <3>1 DEF Skip, Pending
      <3>2. CASE Start(w)
        <4>1. PICK n \in Pending(w) : /\ batch' = [batch EXCEPT ![w] = @ \ {n}]
                                      /\ cur'   = [cur EXCEPT ![w] = n]
          BY <3>2 DEF Start
        <4>2. pc'[w] = "process" /\ cur'[w] = n /\ batch'[w] = batch[w] \ {n}
          BY <1>0, <3>2, <4>1 DEF Start, Goto
        <4>3. QED
          BY <2>2, <4>2 DEF Handling, Pending
      <3>3. QED
        BY <1>3, <3>1, <3>2
    <2>4. QED
      BY <1>h, <2>1, <2>2, <2>3
  <1>4. CASE Interrupted(w)
    <2>1. Unsent(w) \subseteq Msgs /\ Devolver(Unsent(w), w)
      BY <1>0, <1>4 DEF Interrupted, Unsent, LocalAt, Between
    <2>2. m \in Own(Msgs, w) \ orphans /\ m \notin Unsent(w)
      BY <1>0, <2>1, EndedOrOrphan
    <2>3. m \in Unsent(w)
      BY <1>h, <1>4, <2>2 DEF Interrupted, Unsent, Handling
    <2>4. QED
      BY <2>2, <2>3
  <1>5. CASE BatchDone(w)
    <2>1. m \in Own(Msgs, w) \ orphans
      BY <1>5 DEF BatchDone, rows, history, Own
    <2>2. QED
      BY <1>h, <1>5, <2>1 DEF BatchDone, Handling
  <1>6. CASE RenewAndStart(w)
    <2>1. PICK n \in Pending(w) :
            LET asked    == batch[w] \ perdidas[w]
                survived == Own(asked, w) IN
            /\ age' = [k \in Msgs |-> IF k \in survived THEN 0 ELSE age[k]]
            /\ perdidas' = [perdidas EXCEPT ![w] = @ \cup (asked \ survived)]
            /\ batch' = [batch EXCEPT ![w] = @ \ {n}]
            /\ IF n \in survived
               THEN Goto(w, "process") /\ cur' = [cur EXCEPT ![w] = n]
               ELSE UNCHANGED <<pc, cur>>
      BY <1>6 DEF RenewAndStart
    <2>2. m \in Own(Msgs, w) \ orphans
      BY <1>6 DEF RenewAndStart, history, Own
    <2>3. m \in batch[w] /\ m \notin perdidas[w] /\ channelOf[m] \notin pausados[w]
      BY <1>h, <1>6, <2>2 DEF RenewAndStart, Handling
    <2>4. m \in Own(batch[w] \ perdidas[w], w)
      BY <2>2, <2>3 DEF Own
    <2>5. age'[m] = 0 /\ sinceRenewal'[w] = 0 /\ m \notin perdidas'[w] /\ pausados' = pausados
      BY <1>0, <1>6, <2>1, <2>3, <2>4 DEF RenewAndStart
    <2>6. m \in batch'[w] \/ Handling(w, m)'
      BY <1>0, <2>1, <2>3, <2>4 DEF Handling, Goto
    <2>7. QED
      BY <2>3, <2>5, <2>6
  <1>7. CASE RenewFails(w)
    <2>1. m \in Own(Msgs, w) \ orphans /\ m \notin Own(batch[w] \ perdidas[w], w)
      BY <1>7 DEF RenewFails, Own
    <2>2. QED
      BY <1>h, <1>7, <2>1 DEF RenewFails, Handling, Own
  <1>8. CASE ReturnBatch(w)
    <2>1. m \in Own(Msgs, w) \ orphans /\ m \notin batch[w]
      BY <1>0, <1>8, EndedOrOrphan DEF ReturnBatch
    <2>2. QED
      BY <1>h, <1>8, <2>1 DEF ReturnBatch, Handling
  <1>9. CASE ChannelUnusable(w) \/ Post(w) \/ PauseChannel(w) \/ PushQueued(w)
    <2>1. /\ m \in Own(Msgs, w) \ orphans /\ age' = age
          /\ UNCHANGED <<batch, pausados, perdidas, sinceRenewal, cur>>
      BY <1>9 DEF ChannelUnusable, Post, PauseChannel, PushQueued, rows, local, history, Own
    <2>2. Handling(w, m) => Handling(w, m)'
      BY <1>0, <1>9, <2>1 DEF ChannelUnusable, Post, PauseChannel, PushQueued, Answered, Goto, Handling
    <2>3. pc[w] # "return_channel"
      BY <1>9 DEF ChannelUnusable, Post, PauseChannel, PushQueued, Outcome
    <2>4. QED
      BY <1>h, <2>1, <2>2, <2>3
  <1>10. CASE MarkSent(w) \/ MarkFailed(w) \/ Reschedule(w)
    <2>1. cur[w] \in Msgs /\ pc[w] = "outcome"
      BY <1>0, <1>10 DEF MarkSent, MarkFailed, Reschedule, Outcome, LocalAt, Between
    <2>2. \/ Abandon({cur[w]}, w)
          \/ orphans' = orphans /\ \E st \in {"queued", "sent", "failed"}, d \in Nat :
                                     Unlock(Own({cur[w]}, w), st, d)
      BY <1>10 DEF MarkSent, MarkFailed, Reschedule, Finish
    <2>3. m \in Own(Msgs, w) \ orphans /\ m # cur[w] /\ age'[m] = age[m]
      BY <1>0, <2>1, <2>2, EndedOrOrphan
    <2>4. UNCHANGED local
      BY <1>10 DEF MarkSent, MarkFailed, Reschedule
    <2>5. m \in batch[w]
      BY <1>h, <2>3 DEF Handling
    <2>6. QED
      BY <1>h, <2>1, <2>3, <2>4, <2>5 DEF local
  <1>11. CASE Count(w)
    <2>1. m \in Own(Msgs, w) \ orphans /\ age' = age /\ UNCHANGED local /\ pc[w] = "count"
      BY <1>11 DEF Count, rows, Own
    <2>2. QED
      BY <1>h, <2>1 DEF Handling, local
  <1>12. CASE ReleaseCurrent(w)
    <2>1. cur[w] \in Msgs
      BY <1>0, <1>12 DEF ReleaseCurrent, LocalAt, Between
    <2>2. m \in Own(Msgs, w) \ orphans /\ m # cur[w] /\ age'[m] = age[m]
      BY <1>0, <1>12, <2>1, EndedOrOrphan DEF ReleaseCurrent
    <2>3. m \in batch[w] /\ channelOf[m] \notin pausados[w]
      BY <1>h, <1>12, <2>2 DEF Handling, ReleaseCurrent
    <2>4. /\ batch' = batch /\ cur' = cur /\ perdidas' = perdidas /\ sinceRenewal' = sinceRenewal
          /\ pc'[w] = "return_channel" /\ pausados'[w] = pausados[w] \cup {channelOf[cur[w]]}
      BY <1>0, <1>12 DEF ReleaseCurrent, Goto, current
    <2>5. QED
      BY <1>h, <2>2, <2>3, <2>4
  <1>13. CASE ReturnChannel(w)
    <2>1. RestOfChannel(w, channelOf[cur[w]]) \subseteq Msgs
      BY <1>0 DEF RestOfChannel
    <2>2. /\ m \in Own(Msgs, w) \ orphans /\ age'[m] = age[m]
          /\ m \notin RestOfChannel(w, channelOf[cur[w]])
      BY <1>0, <1>13, <2>1, EndedOrOrphan DEF ReturnChannel
    <2>3. m \in batch[w] /\ channelOf[m] # channelOf[cur[w]]
      BY <1>h, <1>13, <2>2 DEF Handling, ReturnChannel, RestOfChannel
    <2>4. UNCHANGED local
      BY <1>13 DEF ReturnChannel
    <2>5. QED
      BY <1>h, <2>2, <2>3, <2>4 DEF local
  <1>14. QED
    BY <1>1, <1>2, <1>3, <1>4, <1>5, <1>6, <1>7, <1>8, <1>9, <1>10, <1>11, <1>12, <1>13
    DEF WorkerStep

\* A row stops being an orphan by a step of its holder, or of a reaper that
\* ends the possession.
LEMMA OrphansOfOthers ==
  ASSUME TypeInv, NEW w \in Workers, WorkerStep(w), NEW m \in orphans, m \notin orphans'
  PROVE  m \in Own(Msgs, w)
  <1>0. orphans \subseteq Msgs
    BY DEF TypeInv, TypeOK, SharedTypes
  <1>1. ASSUME NEW S, Devolver(S, w)
        PROVE  m \in Own(Msgs, w)
    BY <1>0, <1>1 DEF Devolver, ReleaseBatch, Abandon, Own
  <1>2. CASE Interrupted(w) \/ ReturnBatch(w) \/ ReleaseCurrent(w) \/ ReturnChannel(w)
    BY <1>1, <1>2 DEF Interrupted, ReturnBatch, ReleaseCurrent, ReturnChannel
  <1>3. QED
    BY <1>2 DEF WorkerStep, ClaimBatch, ClaimLost, Stop, Skip, BatchDone, Start, RenewAndStart,
       RenewFails, ChannelUnusable, Post, MarkSent, MarkFailed, Finish, Count, Reschedule, Abandon,
       PauseChannel, PushQueued, history

LEMMA HolderInvStep ==
  ASSUME Punctual, TypeInv, HolderInv, [Next]_vars
  PROVE  HolderInv'
  <1>0. /\ TypeOK /\ \A v \in Workers : LocalAt(v)
    BY DEF TypeInv, LocalOK
  <1>1. ASSUME NEW w \in Workers, WorkerStep(w)
        PROVE  HolderInv'
    <2> SUFFICES ASSUME NEW v \in Workers, Alive(v)'
                 PROVE  TimelyAt(v)' /\ HolderAt(v)'
      BY DEF HolderInv
    <2>1. CASE v = w
      <3>1. Alive(w)
        BY <1>1 DEF WorkerStep, ClaimBatch, ClaimLost, Stop, Skip, Interrupted, BatchDone, Start,
           RenewAndStart, RenewFails, ReturnBatch, ChannelUnusable, Post, MarkSent, MarkFailed,
           Outcome, Count, Reschedule, PauseChannel, PushQueued, ReleaseCurrent, ReturnChannel,
           Running, Cancelled, Alive
      <3>2. QED
        BY <1>1, <2>1, <3>1, TimelyStep, HolderOwnStep DEF HolderInv
    <2>2. CASE v # w
      <3>1. /\ pc'[v] = pc[v] /\ cur'[v] = cur[v] /\ batch'[v] = batch[v]
            /\ pausados'[v] = pausados[v] /\ perdidas'[v] = perdidas[v]
            /\ sinceRenewal'[v] = sinceRenewal[v] /\ step'[v] = step[v] /\ ctx' = ctx
        BY <1>0, <1>1, <2>2, OthersUntouched
      <3>2. Alive(v) /\ TimelyAt(v) /\ HolderAt(v)
        BY <3>1 DEF HolderInv, Alive
      <3>3. TimelyAt(v)'
        BY <3>1, <3>2 DEF TimelyAt, Busy
      <3>4. ASSUME NEW m \in Msgs, (m \in Own(Msgs, v) \ orphans)'
            PROVE  m \in Own(Msgs, v) \ orphans /\ age'[m] = age[m]
        <4>1. Kept(w, m) /\ m \in Own(Msgs, v) /\ m \notin Own(Msgs, w)
          BY <1>1, <2>2, <3>4, WorkerEffect DEF Own, Kept, Unchanged, Taken, Released
        <4>2. m \notin orphans
          BY <1>1, <3>4, <4>1, OrphansOfOthers
        <4>3. QED
          BY <4>1, <4>2 DEF Kept
      <3>5. HolderAt(v)'
        BY <3>1, <3>2, <3>4 DEF HolderAt, Handling, Own
      <3>6. QED
        BY <3>3, <3>5
    <2>3. QED
      BY <2>1, <2>2
  <1>2. ASSUME NEW r \in Replicas, ReaperStep(r)
        PROVE  HolderInv'
    <2>1. UNCHANGED <<pc, cur, batch, pausados, perdidas, sinceRenewal, step, ctx>>
      BY <1>2 DEF ReaperStep, ReapExhausted, ReapRest, ReapFails, local, current, process
    <2>2. ASSUME NEW v \in Workers, NEW m \in Msgs, (m \in Own(Msgs, v) \ orphans)'
          PROVE  m \in Own(Msgs, v) \ orphans /\ age'[m] = age[m]
      <3>1. Unchanged(m) /\ age'[m] = age[m] /\ m \in Own(Msgs, v)
        BY <1>0, <1>2, <2>2, ReaperEffect DEF Own, Unchanged
      <3>2. m \notin orphans
        BY <1>2, <2>2, <3>1 DEF ReaperStep, ReapExhausted, ReapRest, ReapFails, Unlock, Own,
           history
      <3>3. QED
        BY <3>1, <3>2
    <2>3. ASSUME NEW v \in Workers, Alive(v)'
          PROVE  TimelyAt(v)' /\ HolderAt(v)'
      <3>1. TimelyAt(v) /\ HolderAt(v)
        BY <2>1, <2>3 DEF HolderInv, Alive
      <3>2. HolderAt(v)'
        BY <2>1, <2>2, <3>1 DEF HolderAt, Handling, Own
      <3>3. QED
        BY <2>1, <3>1, <3>2 DEF TimelyAt, Busy
    <2>4. QED
      BY <2>3 DEF HolderInv
  <1>3. ASSUME NEW r \in Replicas, Sigterm(r) \/ Crash(r)
        PROVE  HolderInv'
    <2>1. UNCHANGED <<status, lockedBy, age, pc, cur, batch, pausados, perdidas, sinceRenewal,
                      step, orphans>>
      BY <1>3 DEF Sigterm, Crash, rows, local, current, history
    <2>2. \A v \in Workers : Alive(v)' => Alive(v)
      BY <1>0, <1>3 DEF Sigterm, Crash, Alive, TypeOK, SharedTypes
    <2>3. QED
      BY <2>1, <2>2 DEF HolderInv, TimelyAt, HolderAt, Busy, Handling, Own
  <1>4. CASE Tick
    <2> SUFFICES ASSUME NEW v \in Workers, Alive(v)'
                 PROVE  TimelyAt(v)' /\ HolderAt(v)'
      BY DEF HolderInv
    <2>1. /\ UNCHANGED <<status, lockedBy, pc, cur, batch, pausados, perdidas, ctx, orphans>>
          /\ Alive(v) /\ TimelyAt(v) /\ HolderAt(v)
      BY <1>4 DEF Tick, process, history, Alive, HolderInv
    <2>2. step[v] \in Nat /\ sinceRenewal[v] \in Nat
      BY <1>0 DEF TypeOK, WorkerTypes
    <2>3. Busy(v) => /\ step'[v] = step[v] + 1
                     /\ sinceRenewal'[v] = Aged(sinceRenewal[v])
      BY <1>0, <1>4, <2>1, <2>2 DEF Tick, Ticking, Smaller, TypeOK, WorkerTypes
    <2>4. TimelyAt(v)'
      BY <2>1, <2>2, <2>3 DEF TimelyAt, Busy, Aged, Smaller
    <2>5. ASSUME NEW m \in Own(Msgs, v) \ orphans
          PROVE  age'[m] <= sinceRenewal'[v]
      <3>1. Busy(v) /\ age[m] <= sinceRenewal[v] /\ age[m] \in Nat
        BY <1>0, <2>1 DEF HolderAt, Handling, Busy, LocalAt, Own, TypeOK, RowTypes
      <3>2. age'[m] = Aged(age[m])
        BY <1>4 DEF Tick, Own
      <3>3. QED
        BY <2>2, <2>3, <3>1, <3>2 DEF Aged, Smaller
    <2>6. QED
      BY <2>1, <2>4, <2>5 DEF HolderAt, Handling, Own
  <1>5. CASE UNCHANGED vars
    BY <1>5 DEF vars, rows, local, current, process, history, HolderInv, TimelyAt, HolderAt, Alive,
       Busy, Handling, Own
  <1>6. QED
    BY <1>1, <1>2, <1>3, <1>4, <1>5 DEF Next

\* The reaper's threshold is out of reach of a row that its worker holds.
LEMMA HeldIsFresh ==
  ASSUME TypeInv, HolderInv, NEW w \in Workers, Alive(w), NEW m \in Own(Msgs, w) \ orphans
  PROVE  (m \in batch[w] \/ Handling(w, m)) /\ ~Stale(m)
  <1>1. LocalAt(w) /\ TimelyAt(w) /\ HolderAt(w)
    BY DEF TypeInv, LocalOK, HolderInv
  <1>2. step[w] \in 0..MaxStep /\ sinceRenewal[w] \in Nat /\ age[m] \in Nat
    BY DEF TypeInv, TypeOK, WorkerTypes, RowTypes, Own
  <1>3. Busy(w)
    BY <1>1 DEF HolderAt, Handling, Busy, LocalAt
  <1>4. QED
    BY <1>1, <1>2, <1>3 DEF TimelyAt, HolderAt, Stale

\* A row in 'sending' has a holder.
LockedInv == \A m \in Msgs : status[m] = "sending" => lockedBy[m] \in Workers

LEMMA LockedStep ==
  ASSUME TypeInv, LockedInv, [Next]_vars
  PROVE  LockedInv'
  <1> SUFFICES ASSUME NEW m \in Msgs, status'[m] = "sending"
               PROVE  lockedBy'[m] \in Workers
    BY DEF LockedInv
  <1>1. CASE \E w \in Workers : WorkerStep(w)
    BY <1>1, WorkerEffect DEF LockedInv, Kept, Taken, Released, Unchanged
  <1>2. CASE \E r \in Replicas : ReaperStep(r)
    BY <1>2, ReaperEffect DEF LockedInv, Unchanged, TypeInv
  <1>3. CASE (\E r \in Replicas : Sigterm(r) \/ Crash(r)) \/ Tick
    BY <1>3, EnvironmentEffect DEF LockedInv
  <1>4. CASE UNCHANGED vars
    BY <1>4 DEF LockedInv, vars, rows
  <1>5. QED
    BY <1>1, <1>2, <1>3, <1>4 DEF Next

(***************************************************************************)
(* For any number of replicas, workers and messages, a row in 'sending'     *)
(* that a living process locked is in the hands of its worker and out of    *)
(* the reaper's reach, unless a statement about it failed: neither a pause, *)
(* nor a lost renewal, nor SIGTERM leaves a row behind.                     *)
(***************************************************************************)
THEOREM NoLeakNoFalseOrphan ==
  ASSUME Punctual
  PROVE  Spec => []HeldOrOrphan
  <1>1. Init => HolderInv /\ LockedInv
    BY DEF Init, HolderInv, TimelyAt, HolderAt, Busy, Own, LockedInv
  <1>2. TypeInv /\ HolderInv /\ LockedInv /\ [Next]_vars => HolderInv' /\ LockedInv'
    BY HolderInvStep, LockedStep
  <1>3. TypeInv /\ HolderInv /\ LockedInv => HeldOrOrphan
    <2> SUFFICES ASSUME TypeInv, HolderInv, LockedInv, NEW m \in Msgs, status[m] = "sending",
                        m \notin orphans, Alive(lockedBy[m])
                 PROVE  (m \in batch[lockedBy[m]] \/ Handling(lockedBy[m], m)) /\ ~Stale(m)
      BY DEF HeldOrOrphan
    <2>1. lockedBy[m] \in Workers /\ m \in Own(Msgs, lockedBy[m]) \ orphans
      BY DEF LockedInv, Own
    <2>2. QED
      BY <2>1, HeldIsFresh
  <1>4. QED
    BY <1>1, <1>2, <1>3, TypeInvariant, PTL DEF Spec

-----------------------------------------------------------------------------
(* A deploy and a pause are free: every row accounts for its attempts.     *)

\* No statement has failed and no process was killed.
Calm == dbFailures = 0 /\ \A r \in Replicas : ctx[r] # "dead"

\* w has m, and the attempt of its claim is not spent yet; or w has POSTed m
\* and not been refused for the channel.
Unspent(w, m) ==
  \/ m \in batch[w]
  \/ cur[w] = m /\ \/ pc[w] \in {"process", "push", "release"}
                   \/ pc[w] = "outcome" /\ answer[w] \in Blocking

Posted(w, m) == cur[w] = m /\ pc[w] = "outcome" /\ answer[w] \notin Blocking

\* The attempts that row m accounts for.
Used(m) == spent[m] + torn[m]

QueuedAt(m) == status[m] = "queued" => attempts[m] = Used(m) /\ m \notin orphans

\* The books of a row that w locked.  One it lost by a claim that SIGTERM
\* cancelled is in the books already.
SpentRow(w, m) ==
  /\ Unspent(w, m) => attempts[m] = Used(m) + 1
  /\ Posted(w, m) /\ answer[w] = "transient" => attempts[m] = Used(m)
  /\ ~Unspent(w, m) /\ ~Posted(w, m) => attempts[m] = Used(m)
  /\ m \in orphans /\ (Unspent(w, m) \/ Posted(w, m)) => pc[w] = "return_batch"

\* Rows whose renewal was interrupted go back before the reaper sees them.
SpentLocal(w) ==
  /\ answer[w] # "lookup_error"
  /\ pc[w] = "return_batch" =>
       \A m \in batch[w] \cap Own(Msgs, w) : age[m] <= RenewAfter + step[w]

SpentInv ==
  Calm => /\ \A m \in Msgs : QueuedAt(m)
          /\ \A w \in Workers : SpentLocal(w) /\ \A m \in Own(Msgs, w) : SpentRow(w, m)

\* ReleaseBatch undoes attempts that are not spent.
LEMMA ReleaseIsFree ==
  ASSUME TypeOK, NEW w \in Workers, NEW S, S \subseteq Msgs, ReleaseBatch(S, w), UNCHANGED <<spent, torn>>,
         NEW m \in Msgs, QueuedAt(m), m \in Own(S, w) => attempts[m] = Used(m) + 1
  PROVE  /\ QueuedAt(m)'
         /\ (m \in Own(Msgs, w))' => m \in Own(Msgs, w) /\ m \notin S
         /\ m \notin Own(Msgs, w) /\ status[m] = "sending" =>
              attempts'[m] = attempts[m] /\ (m \in orphans' => m \in orphans)
         /\ m \notin S => attempts'[m] = attempts[m] /\ (m \in orphans' => m \in orphans)
  <1>1. attempts[m] \in Nat /\ Used(m) \in Nat
    BY DEF TypeOK, RowTypes, SharedTypes, Used
  <1>2. CASE m \in Own(S, w)
    <2>1. status'[m] = "queued" /\ attempts'[m] = Used(m)' /\ m \notin orphans'
      BY <1>1, <1>2 DEF ReleaseBatch, Unlock, Undone, Minus1, Used
    <2>2. m \in Own(Msgs, w) /\ m \in S
      BY <1>2 DEF Own
    <2>3. QED
      BY <2>1, <2>2 DEF Used, QueuedAt, Own
  <1>3. CASE m \notin Own(S, w)
    <2>1. /\ status'[m] = status[m] /\ lockedBy'[m] = lockedBy[m] /\ attempts'[m] = attempts[m]
          /\ m \in orphans' <=> m \in orphans
      BY <1>1, <1>3 DEF ReleaseBatch, Unlock
    <2>2. QED
      BY <1>3, <2>1 DEF Used, QueuedAt, Own
  <1>4. QED
    BY <1>2, <1>3

\* What w's step does to the books of one row.
Booked(w, m) ==
  /\ QueuedAt(m)'
  /\ (m \in Own(Msgs, w))' => SpentRow(w, m)'
  /\ m \notin Own(Msgs, w) /\ status[m] = "sending" =>
       attempts'[m] = attempts[m] /\ Used(m)' = Used(m) /\ (m \in orphans' => m \in orphans)

LEMMA BookedClaim ==
  ASSUME TypeInv, NEW w \in Workers, dbFailures = 0, dbFailures' = 0,
         ClaimBatch(w) \/ ClaimLost(w) \/ Stop(w),
         NEW m \in Msgs, QueuedAt(m), m \in Own(Msgs, w) => SpentRow(w, m)
  PROVE  Booked(w, m)
  <1>0. /\ TypeOK /\ LocalAt(w) /\ pc \in [Workers -> PCs] /\ attempts[m] \in Nat
        /\ batch \in [Workers -> SUBSET Msgs] /\ cur \in [Workers -> Msgs \cup {NoMsg}]
        /\ spent \in [Msgs -> Nat] /\ torn \in [Msgs -> Nat] /\ ~DbFails
    BY DEF TypeInv, TypeOK, WorkerTypes, RowTypes, SharedTypes, LocalOK, DbFails
  <1>1. batch[w] = {} /\ cur[w] = NoMsg
    BY <1>0 DEF ClaimBatch, ClaimLost, Stop, LocalAt, Between, Busy
  <1>2. m \in Own(Msgs, w) => attempts[m] = Used(m)
    BY <1>1 DEF Used, SpentRow, Unspent, Posted
  <1>3. CASE ClaimBatch(w)
    <2>1. PICK S \in SUBSET Msgs : Lock(S, w) /\ SetBatch(w, S)
      BY <1>3 DEF ClaimBatch
    <2>2. batch'[w] = S /\ cur' = cur /\ pc'[w] = "batch" /\ UNCHANGED <<spent, torn>> /\ orphans' = orphans
      BY <1>0, <1>3, <2>1 DEF ClaimBatch, SetBatch, Goto, current, history
    <2>3. CASE m \in S
      <3>1. /\ status[m] = "queued" /\ status'[m] = "sending" /\ attempts'[m] = Used(m)' + 1
            /\ m \notin orphans'
        BY <2>1, <2>2, <2>3 DEF Used, Lock, Ready, Claimed, QueuedAt
      <3>2. Unspent(w, m)' /\ ~Posted(w, m)'
        BY <2>2, <2>3 DEF Unspent, Posted
      <3>3. QED
        BY <3>1, <3>2 DEF Used, Booked, QueuedAt, SpentRow
    <2>4. CASE m \notin S
      <3>1. /\ status'[m] = status[m] /\ lockedBy'[m] = lockedBy[m] /\ attempts'[m] = attempts[m]
        BY <2>1, <2>4 DEF Lock
      <3>2. ~Unspent(w, m)' /\ ~Posted(w, m)'
        BY <1>1, <2>2, <2>4 DEF Unspent, Posted
      <3>3. QED
        BY <1>2, <2>2, <3>1, <3>2 DEF Used, Booked, QueuedAt, SpentRow, Own
    <2>5. QED
      BY <2>3, <2>4
  <1>4. CASE ClaimLost(w)
    <2>1. PICK S \in SUBSET Msgs :
            /\ Lock(S, w)
            /\ orphans' = orphans \cup S /\ spent' = spent
            /\ torn' = [n \in Msgs |-> IF n \in S THEN torn[n] + 1 ELSE torn[n]]
      BY <1>0, <1>4 DEF ClaimLost
    <2>2. ~Unspent(w, m)' /\ ~Posted(w, m)'
      BY <1>0, <1>1, <1>4 DEF ClaimLost, Goto, local, current, Unspent, Posted
    <2>3. CASE m \in S
      <3>1. status[m] = "queued" /\ status'[m] = "sending" /\ attempts'[m] = Used(m)'
        BY <1>0, <2>1, <2>3 DEF Used, Lock, Ready, Claimed, QueuedAt
      <3>2. QED
        BY <2>2, <3>1 DEF Used, Booked, QueuedAt, SpentRow
    <2>4. CASE m \notin S
      <3>1. /\ status'[m] = status[m] /\ lockedBy'[m] = lockedBy[m] /\ attempts'[m] = attempts[m]
            /\ Used(m)' = Used(m) /\ (m \in orphans' <=> m \in orphans)
        BY <1>0, <2>1, <2>4 DEF Lock, Used
      <3>2. QED
        BY <1>2, <2>2, <3>1 DEF Used, Booked, QueuedAt, SpentRow, Own
    <2>5. QED
      BY <2>3, <2>4
  <1>5. CASE Stop(w)
    <2>1. UNCHANGED <<status, lockedBy, attempts, spent, torn, orphans, batch, cur>> /\ pc'[w] = "stopped"
      BY <1>0, <1>5 DEF Stop, Goto, rows, local, current, history
    <2>2. ~Unspent(w, m)' /\ ~Posted(w, m)'
      BY <1>1, <2>1 DEF Unspent, Posted
    <2>3. QED
      BY <1>2, <2>1, <2>2 DEF Used, Booked, QueuedAt, SpentRow, Own
  <1>6. QED
    BY <1>3, <1>4, <1>5

LEMMA BookedBatch ==
  ASSUME TypeInv, NEW w \in Workers, dbFailures = 0, dbFailures' = 0, HolderAt(w),
         \/ Skip(w) \/ Interrupted(w) \/ BatchDone(w) \/ Start(w)
         \/ RenewAndStart(w) \/ RenewFails(w) \/ ReturnBatch(w),
         NEW m \in Msgs, QueuedAt(m), m \in Own(Msgs, w) => SpentRow(w, m)
  PROVE  Booked(w, m)
  <1>0. /\ TypeOK /\ LocalAt(w) /\ pc \in [Workers -> PCs] /\ attempts[m] \in Nat
        /\ batch \in [Workers -> SUBSET Msgs] /\ cur \in [Workers -> Msgs \cup {NoMsg}]
        /\ spent \in [Msgs -> Nat] /\ torn \in [Msgs -> Nat] /\ ~DbFails
        /\ perdidas \in [Workers -> SUBSET Msgs]
    BY DEF TypeInv, TypeOK, WorkerTypes, RowTypes, SharedTypes, LocalOK, DbFails
  <1>1. CASE Skip(w)
    <2>1. PICK n \in batch[w] \ Pending(w) : batch' = [batch EXCEPT ![w] = @ \ {n}]
      BY <1>1 DEF Skip
    <2>2. UNCHANGED <<status, lockedBy, attempts, spent, torn, orphans, pc, cur, answer>>
      BY <1>1 DEF Skip, rows, history, current
    <2>3. n \notin Own(Msgs, w) \/ n # m
      BY <1>1, <2>1 DEF Used, Skip, HolderAt, Pending, Handling, SpentRow, Unspent
    <2>4. m \in Own(Msgs, w) => Unspent(w, m)' = Unspent(w, m) /\ Posted(w, m)' = Posted(w, m)
      BY <1>0, <2>1, <2>2, <2>3 DEF Unspent, Posted
    <2>5. QED
      BY <2>2, <2>4 DEF Used, Booked, QueuedAt, SpentRow, Own
  <1>2. CASE Interrupted(w)
    <2>1. /\ Unsent(w) \subseteq Msgs /\ ReleaseBatch(Unsent(w), w) /\ UNCHANGED <<spent, torn>>
          /\ pc[w] \in {"batch", "process"}
      BY <1>0, <1>2 DEF Interrupted, Devolver, Unsent, LocalAt, Between
    <2>2. Unspent(w, m) <=> m \in Unsent(w)
      BY <1>0, <2>1 DEF Unspent, Unsent, LocalAt, Between
    <2>3. ~Posted(w, m)
      BY <2>1 DEF Posted
    <2>4. ~Unspent(w, m)' /\ ~Posted(w, m)'
      BY <1>0, <1>2 DEF Interrupted, SetBatch, Goto, Unspent, Posted
    <2>5. m \in Own(Unsent(w), w) => attempts[m] = Used(m) + 1
      BY <2>2 DEF Used, SpentRow, Own
    <2>6. /\ QueuedAt(m)'
          /\ (m \in Own(Msgs, w))' => m \in Own(Msgs, w) /\ m \notin Unsent(w)
          /\ m \notin Own(Msgs, w) /\ status[m] = "sending" =>
               attempts'[m] = attempts[m] /\ (m \in orphans' => m \in orphans)
          /\ m \notin Unsent(w) => attempts'[m] = attempts[m] /\ (m \in orphans' => m \in orphans)
      BY <1>0, <2>1, <2>5, ReleaseIsFree
    <2>7. QED
      BY <2>1, <2>2, <2>3, <2>4, <2>6 DEF Used, Booked, SpentRow
  <1>3. CASE BatchDone(w)
    <2>1. /\ UNCHANGED <<status, lockedBy, attempts, spent, torn, orphans, cur, answer>>
          /\ pc[w] = "batch" /\ pc'[w] = "loop" /\ batch[w] = {} /\ batch'[w] = {}
      BY <1>0, <1>3 DEF BatchDone, SetBatch, Goto, rows, current, history
    <2>2. QED
      BY <2>1 DEF Used, Booked, QueuedAt, SpentRow, Own, Unspent, Posted
  <1>4. CASE Start(w)
    <2>1. PICK n \in Pending(w) : /\ batch' = [batch EXCEPT ![w] = @ \ {n}]
                                  /\ cur'   = [cur EXCEPT ![w] = n]
      BY <1>4 DEF Start
    <2>2. /\ UNCHANGED <<status, lockedBy, attempts, spent, torn, orphans, answer>>
          /\ pc[w] = "batch" /\ pc'[w] = "process" /\ cur[w] = NoMsg /\ cur'[w] = n
          /\ batch'[w] = batch[w] \ {n} /\ n \in batch[w]
      BY <1>0, <1>4, <2>1 DEF Start, Goto, rows, history, LocalAt, Between, Pending
    <2>3. Unspent(w, m)' = Unspent(w, m) /\ ~Posted(w, m)' /\ ~Posted(w, m)
      BY <2>2 DEF Unspent, Posted
    <2>4. QED
      BY <2>2, <2>3 DEF Used, Booked, QueuedAt, SpentRow, Own
  <1>5. CASE RenewAndStart(w)
    <2>1. PICK n \in Pending(w) :
            LET asked    == batch[w] \ perdidas[w]
                survived == Own(asked, w) IN
            /\ age' = [k \in Msgs |-> IF k \in survived THEN 0 ELSE age[k]]
            /\ perdidas' = [perdidas EXCEPT ![w] = @ \cup (asked \ survived)]
            /\ batch' = [batch EXCEPT ![w] = @ \ {n}]
            /\ IF n \in survived
               THEN Goto(w, "process") /\ cur' = [cur EXCEPT ![w] = n]
               ELSE UNCHANGED <<pc, cur>>
      BY <1>5 DEF RenewAndStart
    <2>2. /\ UNCHANGED <<status, lockedBy, attempts, spent, torn, orphans, answer>>
          /\ pc[w] = "batch" /\ cur[w] = NoMsg
          /\ batch'[w] = batch[w] \ {n} /\ n \in batch[w] \ perdidas[w]
      BY <1>0, <1>5, <2>1 DEF RenewAndStart, rows, history, LocalAt, Between, Pending
    <2>3. \/ pc'[w] = "process" /\ cur'[w] = n
          \/ n \notin Own(batch[w] \ perdidas[w], w) /\ pc'[w] = "batch" /\ cur'[w] = NoMsg
      BY <1>0, <2>1, <2>2 DEF Goto
    <2>4. m \in Own(Msgs, w) =>
            Unspent(w, m)' = Unspent(w, m) /\ ~Posted(w, m)' /\ ~Posted(w, m)
      BY <2>2, <2>3 DEF Unspent, Posted, Own
    <2>5. QED
      BY <2>2, <2>4 DEF Used, Booked, QueuedAt, SpentRow, Own
  <1>6. CASE RenewFails(w)
    <2>1. /\ UNCHANGED <<status, lockedBy, attempts, spent, torn, batch, cur>>
          /\ pc[w] = "batch" /\ pc'[w] = "return_batch" /\ cur[w] = NoMsg
          /\ orphans' = orphans \cup Own(batch[w] \ perdidas[w], w)
      BY <1>0, <1>6 DEF RenewFails, Goto, current, LocalAt, Between
    <2>2. Unspent(w, m)' = Unspent(w, m) /\ ~Posted(w, m)' /\ ~Posted(w, m)
      BY <1>0, <2>1 DEF Unspent, Posted
    <2>3. QED
      BY <2>1, <2>2 DEF Used, Booked, QueuedAt, SpentRow, Own
  <1>7. CASE ReturnBatch(w)
    <2>1. /\ batch[w] \subseteq Msgs /\ ReleaseBatch(batch[w], w) /\ UNCHANGED <<spent, torn>>
          /\ pc[w] = "return_batch" /\ pc'[w] = "batch" /\ cur[w] = NoMsg
          /\ UNCHANGED <<batch, cur>>
      BY <1>0, <1>7 DEF ReturnBatch, Devolver, Goto, local, current, LocalAt, Between
    <2>2. ~Posted(w, m) /\ ~Posted(w, m)' /\ (Unspent(w, m) <=> m \in batch[w])
      BY <1>0, <2>1 DEF Unspent, Posted
    <2>3. Unspent(w, m)' <=> m \in batch[w]
      BY <1>0, <2>1 DEF Unspent
    <2>5. m \in Own(batch[w], w) => attempts[m] = Used(m) + 1
      BY <2>2 DEF Used, SpentRow, Own
    <2>6. /\ QueuedAt(m)'
          /\ (m \in Own(Msgs, w))' => m \in Own(Msgs, w) /\ m \notin batch[w]
          /\ m \notin Own(Msgs, w) /\ status[m] = "sending" =>
               attempts'[m] = attempts[m] /\ (m \in orphans' => m \in orphans)
          /\ m \notin batch[w] => attempts'[m] = attempts[m] /\ (m \in orphans' => m \in orphans)
      BY <1>0, <2>1, <2>5, ReleaseIsFree
    <2>7. QED
      BY <2>1, <2>2, <2>3, <2>6 DEF Used, Booked, SpentRow
  <1>8. QED
    BY <1>1, <1>2, <1>3, <1>4, <1>5, <1>6, <1>7

\* The POST spends the attempt unless Meta refuses the channel; only what
\* has spent it is rescheduled.
LEMMA BookedProcess ==
  ASSUME TypeInv, NEW w \in Workers, dbFailures = 0, dbFailures' = 0, SpentLocal(w),
         InHand(w, cur[w]) => cur[w] \in Own(Msgs, w),
         \/ ChannelUnusable(w) \/ Post(w) \/ MarkSent(w) \/ MarkFailed(w) \/ Count(w)
         \/ Reschedule(w),
         NEW m \in Msgs, QueuedAt(m), m \in Own(Msgs, w) => SpentRow(w, m)
  PROVE  Booked(w, m)
  <1>0. /\ TypeOK /\ LocalAt(w) /\ pc \in [Workers -> PCs] /\ attempts[m] \in Nat
        /\ batch \in [Workers -> SUBSET Msgs] /\ cur \in [Workers -> Msgs \cup {NoMsg}]
        /\ spent \in [Msgs -> Nat] /\ torn \in [Msgs -> Nat] /\ ~DbFails /\ answer \in [Workers -> Answers]
    BY DEF TypeInv, TypeOK, WorkerTypes, RowTypes, SharedTypes, LocalOK, DbFails
  <1>1. CASE ChannelUnusable(w) \/ Post(w)
    <2>1. PICK a \in Answers : Answered(w, a)
      BY <1>1 DEF ChannelUnusable, Post, Answers
    <2>2. /\ UNCHANGED <<status, lockedBy, attempts, orphans, batch, cur>>
          /\ pc[w] = "process" /\ pc'[w] = "outcome" /\ answer'[w] = a
      BY <1>0, <1>1, <2>1 DEF ChannelUnusable, Post, Answered, Goto, rows, local, history
    <2>3. cur[w] \in Own(Msgs, w) /\ cur[w] \notin batch[w]
      BY <1>0, <2>2 DEF InHand, LocalAt
    <2>4. CASE m = cur[w]
      <3>1. attempts[m] = Used(m) + 1 /\ m \notin orphans
        BY <2>2, <2>3, <2>4 DEF Used, SpentRow, Unspent
      <3>2. /\ a \in Blocking => Used(m)' = Used(m)
            /\ a = "transient" => Used(m)' = Used(m) + 1
        <4>1. torn' = torn
          BY <1>1 DEF ChannelUnusable, Post, history
        <4>2. /\ a \in Blocking => spent'[m] = spent[m]
              /\ a = "transient" => spent'[m] = spent[m] + 1
          BY <1>0, <1>1, <2>1, <2>2, <2>4 DEF ChannelUnusable, Post, Answered, Blocking
        <4>3. QED
          BY <1>0, <4>1, <4>2 DEF Used
      <3>3. /\ Unspent(w, m)' <=> a \in Blocking
            /\ Posted(w, m)' <=> a \notin Blocking
        BY <2>2, <2>3, <2>4 DEF Unspent, Posted
      <3>4. SpentRow(w, m)'
        BY <2>2, <3>1, <3>2, <3>3 DEF Used, SpentRow, Blocking
      <3>5. QED
        BY <2>2, <2>3, <2>4, <3>4 DEF Used, Booked, QueuedAt, Own
    <2>5. CASE m # cur[w]
      <3>1. Used(m)' = Used(m)
        BY <1>0, <1>1, <2>5 DEF ChannelUnusable, Post, history, Used
      <3>2. Unspent(w, m)' = Unspent(w, m) /\ ~Posted(w, m)' /\ ~Posted(w, m)
        BY <2>2, <2>5 DEF Unspent, Posted
      <3>3. m \in Own(Msgs, w) => ~(m \in orphans /\ Unspent(w, m))
        BY <2>2 DEF Used, SpentRow
      <3>4. QED
        BY <2>2, <3>1, <3>2, <3>3 DEF Used, Booked, QueuedAt, SpentRow, Own
    <2>6. QED
      BY <2>4, <2>5
  <1>2. CASE MarkSent(w) \/ MarkFailed(w) \/ Reschedule(w)
    <2>1. /\ pc[w] = "outcome" /\ cur[w] \in Msgs /\ cur[w] \notin batch[w]
          /\ UNCHANGED <<attempts, spent, torn, orphans, batch>> /\ answer[w] \notin Blocking
      BY <1>0, <1>2 DEF MarkSent, MarkFailed, GivesUp, Reschedule, Outcome, Finish, LocalAt,
         Between, local, Blocking
    <2>2. pc'[w] \in {"count", "batch"} /\ (pc'[w] = "batch" => cur'[w] = NoMsg)
      BY <1>0, <1>2 DEF MarkSent, MarkFailed, Reschedule, Finish, NextIteration, Goto
    <2>3. PICK st \in {"queued", "sent", "failed"}, d \in Nat :
            /\ Unlock(Own({cur[w]}, w), st, d)
            /\ st = "queued" => answer[w] = "transient"
      <3>1. CASE MarkSent(w) \/ MarkFailed(w)
        <4>1. PICK st \in {"sent", "failed"} : Finish(w, st)
          BY <1>0, <3>1 DEF MarkSent, MarkFailed
        <4>2. Unlock(Own({cur[w]}, w), st, 0) /\ st # "queued"
          BY <4>1 DEF Finish
        <4>3. QED
          BY <4>2
      <3>2. CASE Reschedule(w)
        <4>1. /\ \E d \in 1..MaxBackoff : Unlock(Own({cur[w]}, w), "queued", d)
              /\ answer[w] = "transient"
          BY <1>0, <3>2 DEF Reschedule, SpentLocal
        <4>2. QED
          BY <4>1
      <3>3. QED
        BY <1>2, <3>1, <3>2
    <2>4. CASE m = cur[w] /\ m \in Own(Msgs, w)
      <3>1. status'[m] = st
        BY <2>3, <2>4 DEF Unlock, Own
      <3>2. Posted(w, m)
        BY <2>1, <2>4 DEF Posted
      <3>3. st = "queued" => attempts[m] = Used(m) /\ m \notin orphans
        BY <2>1, <2>3, <2>4, <3>2 DEF Used, SpentRow
      <3>4. QED
        BY <2>1, <2>4, <3>1, <3>3 DEF Used, Booked, QueuedAt, Own
    <2>5. CASE ~(m = cur[w] /\ m \in Own(Msgs, w))
      <3>1. status'[m] = status[m] /\ lockedBy'[m] = lockedBy[m]
        BY <2>3, <2>5 DEF Unlock, Own
      <3>2. m \in Own(Msgs, w) =>
              Unspent(w, m)' = Unspent(w, m) /\ ~Posted(w, m)' /\ ~Posted(w, m)
        BY <2>1, <2>2, <2>5 DEF Unspent, Posted
      <3>3. m \in Own(Msgs, w) => ~(m \in orphans /\ Unspent(w, m))
        BY <2>1 DEF Used, SpentRow
      <3>4. QED
        BY <2>1, <3>1, <3>2, <3>3 DEF Used, Booked, QueuedAt, SpentRow, Own
    <2>6. QED
      BY <2>4, <2>5
  <1>3. CASE Count(w)
    <2>1. /\ UNCHANGED <<status, lockedBy, attempts, spent, torn, orphans, batch>>
          /\ pc[w] = "count" /\ pc'[w] = "batch" /\ cur'[w] = NoMsg
      BY <1>0, <1>3 DEF Count, NextIteration, Goto, rows, local
    <2>2. Unspent(w, m)' = Unspent(w, m) /\ ~Posted(w, m)' /\ ~Posted(w, m)
      BY <2>1 DEF Unspent, Posted
    <2>3. m \in Own(Msgs, w) => ~(m \in orphans /\ Unspent(w, m))
      BY <2>1 DEF Used, SpentRow
    <2>4. QED
      BY <2>1, <2>2, <2>3 DEF Used, Booked, QueuedAt, SpentRow, Own
  <1>4. QED
    BY <1>1, <1>2, <1>3

LEMMA BookedPause ==
  ASSUME TypeInv, NEW w \in Workers, dbFailures = 0, dbFailures' = 0,
         PauseChannel(w) \/ PushQueued(w) \/ ReleaseCurrent(w) \/ ReturnChannel(w),
         NEW m \in Msgs, QueuedAt(m), m \in Own(Msgs, w) => SpentRow(w, m)
  PROVE  Booked(w, m)
  <1>0. /\ TypeOK /\ LocalAt(w) /\ pc \in [Workers -> PCs] /\ attempts[m] \in Nat
        /\ batch \in [Workers -> SUBSET Msgs] /\ cur \in [Workers -> Msgs \cup {NoMsg}]
        /\ spent \in [Msgs -> Nat] /\ torn \in [Msgs -> Nat] /\ ~DbFails /\ answer \in [Workers -> Answers]
    BY DEF TypeInv, TypeOK, WorkerTypes, RowTypes, SharedTypes, LocalOK, DbFails
  <1>1. CASE PauseChannel(w) \/ PushQueued(w)
    <2>1. /\ UNCHANGED <<status, lockedBy, attempts, spent, torn, orphans, batch, cur, answer>>
          /\ \/ pc[w] = "outcome" /\ answer[w] \in Blocking
             \/ pc[w] = "push"
          /\ pc'[w] \in {"push", "release"}
      BY <1>0, <1>1 DEF PauseChannel, PushQueued, Outcome, Goto, rows, local, history
    <2>2. Unspent(w, m)' = Unspent(w, m) /\ ~Posted(w, m)' /\ ~Posted(w, m)
      BY <2>1 DEF Unspent, Posted
    <2>3. m \in Own(Msgs, w) => ~(m \in orphans /\ Unspent(w, m))
      BY <2>1 DEF Used, SpentRow
    <2>4. QED
      BY <2>1, <2>2, <2>3 DEF Used, Booked, QueuedAt, SpentRow, Own
  <1>2. CASE ReleaseCurrent(w)
    <2>1. /\ {cur[w]} \subseteq Msgs /\ ReleaseBatch({cur[w]}, w) /\ UNCHANGED <<spent, torn>>
          /\ pc[w] = "release" /\ pc'[w] = "return_channel" /\ UNCHANGED <<batch, cur>>
      BY <1>0, <1>2 DEF ReleaseCurrent, Devolver, Goto, current, LocalAt, Between
    <2>2. m \in Own({cur[w]}, w) => attempts[m] = Used(m) + 1
      BY <2>1 DEF Used, SpentRow, Unspent, Own
    <2>3. /\ QueuedAt(m)'
          /\ (m \in Own(Msgs, w))' => m \in Own(Msgs, w) /\ m \notin {cur[w]}
          /\ m \notin Own(Msgs, w) /\ status[m] = "sending" =>
               attempts'[m] = attempts[m] /\ (m \in orphans' => m \in orphans)
          /\ m \notin {cur[w]} => attempts'[m] = attempts[m] /\ (m \in orphans' => m \in orphans)
      BY <1>0, <2>1, <2>2, ReleaseIsFree
    <2>4. m # cur[w] => Unspent(w, m)' = Unspent(w, m) /\ ~Posted(w, m)' /\ ~Posted(w, m)
      BY <2>1 DEF Unspent, Posted
    <2>5. m \in Own(Msgs, w) => ~(m \in orphans /\ Unspent(w, m))
      BY <2>1 DEF Used, SpentRow
    <2>6. QED
      BY <2>1, <2>3, <2>4, <2>5 DEF Used, Booked, SpentRow
  <1>3. CASE ReturnChannel(w)
    <2> DEFINE S == RestOfChannel(w, channelOf[cur[w]])
    <2>1. /\ S \subseteq batch[w] /\ S \subseteq Msgs /\ ReleaseBatch(S, w) /\ UNCHANGED <<spent, torn>>
          /\ pc[w] = "return_channel" /\ pc'[w] = "batch" /\ cur'[w] = NoMsg /\ batch' = batch
      BY <1>0, <1>3 DEF ReturnChannel, RestOfChannel, Devolver, NextIteration, Goto, local
    <2>2. m \in Own(S, w) => attempts[m] = Used(m) + 1
      BY <2>1 DEF Used, SpentRow, Unspent, Own
    <2>3. /\ QueuedAt(m)'
          /\ (m \in Own(Msgs, w))' => m \in Own(Msgs, w) /\ m \notin S
          /\ m \notin Own(Msgs, w) /\ status[m] = "sending" =>
               attempts'[m] = attempts[m] /\ (m \in orphans' => m \in orphans)
          /\ m \notin S => attempts'[m] = attempts[m] /\ (m \in orphans' => m \in orphans)
      <3> HIDE DEF S
      <3> QED
        BY <1>0, <2>1, <2>2, ReleaseIsFree
    <2>4. Unspent(w, m)' = Unspent(w, m) /\ ~Posted(w, m)' /\ ~Posted(w, m)
      BY <2>1 DEF Unspent, Posted
    <2>5. m \in Own(Msgs, w) => ~(m \in orphans /\ Unspent(w, m))
      BY <2>1 DEF Used, SpentRow
    <2>6. QED
      BY <2>1, <2>3, <2>4, <2>5 DEF Used, Booked, SpentRow
  <1>4. QED
    BY <1>1, <1>2, <1>3

\* The answer to an interrupted renewal finds rows younger than the reaper's
\* threshold.
LEMMA SpentLocalStep ==
  ASSUME TypeInv, NEW w \in Workers, dbFailures = 0, dbFailures' = 0, TimelyAt(w), HolderAt(w),
         SpentLocal(w), \A m \in Own(Msgs, w) : SpentRow(w, m), WorkerStep(w)
  PROVE  SpentLocal(w)'
  <1>0. /\ TypeOK /\ LocalAt(w) /\ pc \in [Workers -> PCs] /\ step[w] \in Nat
        /\ age \in [Msgs -> Nat] /\ answer \in [Workers -> Answers] /\ ~DbFails
        /\ sinceRenewal[w] \in Nat
    BY DEF TypeInv, TypeOK, WorkerTypes, RowTypes, SharedTypes, LocalOK, DbFails
  <1>1. answer'[w] # "lookup_error"
    BY <1>0 DEF SpentLocal, WorkerStep, ClaimBatch, ClaimLost, Stop, Skip, Interrupted, BatchDone,
       Start, RenewAndStart, RenewFails, ReturnBatch, ChannelUnusable, Post, Answered, MarkSent,
       MarkFailed, Finish, Count, Reschedule, PauseChannel, PushQueued, ReleaseCurrent,
       ReturnChannel, NextIteration, current
  <1>2. CASE RenewFails(w)
    <2>1. /\ UNCHANGED <<status, lockedBy, batch, step>> /\ pc[w] = "batch"
          /\ \A m \in Msgs : age'[m] <= age[m]
      BY <1>0, <1>2 DEF RenewFails
    <2>2. sinceRenewal[w] <= RenewAfter + step[w]
      BY <2>1 DEF TimelyAt, Busy
    <2>3. ASSUME NEW m \in batch[w] \cap Own(Msgs, w)
          PROVE  age[m] <= sinceRenewal[w]
      BY <2>1, <2>3 DEF Used, HolderAt, SpentRow, Unspent
    <2>4. ASSUME NEW m \in batch[w] \cap Own(Msgs, w)
          PROVE  age'[m] <= RenewAfter + step'[w]
      <3>1. age[m] <= sinceRenewal[w] /\ m \in Msgs
        BY <2>3 DEF Own
      <3>2. age'[m] \in Nat
        BY <1>0, <1>2, <3>1 DEF RenewFails
      <3>3. QED
        BY <1>0, <2>1, <2>2, <3>1, <3>2
    <2>5. QED
      BY <1>1, <2>1, <2>4 DEF SpentLocal, Own
  <1>3. CASE ~RenewFails(w)
    <2>1. pc'[w] # "return_batch"
      BY <1>0, <1>3 DEF WorkerStep, ClaimBatch, ClaimLost, Stop, Skip, Interrupted, BatchDone,
       Start, RenewAndStart, ReturnBatch, ChannelUnusable, Post, Answered, Outcome, MarkSent,
       MarkFailed, Finish, Count, Reschedule, PauseChannel, PushQueued, ReleaseCurrent,
       ReturnChannel, NextIteration, Goto
    <2>2. QED
      BY <1>1, <2>1 DEF SpentLocal
  <1>4. QED
    BY <1>2, <1>3

\* Failures are remembered and the dead stay dead.
LEMMA CalmStep ==
  ASSUME TypeOK, [Next]_vars
  PROVE  /\ dbFailures' >= dbFailures
         /\ \A r \in Replicas : ctx[r] = "dead" => ctx'[r] = "dead"
  <1>0. dbFailures \in Nat /\ ctx \in [Replicas -> {"alive", "cancelled", "dead"}]
    BY DEF TypeOK, SharedTypes
  <1>1. ASSUME NEW w \in Workers, WorkerStep(w)
        PROVE  dbFailures' >= dbFailures /\ ctx' = ctx
    <2>1. dbFailures' = dbFailures \/ dbFailures' = dbFailures + 1
      BY <1>1 DEF WorkerStep, ClaimBatch, ClaimLost, Stop, Skip, Interrupted, BatchDone, Start,
         RenewAndStart, RenewFails, ReturnBatch, ChannelUnusable, Post, MarkSent, MarkFailed,
         Finish, Count, Reschedule, PauseChannel, PushQueued, ReleaseCurrent, ReturnChannel,
         Devolver, DbOk, DbFails, bounds
    <2>2. ctx' = ctx
      BY <1>1 DEF WorkerStep, ClaimBatch, ClaimLost, Stop, Skip, Interrupted, BatchDone, Start,
         RenewAndStart, RenewFails, ReturnBatch, ChannelUnusable, Post, MarkSent, MarkFailed,
         Count, Reschedule, PauseChannel, PushQueued, ReleaseCurrent, ReturnChannel, process
    <2>3. QED
      BY <1>0, <2>1, <2>2
  <1>2. CASE \E r \in Replicas : ReaperStep(r) \/ Sigterm(r) \/ Crash(r)
    BY <1>0, <1>2 DEF ReaperStep, ReapExhausted, ReapRest, ReapFails, Sigterm, Crash, DbFails, bounds
  <1>3. CASE Tick \/ UNCHANGED vars
    BY <1>0, <1>3 DEF Tick, vars, process, bounds
  <1>4. QED
    BY <1>1, <1>2, <1>3 DEF Next

\* With no crash and no failed statement the books of every row stay right.
LEMMA SpentStep ==
  ASSUME Punctual, TypeInv, LeaseInv, HolderInv, LockedInv, SpentInv, [Next]_vars
  PROVE  SpentInv'
  <1> SUFFICES ASSUME Calm'
               PROVE  (/\ \A m \in Msgs : QueuedAt(m)
                       /\ \A w \in Workers : SpentLocal(w) /\ \A m \in Own(Msgs, w) : SpentRow(w, m))'
    BY DEF SpentInv
  <1>0. /\ TypeOK /\ dbFailures \in Nat
        /\ \A v \in Workers : LocalAt(v)
        /\ ctx \in [Replicas -> {"alive", "cancelled", "dead"}]
        /\ orphans \subseteq Msgs
    BY DEF TypeInv, TypeOK, SharedTypes, LocalOK
  <1>1. Calm /\ dbFailures = 0 /\ dbFailures' = 0
    <2>1. dbFailures = 0 /\ dbFailures' = 0
      BY <1>0, CalmStep DEF Calm
    <2>2. \A r \in Replicas : ctx[r] # "dead"
      BY <1>0, CalmStep DEF Calm
    <2>3. QED
      BY <2>1, <2>2 DEF Calm
  <1>2. /\ \A m \in Msgs : QueuedAt(m)
        /\ \A v \in Workers : /\ Alive(v) /\ SpentLocal(v) /\ TimelyAt(v)
                              /\ HeldAt(v) /\ HolderAt(v)
                              /\ \A m \in Own(Msgs, v) : SpentRow(v, m)
    BY <1>1 DEF SpentInv, Calm, Alive, LeaseInv, HolderInv
  <1>3. ASSUME NEW w \in Workers, WorkerStep(w)
        PROVE  (/\ \A m \in Msgs : QueuedAt(m)
                /\ \A v \in Workers : SpentLocal(v) /\ \A m \in Own(Msgs, v) : SpentRow(v, m))'
    <2>1. ASSUME NEW m \in Msgs
          PROVE  Booked(w, m)
      <3>1. InHand(w, cur[w]) => cur[w] \in Own(Msgs, w)
        <4>1. InHand(w, cur[w]) => cur[w] \in Msgs
          BY <1>0 DEF InHand, Pending, LocalAt, Between
        <4>2. QED
          BY <1>2, <4>1 DEF HeldAt
      <3>2. QED
        BY <1>1, <1>2, <1>3, <3>1, BookedClaim, BookedBatch, BookedProcess, BookedPause DEF WorkerStep
    <2>2. ASSUME NEW v \in Workers, v # w
          PROVE  SpentLocal(v)' /\ \A m \in Own(Msgs, v)' : SpentRow(v, m)'
      <3>1. /\ pc'[v] = pc[v] /\ cur'[v] = cur[v] /\ batch'[v] = batch[v]
            /\ answer'[v] = answer[v] /\ step'[v] = step[v]
        BY <1>0, <1>3, <2>2, OthersUntouched
      <3>2. ASSUME NEW m \in Msgs, (m \in Own(Msgs, v))'
            PROVE  /\ m \in Own(Msgs, v) /\ age'[m] = age[m]
                   /\ attempts'[m] = attempts[m] /\ Used(m)' = Used(m)
                   /\ m \in orphans' => m \in orphans
        <4>1. Kept(w, m) /\ m \in Own(Msgs, v) /\ m \notin Own(Msgs, w)
          BY <1>3, <2>2, <3>2, WorkerEffect DEF Own, Kept, Unchanged, Taken, Released
        <4>2. QED
          BY <2>1, <4>1 DEF Used, Booked, Kept, Own
      <3>3. \A m \in Own(Msgs, v)' : m \in Msgs
        BY DEF Own
      <3>4. ASSUME NEW m \in Own(Msgs, v)'
            PROVE  SpentRow(v, m)'
        BY <1>2, <3>1, <3>2, <3>3, <3>4 DEF Used, SpentRow, Unspent, Posted
      <3>5. SpentLocal(v)'
        BY <1>2, <3>1, <3>2, <3>3 DEF SpentLocal
      <3>6. QED
        BY <3>4, <3>5
    <2>3. SpentLocal(w)'
      BY <1>1, <1>2, <1>3, SpentLocalStep
    <2>4. QED
      BY <2>1, <2>2, <2>3 DEF Used, Booked, Own
  <1>4. ASSUME NEW r \in Replicas, ReaperStep(r)
        PROVE  (/\ \A m \in Msgs : QueuedAt(m)
                /\ \A v \in Workers : SpentLocal(v) /\ \A m \in Own(Msgs, v) : SpentRow(v, m))'
    <2>1. UNCHANGED <<pc, cur, answer, batch, step, attempts, spent, torn>> /\ orphans' \subseteq orphans
      BY <1>4 DEF ReaperStep, ReapExhausted, ReapRest, ReapFails, rows, local, current, history
    <2>2. ASSUME NEW m \in Msgs, Stale(m)
          PROVE  attempts[m] = Used(m) /\ m \in orphans
      <3>1. PICK v \in Workers : v = lockedBy[m]
        BY <2>2 DEF Stale, LockedInv
      <3>2. m \in Own(Msgs, v) /\ SpentRow(v, m) /\ SpentLocal(v) /\ LocalAt(v)
        BY <1>0, <1>2, <2>2, <3>1 DEF Stale, Own
      <3>3. m \in orphans
        BY <1>2, <2>2, <3>2, HeldIsFresh
      <3>4. ASSUME Unspent(v, m) \/ Posted(v, m)
            PROVE  FALSE
        <4>1. pc[v] = "return_batch"
          BY <3>2, <3>3, <3>4 DEF Used, SpentRow
        <4>2. m \in batch[v] \cap Own(Msgs, v)
          BY <3>2, <3>4, <4>1 DEF Unspent, Posted
        <4>3. age[m] <= RenewAfter + step[v]
          BY <3>2, <4>1, <4>2 DEF SpentLocal
        <4>4. step[v] \in 0..MaxStep /\ age[m] \in Nat
          BY <1>0 DEF TypeOK, WorkerTypes, RowTypes
        <4>5. QED
          BY <2>2, <4>3, <4>4 DEF Stale
      <3>5. QED
        BY <3>2, <3>3, <3>4 DEF Used, SpentRow
    <2>3. ASSUME NEW m \in Msgs
          PROVE  QueuedAt(m)'
      <3>1. CASE Stale(m)
        <4>1. m \notin orphans' \/ status'[m] = "sending"
          BY <1>0, <1>4, <3>1 DEF ReaperStep, ReapExhausted, ReapRest, ReapFails, Unlock, rows, Stale
        <4>2. QED
          BY <2>1, <2>2, <3>1, <4>1 DEF Used, QueuedAt
      <3>2. CASE ~Stale(m)
        BY <1>0, <1>2, <1>4, <2>1, <3>2, ReaperEffect DEF Used, QueuedAt, Unchanged
      <3>3. QED
        BY <3>1, <3>2
    <2>4. ASSUME NEW v \in Workers, NEW m \in Msgs, (m \in Own(Msgs, v))'
          PROVE  m \in Own(Msgs, v) /\ age'[m] = age[m]
      BY <1>0, <1>4, <2>4, ReaperEffect DEF Own, Unchanged
    <2>5. \A v \in Workers : \A m \in Own(Msgs, v)' : m \in Msgs
      BY DEF Own
    <2>6. ASSUME NEW v \in Workers, NEW m \in Own(Msgs, v)'
          PROVE  SpentRow(v, m)'
      BY <1>2, <2>1, <2>4, <2>5, <2>6 DEF Used, SpentRow, Unspent, Posted
    <2>7. ASSUME NEW v \in Workers
          PROVE  SpentLocal(v)'
      BY <1>2, <2>1, <2>4, <2>5, <2>7 DEF SpentLocal
    <2>8. QED
      BY <2>3, <2>6, <2>7
  <1>5. CASE \E r \in Replicas : Sigterm(r) \/ Crash(r)
    <2>1. UNCHANGED <<status, attempts, lockedBy, age, pc, cur, answer, batch, step, spent, torn, orphans>>
      BY <1>5 DEF Sigterm, Crash, rows, local, current, history
    <2>2. QED
      BY <1>2, <2>1 DEF Used, QueuedAt, SpentLocal, SpentRow, Unspent, Posted, Own
  <1>6. CASE Tick
    <2>1. UNCHANGED <<status, attempts, lockedBy, pc, cur, answer, batch, spent, torn, orphans>>
      BY <1>6 DEF Tick, history
    <2>2. ASSUME NEW v \in Workers, pc[v] = "return_batch", NEW m \in batch[v] \cap Own(Msgs, v)
          PROVE  age'[m] <= RenewAfter + step'[v]
      <3>1. /\ Alive(v) /\ Busy(v) /\ age[m] <= RenewAfter + step[v] /\ m \in Msgs
            /\ status[m] = "sending"
        BY <1>2, <2>2 DEF SpentLocal, Busy, Own
      <3>2. step[v] \in Nat /\ age[m] \in Nat
        BY <1>0, <3>1 DEF TypeOK, WorkerTypes, RowTypes
      <3>3. step'[v] = step[v] + 1
        BY <1>0, <1>6, <3>1, <3>2 DEF Tick, Ticking, Smaller, TypeOK, WorkerTypes
      <3>4. age'[m] = Aged(age[m])
        BY <1>6, <3>1 DEF Tick
      <3>5. QED
        BY <3>1, <3>2, <3>3, <3>4 DEF Aged, Smaller
    <2>3. \A v \in Workers : SpentLocal(v)'
      BY <1>2, <2>1, <2>2 DEF SpentLocal, Own
    <2>4. QED
      BY <1>2, <2>1, <2>3 DEF Used, QueuedAt, SpentRow, Unspent, Posted, Own
  <1>7. CASE UNCHANGED vars
    BY <1>2, <1>7 DEF Used, vars, rows, local, current, history, QueuedAt, SpentLocal, SpentRow,
       Unspent, Posted, Own
  <1>8. QED
    BY <1>3, <1>4, <1>5, <1>6, <1>7 DEF Next

(***************************************************************************)
(* For any number of replicas, workers and messages, a deploy and a pause   *)
(* of a channel use none of the attempts of a message, unless the SIGTERM   *)
(* cancels the ClaimBatch that has just claimed it: whatever was claimed    *)
(* and given back, a queued message has used exactly one attempt for every  *)
(* POST not refused for its channel and one for every claim so cancelled.   *)
(***************************************************************************)
THEOREM DeployAndPauseCostNothing ==
  ASSUME Punctual
  PROVE  Spec => []DeployAndPauseAreFree
  <1>1. Init => LeaseInv /\ HolderInv /\ LockedInv /\ SpentInv
    <2>1. Init => LeaseInv /\ HolderInv /\ LockedInv
      BY DEF Init, LeaseInv, TimelyAt, HeldAt, Busy, InHand, Pending, HolderInv, HolderAt, Own,
         LockedInv
    <2>2. Init => SpentInv
      BY DEF Init, SpentInv, QueuedAt, Used, SpentLocal, Own
    <2>3. QED
      BY <2>1, <2>2
  <1>2. TypeInv /\ LeaseInv /\ HolderInv /\ LockedInv /\ SpentInv /\ [Next]_vars =>
          LeaseInv' /\ HolderInv' /\ LockedInv' /\ SpentInv'
    BY LeaseStep, HolderInvStep, LockedStep, SpentStep
  <1>3. SpentInv => DeployAndPauseAreFree
    BY DEF SpentInv, Calm, QueuedAt, Used, DeployAndPauseAreFree
  <1>4. QED
    BY <1>1, <1>2, <1>3, TypeInvariant, PTL DEF Spec

-----------------------------------------------------------------------------
(* The dispatcher implements LeaseQueue.                                   *)

(***************************************************************************)
(* What is recorded of a message is true, and so is what its holder knows: *)
(* with DeliveryInv, an acceptance is known exactly while it is about to be *)
(* recorded and after that.                                                *)
(***************************************************************************)
RecordInv ==
  /\ \A w \in Workers, m \in Msgs : Knows(w, m) => accepted[m] = 1
  /\ \A m \in Msgs : status[m] = "sent" => accepted[m] = 1
  /\ \A m \in Msgs : status[m] = "failed" => accepted[m] = 0

Hands(w) == {m \in Msgs : Alive(w) /\ InHand(w, m)}

LeaseAndDelivery == TypeInv /\ LeaseInv /\ DeliveryInv

\* The row of a message in somebody's hands is that worker's.
LEMMA HandsAreOwn ==
  ASSUME LeaseInv, NEW w \in Workers, NEW m \in Hands(w)
  PROVE  m \in Msgs /\ Alive(w) /\ status[m] = "sending" /\ lockedBy[m] = w
  BY DEF Hands, LeaseInv, HeldAt, Own

\* Of a row in 'sending', nothing is known but to its holder.
LEMMA OnlyHolderKnows ==
  ASSUME LeaseAndDelivery, NEW m \in Msgs, status[m] = "sending",
         \A w \in Workers : lockedBy[m] = w => ~Knows(w, m)
  PROVE  accepted[m] = 0
  <1>1. \A w \in Workers : Knows(w, m) => lockedBy[m] = w
    BY HandsAreOwn DEF LeaseAndDelivery, Hands, Knows, InHand
  <1>2. accepted[m] \in Nat /\ accepted[m] <= 1 /\ accepted[m] # 1
    BY <1>1 DEF LeaseAndDelivery, DeliveryInv, TypeInv, TypeOK, SharedTypes
  <1>3. QED
    BY <1>2

\* A worker's step changes nobody else's hands.
LEMMA HandsOfOthers ==
  ASSUME TypeInv, NEW w \in Workers, WorkerStep(w), NEW v \in Workers, v # w
  PROVE  Hands(v)' = Hands(v) /\ \A m \in Msgs : Knows(v, m)' = Knows(v, m)
  <1>1. /\ pc'[v] = pc[v] /\ cur'[v] = cur[v] /\ answer'[v] = answer[v]
        /\ batch'[v] = batch[v] /\ pausados'[v] = pausados[v] /\ perdidas'[v] = perdidas[v]
        /\ ctx' = ctx
    BY OthersUntouched DEF TypeInv
  <1>2. QED
    BY <1>1 DEF Hands, InHand, Pending, Alive, Knows

\* The steps of a worker that deliver nothing and record nothing.
Quiet(w) ==
  \/ ClaimLost(w) \/ Stop(w) \/ Skip(w) \/ Interrupted(w) \/ BatchDone(w)
  \/ Start(w) \/ RenewAndStart(w) \/ RenewFails(w) \/ ReturnBatch(w)
  \/ ChannelUnusable(w) \/ Count(w) \/ Reschedule(w)
  \/ PauseChannel(w) \/ PushQueued(w) \/ ReleaseCurrent(w) \/ ReturnChannel(w)

\* They take nothing into the hands of the worker.
LEMMA QuietHands ==
  ASSUME TypeInv, NEW w \in Workers, Quiet(w)
  PROVE  Hands(w)' \subseteq Hands(w)
  <1>0. /\ LocalAt(w) /\ pc \in [Workers -> PCs] /\ cur \in [Workers -> Msgs \cup {NoMsg}]
        /\ batch \in [Workers -> SUBSET Msgs] /\ answer \in [Workers -> Answers]
        /\ pausados \in [Workers -> SUBSET Channels] /\ perdidas \in [Workers -> SUBSET Msgs]
        /\ NoMsg \notin Msgs
    BY DEF TypeInv, LocalOK, TypeOK, WorkerTypes
  <1>1. ctx' = ctx
    BY DEF Quiet, ClaimLost, Stop, Skip, Interrupted, BatchDone, Start, RenewAndStart, RenewFails,
       ReturnBatch, ChannelUnusable, Count, Reschedule, PauseChannel, PushQueued, ReleaseCurrent,
       ReturnChannel, process
  <1> SUFFICES ASSUME NEW m \in Msgs, InHand(w, m)'
               PROVE  InHand(w, m)
    BY <1>1 DEF Hands, Alive
  <1>2. CASE ClaimLost(w) \/ Stop(w)
    BY <1>0, <1>2 DEF ClaimLost, Stop, Goto, local, current, InHand, Pending
  <1>3. CASE Skip(w) \/ Start(w)
    BY <1>0, <1>3 DEF Skip, Start, Goto, current, InHand, Pending
  <1>4. CASE BatchDone(w) \/ Interrupted(w)
    BY <1>0, <1>4 DEF BatchDone, Interrupted, SetBatch, Goto, current, InHand, Pending
  <1>5. CASE RenewAndStart(w)
    <2> DEFINE asked == batch[w] \ perdidas[w]
               lost  == asked \ Own(asked, w)
    <2>1. PICK n \in Pending(w) :
            /\ perdidas' = [perdidas EXCEPT ![w] = @ \cup lost]
            /\ batch' = [batch EXCEPT ![w] = @ \ {n}]
            /\ \/ Goto(w, "process") /\ cur' = [cur EXCEPT ![w] = n]
               \/ UNCHANGED <<pc, cur>>
      BY <1>5 DEF RenewAndStart
    <2>2. pausados' = pausados /\ pc[w] = "batch"
      BY <1>5 DEF RenewAndStart
    <2>3. QED
      BY <1>0, <2>1, <2>2 DEF Goto, InHand, Pending
  <1>6. CASE RenewFails(w) \/ ReturnBatch(w)
    BY <1>0, <1>6 DEF RenewFails, ReturnBatch, Goto, local, current, InHand, Pending, LocalAt,
       Between
  <1>7. CASE ChannelUnusable(w) \/ PauseChannel(w) \/ PushQueued(w)
    BY <1>0, <1>7 DEF ChannelUnusable, PauseChannel, PushQueued, Outcome, Answered, Goto, local,
       InHand, Pending
  <1>8. CASE Count(w) \/ Reschedule(w) \/ ReturnChannel(w)
    BY <1>0, <1>8 DEF Count, Reschedule, ReturnChannel, NextIteration, Goto, local, InHand, Pending
  <1>9. CASE ReleaseCurrent(w)
    BY <1>0, <1>9 DEF ReleaseCurrent, Goto, current, InHand, Pending
  <1>10. QED
    BY <1>2, <1>3, <1>4, <1>5, <1>6, <1>7, <1>8, <1>9 DEF Quiet

\* And they write no outcome and know of no delivery.
LEMMA QuietRows ==
  ASSUME TypeInv, NEW w \in Workers, Quiet(w)
  PROVE  /\ accepted' = accepted /\ OutcomeOf' = OutcomeOf
         /\ \A m \in Msgs : ~Knows(w, m)
  <1>0. status \in [Msgs -> Status]
    BY DEF TypeInv, TypeOK, RowTypes
  <1>1. accepted' = accepted
    BY DEF Quiet, ClaimLost, Stop, Skip, Interrupted, BatchDone, Start, RenewAndStart, RenewFails,
       ReturnBatch, ChannelUnusable, Count, Reschedule, PauseChannel, PushQueued, ReleaseCurrent,
       ReturnChannel, history
  <1>2. \A m \in Msgs : ~Knows(w, m)
    BY DEF Knows, Quiet, ClaimLost, Stop, Skip, Interrupted, Unsent, BatchDone, Start,
       RenewAndStart, RenewFails, ReturnBatch, ChannelUnusable, Count, Reschedule, PauseChannel,
       Blocking, PushQueued, ReleaseCurrent, ReturnChannel
  <1>3. \A m \in Msgs : status'[m] = status[m] \/ (status[m] \notin Final /\ status'[m] \notin Final)
    <2>1. ASSUME NEW S, Devolver(S, w)
          PROVE  \A m \in Msgs : status'[m] = status[m]
                                   \/ (status[m] \notin Final /\ status'[m] \notin Final)
      BY <2>1 DEF Devolver, ReleaseBatch, Unlock, Abandon, Own, rows, Final
    <2>2. CASE ClaimLost(w)
      BY <2>2 DEF ClaimLost, Lock, Ready, Final
    <2>3. CASE Interrupted(w) \/ ReturnBatch(w) \/ ReleaseCurrent(w) \/ ReturnChannel(w)
      BY <2>1, <2>3 DEF Interrupted, ReturnBatch, ReleaseCurrent, ReturnChannel
    <2>4. CASE Reschedule(w)
      BY <2>4 DEF Reschedule, Unlock, Abandon, Own, rows, Final
    <2>5. CASE \/ Stop(w) \/ Skip(w) \/ BatchDone(w) \/ Start(w) \/ RenewAndStart(w) \/ RenewFails(w)
               \/ ChannelUnusable(w) \/ Count(w) \/ PauseChannel(w) \/ PushQueued(w)
      BY <2>5 DEF Stop, Skip, BatchDone, Start, RenewAndStart, RenewFails, ChannelUnusable, Count,
         PauseChannel, PushQueued, rows
    <2>6. QED
      BY <2>2, <2>3, <2>4, <2>5 DEF Quiet
  <1>4. OutcomeOf' = OutcomeOf
    BY <1>3 DEF OutcomeOf
  <1>5. QED
    BY <1>1, <1>2, <1>4

\* What a worker no longer has after its own step it has let go of.
LEMMA LetGoStep ==
  ASSUME LeaseAndDelivery, NEW w \in Workers, WorkerStep(w),
         Hands(w)' \subseteq Hands(w), OutcomeOf' = OutcomeOf, accepted' \in [Msgs -> Nat],
         \A m \in Msgs : accepted'[m] = IF m \in Hands(w) \ Hands(w)' THEN 0 ELSE accepted[m]
  PROVE  Queue!Next
  <1> DEFINE S == Hands(w) \ Hands(w)'
  <1>1. S \in SUBSET Msgs /\ S \subseteq Queue!Held
    BY DEF Queue!Held, HandsOf, Hands
  <1>2. ASSUME NEW v \in Workers
        PROVE  Hands(v)' = Hands(v) \ S
    <2>1. CASE v = w
      BY <2>1
    <2>2. CASE v # w
      BY <2>2, HandsOfOthers, HandsAreOwn DEF LeaseAndDelivery
    <2>3. QED
      BY <2>1, <2>2
  <1>3. HandsOf' = [v \in Workers |-> HandsOf[v] \ S]
    BY <1>2 DEF HandsOf, Hands
  <1>4. accepted' = [m \in Msgs |-> IF m \in S THEN 0 ELSE accepted[m]]
    OBVIOUS
  <1>5. Queue!LetGo(S)
    BY <1>1, <1>3, <1>4 DEF Queue!LetGo
  <1>6. QED
    BY <1>1, <1>5 DEF Queue!Next

LEMMA QuietStep ==
  ASSUME LeaseAndDelivery, NEW w \in Workers, Quiet(w)
  PROVE  Queue!Next
  <1>1. WorkerStep(w)
    BY DEF Quiet, WorkerStep
  <1>2. /\ accepted \in [Msgs -> Nat] /\ accepted' = accepted /\ OutcomeOf' = OutcomeOf
        /\ Hands(w)' \subseteq Hands(w)
    BY QuietHands, QuietRows DEF LeaseAndDelivery, TypeInv, TypeOK, SharedTypes
  <1>3. ASSUME NEW m \in Hands(w)
        PROVE  accepted[m] = 0
    <2>1. m \in Msgs /\ status[m] = "sending" /\ lockedBy[m] = w
      BY HandsAreOwn DEF LeaseAndDelivery
    <2>2. QED
      BY <2>1, OnlyHolderKnows, QuietRows DEF LeaseAndDelivery
  <1>4. QED
    BY <1>1, <1>2, <1>3, LetGoStep

LEMMA TakeStep ==
  ASSUME LeaseAndDelivery, NEW w \in Workers, ClaimBatch(w)
  PROVE  Queue!Next
  <1>0. /\ TypeOK /\ LocalAt(w)
        /\ pc \in [Workers -> PCs] /\ cur \in [Workers -> Msgs \cup {NoMsg}]
        /\ batch \in [Workers -> SUBSET Msgs]
        /\ pausados \in [Workers -> SUBSET Channels] /\ perdidas \in [Workers -> SUBSET Msgs]
    BY DEF LeaseAndDelivery, TypeInv, TypeOK, WorkerTypes, LocalOK
  <1>1. PICK S \in SUBSET Msgs : Lock(S, w) /\ SetBatch(w, S)
    BY DEF ClaimBatch
  <1>2. \A m \in S : status[m] = "queued" /\ status'[m] = "sending"
    BY <1>1 DEF Lock, Ready
  <1>3. Hands(w) = {}
    BY <1>0 DEF ClaimBatch, Hands, InHand, Pending, LocalAt, Busy
  <1>4. Hands(w)' = S
    <2>1. Alive(w)'
      BY DEF ClaimBatch, Running, Alive, process
    <2>2. /\ batch'[w] = S /\ perdidas'[w] = {} /\ pausados'[w] = {} /\ pc'[w] = "batch"
      BY <1>0, <1>1 DEF SetBatch, ClaimBatch, Goto
    <2>3. QED
      BY <2>1, <2>2 DEF Hands, InHand, Pending
  <1>5. S \cap Queue!Held = {}
    BY <1>2, HandsAreOwn DEF Queue!Held, HandsOf, Hands, LeaseAndDelivery
  <1>6. \A m \in S : OutcomeOf[m] = "none"
    BY <1>2 DEF OutcomeOf, Final
  <1>7. HandsOf' = [HandsOf EXCEPT ![w] = S]
    <2>1. \A v \in Workers : v # w => Hands(v)' = Hands(v)
      BY HandsOfOthers DEF LeaseAndDelivery, WorkerStep
    <2>2. QED
      BY <1>4, <2>1 DEF HandsOf, Hands
  <1>8. OutcomeOf' = OutcomeOf /\ accepted' = accepted
    <2>1. \A m \in Msgs : m \notin S => status'[m] = status[m]
      BY <1>1 DEF Lock
    <2>2. QED
      BY <1>2, <2>1 DEF OutcomeOf, Final, ClaimBatch, history
  <1>9. Queue!Take(w, S)
    BY <1>3, <1>5, <1>6, <1>7, <1>8 DEF Queue!Take, HandsOf, Hands
  <1>10. QED
    BY <1>9 DEF Queue!Next

LEMMA DeliverStep ==
  ASSUME LeaseAndDelivery, NEW w \in Workers, Post(w)
  PROVE  Queue!Next \/ UNCHANGED <<HandsOf, OutcomeOf, accepted>>
  <1> DEFINE m == cur[w]
  <1>0. /\ TypeInv /\ LocalAt(w) /\ pc \in [Workers -> PCs] /\ accepted \in [Msgs -> Nat]
        /\ pc[w] = "process" /\ Alive(w)
    BY DEF LeaseAndDelivery, TypeInv, TypeOK, WorkerTypes, SharedTypes, LocalOK, Post
  <1>1. Hands(w)' = Hands(w)
    BY <1>0 DEF Post, Answered, Goto, local, process, Hands, Alive, InHand, Pending
  <1>2. HandsOf' = HandsOf
    <2>1. \A v \in Workers : Hands(v)' = Hands(v)
      BY <1>0, <1>1, HandsOfOthers DEF WorkerStep
    <2>2. QED
      BY <2>1 DEF HandsOf, Hands
  <1>3. OutcomeOf' = OutcomeOf
    BY DEF Post, rows, OutcomeOf
  <1>4. m \in Hands(w)
    BY <1>0 DEF Hands, InHand, LocalAt, Between
  <1>5. accepted[m] = 0
    BY <1>0, <1>4, HandsAreOwn, OnlyHolderKnows DEF LeaseAndDelivery, Knows
  <1>6. CASE accepted' = [accepted EXCEPT ![m] = @ + 1]
    <2>1. accepted' = [accepted EXCEPT ![m] = 1]
      BY <1>0, <1>4, <1>5, <1>6 DEF Hands
    <2>2. Queue!Deliver(w, m) /\ m \in Msgs
      BY <1>2, <1>3, <1>4, <1>5, <2>1 DEF Queue!Deliver, HandsOf, Hands
    <2>3. QED
      BY <2>2 DEF Queue!Next
  <1>7. CASE accepted' = accepted
    BY <1>2, <1>3, <1>7
  <1>8. QED
    BY <1>6, <1>7 DEF Post

\* The outcome of the message in process() is written, or nothing of it is known.
LEMMA SettleStep ==
  ASSUME LeaseAndDelivery, RecordInv, NEW w \in Workers, MarkSent(w) \/ MarkFailed(w)
  PROVE  Queue!Next
  <1> DEFINE m == cur[w]
  <1>0. /\ TypeInv /\ LocalAt(w) /\ pc \in [Workers -> PCs] /\ accepted \in [Msgs -> Nat]
        /\ cur \in [Workers -> Msgs \cup {NoMsg}] /\ answer \in [Workers -> Answers]
        /\ NoMsg \notin Msgs /\ pc[w] = "outcome" /\ Alive(w) /\ m \in Msgs /\ WorkerStep(w)
    BY DEF LeaseAndDelivery, TypeInv, TypeOK, WorkerTypes, SharedTypes, LocalOK, LocalAt, Between,
       MarkSent, MarkFailed, Outcome, WorkerStep
  <1>1. m \in Hands(w) /\ Own({m}, w) = {m} /\ Recorded(w)
    <2>1. m \in Hands(w)
      BY <1>0 DEF Hands, InHand
    <2>2. QED
      BY <2>1, HandsAreOwn DEF LeaseAndDelivery, Own, Recorded
  <1>2. Hands(w)' = Hands(w) \ {m}
    <2>1. /\ UNCHANGED <<batch, pausados, perdidas, ctx>>
          /\ pc'[w] \in {"count", "batch"}
      BY <1>0 DEF MarkSent, MarkFailed, Finish, NextIteration, Goto, local, process
    <2>2. QED
      BY <1>0, <2>1 DEF Hands, InHand, Pending, LocalAt, Alive
  <1>3. accepted[m] = IF answer[w] = "ok" THEN 1 ELSE 0
    <2>1. CASE answer[w] = "ok"
      BY <1>0, <2>1 DEF RecordInv, Knows
    <2>2. CASE answer[w] # "ok"
      BY <1>0, <1>1, <2>2, HandsAreOwn, OnlyHolderKnows DEF LeaseAndDelivery, Knows
    <2>3. QED
      BY <2>1, <2>2
  <1>4. ASSUME NEW st \in Final, Unlock({m}, st, 0), accepted' = accepted,
               st = IF accepted[m] = 1 THEN "sent" ELSE "failed"
        PROVE  Queue!Next
    <2>1. OutcomeOf' = [OutcomeOf EXCEPT ![m] = st]
      BY <1>0, <1>4 DEF OutcomeOf, Unlock, LeaseAndDelivery, TypeInv, TypeOK, RowTypes
    <2>2. \A v \in Workers : v # w => Hands(v)' = Hands(v)
      BY <1>0, HandsOfOthers
    <2>3. HandsOf' = [HandsOf EXCEPT ![w] = @ \ {m}]
      <3>1. /\ HandsOf = [v \in Workers |-> Hands(v)]
            /\ HandsOf' = [v \in Workers |-> Hands(v)']
        BY DEF HandsOf, Hands
      <3>2. QED
        BY <1>2, <2>2, <3>1
    <2>4. Queue!Settle(w, m)
      BY <1>1, <1>4, <2>1, <2>3 DEF Queue!Settle, HandsOf, Hands
    <2>5. QED
      BY <1>0, <2>4 DEF Queue!Next
  <1>5. ASSUME Abandon({m}, w), accepted' = [accepted EXCEPT ![m] = 0]
        PROVE  Queue!Next
    <2>1. OutcomeOf' = OutcomeOf
      BY <1>5 DEF Abandon, rows, OutcomeOf
    <2>2. /\ Hands(w)' \subseteq Hands(w) /\ accepted' \in [Msgs -> Nat]
          /\ \A k \in Msgs : accepted'[k] = IF k \in Hands(w) \ Hands(w)' THEN 0 ELSE accepted[k]
      BY <1>0, <1>1, <1>2, <1>5
    <2>3. QED
      BY <1>0, <2>1, <2>2, LetGoStep
  <1>6. CASE MarkSent(w)
    <2>1. answer[w] = "ok" /\ accepted[m] = 1
      BY <1>3, <1>6 DEF MarkSent
    <2>2. CASE Finish(w, "sent") /\ UNCHANGED accepted
      <3>1. Unlock({m}, "sent", 0)
        BY <1>1, <2>2 DEF Finish
      <3>2. QED
        BY <1>4, <2>1, <2>2, <3>1 DEF Final
    <2>3. CASE Abandon({m}, w) /\ accepted' = [accepted EXCEPT ![m] = Minus1(@)]
      <3>1. accepted' = [accepted EXCEPT ![m] = 0]
        BY <1>0, <2>1, <2>3 DEF Minus1
      <3>2. QED
        BY <1>5, <2>3, <3>1
    <2>4. QED
      BY <1>6, <2>2, <2>3 DEF MarkSent
  <1>7. CASE MarkFailed(w)
    <2>1. accepted[m] = 0 /\ accepted' = accepted
      BY <1>3, <1>7 DEF MarkFailed, GivesUp
    <2>2. CASE Finish(w, "failed")
      <3>1. Unlock({m}, "failed", 0)
        BY <1>1, <2>2 DEF Finish
      <3>2. QED
        BY <1>4, <2>1, <3>1 DEF Final
    <2>3. CASE Abandon({m}, w)
      <3>1. accepted' = [accepted EXCEPT ![m] = 0]
        BY <1>0, <2>1
      <3>2. QED
        BY <1>5, <2>3, <3>1
    <2>4. QED
      BY <1>7, <2>2, <2>3 DEF MarkFailed
  <1>8. QED
    BY <1>6, <1>7

\* The reaper fails only what nobody has and nobody knows to be delivered.
LEMMA ReapStep ==
  ASSUME LeaseAndDelivery, NEW r \in Replicas, ReaperStep(r)
  PROVE  Queue!Next \/ UNCHANGED <<HandsOf, OutcomeOf, accepted>>
  <1>0. /\ TypeOK /\ \A v \in Workers : LocalAt(v)
    BY DEF LeaseAndDelivery, TypeInv, LocalOK
  <1>1. UNCHANGED <<pc, cur, answer, batch, pausados, perdidas, ctx, accepted>>
    BY DEF ReaperStep, ReapExhausted, ReapRest, ReapFails, local, current, process, history
  <1>2. HandsOf' = HandsOf
    BY <1>1 DEF HandsOf, Alive, InHand, Pending
  <1>3. ASSUME NEW v \in Workers, NEW m \in Hands(v)
        PROVE  ~Stale(m)
    BY <1>0, <1>3, InHandIsFresh DEF Hands, LeaseAndDelivery
  <1>4. CASE ReapExhausted(r)
    <2> DEFINE S == {m \in Msgs : Stale(m) /\ attempts[m] >= MaxAttempts}
    <2>1. S \cap Queue!Held = {}
      BY <1>3 DEF Queue!Held, HandsOf, Hands
    <2>2. \A m \in S : OutcomeOf[m] = "none"
      BY DEF OutcomeOf, Stale, Final
    <2>3. \A m \in S : accepted[m] = 0
      <3> SUFFICES ASSUME NEW m \in S PROVE accepted[m] = 0
        OBVIOUS
      <3>1. \A v \in Workers : ~Knows(v, m)
        BY <1>3 DEF Knows, Hands, InHand
      <3>2. QED
        BY <3>1, OnlyHolderKnows DEF Stale
    <2>4. OutcomeOf' = [m \in Msgs |-> IF m \in S THEN "failed" ELSE OutcomeOf[m]]
      BY <1>4 DEF ReapExhausted, Unlock, OutcomeOf, Final
    <2>5. Queue!Expire(S)
      BY <1>1, <1>2, <2>1, <2>2, <2>3, <2>4 DEF Queue!Expire
    <2>6. QED
      BY <2>5 DEF Queue!Next
  <1>5. CASE ReapRest(r) \/ ReapFails(r)
    <2>1. OutcomeOf' = OutcomeOf
      BY <1>5 DEF ReapRest, ReapFails, Unlock, Stale, OutcomeOf, Final, rows
    <2>2. QED
      BY <1>1, <1>2, <2>1
  <1>6. QED
    BY <1>4, <1>5 DEF ReaperStep

\* A crash lets go of everything that the process had.
LEMMA CrashStep ==
  ASSUME LeaseAndDelivery, NEW r \in Replicas, Crash(r)
  PROVE  Queue!Next
  <1> DEFINE Mine == {w \in Workers : replicaOf[w] = r}
             S    == {m \in Msgs : \E w \in Mine : m \in Hands(w)}
  <1>0. /\ TypeOK /\ accepted \in [Msgs -> Nat] /\ ctx \in [Replicas -> {"alive", "cancelled", "dead"}]
        /\ UNCHANGED <<pc, cur, answer, batch, pausados, perdidas, status>>
    BY DEF LeaseAndDelivery, TypeInv, TypeOK, SharedTypes, Crash, local, current, rows
  <1>1. \A w \in Workers : Alive(w)' = (Alive(w) /\ w \notin Mine)
    BY <1>0 DEF Crash, Alive
  <1>2. ASSUME NEW w \in Workers
        PROVE  Hands(w)' = Hands(w) \ S
    <2>1. CASE w \in Mine
      BY <1>1, <2>1 DEF Hands
    <2>2. CASE w \notin Mine
      <3>1. Hands(w)' = Hands(w)
        BY <1>0, <1>1, <2>2 DEF Hands, InHand, Pending
      <3>2. Hands(w) \cap S = {}
        BY <2>2, HandsAreOwn DEF LeaseAndDelivery
      <3>3. QED
        BY <3>1, <3>2
    <2>3. QED
      BY <2>1, <2>2
  <1>3. HandsOf' = [w \in Workers |-> HandsOf[w] \ S]
    BY <1>2 DEF HandsOf, Hands
  <1>4. S \in SUBSET Msgs /\ S \subseteq Queue!Held
    BY DEF Queue!Held, HandsOf, Hands
  <1>5. OutcomeOf' = OutcomeOf
    BY <1>0 DEF OutcomeOf
  <1>6. ASSUME NEW m \in Msgs
        PROVE  accepted'[m] = IF m \in S THEN 0 ELSE accepted[m]
    <2> DEFINE knower(w) == /\ replicaOf[w] = r /\ pc[w] = "outcome" /\ answer[w] = "ok"
                            /\ cur[w] = m
    <2>1. accepted[m] \in {0, 1}
      BY <1>0 DEF LeaseAndDelivery, DeliveryInv
    <2>2. \A w \in Workers : knower(w) => Knows(w, m) /\ m \in S
      BY DEF Crash, Alive, Knows, Hands, InHand
    <2>3. \A w \in Mine : Knows(w, m) => knower(w)
      BY DEF Knows
    <2>4. CASE \E w \in Workers : knower(w)
      <3>1. accepted'[m] = Minus1(accepted[m]) /\ m \in S
        BY <2>2, <2>4 DEF Crash
      <3>2. QED
        BY <2>1, <3>1 DEF Minus1
    <2>5. CASE ~ \E w \in Workers : knower(w)
      <3>1. accepted'[m] = accepted[m]
        BY <2>5 DEF Crash
      <3>2. ASSUME m \in S
            PROVE  accepted[m] = 0
        <4>1. PICK w \in Mine : m \in Hands(w)
          BY <3>2
        <4>2. status[m] = "sending" /\ lockedBy[m] = w /\ ~Knows(w, m)
          BY <2>3, <2>5, <4>1, HandsAreOwn DEF LeaseAndDelivery
        <4>3. QED
          BY <4>2, OnlyHolderKnows
      <3>3. QED
        BY <3>1, <3>2
    <2>6. QED
      BY <2>4, <2>5
  <1>7. accepted' = [m \in Msgs |-> IF m \in S THEN 0 ELSE accepted[m]]
    BY <1>6 DEF Crash
  <1>8. Queue!LetGo(S)
    BY <1>3, <1>4, <1>5, <1>7 DEF Queue!LetGo
  <1>9. QED
    BY <1>4, <1>8 DEF Queue!Next

\* Every step of the dispatcher is one of the queue, or none.
LEMMA QueueStep ==
  ASSUME LeaseAndDelivery, RecordInv, [Next]_vars
  PROVE  Queue!Next \/ UNCHANGED <<HandsOf, OutcomeOf, accepted>>
  <1>1. ASSUME NEW w \in Workers, WorkerStep(w)
        PROVE  Queue!Next \/ UNCHANGED <<HandsOf, OutcomeOf, accepted>>
    <2>1. Quiet(w) \/ ClaimBatch(w) \/ Post(w) \/ MarkSent(w) \/ MarkFailed(w)
      BY <1>1 DEF WorkerStep, Quiet
    <2>2. QED
      BY <2>1, QuietStep, TakeStep, DeliverStep, SettleStep
  <1>2. CASE (\E r \in Replicas : Sigterm(r)) \/ Tick \/ UNCHANGED vars
    <2>1. /\ UNCHANGED <<pc, cur, batch, pausados, perdidas, status, accepted>>
          /\ \A w \in Workers : Alive(w)' = Alive(w)
      BY <1>2 DEF Sigterm, Tick, vars, rows, local, current, process, history, Alive,
         LeaseAndDelivery, TypeInv, TypeOK, SharedTypes
    <2>2. HandsOf' = HandsOf /\ OutcomeOf' = OutcomeOf
      BY <2>1 DEF HandsOf, InHand, Pending, OutcomeOf
    <2>3. QED
      BY <2>1, <2>2
  <1>3. QED
    BY <1>1, <1>2, ReapStep, CrashStep DEF Next

\* A worker learns of an acceptance by a POST of its own.
LEMMA LearnedByPost ==
  ASSUME TypeInv, [Next]_vars, NEW w \in Workers, NEW m \in Msgs, Knows(w, m)', ~Knows(w, m)
  PROVE  accepted'[m] = accepted[m] + 1
  <1>0. /\ pc \in [Workers -> PCs] /\ answer \in [Workers -> Answers]
        /\ cur \in [Workers -> Msgs \cup {NoMsg}] /\ accepted \in [Msgs -> Nat]
        /\ ctx \in [Replicas -> {"alive", "cancelled", "dead"}]
    BY DEF TypeInv, TypeOK, WorkerTypes, SharedTypes
  <1>1. ASSUME NEW v \in Workers, WorkerStep(v)
        PROVE  accepted'[m] = accepted[m] + 1
    <2>1. v = w
      BY <1>1, HandsOfOthers
    <2>2. pc'[w] = "outcome" /\ answer'[w] = "ok" /\ cur'[w] = m
          /\ ~(Alive(w) /\ pc[w] = "outcome" /\ answer[w] = "ok" /\ cur[w] = m)
      BY DEF Knows
    <2>3. CASE Post(w)
      BY <1>0, <2>2, <2>3 DEF Post, Answered, Goto
    <2>4. CASE ChannelUnusable(w)
      BY <1>0, <2>2, <2>4 DEF ChannelUnusable, Answered
    <2>5. CASE \/ ClaimBatch(w) \/ ClaimLost(w) \/ Stop(w) \/ Skip(w) \/ Interrupted(w)
               \/ BatchDone(w) \/ Start(w) \/ RenewAndStart(w) \/ RenewFails(w) \/ ReturnBatch(w)
      BY <1>0, <2>2, <2>5 DEF ClaimBatch, ClaimLost, Stop, Skip, Interrupted, Unsent, BatchDone,
         Start, RenewAndStart, RenewFails, ReturnBatch, Goto
    <2>6. CASE \/ MarkSent(w) \/ MarkFailed(w) \/ Count(w) \/ Reschedule(w)
               \/ PauseChannel(w) \/ PushQueued(w) \/ ReleaseCurrent(w) \/ ReturnChannel(w)
      BY <1>0, <2>2, <2>6 DEF MarkSent, MarkFailed, Finish, Count, Reschedule, PauseChannel,
         PushQueued, ReleaseCurrent, ReturnChannel, NextIteration, Goto
    <2>7. QED
      BY <1>1, <2>1, <2>3, <2>4, <2>5, <2>6 DEF WorkerStep
  <1>2. CASE ~ \E v \in Workers : WorkerStep(v)
    <2>1. UNCHANGED <<pc, cur, answer>> /\ (Alive(w)' => Alive(w))
      <3>1. CASE \E r \in Replicas : ReaperStep(r)
        BY <3>1, NotAWorkerStep DEF ReaperStep, ReapExhausted, ReapRest, ReapFails, Alive
      <3>2. CASE \E r \in Replicas : Sigterm(r) \/ Crash(r)
        BY <1>0, <3>2, NotAWorkerStep DEF Sigterm, Crash, Alive
      <3>3. CASE Tick \/ UNCHANGED vars
        BY <3>3 DEF Tick, vars, process, current, local, Alive
      <3>4. QED
        BY <1>2, <3>1, <3>2, <3>3 DEF Next
    <2>2. QED
      BY <2>1 DEF Knows
  <1>3. QED
    BY <1>1, <1>2

\* What a step of the queue does to what is known of a message.
LEMMA QueueKnowledge ==
  ASSUME Queue!Next \/ UNCHANGED <<HandsOf, OutcomeOf, accepted>>, NEW m \in Msgs,
         LeaseAndDelivery
  PROVE  /\ \A w \in Workers : m \in Hands(w)' /\ accepted[m] = 1 => accepted'[m] = 1
         /\ status[m] \in Final => accepted'[m] = accepted[m]
         /\ OutcomeOf'[m] # OutcomeOf[m] => /\ accepted'[m] = accepted[m]
                                            /\ \/ OutcomeOf'[m] = "sent" /\ accepted[m] = 1
                                               \/ OutcomeOf'[m] = "failed" /\ accepted[m] # 1
  <1>0. /\ accepted \in [Msgs -> Nat] /\ OutcomeOf = [k \in Msgs |-> OutcomeOf[k]]
        /\ \A w \in Workers : HandsOf[w] = Hands(w) /\ HandsOf'[w] = Hands(w)'
    BY DEF HandsOf, Hands, OutcomeOf, LeaseAndDelivery, TypeInv, TypeOK, SharedTypes
  <1>1. status[m] \in Final => m \notin Queue!Held
    BY HandsAreOwn DEF Queue!Held, HandsOf, Hands, LeaseAndDelivery, Final
  <1>2. ASSUME NEW w \in Workers, NEW S \in SUBSET Msgs, Queue!Take(w, S)
        PROVE  accepted' = accepted /\ OutcomeOf' = OutcomeOf
    BY <1>2 DEF Queue!Take
  <1>3. ASSUME NEW w \in Workers, NEW k \in Msgs, Queue!Deliver(w, k)
        PROVE  /\ OutcomeOf' = OutcomeOf /\ k \in Queue!Held /\ accepted[k] = 0
               /\ m # k => accepted'[m] = accepted[m]
    BY <1>0, <1>3 DEF Queue!Deliver, Queue!Held
  <1>4. ASSUME NEW w \in Workers, NEW k \in Msgs, Queue!Settle(w, k)
        PROVE  /\ accepted' = accepted
               /\ \/ OutcomeOf'[m] = OutcomeOf[m]
                  \/ OutcomeOf'[m] = IF accepted[m] = 1 THEN "sent" ELSE "failed"
    BY <1>0, <1>4 DEF Queue!Settle
  <1>5. ASSUME NEW S \in SUBSET Msgs, Queue!LetGo(S)
        PROVE  /\ OutcomeOf' = OutcomeOf /\ S \subseteq Queue!Held
               /\ accepted'[m] = IF m \in S THEN 0 ELSE accepted[m]
               /\ \A w \in Workers : m \in Hands(w)' => m \notin S
    BY <1>0, <1>5 DEF Queue!LetGo
  <1>6. ASSUME NEW S \in SUBSET Msgs, Queue!Expire(S)
        PROVE  /\ accepted' = accepted
               /\ \/ OutcomeOf'[m] = OutcomeOf[m]
                  \/ OutcomeOf'[m] = "failed" /\ accepted[m] = 0
    BY <1>0, <1>6 DEF Queue!Expire
  <1>7. QED
    BY <1>0, <1>1, <1>2, <1>3, <1>4, <1>5, <1>6 DEF Queue!Next

LEMMA RecordStep ==
  ASSUME LeaseAndDelivery, RecordInv, [Next]_vars, DeliveryInv'
  PROVE  RecordInv'
  <1>0. /\ TypeInv /\ accepted \in [Msgs -> Nat] /\ accepted' \in [Msgs -> Nat]
        /\ status \in [Msgs -> Status] /\ status' \in [Msgs -> Status]
    <2>1. TypeInv /\ TypeInv'
      BY TypeStep DEF LeaseAndDelivery
    <2>2. QED
      BY <2>1 DEF TypeInv, TypeOK, SharedTypes, RowTypes
  <1>1. Queue!Next \/ UNCHANGED <<HandsOf, OutcomeOf, accepted>>
    BY QueueStep
  <1>2. ASSUME NEW w \in Workers, NEW m \in Msgs, Knows(w, m)'
        PROVE  accepted'[m] = 1
    <2>1. CASE Knows(w, m)
      <3>1. accepted[m] = 1 /\ m \in Hands(w)'
        BY <1>2, <2>1 DEF RecordInv, Knows, Hands, InHand
      <3>2. QED
        BY <1>1, <3>1, QueueKnowledge
    <2>2. CASE ~Knows(w, m)
      <3>1. accepted'[m] = accepted[m] + 1
        BY <1>0, <1>2, <2>2, LearnedByPost
      <3>2. accepted'[m] <= 1
        BY DEF DeliveryInv
      <3>3. QED
        BY <1>0, <3>1, <3>2
    <2>3. QED
      BY <2>1, <2>2
  <1>3. ASSUME NEW m \in Msgs
        PROVE  /\ status'[m] = "sent" => accepted'[m] = 1
               /\ status'[m] = "failed" => accepted'[m] = 0
    <2>1. CASE status[m] \in Final
      <3>1. status'[m] = status[m] /\ accepted'[m] = accepted[m]
        BY <1>0, <1>1, <2>1, FinalStep, QueueKnowledge
      <3>2. QED
        BY <3>1 DEF RecordInv
    <2>2. CASE status[m] \notin Final /\ status'[m] \in Final
      <3>1. OutcomeOf[m] = "none" /\ OutcomeOf'[m] = status'[m] /\ status'[m] # "none"
        BY <2>2 DEF OutcomeOf, Final
      <3>2. accepted[m] \in {0, 1}
        BY <1>0 DEF LeaseAndDelivery, DeliveryInv
      <3>3. QED
        BY <1>1, <3>1, <3>2, QueueKnowledge
    <2>3. QED
      BY <2>1, <2>2 DEF Final
  <1>4. QED
    BY <1>2, <1>3 DEF RecordInv

QueueInv == LeaseAndDelivery /\ RecordInv

LEMMA QueueInductive ==
  ASSUME Punctual
  PROVE  Spec => []QueueInv
  <1>1. Init => LeaseInv /\ DeliveryInv /\ RecordInv
    BY DEF Init, LeaseInv, DeliveryInv, RecordInv, Knows, TimelyAt, HeldAt, Busy, InHand, Pending
  <1>2. TypeInv /\ LeaseInv /\ DeliveryInv /\ RecordInv /\ [Next]_vars =>
          LeaseInv' /\ DeliveryInv' /\ RecordInv'
    BY LeaseStep, DeliveryStep, RecordStep DEF LeaseAndDelivery
  <1>3. QED
    BY <1>1, <1>2, TypeInvariant, PTL DEF Spec, QueueInv, LeaseAndDelivery

(***************************************************************************)
(* With punctual workers, the dispatcher implements LeaseQueue: a message   *)
(* is in the hands of one worker at a time, who alone delivers it, once as *)
(* far as is known, and records 'sent' exactly when it knows that Meta     *)
(* accepted it; what it does not know when it lets go, nobody does.        *)
(***************************************************************************)
THEOREM DispatcherIsALeaseQueue ==
  ASSUME Punctual
  PROVE  Spec => QueueImplemented
  <1>1. Init => Queue!Init
    BY DEF Init, Queue!Init, HandsOf, InHand, Pending, OutcomeOf, Final
  <1>2. QueueInv /\ [Next]_vars => [Queue!Next]_<<HandsOf, OutcomeOf, accepted>>
    BY QueueStep DEF QueueInv
  <1>3. QED
    BY <1>1, <1>2, QueueInductive, PTL DEF Spec, QueueImplemented, Queue!Spec

(***************************************************************************)
(* What the customer reads is true: as far as anybody can know, a message   *)
(* in 'sent' was accepted by Meta and one in 'failed' was not, and an      *)
(* acceptance that is known is recorded or about to be.                    *)
(***************************************************************************)
THEOREM OutcomeIsTrue ==
  ASSUME Punctual
  PROVE  Spec => [](RecordInv /\ DeliveryInv)
  BY QueueInductive, PTL DEF QueueInv, LeaseAndDelivery

=============================================================================
