---------------------------- MODULE JobQueueProofs ----------------------------
(***************************************************************************)
(* Theorems about the job queue, for any number of jobs, workers, attempts *)
(* and stages and any lease and backoff.                                   *)
(***************************************************************************)
EXTENDS JobQueueInvariant, JobQueueRefinement, FiniteSetTheorems, TLAPS

USE JobsAssumption, WorkersAssumption, MortalAssumption, UnsupportedAssumption,
    SingleAssumption, AttemptsAssumption, LeaseAssumption, BackoffAssumption,
    StageAssumption

-----------------------------------------------------------------------------
(* Typing.                                                                 *)

\* Powers of two are natural numbers: the size of a set of subsets.
LEMMA PowerNat == ASSUME NEW n \in Nat PROVE 2 ^ n \in Nat
<1>1. IsFiniteSet(1 .. n) /\ Cardinality(1 .. n) = n
  BY FS_Interval
<1>2. /\ IsFiniteSet(SUBSET (1 .. n))
      /\ Cardinality(SUBSET (1 .. n)) = 2 ^ Cardinality(1 .. n)
  BY <1>1, FS_SUBSET
<1> QED
  BY <1>1, <1>2, FS_CardinalityType

\* The backoff delay of _retry_or_fail is a natural number.
LEMMA DelayNat == ASSUME NEW turn \in Nat, turn >= 1 PROVE Delay(turn) \in Nat
<1>1. 2 ^ (turn - 1) \in Nat
  BY PowerNat
<1> DEFINE p == 2 ^ (turn - 1)
<1>2. Delay(turn) = BackoffSeconds * p
  BY DEF Delay
<1>3. p \in Nat
  BY <1>1
<1> HIDE DEF p
<1> QED
  BY <1>2, <1>3

\* The rows the repository writes are rows.
LEMMA RowTypes ==
  /\ NewRow("ABSENT") \in Row
  /\ NewRow("PENDING") \in Row
  /\ \A row, seen \in Row, t \in Nat : Requeued(row, seen, t) \in Row
  /\ \A row, seen \in Row : LeaseExpired(row, seen) \in Row
  /\ \A row \in Row, w \in Workers :
        clock \in Nat => Claimed(row, w) \in Row
<1>1. NewRow("ABSENT") \in Row /\ NewRow("PENDING") \in Row
  BY DEF Row, NewRow, Statuses, Waiting, Completed
<1>2. ASSUME NEW row \in Row, NEW seen \in Row, NEW t \in Nat
      PROVE  Requeued(row, seen, t) \in Row
  BY <1>2 DEF Row, Requeued, Statuses, Waiting
<1>3. ASSUME NEW row \in Row, NEW seen \in Row
      PROVE  LeaseExpired(row, seen) \in Row
  BY <1>3 DEF Row, LeaseExpired, Statuses, Terminal
<1>4. ASSUME NEW row \in Row, NEW w \in Workers, clock \in Nat
      PROVE  Claimed(row, w) \in Row
  <2>1. \A l, a \in Nat :
          [row EXCEPT !.status = "RUNNING", !.worker = w, !.lease = l,
                      !.attempts = a] \in Row
    BY <1>4 DEF Row, Statuses
  <2>2. clock + LeaseSeconds \in Nat /\ row.attempts + 1 \in Nat
    BY <1>4 DEF Row
  <2> QED
    BY <2>1, <2>2 DEF Claimed
<1> QED
  BY <1>1, <1>2, <1>3, <1>4

\* The row a settlement writes is a row.
LEMMA SettledType ==
  ASSUME NEW row \in Row, NEW local \in Worker, local.turn >= 1
  PROVE  Settled(row, local) \in Row
<1>1. local.turn \in Nat /\ local.now \in Nat /\ local.seen \in Row
  BY DEF Worker
<1>2. local.now + Delay(local.turn) \in Nat
  BY <1>1, DelayNat
<1> DEFINE at == local.now + Delay(local.turn)
<1>3. at \in Nat
  BY <1>2
<1>4. CASE local.goal = "SUCCEED"
  BY <1>1, <1>4 DEF Settled, Row, Statuses, Terminal, Waiting
<1>5. CASE local.goal = "RETRY"
  <2>1. Settled(row, local) =
          [row EXCEPT !.status = "RETRY_WAITING", !.error = "TRANSIENT",
                      !.lease = local.seen.lease, !.worker = NoWorker,
                      !.retryAt = at]
    BY <1>5 DEF Settled
  <2> HIDE DEF at
  <2> QED
    BY <1>1, <1>3, <2>1 DEF Row, Statuses, Terminal, Waiting
<1>6. CASE local.goal \notin {"SUCCEED", "RETRY"}
  BY <1>1, <1>6 DEF Settled, Row, Statuses, Terminal, Waiting
<1> QED
  BY <1>4, <1>5, <1>6

\* The locals of a call of run_once that has just begun or ended.
LEMMA FreshType ==
  ASSUME NEW pc \in Live \cup {"off", "stopped", "killed"}
  PROVE  Fresh(pc) \in Worker /\ Fresh(pc).pc = pc
BY RowTypes DEF Fresh, Worker, Goals, Completed

\* Replacing the locals of one worker keeps the typing of all.
LEMMA BecomeTyped ==
  ASSUME TypeOK, LocalsOK, NEW w \in Workers, NEW local \in Worker,
         Become(w, local),
         local.pc \in Executing => local.task \in Jobs /\ local.turn >= 1
  PROVE  wk' \in [Workers -> Worker] /\ LocalsOK'
BY DEF TypeOK, LocalsOK, Become

\* The types are preserved by every step; so are the claimed jobs.
LEMMA TypedStep == Typed /\ [Next]_vars => Typed'
<1> SUFFICES ASSUME Typed, [Next]_vars
             PROVE  Typed'
  OBVIOUS
<1> USE DEF Typed
<1>0. /\ TypeOK /\ LocalsOK
      /\ clock \in Nat
      /\ \A j \in Jobs : job[j] \in Row
      /\ \A w \in Workers : wk[w] \in Worker
  BY DEF TypeOK
<1>a. ASSUME UNCHANGED wk
      PROVE  wk' \in [Workers -> Worker] /\ LocalsOK'
  BY <1>0, <1>a DEF TypeOK, LocalsOK
<1>b. ASSUME NEW w \in Workers, Return(w) \/ Die(w)
      PROVE  wk' \in [Workers -> Worker] /\ LocalsOK'
  <2>1. \A pc \in {"poll", "killed"} : Become(w, Fresh(pc)) =>
          wk' \in [Workers -> Worker] /\ LocalsOK'
    BY <1>0, FreshType, BecomeTyped DEF Live, Idling, Executing
  <2> QED
    BY <1>b, <2>1 DEF Return, Die
<1>1. ASSUME NEW j \in Jobs, Enqueue(j)
      PROVE  Typed'
  BY <1>0, <1>1, <1>a, RowTypes DEF Enqueue, TypeOK
<1>2. ASSUME NEW j \in Jobs, CancelRead(j)
      PROVE  Typed'
  BY <1>0, <1>2, <1>a DEF CancelRead, TypeOK
<1>3. CASE CancelWrite
  <2>1. cancelling.seen \in Row /\ cancelling' \in [job : Jobs \cup {0}, seen : Row]
    BY <1>0, <1>3, RowTypes DEF CancelWrite, TypeOK, NoCancel
  <2>2. \A row \in Row, seen \in Row :
          [row EXCEPT !.status = "CANCELLED", !.lease = 0, !.worker = seen.worker,
                      !.retryAt = seen.retryAt, !.error = seen.error] \in Row
    BY DEF Row, Statuses, Terminal
  <2>3. job' \in [Jobs -> Row]
    BY <1>0, <1>3, <2>1, <2>2 DEF CancelWrite, TypeOK
  <2> QED
    BY <1>0, <1>3, <1>a, <2>1, <2>3 DEF CancelWrite, TypeOK
<1>4. CASE Tick
  BY <1>0, <1>4, <1>a DEF Tick, TypeOK
<1>5. ASSUME NEW w \in Workers, Start(w) \/ Shutdown(w) \/ Crash(w)
      PROVE  Typed'
  <2>1. \A pc \in {"poll", "stopped"} : Become(w, Fresh(pc)) =>
          wk' \in [Workers -> Worker] /\ LocalsOK'
    BY <1>0, FreshType, BecomeTyped DEF Live, Idling, Executing
  <2> QED
    BY <1>0, <1>5, <2>1 DEF Start, Shutdown, Crash, TypeOK
<1>6. ASSUME NEW w \in Workers, Recover(w)
      PROVE  Typed'
  <2>1. CASE RecoverScan(w)
    <3> DEFINE local == [wk[w] EXCEPT
                 !.pc = "recover", !.now = clock,
                 !.retry = {j \in {k \in Jobs : Expired(job[k], clock)} :
                              job[j].attempts < MaxAttempts},
                 !.exhaust = {j \in {k \in Jobs : Expired(job[k], clock)} :
                              job[j].attempts >= MaxAttempts}]
    <3>1. local \in Worker /\ local.pc = "recover"
      BY <1>0, ZenonT(60) DEF Worker, Live, Idling
    <3>2. Become(w, local)
      BY <2>1 DEF RecoverScan
    <3> QED
      BY <1>0, <2>1, <3>1, <3>2, BecomeTyped DEF RecoverScan, TypeOK, Executing
  <2>2. CASE RecoverRead(w)
    <3>1. PICK j \in Jobs : \/ Become(w, [wk[w] EXCEPT !.pc = "recoverWrite",
                                                       !.seen = job[j]])
                            \/ Die(w)
      BY <2>2 DEF RecoverRead
    <3>2. [wk[w] EXCEPT !.pc = "recoverWrite", !.seen = job[j]] \in Worker
      BY <1>0 DEF Worker, Live, Idling
    <3>3. wk' \in [Workers -> Worker] /\ LocalsOK'
      BY <1>0, <1>b, <3>1, <3>2, BecomeTyped DEF Executing, Worker
    <3> QED
      BY <1>0, <2>2, <3>3 DEF RecoverRead, TypeOK
  <2>3. CASE RecoverWrite(w)
    <3>1. PICK j \in Jobs :
            IF job[j].status = "RUNNING"
            THEN /\ job' = [job EXCEPT ![j] =
                       IF j \in wk[w].retry
                       THEN Requeued(@, wk[w].seen, wk[w].now)
                       ELSE LeaseExpired(@, wk[w].seen)]
                 /\ Become(w, [wk[w] EXCEPT !.pc = "recover",
                                            !.retry = @ \ {j},
                                            !.exhaust = @ \ {j},
                                            !.seen = NewRow("ABSENT")])
            ELSE Die(w) /\ UNCHANGED job
      BY <2>3 DEF RecoverWrite
    <3>2. [wk[w] EXCEPT !.pc = "recover", !.retry = @ \ {j},
                        !.exhaust = @ \ {j}, !.seen = NewRow("ABSENT")] \in Worker
      BY <1>0, RowTypes, ZenonT(60) DEF Worker, Live, Idling
    <3>3. wk' \in [Workers -> Worker] /\ LocalsOK'
      BY <1>0, <1>b, <3>1, <3>2, BecomeTyped DEF Executing, Worker
    <3>4. wk[w].seen \in Row /\ wk[w].now \in Nat
      BY <1>0 DEF Worker
    <3>5. job' \in [Jobs -> Row]
      <4>1. /\ Requeued(job[j], wk[w].seen, wk[w].now) \in Row
            /\ LeaseExpired(job[j], wk[w].seen) \in Row
        BY <1>0, <3>4, RowTypes
      <4> QED
        BY <1>0, <3>1, <4>1 DEF TypeOK
    <3> QED
      BY <1>0, <2>3, <3>3, <3>5 DEF RecoverWrite, TypeOK
  <2> QED
    BY <1>6, <2>1, <2>2, <2>3 DEF Recover
<1>7. ASSUME NEW w \in Workers, Acquire(w)
      PROVE  Typed'
  <2>1. CASE ListCandidates(w)
    <3> DEFINE local == [Fresh("claim") EXCEPT
                           !.cand = {j \in Jobs : Due(job[j], wk[w].now)}]
    <3>1. local \in Worker /\ local.pc = "claim"
      BY FreshType DEF Worker, Live, Idling, Fresh
    <3>2. Return(w) \/ Become(w, local)
      BY <2>1 DEF ListCandidates
    <3>3. wk' \in [Workers -> Worker] /\ LocalsOK'
      BY <1>0, <1>b, <3>1, <3>2, BecomeTyped DEF Executing
    <3> QED
      BY <1>0, <2>1, <3>3 DEF ListCandidates, TypeOK
  <2>2. CASE Claim(w)
    <3>1. PICK j \in Jobs :
            /\ job' = [job EXCEPT ![j] = Claimed(@, w)]
            /\ Become(w, [Fresh(IF j \in Unsupported THEN "settle" ELSE "stage")
                            EXCEPT !.task = j, !.turn = job[j].attempts + 1,
                                   !.stage = job[j].stage,
                                   !.goal = IF j \in Unsupported THEN "REJECT"
                                            ELSE "NONE"])
      BY <2>2 DEF Claim
    <3>2. \A t \in Nat, s \in 0 .. Completed, pc \in {"settle", "stage"},
             g \in {"REJECT", "NONE"} :
            [Fresh(pc) EXCEPT !.task = j, !.turn = t, !.stage = s, !.goal = g]
              \in Worker
      BY FreshType, ZenonT(60) DEF Worker, Live, Executing, Fresh, Goals
    <3>3. /\ job[j].attempts \in Nat /\ job[j].attempts + 1 \in Nat
          /\ job[j].stage \in 0 .. Completed
      BY <1>0 DEF Row
    <3> DEFINE local == [Fresh(IF j \in Unsupported THEN "settle" ELSE "stage")
                            EXCEPT !.task = j, !.turn = job[j].attempts + 1,
                                   !.stage = job[j].stage,
                                   !.goal = IF j \in Unsupported THEN "REJECT"
                                            ELSE "NONE"]
    <3>4. local \in Worker
      <4>1. (IF j \in Unsupported THEN "settle" ELSE "stage")
              \in {"settle", "stage"}
        OBVIOUS
      <4>2. (IF j \in Unsupported THEN "REJECT" ELSE "NONE")
              \in {"REJECT", "NONE"}
        OBVIOUS
      <4> QED
        BY <3>2, <3>3, <4>1, <4>2, Zenon
    <3>5. local.task = j /\ local.turn = job[j].attempts + 1
      BY DEF Fresh
    <3>6. wk' \in [Workers -> Worker] /\ LocalsOK'
      <4> HIDE DEF local
      <4>1. Become(w, local)
        BY <3>1 DEF local
      <4>2. local.turn >= 1
        BY <3>3, <3>5
      <4> QED
        BY <1>0, <3>4, <3>5, <4>1, <4>2, BecomeTyped
    <3>7. job' \in [Jobs -> Row]
      BY <1>0, <3>1, RowTypes DEF TypeOK
    <3> QED
      BY <1>0, <2>2, <3>6, <3>7 DEF Claim, TypeOK
  <2>3. CASE ClaimNothing(w)
    <3>1. PICK j \in Jobs : \/ Return(w)
                            \/ Become(w, [wk[w] EXCEPT !.cand = @ \ {j}])
      BY <2>3 DEF ClaimNothing
    <3>2. [wk[w] EXCEPT !.cand = @ \ {j}] \in Worker
      BY <1>0 DEF Worker
    <3>3. wk' \in [Workers -> Worker] /\ LocalsOK'
      BY <1>0, <1>b, <2>3, <3>1, <3>2, BecomeTyped
         DEF ClaimNothing, Executing, Worker
    <3> QED
      BY <1>0, <2>3, <3>3 DEF ClaimNothing, TypeOK
  <2> QED
    BY <1>7, <2>1, <2>2, <2>3 DEF Acquire
<1>c. ASSUME NEW w \in Workers, NEW goal \in Goals, wk[w].pc \in Executing,
             Become(w, Settling(w, goal))
      PROVE  wk' \in [Workers -> Worker] /\ LocalsOK'
  <2>1. /\ Settling(w, goal) \in Worker
        /\ Settling(w, goal).task = wk[w].task
        /\ Settling(w, goal).turn = wk[w].turn
    BY <1>0 DEF Settling, Worker, Live, Executing
  <2> QED
    BY <1>0, <1>c, <2>1, BecomeTyped DEF LocalsOK
<1>8. ASSUME NEW w \in Workers, RunHandler(w)
      PROVE  Typed'
  <2>0. wk[w].pc \in Executing /\ wk[w].task \in Jobs /\ wk[w].turn >= 1
    BY <1>0, <1>8 DEF RunHandler, HandlerWrites, HandlerDisowned, StageDone,
       HandlerRaises, Checkpoint, LocalsOK, Executing
  <2>1. CASE HandlerWrites(w)
    <3>1. [wk[w] EXCEPT !.pc = "written"] \in Worker
      BY <1>0 DEF Worker, Live, Executing
    <3>2. wk' \in [Workers -> Worker] /\ LocalsOK'
      BY <1>0, <2>0, <2>1, <3>1, BecomeTyped DEF HandlerWrites, Worker
    <3>3. NextStage(w) \in 1 .. LastStage
      BY <1>0, <2>1 DEF HandlerWrites, NextStage, Worker, Completed
    <3>4. output' \in [Jobs -> SUBSET (1 .. LastStage)]
      BY <1>0, <2>1, <3>3 DEF HandlerWrites, TypeOK
    <3> QED
      BY <1>0, <2>1, <3>2, <3>4 DEF HandlerWrites, TypeOK
  <2>2. CASE HandlerDisowned(w)
    BY <1>0, <1>b, <2>2 DEF HandlerDisowned, TypeOK
  <2>3. CASE StageDone(w)
    <3>1. [wk[w] EXCEPT !.pc = "checkpoint", !.now = clock] \in Worker
      BY <1>0, ZenonT(60) DEF Worker, Live, Executing
    <3>2. wk' \in [Workers -> Worker] /\ LocalsOK'
      BY <1>0, <2>0, <2>3, <3>1, BecomeTyped DEF StageDone, Worker
    <3> QED
      BY <1>0, <2>3, <3>2 DEF StageDone, TypeOK
  <2>4. CASE HandlerRaises(w)
    BY <1>0, <1>c, <2>0, <2>4 DEF HandlerRaises, RetryGoal, Goals, TypeOK
  <2>5. CASE Checkpoint(w)
    <3> DEFINE stage == IF wk[w].stage = Completed THEN Completed
                        ELSE NextStage(w)
    <3>1. stage \in 0 .. Completed
      BY <1>0 DEF NextStage, Worker, Completed
    <3>2. \/ Become(w, Settling(w, RetryGoal(w))) /\ UNCHANGED job
          \/ Return(w) /\ UNCHANGED job
          \/ /\ job' = [job EXCEPT ![wk[w].task].stage = stage]
             /\ \/ Become(w, [Settling(w, "SUCCEED") EXCEPT !.stage = stage])
                \/ Become(w, [wk[w] EXCEPT !.pc = "stage", !.stage = stage])
      BY <2>5 DEF Checkpoint
    <3> HIDE DEF stage
    <3>3. job' \in [Jobs -> Row]
      <4>1. [job[wk[w].task] EXCEPT !.stage = stage] \in Row
        BY <1>0, <2>0, <3>1 DEF Row
      <4> QED
        BY <1>0, <2>0, <3>2, <4>1 DEF TypeOK
    <3>4. /\ [Settling(w, "SUCCEED") EXCEPT !.stage = stage] \in Worker
          /\ [Settling(w, "SUCCEED") EXCEPT !.stage = stage].task = wk[w].task
          /\ [Settling(w, "SUCCEED") EXCEPT !.stage = stage].turn = wk[w].turn
      BY <1>0, <3>1 DEF Settling, Worker, Goals, Live, Executing
    <3>5. [wk[w] EXCEPT !.pc = "stage", !.stage = stage] \in Worker
      BY <1>0, <3>1, ZenonT(60) DEF Worker, Live, Executing
    <3>6. wk' \in [Workers -> Worker] /\ LocalsOK'
      BY <1>0, <1>b, <1>c, <2>0, <3>2, <3>4, <3>5, BecomeTyped
         DEF RetryGoal, Goals, Worker
    <3> QED
      BY <1>0, <2>5, <3>3, <3>6 DEF Checkpoint, TypeOK
  <2> QED
    BY <1>8, <2>1, <2>2, <2>3, <2>4, <2>5 DEF RunHandler
<1>9. ASSUME NEW w \in Workers, Settle(w)
      PROVE  Typed'
  <2>0. wk[w].pc \in Executing /\ wk[w].task \in Jobs /\ wk[w].turn >= 1
    BY <1>0, <1>9 DEF Settle, SettleInvalid, SettleDisowned, SettleRead,
       SettleWrite, LocalsOK, Executing
  <2>1. CASE SettleInvalid(w)
    BY <1>0, <1>b, <1>c, <2>0, <2>1 DEF SettleInvalid, RetryGoal, Goals, TypeOK
  <2>2. CASE SettleDisowned(w)
    BY <1>0, <1>b, <2>2 DEF SettleDisowned, TypeOK
  <2>3. CASE SettleRead(w)
    <3>1. [wk[w] EXCEPT !.pc = "settleWrite", !.now = clock,
                        !.seen = job[wk[w].task]] \in Worker
      BY <1>0, <2>0, ZenonT(60) DEF Worker, Live, Executing
    <3>2. wk' \in [Workers -> Worker] /\ LocalsOK'
      BY <1>0, <2>0, <2>3, <3>1, BecomeTyped DEF SettleRead, Worker
    <3> QED
      BY <1>0, <2>3, <3>2 DEF SettleRead, TypeOK
  <2>4. CASE SettleWrite(w)
    <3>1. job' \in [Jobs -> Row]
      BY <1>0, <2>0, <2>4, SettledType DEF SettleWrite, TypeOK
    <3> QED
      BY <1>0, <1>b, <2>4, <3>1 DEF SettleWrite, TypeOK
  <2> QED
    BY <1>9, <2>1, <2>2, <2>3, <2>4 DEF Settle
<1>10. CASE UNCHANGED vars
  BY <1>0, <1>10, <1>a DEF vars, TypeOK
<1> QED
  BY <1>1, <1>2, <1>3, <1>4, <1>5, <1>6, <1>7, <1>8, <1>9, <1>10
     DEF Next, RunOnce

\* Every variable of the queue keeps a value of its kind, in every reachable
\* state of every instance.
THEOREM TypeCorrect == Spec => []TypeOK
<1>1. Init => Typed
  <2>1. Fresh("off") \in Worker /\ Fresh("off").pc \notin Executing
    BY FreshType DEF Executing
  <2>2. NewRow("ABSENT") \in Row
    BY RowTypes
  <2> QED
    BY <2>1, <2>2 DEF Init, Typed, TypeOK, LocalsOK, NoCancel
<1> QED
  BY <1>1, TypedStep, PTL DEF Spec, Typed

-----------------------------------------------------------------------------
(* What a step does to one row and to the locals of one worker.            *)

SameProgress(j) ==
    job'[j].attempts = job[j].attempts /\ job'[j].stage = job[j].stage

\* claim() hands the next attempt of j to w.
ClaimStep(w, j) ==
    /\ wk[w].pc = "claim"
    /\ job[j].status \in Waiting
    /\ job'[j] = Claimed(job[j], w)
    /\ wk'[w].pc \in {"stage", "settle"}
    /\ wk'[w].task = j
    /\ wk'[w].turn = job[j].attempts + 1
    /\ wk'[w].stage = job[j].stage
    /\ wk'[w].goal \in {"NONE", "REJECT"}
    /\ wk'[w].retry = {} /\ wk'[w].exhaust = {}

\* The stage a worker at "checkpoint" records.
Recorded(w) == IF wk[w].stage = Completed THEN Completed ELSE NextStage(w)

\* checkpoint() by w records a stage of j.
CheckpointStep(w, j) ==
    /\ wk[w].pc = "checkpoint"
    /\ wk[w].task = j
    /\ Owned(job[j], w, wk[w].now)
    /\ job[j].stage <= Recorded(w)
    /\ job'[j] = [job[j] EXCEPT !.stage = Recorded(w)]
    /\ wk'[w].pc \in {"stage", "settle"}
    /\ wk'[w].stage = Recorded(w)

\* The settlement by w takes j from RUNNING to the given status.
SettleStep(w, j, status) ==
    /\ wk[w].pc = "settleWrite"
    /\ wk[w].task = j
    /\ TargetOf(wk[w].goal) = status
    /\ Owned(job[j], w, wk[w].now)
    /\ job'[j].status = status
    /\ SameProgress(j)

\* A failed job was on a worker's list, or its own worker settles it; only
\* one that gives up blames a transient error.
FailedBy(w, j) ==
    \/ wk[w].pc = "recoverWrite" /\ j \in wk[w].exhaust
    \/ /\ wk[w].pc = "settleWrite" /\ wk[w].task = j
       /\ Owned(job[j], w, wk[w].now)
       /\ job'[j].error = "TRANSIENT" => wk[w].goal = "GIVEUP"

\* A requeued job was on a worker's list, or its own worker retries it.
RequeuedBy(w, j) ==
    \/ j \in wk[w].retry /\ j \notin wk'[w].retry
    \/ /\ wk[w].pc = "settleWrite" /\ wk[w].task = j /\ wk[w].goal = "RETRY"
       /\ Owned(job[j], w, wk[w].now)

RowStep(j) ==
    \/ job'[j] = job[j]
    \/ job[j].status = "ABSENT" /\ job'[j] = NewRow("PENDING")
    \/ /\ job[j].status \in Waiting
       /\ job'[j].status = "CANCELLED"
       /\ SameProgress(j)
    \/ /\ job[j].status = "RUNNING"
       /\ job'[j].status = "RETRY_WAITING"
       /\ SameProgress(j)
       /\ \E w \in Workers : RequeuedBy(w, j)
    \/ /\ job[j].status = "RUNNING"
       /\ job'[j].status = "FAILED"
       /\ SameProgress(j)
       /\ \E w \in Workers : FailedBy(w, j)
    \/ \E w \in Workers : ClaimStep(w, j)
    \/ \E w \in Workers : CheckpointStep(w, j)
    \/ \E w \in Workers : SettleStep(w, j, "SUCCEEDED")

\* A worker goes on with the job it has claimed.
Continues(w) ==
    /\ wk[w].pc \in Executing /\ wk'[w].pc \in Executing
    /\ wk'[w].task = wk[w].task /\ wk'[w].turn = wk[w].turn
    /\ wk'[w].retry = wk[w].retry /\ wk'[w].exhaust = wk[w].exhaust
    /\ \/ /\ wk[w].pc \in {"stage", "written"}
          /\ wk'[w].pc \in {"written", "checkpoint"}
          /\ wk'[w].stage = wk[w].stage /\ wk'[w].goal = wk[w].goal
          /\ wk[w].stage < LastStage
                => \/ wk[w].pc = "written"
                   \/ NextStage(w) \in output'[wk[w].task]
       \/ /\ wk'[w].pc = "settle"
          /\ wk'[w].goal \in {"ABORT", RetryGoal(w)}
          /\ wk'[w].stage = wk[w].stage
       \/ /\ wk[w].pc = "settle" /\ wk'[w].pc = "settleWrite"
          /\ wk'[w].stage = wk[w].stage /\ wk'[w].goal = wk[w].goal
       \/ /\ CheckpointStep(w, wk[w].task)
          /\ wk'[w].stage = Recorded(w)
          /\ \/ wk'[w].pc = "stage" /\ wk'[w].goal = wk[w].goal
             \/ /\ wk'[w].pc = "settle" /\ wk'[w].goal = "SUCCEED"
                /\ Recorded(w) = Completed

\* recover_stale lists running jobs, those without attempts left apart, and
\* only recovery holds a list.
ListsStale(w) ==
    /\ \A j \in wk'[w].exhaust :
          j \in Jobs /\ (j \in wk[w].exhaust \/ job[j].attempts >= MaxAttempts)
    /\ \A j \in wk'[w].retry :
          \/ j \in wk[w].retry
          \/ /\ j \in Jobs /\ job[j].status = "RUNNING"
             /\ job[j].attempts < MaxAttempts
    /\ \/ Recovering(w)'
       \/ wk'[w].retry = {}
       \/ ~ Recovering(w) /\ wk'[w].retry = wk[w].retry

LocalStep(w) ==
    \/ wk'[w] = wk[w]
    \/ wk'[w].pc \notin Executing /\ ListsStale(w)
    \/ \E j \in Jobs : ClaimStep(w, j)
    \/ Continues(w)

\* Replacing the locals of one worker leaves the others alone.
LEMMA BecomeOne ==
  ASSUME TypeOK, NEW w \in Workers, NEW local, Become(w, local)
  PROVE  wk'[w] = local /\ \A v \in Workers : v # w => wk'[v] = wk[v]
BY DEF TypeOK, Become

\* A call that returns or dies ends its locals.
LEMMA FreshStep ==
  ASSUME TypeOK, NEW w \in Workers, NEW pc, pc \notin Executing,
         Become(w, Fresh(pc))
  PROVE  \A v \in Workers : LocalStep(v)
BY BecomeOne DEF LocalStep, ListsStale, Fresh

\* The row of j is the only one an update of j changes.
LEMMA UpdateOne ==
  ASSUME TypeOK, NEW j \in Jobs, NEW row, job' = [job EXCEPT ![j] = row]
  PROVE  job'[j] = row /\ \A k \in Jobs : k # j => job'[k] = job[k]
BY DEF TypeOK

\* It is enough to look at the row, or the worker, that changed.
LEMMA OneRow ==
  ASSUME NEW j \in Jobs, RowStep(j),
         \A k \in Jobs : k # j => job'[k] = job[k]
  PROVE  \A k \in Jobs : RowStep(k)
BY DEF RowStep

\* The same for the workers: it is enough to look at the one that moved.
LEMMA OneLocal ==
  ASSUME NEW w \in Workers, LocalStep(w),
         \A v \in Workers : v # w => wk'[v] = wk[v]
  PROVE  \A v \in Workers : LocalStep(v)
BY DEF LocalStep

\* Every step is one of the above for each row and for each worker.
LEMMA Summary ==
  Typed /\ CancelLegal /\ [Next]_vars
  => /\ \A j \in Jobs : RowStep(j)
     /\ \A w \in Workers : LocalStep(w)
     /\ \A j \in Jobs : output[j] \subseteq output'[j]
     /\ CancelLegal'
<1> SUFFICES ASSUME Typed, CancelLegal, [Next]_vars
             PROVE  /\ \A j \in Jobs : RowStep(j)
                    /\ \A w \in Workers : LocalStep(w)
                    /\ \A j \in Jobs : output[j] \subseteq output'[j]
                    /\ CancelLegal'
  OBVIOUS
<1> DEFINE Goal == /\ \A j \in Jobs : RowStep(j)
                   /\ \A w \in Workers : LocalStep(w)
                   /\ \A j \in Jobs : output[j] \subseteq output'[j]
                   /\ CancelLegal'
<1>0. /\ TypeOK /\ LocalsOK
      /\ \A j \in Jobs : job[j] \in Row
      /\ \A w \in Workers : wk[w] \in Worker
  BY DEF TypeOK, Typed
<1>a. UNCHANGED job => \A j \in Jobs : RowStep(j)
  BY DEF RowStep
<1>b. UNCHANGED wk => \A w \in Workers : LocalStep(w)
  BY DEF LocalStep
<1>c. UNCHANGED output => \A j \in Jobs : output[j] \subseteq output'[j]
  OBVIOUS
<1>d. UNCHANGED cancelling => CancelLegal'
  BY DEF CancelLegal
<1>e. ASSUME NEW w \in Workers, Return(w) \/ Die(w)
      PROVE  \A v \in Workers : LocalStep(v)
  BY <1>0, <1>e, FreshStep DEF Return, Die, Executing
<1>1. ASSUME NEW j \in Jobs, Enqueue(j)
      PROVE  Goal
  <2>1. \A k \in Jobs : RowStep(k)
    BY <1>0, <1>1, UpdateOne DEF Enqueue, RowStep
  <2> QED
    BY <1>1, <1>b, <1>c, <1>d, <2>1 DEF Enqueue
<1>2. ASSUME NEW j \in Jobs, CancelRead(j)
      PROVE  Goal
  <2>1. job[j].status \in Waiting
    BY <1>0, <1>2 DEF CancelRead, Allowed
  <2> QED
    BY <1>2, <1>a, <1>b, <1>c, <2>1 DEF CancelRead, CancelLegal
<1>3. CASE CancelWrite
  <2>1. cancelling.job \in Jobs /\ cancelling.seen.status \in Waiting
    BY <1>3 DEF CancelWrite, CancelLegal
  <2> DEFINE j == cancelling.job
             seen == cancelling.seen
             row == IF job[j].status = seen.status
                    THEN [job[j] EXCEPT !.status = "CANCELLED", !.lease = 0,
                                        !.worker = seen.worker,
                                        !.retryAt = seen.retryAt,
                                        !.error = seen.error]
                    ELSE job[j]
  <2>2. job' = [job EXCEPT ![j] = row]
    BY <1>3 DEF CancelWrite
  <2>3. row = job[j] \/ /\ job[j].status \in Waiting
                        /\ row.status = "CANCELLED"
                        /\ row.attempts = job[j].attempts
                        /\ row.stage = job[j].stage
    BY <1>0, <2>1 DEF Row
  <2>4. job'[j] = row /\ \A k \in Jobs : k # j => job'[k] = job[k]
    <3> HIDE DEF row
    <3> QED
      BY <1>0, <2>1, <2>2, UpdateOne
  <2> HIDE DEF row
  <2>5. RowStep(j)
    BY <2>3, <2>4 DEF RowStep, SameProgress
  <2>6. \A k \in Jobs : RowStep(k)
    BY <2>1, <2>4, <2>5, OneRow
  <2> QED
    BY <1>3, <1>b, <1>c, <2>6 DEF CancelWrite, CancelLegal, NoCancel
<1>4. CASE Tick
  BY <1>4, <1>a, <1>b, <1>c, <1>d DEF Tick
<1>5. ASSUME NEW w \in Workers, Start(w) \/ Shutdown(w) \/ Crash(w)
      PROVE  Goal
  <2>1. \A v \in Workers : LocalStep(v)
    BY <1>0, <1>5, FreshStep DEF Start, Shutdown, Crash, Executing
  <2> QED
    BY <1>5, <1>a, <1>c, <1>d, <2>1 DEF Start, Shutdown, Crash
<1>6. ASSUME NEW w \in Workers, Recover(w)
      PROVE  Goal
  <2>1. CASE RecoverScan(w)
    <3> DEFINE local == [wk[w] EXCEPT
                 !.pc = "recover", !.now = clock,
                 !.retry = {j \in {k \in Jobs : Expired(job[k], clock)} :
                              job[j].attempts < MaxAttempts},
                 !.exhaust = {j \in {k \in Jobs : Expired(job[k], clock)} :
                              job[j].attempts >= MaxAttempts}]
    <3>1. /\ local.pc = "recover"
          /\ local.retry = {j \in {k \in Jobs : Expired(job[k], clock)} :
                              job[j].attempts < MaxAttempts}
          /\ local.exhaust = {j \in {k \in Jobs : Expired(job[k], clock)} :
                                job[j].attempts >= MaxAttempts}
      BY <1>0 DEF Worker
    <3>2. Become(w, local)
      BY <2>1 DEF RecoverScan
    <3>3. wk'[w] = local /\ \A v \in Workers : v # w => wk'[v] = wk[v]
      <4> HIDE DEF local
      <4> QED
        BY <1>0, <3>2, BecomeOne
    <3> HIDE DEF local
    <3>4. LocalStep(w)
      BY <3>1, <3>3 DEF LocalStep, ListsStale, Executing, Recovering, Expired
    <3>5. \A v \in Workers : LocalStep(v)
      BY <3>3, <3>4, OneLocal
    <3> QED
      BY <2>1, <1>a, <1>c, <1>d, <3>5 DEF RecoverScan
  <2>2. CASE RecoverRead(w)
    <3>1. PICK j \in Jobs : \/ Become(w, [wk[w] EXCEPT !.pc = "recoverWrite",
                                                       !.seen = job[j]])
                            \/ Die(w)
      BY <2>2 DEF RecoverRead
    <3>2. CASE Become(w, [wk[w] EXCEPT !.pc = "recoverWrite", !.seen = job[j]])
      <4>1. /\ wk'[w] = [wk[w] EXCEPT !.pc = "recoverWrite", !.seen = job[j]]
            /\ \A v \in Workers : v # w => wk'[v] = wk[v]
        BY <1>0, <3>2 DEF Become, TypeOK
      <4>2. /\ wk'[w].pc = "recoverWrite" /\ wk'[w].exhaust = wk[w].exhaust
            /\ wk'[w].retry = wk[w].retry
            /\ wk[w].exhaust \subseteq Jobs
        BY <1>0, <4>1 DEF Worker
      <4>3. LocalStep(w)
        BY <4>2 DEF LocalStep, ListsStale, Executing, Recovering
      <4>4. \A v \in Workers : LocalStep(v)
        BY <4>1, <4>3, OneLocal
      <4> QED
        BY <2>2, <1>a, <1>c, <1>d, <4>4 DEF RecoverRead
    <3>3. CASE Die(w)
      BY <2>2, <3>3, <1>a, <1>c, <1>d, <1>e DEF RecoverRead
    <3> QED
      BY <3>1, <3>2, <3>3
  <2>3. CASE RecoverWrite(w)
    <3>1. PICK j \in Jobs :
            /\ First(wk[w].retry \cup wk[w].exhaust, j)
            /\ IF job[j].status = "RUNNING"
               THEN /\ job' = [job EXCEPT ![j] =
                          IF j \in wk[w].retry
                          THEN Requeued(@, wk[w].seen, wk[w].now)
                          ELSE LeaseExpired(@, wk[w].seen)]
                    /\ Become(w, [wk[w] EXCEPT !.pc = "recover",
                                               !.retry = @ \ {j},
                                               !.exhaust = @ \ {j},
                                               !.seen = NewRow("ABSENT")])
               ELSE Die(w) /\ UNCHANGED job
      BY <2>3 DEF RecoverWrite
    <3>2. CASE job[j].status # "RUNNING"
      BY <2>3, <3>1, <3>2, <1>a, <1>c, <1>d, <1>e DEF RecoverWrite
    <3>3. CASE job[j].status = "RUNNING"
      <4>1. /\ wk'[w] = [wk[w] EXCEPT !.pc = "recover", !.retry = @ \ {j},
                                      !.exhaust = @ \ {j},
                                      !.seen = NewRow("ABSENT")]
            /\ \A v \in Workers : v # w => wk'[v] = wk[v]
        BY <1>0, <3>1, <3>3 DEF Become, TypeOK
      <4>a. /\ wk'[w].pc = "recover" /\ wk'[w].exhaust \subseteq wk[w].exhaust
            /\ wk'[w].retry = wk[w].retry \ {j}
            /\ wk[w].exhaust \subseteq Jobs
        BY <1>0, <4>1 DEF Worker
      <4>b. LocalStep(w)
        BY <4>a DEF LocalStep, ListsStale, Executing, Recovering
      <4>2. \A v \in Workers : LocalStep(v)
        BY <4>1, <4>b, OneLocal
      <4>3. ASSUME j \in wk[w].retry
            PROVE  \A k \in Jobs : RowStep(k)
        <5>1. /\ job'[j] = Requeued(job[j], wk[w].seen, wk[w].now)
              /\ \A k \in Jobs : k # j => job'[k] = job[k]
          BY <1>0, <3>1, <3>3, <4>3, UpdateOne
        <5>2. job'[j].status = "RETRY_WAITING" /\ SameProgress(j)
          BY <1>0, <5>1 DEF Requeued, Row, SameProgress
        <5>3. RequeuedBy(w, j)
          BY <4>3, <4>a DEF RequeuedBy
        <5>4. RowStep(j)
          BY <3>3, <5>2, <5>3 DEF RowStep
        <5> QED
          BY <5>1, <5>4, OneRow
      <4>4. ASSUME j \notin wk[w].retry
            PROVE  \A k \in Jobs : RowStep(k)
        <5>1. /\ job'[j] = LeaseExpired(job[j], wk[w].seen)
              /\ \A k \in Jobs : k # j => job'[k] = job[k]
          BY <1>0, <3>1, <3>3, <4>4, UpdateOne
        <5>2. job'[j].status = "FAILED" /\ SameProgress(j)
          BY <1>0, <5>1 DEF LeaseExpired, Row, SameProgress
        <5>3. FailedBy(w, j)
          BY <2>3, <3>1, <4>4 DEF First, FailedBy, RecoverWrite
        <5>4. RowStep(j)
          BY <3>3, <5>2, <5>3 DEF RowStep
        <5> QED
          BY <5>1, <5>4, OneRow
      <4>5. \A k \in Jobs : RowStep(k)
        BY <4>3, <4>4
      <4> QED
        BY <2>3, <1>c, <1>d, <4>2, <4>5 DEF RecoverWrite
    <3> QED
      BY <3>2, <3>3
  <2> QED
    BY <1>6, <2>1, <2>2, <2>3 DEF Recover
<1>7. ASSUME NEW w \in Workers, Acquire(w)
      PROVE  Goal
  <2>1. CASE ListCandidates(w)
    <3>1. \/ Return(w)
          \/ Become(w, [Fresh("claim") EXCEPT
                          !.cand = {j \in Jobs : Due(job[j], wk[w].now)}])
      BY <2>1 DEF ListCandidates
    <3>2. ASSUME Become(w, [Fresh("claim") EXCEPT
                              !.cand = {j \in Jobs : Due(job[j], wk[w].now)}])
          PROVE  \A v \in Workers : LocalStep(v)
      <4>1. /\ wk'[w].pc = "claim" /\ wk'[w].retry = {} /\ wk'[w].exhaust = {}
            /\ \A v \in Workers : v # w => wk'[v] = wk[v]
        BY <1>0, <3>2 DEF Become, TypeOK, Fresh
      <4>2. LocalStep(w)
        BY <4>1 DEF LocalStep, ListsStale, Executing, Recovering
      <4> QED
        BY <4>1, <4>2, OneLocal
    <3>3. \A v \in Workers : LocalStep(v)
      BY <1>e, <3>1, <3>2
    <3> QED
      BY <2>1, <1>a, <1>c, <1>d, <3>3 DEF ListCandidates
  <2>2. CASE Claim(w)
    <3>1. PICK j \in Jobs :
            /\ Due(job[j], clock)
            /\ job' = [job EXCEPT ![j] = Claimed(@, w)]
            /\ Become(w, [Fresh(IF j \in Unsupported THEN "settle" ELSE "stage")
                            EXCEPT !.task = j, !.turn = job[j].attempts + 1,
                                   !.stage = job[j].stage,
                                   !.goal = IF j \in Unsupported THEN "REJECT"
                                            ELSE "NONE"])
      BY <2>2 DEF Claim
    <3>2. /\ wk'[w].pc \in {"stage", "settle"} /\ wk'[w].task = j
          /\ wk'[w].turn = job[j].attempts + 1 /\ wk'[w].stage = job[j].stage
          /\ wk'[w].goal \in {"NONE", "REJECT"}
          /\ wk'[w].retry = {} /\ wk'[w].exhaust = {}
          /\ \A v \in Workers : v # w => wk'[v] = wk[v]
      BY <1>0, <3>1 DEF Become, TypeOK, Fresh
    <3>3. job'[j] = Claimed(job[j], w) /\ \A k \in Jobs : k # j => job'[k] = job[k]
      BY <1>0, <3>1, UpdateOne
    <3>4. ClaimStep(w, j)
      BY <2>2, <3>1, <3>2, <3>3 DEF ClaimStep, Due, Claim
    <3>a. LocalStep(w) /\ RowStep(j)
      BY <3>4 DEF LocalStep, RowStep
    <3>5. \A v \in Workers : LocalStep(v)
      BY <3>2, <3>a, OneLocal
    <3>6. \A k \in Jobs : RowStep(k)
      BY <3>3, <3>a, OneRow
    <3> QED
      BY <2>2, <1>c, <1>d, <3>5, <3>6 DEF Claim
  <2>3. CASE ClaimNothing(w)
    <3>1. PICK j \in Jobs : \/ Return(w)
                            \/ Become(w, [wk[w] EXCEPT !.cand = @ \ {j}])
      BY <2>3 DEF ClaimNothing
    <3>2. ASSUME Become(w, [wk[w] EXCEPT !.cand = @ \ {j}])
          PROVE  \A v \in Workers : LocalStep(v)
      <4>1. /\ wk'[w] = [wk[w] EXCEPT !.cand = @ \ {j}]
            /\ \A v \in Workers : v # w => wk'[v] = wk[v]
        BY <1>0, <3>2 DEF Become, TypeOK
      <4>2. /\ wk'[w].pc = "claim" /\ wk'[w].exhaust = wk[w].exhaust
            /\ wk[w].pc = "claim" /\ wk'[w].retry = wk[w].retry
            /\ wk[w].exhaust \subseteq Jobs
        BY <1>0, <2>3, <4>1 DEF Worker, ClaimNothing
      <4>3. LocalStep(w)
        BY <4>2 DEF LocalStep, ListsStale, Executing, Recovering
      <4> QED
        BY <4>1, <4>3, OneLocal
    <3>3. \A v \in Workers : LocalStep(v)
      BY <1>e, <3>1, <3>2
    <3> QED
      BY <2>3, <1>a, <1>c, <1>d, <3>3 DEF ClaimNothing
  <2> QED
    BY <1>7, <2>1, <2>2, <2>3 DEF Acquire
<1>f. ASSUME NEW w \in Workers, NEW goal \in {"ABORT", RetryGoal(w)},
             wk[w].pc \in Executing, Become(w, Settling(w, goal))
      PROVE  \A v \in Workers : LocalStep(v)
  <2>1. /\ wk'[w].pc = "settle" /\ wk'[w].goal = goal
        /\ wk'[w].task = wk[w].task /\ wk'[w].turn = wk[w].turn
        /\ wk'[w].stage = wk[w].stage /\ wk'[w].exhaust = wk[w].exhaust
        /\ wk'[w].retry = wk[w].retry
        /\ \A v \in Workers : v # w => wk'[v] = wk[v]
    BY <1>0, <1>f DEF Become, TypeOK, Settling, Worker
  <2>2. LocalStep(w)
    BY <1>f, <2>1 DEF LocalStep, Continues, Executing
  <2> QED
    BY <2>1, <2>2, OneLocal
<1>8. ASSUME NEW w \in Workers, RunHandler(w)
      PROVE  Goal
  <2>0. wk[w].pc \in Executing /\ wk[w].task \in Jobs
    BY <1>0, <1>8 DEF RunHandler, HandlerWrites, HandlerDisowned, StageDone,
       HandlerRaises, Checkpoint, LocalsOK, Executing
  <2>1. CASE HandlerWrites(w)
    <3>1. /\ wk'[w].pc = "written" /\ wk'[w].goal = wk[w].goal
          /\ wk'[w].task = wk[w].task /\ wk'[w].turn = wk[w].turn
          /\ wk'[w].stage = wk[w].stage /\ wk'[w].exhaust = wk[w].exhaust
          /\ wk'[w].retry = wk[w].retry
          /\ \A v \in Workers : v # w => wk'[v] = wk[v]
      BY <1>0, <2>1 DEF HandlerWrites, Become, TypeOK, Worker
    <3>2. /\ NextStage(w) \in output'[wk[w].task]
          /\ \A j \in Jobs : output[j] \subseteq output'[j]
      BY <1>0, <2>0, <2>1 DEF HandlerWrites, TypeOK
    <3>3. Continues(w)
      BY <2>0, <2>1, <3>1, <3>2 DEF Continues, HandlerWrites, Executing
    <3>a. LocalStep(w)
      BY <3>3 DEF LocalStep
    <3>4. \A v \in Workers : LocalStep(v)
      BY <3>1, <3>a, OneLocal
    <3> QED
      BY <2>1, <1>a, <1>d, <3>2, <3>4 DEF HandlerWrites
  <2>2. CASE HandlerDisowned(w)
    BY <2>2, <1>a, <1>c, <1>d, <1>e DEF HandlerDisowned
  <2>3. CASE StageDone(w)
    <3>1. /\ wk'[w].pc = "checkpoint" /\ wk'[w].goal = wk[w].goal
          /\ wk'[w].task = wk[w].task /\ wk'[w].turn = wk[w].turn
          /\ wk'[w].stage = wk[w].stage /\ wk'[w].exhaust = wk[w].exhaust
          /\ wk'[w].retry = wk[w].retry
          /\ \A v \in Workers : v # w => wk'[v] = wk[v]
      BY <1>0, <2>3 DEF StageDone, Become, TypeOK, Worker
    <3>2. wk[w].stage < LastStage => wk[w].pc = "written"
      BY <1>0, <2>3 DEF StageDone, Worker, Completed
    <3>3. Continues(w)
      BY <2>0, <2>3, <3>1, <3>2 DEF Continues, StageDone, Executing
    <3>a. LocalStep(w)
      BY <3>3 DEF LocalStep
    <3>4. \A v \in Workers : LocalStep(v)
      BY <3>1, <3>a, OneLocal
    <3> QED
      BY <2>3, <1>a, <1>c, <1>d, <3>4 DEF StageDone
  <2>4. CASE HandlerRaises(w)
    BY <2>0, <2>4, <1>a, <1>c, <1>d, <1>f DEF HandlerRaises
  <2>5. CASE Checkpoint(w)
    <3>1. CASE Become(w, Settling(w, RetryGoal(w))) /\ UNCHANGED job
      BY <2>0, <2>5, <3>1, <1>a, <1>c, <1>d, <1>f DEF Checkpoint
    <3>2. CASE Return(w) /\ UNCHANGED job
      BY <2>5, <3>2, <1>a, <1>c, <1>d, <1>e DEF Checkpoint
    <3>3. CASE /\ Recorded(w) >= job[wk[w].task].stage
               /\ Owned(job[wk[w].task], w, wk[w].now)
               /\ job' = [job EXCEPT ![wk[w].task].stage = Recorded(w)]
               /\ Become(w, IF Recorded(w) = Completed
                            THEN [Settling(w, "SUCCEED") EXCEPT
                                    !.stage = Recorded(w)]
                            ELSE [wk[w] EXCEPT !.pc = "stage",
                                               !.stage = Recorded(w)])
      <4>1. /\ job'[wk[w].task] =
                 [job[wk[w].task] EXCEPT !.stage = Recorded(w)]
            /\ \A k \in Jobs : k # wk[w].task => job'[k] = job[k]
        BY <1>0, <2>0, <3>3 DEF TypeOK
      <4>2. job[wk[w].task].stage <= Recorded(w)
        BY <1>0, <2>0, <3>3 DEF Recorded, NextStage, Row, Worker, Completed
      <4>3. /\ wk'[w].stage = Recorded(w)
            /\ wk'[w].task = wk[w].task /\ wk'[w].turn = wk[w].turn
            /\ wk'[w].exhaust = wk[w].exhaust
            /\ wk'[w].retry = wk[w].retry
            /\ \/ wk'[w].pc = "stage" /\ wk'[w].goal = wk[w].goal
               \/ /\ wk'[w].pc = "settle" /\ wk'[w].goal = "SUCCEED"
                  /\ Recorded(w) = Completed
            /\ \A v \in Workers : v # w => wk'[v] = wk[v]
        BY <1>0, <3>3 DEF Become, TypeOK, Settling, Worker
      <4>4. CheckpointStep(w, wk[w].task)
        BY <2>5, <3>3, <4>1, <4>2, <4>3 DEF CheckpointStep, Checkpoint
      <4>5. Continues(w)
        BY <2>0, <4>3, <4>4 DEF Continues, Executing
      <4>a. LocalStep(w)
        BY <4>5 DEF LocalStep
      <4>6. \A v \in Workers : LocalStep(v)
        BY <4>3, <4>a, OneLocal
      <4>b. RowStep(wk[w].task)
        BY <4>4 DEF RowStep
      <4>7. \A k \in Jobs : RowStep(k)
        BY <2>0, <4>1, <4>b, OneRow
      <4> QED
        BY <2>5, <1>c, <1>d, <4>6, <4>7 DEF Checkpoint
    <3> QED
      BY <2>5, <3>1, <3>2, <3>3 DEF Checkpoint, Recorded
  <2> QED
    BY <1>8, <2>1, <2>2, <2>3, <2>4, <2>5 DEF RunHandler
<1>9. ASSUME NEW w \in Workers, Settle(w)
      PROVE  Goal
  <2>0. wk[w].pc \in Executing /\ wk[w].task \in Jobs
    BY <1>0, <1>9 DEF Settle, SettleInvalid, SettleDisowned, SettleRead,
       SettleWrite, LocalsOK, Executing
  <2>1. CASE SettleInvalid(w)
    BY <2>0, <2>1, <1>a, <1>c, <1>d, <1>e, <1>f DEF SettleInvalid
  <2>2. CASE SettleDisowned(w)
    BY <2>2, <1>a, <1>c, <1>d, <1>e DEF SettleDisowned
  <2>3. CASE SettleRead(w)
    <3>1. /\ wk'[w].pc = "settleWrite" /\ wk'[w].goal = wk[w].goal
          /\ wk'[w].task = wk[w].task /\ wk'[w].turn = wk[w].turn
          /\ wk'[w].stage = wk[w].stage /\ wk'[w].exhaust = wk[w].exhaust
          /\ wk'[w].retry = wk[w].retry
          /\ \A v \in Workers : v # w => wk'[v] = wk[v]
      BY <1>0, <2>3 DEF SettleRead, Become, TypeOK, Worker
    <3>2. Continues(w)
      BY <2>0, <2>3, <3>1 DEF Continues, SettleRead, Executing
    <3>a. LocalStep(w)
      BY <3>2 DEF LocalStep
    <3>3. \A v \in Workers : LocalStep(v)
      BY <3>1, <3>a, OneLocal
    <3> QED
      BY <2>3, <1>a, <1>c, <1>d, <3>3 DEF SettleRead
  <2>4. CASE SettleWrite(w)
    <3> DEFINE j == wk[w].task
               row == IF /\ job[j].status = wk[w].seen.status
                         /\ Owned(job[j], w, wk[w].now)
                      THEN Settled(job[j], wk[w]) ELSE job[j]
    <3>1. job' = [job EXCEPT ![j] = row]
      BY <2>4 DEF SettleWrite
    <3>2. job'[j] = row /\ \A k \in Jobs : k # j => job'[k] = job[k]
      <4> HIDE DEF row
      <4> QED
        BY <1>0, <2>0, <3>1, UpdateOne
    <3>3. ASSUME row = job[j]
          PROVE  RowStep(j)
      BY <3>2, <3>3 DEF RowStep
    <3>4. ASSUME row = Settled(job[j], wk[w]), Owned(job[j], w, wk[w].now)
          PROVE  RowStep(j)
      <4>1. job[j] \in Row
        BY <1>0, <2>0
      <4>2. SameProgress(j) /\ job'[j] = Settled(job[j], wk[w])
        BY <3>2, <3>4, <4>1 DEF SameProgress, Settled, Row
      <4>3. CASE wk[w].goal = "SUCCEED"
        <5>1. job'[j].status = "SUCCEEDED"
          BY <4>1, <4>2, <4>3 DEF Settled, Row
        <5>2. SettleStep(w, j, "SUCCEEDED")
          BY <2>4, <3>4, <4>2, <4>3, <5>1 DEF SettleStep, SettleWrite, TargetOf
        <5> QED
          BY <5>2 DEF RowStep
      <4>4. CASE wk[w].goal = "RETRY"
        <5>1. job'[j].status = "RETRY_WAITING" /\ job[j].status = "RUNNING"
          BY <3>4, <4>1, <4>2, <4>4 DEF Settled, Row, Owned
        <5>2. RequeuedBy(w, j)
          BY <2>4, <3>4, <4>4 DEF RequeuedBy, SettleWrite
        <5> QED
          BY <4>2, <5>1, <5>2 DEF RowStep
      <4>5. CASE wk[w].goal \notin {"SUCCEED", "RETRY"}
        <5>1. /\ job'[j].status = "FAILED" /\ job[j].status = "RUNNING"
              /\ job'[j].error = "TRANSIENT" => wk[w].goal = "GIVEUP"
          BY <3>4, <4>1, <4>2, <4>5 DEF Settled, Row, Owned
        <5>2. FailedBy(w, j)
          BY <2>4, <3>4, <5>1 DEF FailedBy, SettleWrite
        <5> QED
          BY <4>2, <5>1, <5>2 DEF RowStep
      <4> QED
        BY <4>3, <4>4, <4>5
    <3>a. RowStep(j)
      BY <3>3, <3>4
    <3>5. \A k \in Jobs : RowStep(k)
      BY <2>0, <3>2, <3>a, OneRow
    <3> QED
      BY <2>4, <1>c, <1>d, <1>e, <3>5 DEF SettleWrite
  <2> QED
    BY <1>9, <2>1, <2>2, <2>3, <2>4 DEF Settle
<1>10. CASE UNCHANGED vars
  BY <1>10, <1>a, <1>b, <1>c, <1>d DEF vars
<1> QED
  BY <1>1, <1>2, <1>3, <1>4, <1>5, <1>6, <1>7, <1>8, <1>9, <1>10
     DEF Next, RunOnce

-----------------------------------------------------------------------------
(* IInv is inductive.                                                      *)

\* Attempts and checkpoints only grow, and only an ABSENT row stays ABSENT.
LEMMA RowsGrow ==
  ASSUME Typed, Typed', Fencing, NEW j \in Jobs, RowStep(j)
  PROVE  /\ job[j].attempts <= job'[j].attempts
         /\ job[j].stage <= job'[j].stage
         /\ job'[j].status = "ABSENT" => job'[j] = job[j]
<1>1. /\ job[j] \in Row /\ job[j].attempts \in Nat
      /\ job[j].stage \in 0 .. Completed
      /\ job'[j].attempts \in Nat /\ job'[j].stage \in 0 .. Completed
  BY DEF Typed, TypeOK, Row
<1>2. CASE job'[j] = job[j]
  BY <1>1, <1>2 DEF Completed
<1>3. CASE job[j].status = "ABSENT" /\ job'[j] = NewRow("PENDING")
  BY <1>1, <1>3 DEF NewRow, Fencing
<1>4. CASE \E w \in Workers : ClaimStep(w, j)
  BY <1>1, <1>4 DEF ClaimStep, Claimed, Row, Completed
<1>5. CASE \E w \in Workers : CheckpointStep(w, j)
  <2>1. PICK w \in Workers : CheckpointStep(w, j)
    BY <1>5
  <2>2. /\ job'[j].attempts = job[j].attempts
        /\ job'[j].stage = Recorded(w)
        /\ job'[j].status = "RUNNING"
        /\ job[j].stage <= Recorded(w)
    BY <1>1, <2>1 DEF CheckpointStep, Row, Owned
  <2> QED
    BY <1>1, <2>2
<1>6. CASE \E w \in Workers : SettleStep(w, j, "SUCCEEDED")
  BY <1>1, <1>6 DEF SettleStep, SameProgress, Completed
<1>7. CASE job'[j].status \in {"CANCELLED", "RETRY_WAITING", "FAILED"} /\ SameProgress(j)
  BY <1>1, <1>7 DEF SameProgress, Completed
<1> QED
  BY <1>2, <1>3, <1>4, <1>5, <1>6, <1>7 DEF RowStep

\* claim() numbers attempts upwards and names their worker; nothing else
\* changes either, so an old attempt never becomes the current one again.
LEMMA FencingStep ==
  Typed /\ Typed' /\ CancelLegal /\ Fencing /\ [Next]_vars => Fencing'
<1> SUFFICES ASSUME Typed, Typed', CancelLegal, Fencing, [Next]_vars
             PROVE  Fencing'
  OBVIOUS
<1>0. /\ \A j \in Jobs : RowStep(j)
      /\ \A w \in Workers : LocalStep(w)
      /\ \A j \in Jobs : job[j] \in Row
      /\ \A w \in Workers : /\ wk[w] \in Worker
                            /\ wk[w].pc \in Executing => wk[w].task \in Jobs
      /\ \A w \in Workers : wk[w].turn \in Nat
      /\ \A j \in Jobs : job[j].attempts \in Nat /\ job'[j].attempts \in Nat
  BY Summary DEF Typed, TypeOK, LocalsOK, Row, Worker
<1>1. \A j \in Jobs : /\ job[j].attempts <= job'[j].attempts
                      /\ job'[j].status = "ABSENT" => job'[j] = job[j]
  BY <1>0, RowsGrow
<1>2. \A w \in Workers, j \in Jobs : ClaimStep(w, j) =>
          /\ job'[j].attempts = job[j].attempts + 1
          /\ job'[j].worker = w
          /\ wk'[w].task = j /\ wk'[w].turn = job[j].attempts + 1
  BY <1>0 DEF ClaimStep, Claimed, Row
<1>3. \A w \in Workers : wk'[w].pc \in Executing =>
          \/ ClaimStep(w, wk'[w].task) /\ wk'[w].task \in Jobs
          \/ /\ wk[w].pc \in Executing
             /\ wk'[w].task = wk[w].task /\ wk'[w].turn = wk[w].turn
  BY <1>0, <1>2 DEF LocalStep, Continues
<1>4. \A j \in Jobs : job'[j].status = "ABSENT" =>
          job'[j].attempts = 0 /\ job'[j].stage = 0
  BY <1>1 DEF Fencing
<1>5. \A w \in Workers : wk'[w].pc \in Executing =>
          wk'[w].turn <= job'[wk'[w].task].attempts
  <2> SUFFICES ASSUME NEW w \in Workers, wk'[w].pc \in Executing,
                      NEW j, j = wk'[w].task
               PROVE  wk'[w].turn <= job'[j].attempts
    OBVIOUS
  <2>1. CASE ClaimStep(w, j) /\ j \in Jobs
    <3>1. /\ job'[j].attempts = job[j].attempts + 1
          /\ wk'[w].turn = job[j].attempts + 1
      BY <1>2, <2>1
    <3>2. job[j].attempts \in Nat
      BY <1>0, <2>1
    <3> QED
      BY <3>1, <3>2
  <2>2. CASE /\ wk[w].pc \in Executing
             /\ j = wk[w].task /\ wk'[w].turn = wk[w].turn
    <3>1. wk[w].turn <= job[j].attempts
      BY <2>2 DEF Fencing
    <3>2. /\ j \in Jobs /\ job[j].attempts \in Nat /\ job'[j].attempts \in Nat
          /\ wk[w].turn \in Nat
      BY <1>0, <2>2
    <3>3. job[j].attempts <= job'[j].attempts
      BY <1>1, <3>2
    <3> QED
      BY <2>2, <3>1, <3>2, <3>3
  <2> QED
    BY <1>3, <2>1, <2>2
<1>6. AttemptHasOneWorker'
  <2> SUFFICES ASSUME NEW v \in Workers, NEW w \in Workers, v # w,
                      wk'[v].pc \in Executing, wk'[w].pc \in Executing,
                      wk'[v].task = wk'[w].task
               PROVE  wk'[v].turn # wk'[w].turn
    BY DEF AttemptHasOneWorker
  <2>1. ASSUME NEW a \in Workers, NEW b \in Workers, a # b,
               wk'[b].pc \in Executing, wk'[b].task = wk'[a].task,
               ClaimStep(a, wk'[a].task), wk'[a].task \in Jobs
        PROVE  wk'[a].turn # wk'[b].turn
    <3> SUFFICES ASSUME NEW j \in Jobs, j = wk'[a].task
                 PROVE  wk'[a].turn # wk'[b].turn
      BY <2>1
    <3>1. ~ ClaimStep(b, j)
      BY <1>2, <2>1
    <3>2. /\ wk[b].pc \in Executing /\ wk[b].task = j
          /\ wk'[b].turn = wk[b].turn
      BY <1>3, <2>1, <3>1
    <3>3. wk[b].turn <= job[j].attempts
      BY <3>2 DEF Fencing
    <3>4. wk'[a].turn = job[j].attempts + 1
      BY <1>2, <2>1
    <3>5. job[j].attempts \in Nat /\ wk[b].turn \in Nat
      BY <1>0
    <3> QED
      BY <3>2, <3>3, <3>4, <3>5
  <2>2. CASE ClaimStep(w, wk'[w].task) /\ wk'[w].task \in Jobs
    BY <2>1, <2>2
  <2>3. CASE ClaimStep(v, wk'[v].task) /\ wk'[v].task \in Jobs
    BY <2>1, <2>3
  <2>4. CASE /\ wk[w].pc \in Executing /\ wk'[w].task = wk[w].task
             /\ wk'[w].turn = wk[w].turn
             /\ wk[v].pc \in Executing /\ wk'[v].task = wk[v].task
             /\ wk'[v].turn = wk[v].turn
    BY <2>4 DEF Fencing, AttemptHasOneWorker
  <2> QED
    BY <1>3, <2>2, <2>3, <2>4
<1>7. ASSUME NEW w \in Workers, wk'[w].pc \in Executing,
             job'[wk'[w].task].status = "RUNNING",
             job'[wk'[w].task].worker = w
      PROVE  wk'[w].turn = job'[wk'[w].task].attempts
  <2> DEFINE j == wk'[w].task
  <2>1. CASE ClaimStep(w, j) /\ j \in Jobs
    BY <1>2, <2>1
  <2>2. CASE /\ wk[w].pc \in Executing
             /\ wk'[w].task = wk[w].task /\ wk'[w].turn = wk[w].turn
    <3>0. j \in Jobs /\ RowStep(j) /\ job[j] \in Row
      BY <1>0, <2>2
    <3>1. CASE \E v \in Workers : ClaimStep(v, j)
      <4>1. PICK v \in Workers : ClaimStep(v, j)
        BY <3>1
      <4>2. v = w /\ j \in Jobs
        BY <1>2, <1>7, <3>0, <4>1
      <4>3. ClaimStep(w, j)
        BY <4>1, <4>2
      <4>4. wk'[w].turn = job[j].attempts + 1
        BY <1>2, <3>0, <4>3
      <4>5. job'[j].attempts = job[j].attempts + 1
        BY <1>2, <3>0, <4>3
      <4> QED
        BY <4>4, <4>5
    <3>2. CASE job'[j] = job[j]
      BY <1>7, <2>2, <3>2 DEF Fencing
    <3>3. CASE \E v \in Workers : CheckpointStep(v, j)
      <4>1. /\ job'[j].status = job[j].status /\ job'[j].worker = job[j].worker
            /\ job'[j].attempts = job[j].attempts
        BY <3>0, <3>3 DEF CheckpointStep, Row
      <4> QED
        BY <1>7, <2>2, <4>1 DEF Fencing
    <3>4. CASE job'[j].status # "RUNNING"
      BY <1>7, <3>4
    <3> QED
      BY <3>0, <3>1, <3>2, <3>3, <3>4 DEF RowStep, NewRow, SettleStep
  <2> QED
    BY <1>3, <1>7, <2>1, <2>2
<1> QED
  BY <1>4, <1>5, <1>6, <1>7 DEF Fencing

-----------------------------------------------------------------------------

\* Outputs are never taken back, the worker that checkpoints a stage has just
\* written its output, and a resumed attempt starts from a checkpoint.
LEMMA ProgressStep ==
  Typed /\ Typed' /\ CancelLegal /\ Fencing /\ Progress /\ [Next]_vars
  => Progress'
<1> SUFFICES ASSUME Typed, Typed', CancelLegal, Fencing, Progress, [Next]_vars
             PROVE  Progress'
  OBVIOUS
<1>0. /\ \A j \in Jobs : RowStep(j)
      /\ \A w \in Workers : LocalStep(w)
      /\ \A j \in Jobs : output[j] \subseteq output'[j]
      /\ \A j \in Jobs : job[j] \in Row /\ job[j].stage \in 0 .. Completed
                         /\ job'[j].stage \in 0 .. Completed
      /\ \A w \in Workers : /\ wk[w].stage \in 0 .. Completed
                            /\ wk'[w].stage \in 0 .. Completed
                            /\ wk[w].pc \in Executing => wk[w].task \in Jobs
  BY Summary DEF Typed, TypeOK, LocalsOK, Row, Worker
<1>1. \A j \in Jobs : job[j].stage <= job'[j].stage
  BY <1>0, RowsGrow
<1>2. \A w \in Workers, j \in Jobs : ClaimStep(w, j) =>
          /\ job'[j].stage = job[j].stage /\ job'[j].status = "RUNNING"
          /\ wk'[w].task = j /\ wk'[w].stage = job[j].stage
          /\ wk'[w].pc \notin {"written", "checkpoint"}
          /\ wk'[w].goal # "SUCCEED"
  BY <1>0 DEF ClaimStep, Claimed, Row
\* What checkpoint() records has its output.
<1>3. ASSUME NEW w \in Workers, wk[w].pc = "checkpoint"
      PROVE  \A s \in 1 .. LastStage : s <= Recorded(w) => s \in output[wk[w].task]
  <2>1. wk[w].pc \in Executing
    BY <1>3 DEF Executing
  <2>2. CASE wk[w].stage = Completed
    BY <2>1, <2>2 DEF Progress, Recorded
  <2>3. CASE wk[w].stage # Completed
    <3>1. Recorded(w) = wk[w].stage + 1
      BY <2>3 DEF Recorded, NextStage
    <3> SUFFICES ASSUME NEW s \in 1 .. LastStage, s <= wk[w].stage + 1
                 PROVE  s \in output[wk[w].task]
      BY <3>1
    <3>2. CASE s <= wk[w].stage
      BY <2>1, <3>2 DEF Progress
    <3>3. CASE s = wk[w].stage + 1
      <4>1. wk[w].stage < LastStage
        BY <1>0, <3>3
      <4> QED
        BY <1>3, <3>3, <4>1 DEF Progress, NextStage
    <3> QED
      BY <1>0, <3>2, <3>3
  <2> QED
    BY <2>2, <2>3
<1>4. CheckpointsBacked'
  <2> SUFFICES ASSUME NEW j \in Jobs, NEW s \in 1 .. LastStage,
                      s <= job'[j].stage
               PROVE  s \in output'[j]
    BY DEF CheckpointsBacked
  <2>1. CASE job'[j].stage = job[j].stage
    BY <1>0, <2>1 DEF Progress, CheckpointsBacked
  <2>2. CASE \E w \in Workers : CheckpointStep(w, j)
    <3>1. PICK w \in Workers : CheckpointStep(w, j)
      BY <2>2
    <3>2. job'[j].stage = Recorded(w) /\ wk[w].pc = "checkpoint" /\ wk[w].task = j
      BY <1>0, <3>1 DEF CheckpointStep, Row
    <3> QED
      BY <1>0, <1>3, <3>2
  <2>3. CASE job'[j] = NewRow("PENDING")
    <3>1. job'[j].stage = 0
      BY <2>3 DEF NewRow
    <3> QED
      BY <3>1
  <2>4. CASE \E w \in Workers : ClaimStep(w, j)
    BY <1>2, <2>1, <2>4
  <2>5. \/ job'[j].stage = job[j].stage
        \/ job'[j] = NewRow("PENDING")
        \/ \E w \in Workers : ClaimStep(w, j)
        \/ \E w \in Workers : CheckpointStep(w, j)
    <3>1. RowStep(j)
      BY <1>0
    <3> QED
      BY <3>1 DEF RowStep, SameProgress, SettleStep
  <2> QED
    BY <2>1, <2>2, <2>3, <2>4, <2>5
<1>5. ASSUME NEW w \in Workers, wk'[w].pc \in Executing
      PROVE  \/ ClaimStep(w, wk'[w].task) /\ wk'[w].task \in Jobs
             \/ wk'[w] = wk[w] /\ wk[w].pc \in Executing
             \/ Continues(w)
  BY <1>0, <1>2, <1>5 DEF LocalStep
<1>6. ASSUME NEW w \in Workers, wk'[w].pc \in Executing,
             NEW s \in 1 .. LastStage, s <= wk'[w].stage
      PROVE  s \in output'[wk'[w].task]
  <2>1. CASE ClaimStep(w, wk'[w].task) /\ wk'[w].task \in Jobs
    <3> SUFFICES ASSUME NEW j \in Jobs, j = wk'[w].task
                 PROVE  s \in output'[j]
      BY <2>1
    <3>1. s <= job[j].stage
      BY <1>2, <1>6, <2>1
    <3> QED
      BY <1>0, <3>1 DEF Progress, CheckpointsBacked
  <2>2. CASE /\ wk[w].pc \in Executing /\ wk'[w].task = wk[w].task
             /\ wk'[w].stage = wk[w].stage
    <3>1. s \in output[wk[w].task] /\ wk[w].task \in Jobs
      BY <1>0, <1>6, <2>2 DEF Progress
    <3> QED
      BY <1>0, <2>2, <3>1
  <2>3. CASE /\ Continues(w) /\ CheckpointStep(w, wk[w].task)
             /\ wk'[w].stage = Recorded(w)
    <3>1. /\ wk[w].pc = "checkpoint" /\ wk'[w].task = wk[w].task
          /\ wk[w].task \in Jobs
      BY <1>0, <2>3 DEF CheckpointStep, Continues
    <3>2. s \in output[wk[w].task]
      BY <1>3, <1>6, <2>3, <3>1
    <3> QED
      BY <1>0, <3>1, <3>2
  <2> QED
    BY <1>5, <1>6, <2>1, <2>2, <2>3 DEF Continues
<1>7. ASSUME NEW w \in Workers, wk'[w].pc \in {"written", "checkpoint"},
             wk'[w].stage < LastStage
      PROVE  NextStage(w)' \in output'[wk'[w].task]
  <2>0. wk'[w].pc \in Executing
    BY <1>7 DEF Executing
  <2>1. CASE wk'[w] = wk[w] /\ wk[w].pc \in Executing
    <3>1. wk[w].stage + 1 \in output[wk[w].task] /\ wk[w].task \in Jobs
      BY <1>0, <1>7, <2>1 DEF Progress, NextStage
    <3> QED
      BY <1>0, <2>1, <3>1 DEF NextStage
  <2>2. CASE Continues(w)
    <3>1. /\ wk[w].pc \in {"stage", "written"} /\ wk[w].task \in Jobs
          /\ wk'[w].stage = wk[w].stage /\ wk'[w].task = wk[w].task
          /\ \/ wk[w].pc = "written"
             \/ NextStage(w) \in output'[wk[w].task]
      BY <1>0, <1>7, <2>2 DEF Continues
    <3>2. CASE wk[w].pc = "written"
      <4>1. wk[w].stage + 1 \in output[wk[w].task]
        BY <1>7, <3>1, <3>2 DEF Progress, NextStage
      <4> QED
        BY <1>0, <3>1, <4>1 DEF NextStage
    <3> QED
      BY <3>1, <3>2 DEF NextStage
  <2> QED
    BY <1>2, <1>5, <1>7, <2>0, <2>1, <2>2
<1>8. ASSUME NEW w \in Workers, wk'[w].pc \in Executing,
             wk'[w].goal = "SUCCEED"
      PROVE  job'[wk'[w].task].stage = Completed
  <2>1. CASE /\ wk[w].pc \in Executing /\ wk[w].goal = "SUCCEED"
             /\ wk'[w].task = wk[w].task
    <3>1. job[wk[w].task].stage = Completed /\ wk[w].task \in Jobs
      BY <1>0, <2>1 DEF Progress
    <3>2. \A j \in Jobs : job[j].stage = Completed => job'[j].stage = Completed
      BY <1>0, <1>1 DEF Completed
    <3> QED
      BY <2>1, <3>1, <3>2
  <2>2. CASE /\ Continues(w) /\ CheckpointStep(w, wk[w].task)
             /\ Recorded(w) = Completed
    <3>1. wk[w].task \in Jobs /\ wk'[w].task = wk[w].task
      BY <1>0, <2>2 DEF Continues
    <3> SUFFICES ASSUME NEW j \in Jobs, j = wk[w].task
                 PROVE  job'[j].stage = Completed
      BY <3>1
    <3> QED
      BY <1>0, <2>2 DEF CheckpointStep, Row
  <2> QED
    BY <1>2, <1>5, <1>8, <2>1, <2>2 DEF Continues, RetryGoal
<1>9. ASSUME NEW j \in Jobs, job'[j].status = "SUCCEEDED"
      PROVE  job'[j].stage = Completed
  <2>1. CASE job'[j] = job[j]
    BY <1>9, <2>1 DEF Progress
  <2>2. CASE \E w \in Workers : SettleStep(w, j, "SUCCEEDED")
    <3>1. PICK w \in Workers : SettleStep(w, j, "SUCCEEDED")
      BY <2>2
    <3>2. /\ wk[w].pc \in Executing /\ wk[w].goal = "SUCCEED"
          /\ wk[w].task = j /\ job'[j].stage = job[j].stage
      <4>1. wk[w].goal = "SUCCEED"
        BY <3>1 DEF SettleStep, TargetOf
      <4> QED
        BY <3>1, <4>1 DEF SettleStep, Executing, SameProgress
    <3> QED
      BY <3>2 DEF Progress
  <2>3. CASE \E w \in Workers : CheckpointStep(w, j)
    BY <1>0, <1>9, <2>3 DEF CheckpointStep, Row, Owned
  <2>4. RowStep(j)
    BY <1>0
  <2> QED
    BY <1>2, <1>9, <2>1, <2>2, <2>3, <2>4 DEF RowStep, NewRow
<1> QED
  BY <1>4, <1>6, <1>7, <1>8, <1>9 DEF Progress

-----------------------------------------------------------------------------

\* Attempts only grow: a list of exhausted jobs, however old, stays right.
LEMMA JudgedStep ==
  Typed /\ Typed' /\ CancelLegal /\ Fencing /\ Judged /\ [Next]_vars => Judged'
<1> SUFFICES ASSUME Typed, Typed', CancelLegal, Fencing, Judged, [Next]_vars
             PROVE  Judged'
  OBVIOUS
<1>0. /\ \A j \in Jobs : RowStep(j)
      /\ \A w \in Workers : LocalStep(w)
      /\ \A j \in Jobs : /\ job[j] \in Row
                         /\ job[j].attempts \in Nat /\ job'[j].attempts \in Nat
      /\ \A w \in Workers : /\ wk[w].turn \in Nat /\ wk'[w].turn \in Nat
                            /\ wk[w].exhaust \subseteq Jobs
                            /\ wk'[w].exhaust \subseteq Jobs
                            /\ wk[w].pc \in Executing => wk[w].task \in Jobs
  BY Summary DEF Typed, TypeOK, LocalsOK, Row, Worker
<1>1. \A j \in Jobs : job[j].attempts >= MaxAttempts =>
                      job'[j].attempts >= MaxAttempts
  BY <1>0, RowsGrow
\* A worker that gives j up has seen its last attempt.
<1>2. ASSUME NEW w \in Workers, NEW j \in Jobs, FailedBy(w, j),
             job'[j].error = "TRANSIENT"
      PROVE  job[j].attempts >= MaxAttempts
  <2>1. CASE j \in wk[w].exhaust
    BY <2>1 DEF Judged
  <2>2. CASE wk[w].pc = "settleWrite" /\ wk[w].task = j /\ wk[w].goal = "GIVEUP"
    <3>1. wk[w].turn >= MaxAttempts /\ wk[w].turn <= job[j].attempts
      BY <2>2 DEF Judged, Fencing, Executing
    <3> QED
      BY <1>0, <3>1
  <2> QED
    BY <1>2, <2>1, <2>2 DEF FailedBy
<1>3. ASSUME NEW j \in Jobs, job'[j].status = "FAILED", job'[j].error = "TRANSIENT"
      PROVE  job'[j].attempts >= MaxAttempts
  <2>1. CASE job'[j] = job[j]
    BY <1>3, <2>1 DEF Judged, TransientFailureIsExhausted
  <2>2. CASE \E w \in Workers : FailedBy(w, j)
    BY <1>1, <1>2, <1>3, <2>2
  <2>3. CASE \E w \in Workers : ClaimStep(w, j)
    BY <1>0, <1>3, <2>3 DEF ClaimStep, Claimed, Row
  <2>4. CASE \E w \in Workers : CheckpointStep(w, j)
    BY <1>0, <1>3, <2>4 DEF CheckpointStep, Row, Owned
  <2>5. RowStep(j)
    BY <1>0
  <2> QED
    BY <1>3, <2>1, <2>2, <2>3, <2>4, <2>5 DEF RowStep, NewRow, SettleStep
<1>4. ASSUME NEW w \in Workers, NEW j \in wk'[w].exhaust
      PROVE  job'[j].attempts >= MaxAttempts
  <2>0. j \in Jobs
    BY <1>0
  <2>1. CASE j \in wk[w].exhaust
    BY <1>1, <2>0, <2>1 DEF Judged
  <2>2. CASE job[j].attempts >= MaxAttempts
    BY <1>1, <2>0, <2>2
  <2>3. LocalStep(w)
    BY <1>0
  <2> QED
    BY <2>1, <2>2, <2>3 DEF LocalStep, ListsStale, ClaimStep, Continues
<1>5. ASSUME NEW w \in Workers, wk'[w].pc \in Executing, wk'[w].goal = "GIVEUP"
      PROVE  wk'[w].turn >= MaxAttempts
  <2>1. CASE wk'[w] = wk[w]
    BY <1>5, <2>1 DEF Judged
  <2>2. CASE /\ wk[w].pc \in Executing /\ wk[w].goal = "GIVEUP"
             /\ wk'[w].turn = wk[w].turn
    BY <2>2 DEF Judged
  <2>3. CASE RetryGoal(w) = "GIVEUP" /\ wk'[w].turn = wk[w].turn
    BY <2>3 DEF RetryGoal
  <2>4. LocalStep(w)
    BY <1>0
  <2> QED
    BY <1>5, <2>1, <2>2, <2>3, <2>4 DEF LocalStep, ClaimStep, Continues
<1> QED
  BY <1>3, <1>4, <1>5 DEF Judged, TransientFailureIsExhausted

-----------------------------------------------------------------------------

\* With SingleWorker nobody else can touch what the one worker has listed or
\* claimed: Start waits for the others to be gone, and a cancel is legal only
\* for a waiting job.
LEMMA LoneStep ==
  Typed /\ CancelLegal /\ Lone /\ [Next]_vars => Lone'
<1> SUFFICES ASSUME Typed, CancelLegal, Lone, SingleWorker, [Next]_vars
             PROVE  Lone'
  BY DEF Lone
<1>0. /\ TypeOK /\ LocalsOK /\ clock \in Nat
      /\ \A j \in Jobs : job[j] \in Row
      /\ \A w \in Workers : /\ wk[w] \in Worker /\ wk[w].now \in Nat
                            /\ wk[w].retry \subseteq Jobs
                            /\ wk[w].exhaust \subseteq Jobs
                            /\ wk[w].pc # "killed"
                            /\ wk[w].pc \in Executing => wk[w].task \in Jobs
  BY DEF TypeOK, LocalsOK, Typed, Worker, Lone, WorkersSurvive
\* What the worker w owes to the others.
<1> DEFINE Listed(w) ==
             Recovering(w) =>
                /\ wk[w].now <= clock
                /\ \A j \in wk[w].retry \cup wk[w].exhaust :
                       Expired(job[j], wk[w].now)
           Claimant(w) ==
             wk[w].pc \in Executing => job[wk[w].task].status = "RUNNING"
           Kept(w) == wk[w].pc # "killed" /\ Listed(w) /\ Claimant(w)
<1>1. /\ \A w \in Workers : Kept(w)
      /\ \A w \in Workers : ~ Gone(w) => \A v \in Workers : v # w => Gone(v)
  BY DEF Lone, WorkersSurvive
<1>2. \A w \in Workers : Gone(w) => ~ Recovering(w) /\ wk[w].pc \notin Executing
  BY DEF Gone, Recovering, Executing
\* A client or the clock: running jobs are left as they are.
<1>3. ASSUME UNCHANGED wk, clock' \in Nat, clock <= clock',
             \A j \in Jobs : job[j].status = "RUNNING" => job'[j] = job[j]
      PROVE  Lone'
  <2>1. WorkersSurvive' /\ \A v, w \in Workers : v # w => Gone(v)' \/ Gone(w)'
    BY <1>3 DEF Lone, WorkersSurvive, Gone
  <2>2. ASSUME NEW w \in Workers, Recovering(w)'
        PROVE  /\ wk'[w].now <= clock'
               /\ \A j \in wk'[w].retry \cup wk'[w].exhaust :
                      Expired(job'[j], wk'[w].now)
    <3>1. Recovering(w) /\ wk'[w] = wk[w]
      BY <1>3, <2>2 DEF Recovering
    <3>2. wk[w].now <= clock'
      BY <1>0, <1>1, <1>3, <3>1
    <3>3. ASSUME NEW j \in wk[w].retry \cup wk[w].exhaust
          PROVE  Expired(job'[j], wk[w].now)
      BY <1>0, <1>1, <1>3, <3>1 DEF Expired
    <3> QED
      BY <3>1, <3>2, <3>3
  <2>3. ASSUME NEW w \in Workers, wk'[w].pc \in Executing
        PROVE  job'[wk'[w].task].status = "RUNNING"
    BY <1>0, <1>1, <1>3, <2>3
  <2> QED
    BY <2>1, <2>2, <2>3 DEF Lone
\* A worker: the others are gone and stay so.
<1>4. ASSUME NEW w \in Workers, \A v \in Workers : v # w => Gone(v),
             \A v \in Workers : v # w => wk'[v] = wk[v],
             wk'[w].pc # "killed", Listed(w)', Claimant(w)'
      PROVE  Lone'
  <2>1. \A v \in Workers : v # w => Gone(v)'
    BY <1>4 DEF Gone
  <2>2. \A v \in Workers : v # w =>
           wk'[v].pc # "killed" /\ ~ Recovering(v)' /\ wk'[v].pc \notin Executing
    BY <2>1 DEF Gone, Recovering, Executing
  <2>3. WorkersSurvive' /\ \A u, v \in Workers : u # v => Gone(u)' \/ Gone(v)'
    BY <1>4, <2>1, <2>2 DEF WorkersSurvive
  <2>4. \A v \in Workers : Listed(v)' /\ Claimant(v)'
    BY <1>4, <2>2
  <2> QED
    BY <2>3, <2>4 DEF Lone
<1>5. ASSUME NEW w \in Workers, \A v \in Workers : v # w => Gone(v),
             NEW pc \in {"poll", "stopped"}, Become(w, Fresh(pc))
      PROVE  Lone'
  <2>1. wk'[w] = Fresh(pc) /\ \A v \in Workers : v # w => wk'[v] = wk[v]
    BY <1>0, <1>5, BecomeOne
  <2>2. wk'[w].pc = pc
    BY <2>1 DEF Fresh
  <2>3. wk'[w].pc # "killed" /\ ~ Recovering(w)' /\ wk'[w].pc \notin Executing
    BY <2>2 DEF Recovering, Executing
  <2> QED
    BY <1>4, <1>5, <2>1, <2>3
\* The worker goes on with its job, which still runs.
<1>6. ASSUME NEW w \in Workers, \A v \in Workers : v # w => Gone(v),
             \A v \in Workers : v # w => wk'[v] = wk[v],
             wk'[w].pc \in Executing, job'[wk'[w].task].status = "RUNNING"
      PROVE  Lone'
  <2>1. wk'[w].pc # "killed" /\ ~ Recovering(w)'
    BY <1>6 DEF Recovering, Executing
  <2> QED
    BY <1>4, <1>6, <2>1
<1>7. ASSUME NEW w \in Workers, wk[w].pc \in Live
      PROVE  \A v \in Workers : v # w => Gone(v)
  <2>1. ~ Gone(w)
    BY <1>7 DEF Gone, Live, Executing, Idling
  <2> QED
    BY <1>1, <2>1
<1>8. ASSUME NEW j \in Jobs, Enqueue(j)
      PROVE  Lone'
  <2>1. \A k \in Jobs : job[k].status = "RUNNING" => job'[k] = job[k]
    BY <1>0, <1>8 DEF Enqueue, TypeOK
  <2> QED
    BY <1>0, <1>3, <1>8, <2>1 DEF Enqueue
<1>9. ASSUME NEW j \in Jobs, CancelRead(j)
      PROVE  Lone'
  BY <1>0, <1>3, <1>9 DEF CancelRead
<1>10. CASE CancelWrite
  <2>1. cancelling.job \in Jobs /\ cancelling.seen.status \in Waiting
    BY <1>10 DEF CancelWrite, CancelLegal
  <2>2. cancelling.seen.status # "RUNNING"
    BY <2>1 DEF Waiting
  <2>3. \A k \in Jobs : job[k].status = "RUNNING" => job'[k] = job[k]
    BY <1>0, <1>10, <2>1, <2>2 DEF CancelWrite, TypeOK
  <2> QED
    BY <1>0, <1>3, <1>10, <2>3 DEF CancelWrite
<1>11. CASE Tick
  <2>1. clock' \in Nat /\ clock <= clock'
    BY <1>0, <1>11 DEF Tick
  <2> QED
    BY <1>3, <1>11, <2>1 DEF Tick
<1>12. ASSUME NEW w \in Workers, Start(w) \/ Shutdown(w) \/ Crash(w)
       PROVE  Lone'
  <2>1. CASE Start(w)
    <3>1. \A v \in Workers : v # w => Gone(v)
      BY <2>1 DEF Start, Gone
    <3> QED
      BY <1>5, <2>1, <3>1 DEF Start
  <2>2. CASE Shutdown(w) \/ Crash(w)
    <3>1. wk[w].pc \in Live
      BY <1>0, <2>2 DEF Shutdown, Crash, Live, Idling
    <3>2. \A v \in Workers : v # w => Gone(v)
      BY <1>7, <3>1
    <3> QED
      BY <1>5, <2>2, <3>2 DEF Shutdown, Crash
  <2> QED
    BY <1>12, <2>1, <2>2
<1>13. ASSUME NEW w \in Workers, Recover(w)
       PROVE  Lone'
  <2>1. wk[w].pc \in Live /\ (wk[w].pc = "poll" \/ Recovering(w))
    BY <1>13 DEF Recover, RecoverScan, RecoverRead, RecoverWrite, Recovering,
       Live, Idling
  <2>2. \A v \in Workers : v # w => Gone(v)
    BY <1>7, <2>1
  <2>3. CASE RecoverScan(w)
    <3> DEFINE local == [wk[w] EXCEPT
                 !.pc = "recover", !.now = clock,
                 !.retry = {j \in {k \in Jobs : Expired(job[k], clock)} :
                              job[j].attempts < MaxAttempts},
                 !.exhaust = {j \in {k \in Jobs : Expired(job[k], clock)} :
                              job[j].attempts >= MaxAttempts}]
    <3>1. /\ local.pc = "recover" /\ local.now = clock
          /\ local.retry \cup local.exhaust \subseteq
               {k \in Jobs : Expired(job[k], clock)}
      BY <1>0 DEF Worker
    <3>2. Become(w, local) /\ UNCHANGED <<clock, job>>
      BY <2>3 DEF RecoverScan
    <3> HIDE DEF local
    <3>3. wk'[w] = local /\ \A v \in Workers : v # w => wk'[v] = wk[v]
      BY <1>0, <3>2, BecomeOne
    <3>4. wk'[w].pc # "killed" /\ wk'[w].pc \notin Executing
      BY <3>1, <3>3 DEF Executing
    <3>5. Listed(w)'
      BY <1>0, <3>1, <3>2, <3>3
    <3> QED
      BY <1>4, <2>2, <3>3, <3>4, <3>5
  <2>4. CASE RecoverRead(w)
    <3>1. PICK j \in Jobs :
            /\ First(wk[w].retry \cup wk[w].exhaust, j)
            /\ IF job[j].status = "RUNNING"
               THEN Become(w, [wk[w] EXCEPT !.pc = "recoverWrite",
                                            !.seen = job[j]])
               ELSE Die(w)
      BY <2>4 DEF RecoverRead
    <3>2. Recovering(w) /\ UNCHANGED <<clock, job>>
      BY <2>4 DEF RecoverRead, Recovering
    <3>3. job[j].status = "RUNNING"
      BY <1>1, <3>1, <3>2 DEF First, Expired
    <3>4. /\ wk'[w] = [wk[w] EXCEPT !.pc = "recoverWrite", !.seen = job[j]]
          /\ \A v \in Workers : v # w => wk'[v] = wk[v]
      BY <1>0, <3>1, <3>3 DEF Become, TypeOK
    <3>5. /\ wk'[w].pc = "recoverWrite" /\ wk'[w].now = wk[w].now
          /\ wk'[w].retry = wk[w].retry /\ wk'[w].exhaust = wk[w].exhaust
      BY <1>0, <3>4 DEF Worker
    <3>6. wk'[w].pc # "killed" /\ wk'[w].pc \notin Executing
      BY <3>5 DEF Executing
    <3>7. Listed(w)'
      BY <1>1, <3>2, <3>5
    <3> QED
      BY <1>4, <2>2, <3>4, <3>6, <3>7
  <2>5. CASE RecoverWrite(w)
    <3>1. PICK j \in Jobs :
            /\ First(wk[w].retry \cup wk[w].exhaust, j)
            /\ IF job[j].status = "RUNNING"
               THEN /\ job' = [job EXCEPT ![j] =
                          IF j \in wk[w].retry
                          THEN Requeued(@, wk[w].seen, wk[w].now)
                          ELSE LeaseExpired(@, wk[w].seen)]
                    /\ Become(w, [wk[w] EXCEPT !.pc = "recover",
                                               !.retry = @ \ {j},
                                               !.exhaust = @ \ {j},
                                               !.seen = NewRow("ABSENT")])
               ELSE Die(w) /\ UNCHANGED job
      BY <2>5 DEF RecoverWrite
    <3>2. Recovering(w) /\ UNCHANGED clock
      BY <2>5 DEF RecoverWrite, Recovering
    <3>3. job[j].status = "RUNNING"
      BY <1>1, <3>1, <3>2 DEF First, Expired
    <3>4. /\ wk'[w] = [wk[w] EXCEPT !.pc = "recover", !.retry = @ \ {j},
                                    !.exhaust = @ \ {j},
                                    !.seen = NewRow("ABSENT")]
          /\ \A v \in Workers : v # w => wk'[v] = wk[v]
      BY <1>0, <3>1, <3>3 DEF Become, TypeOK
    <3>5. /\ wk'[w].pc = "recover" /\ wk'[w].now = wk[w].now
          /\ wk'[w].retry = wk[w].retry \ {j}
          /\ wk'[w].exhaust = wk[w].exhaust \ {j}
      BY <1>0, <3>4 DEF Worker
    <3>6. \A k \in Jobs : k # j => job'[k] = job[k]
      BY <1>0, <3>1, <3>3 DEF TypeOK
    <3>7. wk'[w].pc # "killed" /\ wk'[w].pc \notin Executing
      BY <3>5 DEF Executing
    <3>8. Listed(w)'
      <4>1. ASSUME NEW k \in wk'[w].retry \cup wk'[w].exhaust
            PROVE  Expired(job'[k], wk'[w].now)
        <5>1. k \in wk[w].retry \cup wk[w].exhaust /\ k # j /\ k \in Jobs
          BY <1>0, <3>5
        <5> QED
          BY <1>1, <3>2, <3>5, <3>6, <5>1
      <4> QED
        BY <1>1, <3>2, <3>5, <4>1
    <3> QED
      BY <1>4, <2>2, <3>4, <3>7, <3>8
  <2> QED
    BY <1>13, <2>3, <2>4, <2>5 DEF Recover
<1>14. ASSUME NEW w \in Workers, Acquire(w)
       PROVE  Lone'
  <2>1. wk[w].pc \in Live
    BY <1>14 DEF Acquire, ListCandidates, Claim, ClaimNothing, Live, Idling
  <2>2. \A v \in Workers : v # w => Gone(v)
    BY <1>7, <2>1
  <2>3. CASE Claim(w)
    <3>1. PICK j \in Jobs :
            /\ job' = [job EXCEPT ![j] = Claimed(@, w)]
            /\ Become(w, [Fresh(IF j \in Unsupported THEN "settle" ELSE "stage")
                            EXCEPT !.task = j, !.turn = job[j].attempts + 1,
                                   !.stage = job[j].stage,
                                   !.goal = IF j \in Unsupported THEN "REJECT"
                                            ELSE "NONE"])
      BY <2>3 DEF Claim
    <3>2. /\ wk'[w].pc \in {"stage", "settle"} /\ wk'[w].task = j
          /\ \A v \in Workers : v # w => wk'[v] = wk[v]
      BY <1>0, <3>1 DEF Become, TypeOK, Fresh
    <3>3. job'[j].status = "RUNNING"
      BY <1>0, <3>1 DEF TypeOK, Claimed, Row
    <3>4. wk'[w].pc \in Executing
      BY <3>2 DEF Executing
    <3> QED
      BY <1>6, <2>2, <3>2, <3>3, <3>4
  <2>4. CASE Return(w)
    BY <1>5, <2>2, <2>4 DEF Return
  <2>5. CASE (ListCandidates(w) \/ ClaimNothing(w)) /\ ~ Return(w)
    <3>1. \/ Become(w, [Fresh("claim") EXCEPT
                          !.cand = {j \in Jobs : Due(job[j], wk[w].now)}])
          \/ /\ wk[w].pc = "claim"
             /\ \E j \in Jobs : Become(w, [wk[w] EXCEPT !.cand = @ \ {j}])
      BY <2>5 DEF ListCandidates, ClaimNothing
    <3>2. wk'[w].pc = "claim" /\ \A v \in Workers : v # w => wk'[v] = wk[v]
      BY <1>0, <3>1 DEF Become, TypeOK, Fresh, Worker
    <3>3. wk'[w].pc # "killed" /\ ~ Recovering(w)' /\ wk'[w].pc \notin Executing
      BY <3>2 DEF Recovering, Executing
    <3> QED
      BY <1>4, <2>2, <3>2, <3>3
  <2> QED
    BY <1>14, <2>3, <2>4, <2>5 DEF Acquire
<1>15. ASSUME NEW w \in Workers, RunHandler(w) \/ Settle(w)
       PROVE  Lone'
  <2>1. wk[w].pc \in Executing /\ wk[w].task \in Jobs
    BY <1>0, <1>15 DEF RunHandler, HandlerWrites, HandlerDisowned, StageDone,
       HandlerRaises, Checkpoint, Settle, SettleInvalid, SettleDisowned,
       SettleRead, SettleWrite, Executing
  <2>2. \A v \in Workers : v # w => Gone(v)
    BY <1>7, <2>1 DEF Live
  <2>3. job[wk[w].task].status = "RUNNING"
    BY <1>1, <2>1
  <2>4. ~ SettleInvalid(w)
    <3>1. TargetOf(wk[w].goal) \in {"SUCCEEDED", "RETRY_WAITING", "FAILED"}
      BY DEF TargetOf
    <3> QED
      BY <2>3, <3>1 DEF SettleInvalid, Allowed, Waiting
  <2>5. CASE Return(w)
    BY <1>5, <2>2, <2>5 DEF Return
  <2>6. CASE ~ Return(w)
    <3>1. /\ wk'[w].pc \in Executing /\ wk'[w].task = wk[w].task
          /\ \A v \in Workers : v # w => wk'[v] = wk[v]
      <4>1. CASE HandlerWrites(w)
        BY <1>0, <4>1 DEF HandlerWrites, Become, TypeOK, Worker, Executing
      <4>2. CASE StageDone(w)
        BY <1>0, <4>2 DEF StageDone, Become, TypeOK, Worker, Executing
      <4>3. CASE HandlerRaises(w)
        BY <1>0, <4>3 DEF HandlerRaises, Settling, Become, TypeOK, Worker,
           Executing
      <4>4. CASE Checkpoint(w)
        <5>1. PICK local, stage :
                /\ Become(w, local)
                /\ \/ local = Settling(w, RetryGoal(w))
                   \/ local = [Settling(w, "SUCCEED") EXCEPT !.stage = stage]
                   \/ local = [wk[w] EXCEPT !.pc = "stage", !.stage = stage]
          BY <2>6, <4>4 DEF Checkpoint
        <5>2. wk'[w] = local /\ \A v \in Workers : v # w => wk'[v] = wk[v]
          BY <1>0, <5>1, BecomeOne
        <5>3. local.pc \in {"settle", "stage"} /\ local.task = wk[w].task
          BY <1>0, <5>1 DEF Settling, Worker
        <5> QED
          BY <5>2, <5>3 DEF Executing
      <4>5. CASE SettleRead(w)
        BY <1>0, <4>5 DEF SettleRead, Become, TypeOK, Worker, Executing
      <4> QED
        BY <1>15, <2>4, <2>6, <4>1, <4>2, <4>3, <4>4, <4>5
           DEF RunHandler, Settle, HandlerDisowned, SettleDisowned, SettleWrite
    <3>2. job'[wk[w].task].status = "RUNNING"
      <4>1. \/ UNCHANGED job
            \/ \E stage : job' = [job EXCEPT ![wk[w].task].stage = stage]
        BY <1>15, <2>4, <2>6 DEF RunHandler, Settle, HandlerWrites,
           HandlerDisowned, StageDone, HandlerRaises, Checkpoint,
           SettleDisowned, SettleRead, SettleWrite
      <4>2. ASSUME NEW stage, job' = [job EXCEPT ![wk[w].task].stage = stage]
            PROVE  job'[wk[w].task].status = "RUNNING"
        <5>1. job'[wk[w].task] = [job[wk[w].task] EXCEPT !.stage = stage]
          BY <1>0, <2>1, <4>2 DEF TypeOK
        <5> QED
          BY <1>0, <2>1, <2>3, <5>1 DEF Row
      <4> QED
        BY <2>3, <4>1, <4>2
    <3> QED
      BY <1>6, <2>2, <3>1, <3>2
  <2> QED
    BY <2>5, <2>6
<1>16. CASE UNCHANGED vars
  BY <1>0, <1>3, <1>16 DEF vars
<1> QED
  BY <1>8, <1>9, <1>10, <1>11, <1>12, <1>13, <1>14, <1>15, <1>16
     DEF Next, RunOnce

\* A claim starts from the row, and only the holder of a job moves its stage.
LEMMA InStepStep ==
  Typed /\ Typed' /\ CancelLegal /\ InStep /\ [Next]_vars => InStep'
<1> SUFFICES ASSUME Typed, Typed', CancelLegal, InStep, [Next]_vars,
                    NEW w \in Workers,
                    wk'[w].pc \in {"stage", "written", "checkpoint"},
                    NEW j, j = wk'[w].task,
                    job'[j].status = "RUNNING", job'[j].worker = w
             PROVE  wk'[w].stage = job'[j].stage
  BY DEF InStep
<1>0. /\ \A i \in Jobs : RowStep(i) /\ job[i] \in Row
      /\ LocalStep(w)
      /\ wk'[w].pc \in Executing /\ j \in Jobs
      /\ \A i \in Jobs : job[i].stage \in 0 .. Completed
  <2>1. wk'[w].pc \in Executing
    BY DEF Executing
  <2> QED
    BY <2>1, Summary DEF Typed, TypeOK, LocalsOK, Row
<1>1. CASE \E i \in Jobs : ClaimStep(w, i)
  <2>1. ClaimStep(w, j)
    BY <1>1 DEF ClaimStep
  <2> QED
    BY <1>0, <2>1 DEF ClaimStep, Claimed, Row
<1>2. CASE CheckpointStep(w, j)
  BY <1>0, <1>2 DEF CheckpointStep, Row
<1>3. CASE /\ wk[w].pc \in {"stage", "written", "checkpoint"}
           /\ wk[w].task = j /\ wk'[w].stage = wk[w].stage
           /\ ~ CheckpointStep(w, j) /\ wk[w].pc # "claim"
  <2>1. CASE job'[j] = job[j]
    BY <1>3, <2>1 DEF InStep
  <2>2. CASE \E v \in Workers : ClaimStep(v, j)
    <3>1. PICK v \in Workers : ClaimStep(v, j)
      BY <2>2
    <3>2. job'[j].worker = v
      BY <1>0, <3>1 DEF ClaimStep, Claimed, Row
    <3> QED
      BY <1>3, <3>1, <3>2 DEF ClaimStep
  <2>3. CASE \E v \in Workers : CheckpointStep(v, j)
    <3>1. PICK v \in Workers : CheckpointStep(v, j)
      BY <2>3
    <3>2. job'[j].worker = v
      BY <1>0, <3>1 DEF CheckpointStep, Owned, Row
    <3> QED
      BY <1>3, <3>1, <3>2
  <2> QED
    BY <1>0, <2>1, <2>2, <2>3 DEF RowStep, NewRow, SettleStep
<1> QED
  BY <1>0, <1>1, <1>2, <1>3 DEF LocalStep, Continues

\* The lists of the workers are finitely many; dropping some leaves fewer.
LEMMA RequeuersFinite ==
  ASSUME NEW j
  PROVE  /\ IsFiniteSet(Requeuers(j)) /\ Cardinality(Requeuers(j)) \in Nat
         /\ \A S : S \subseteq Requeuers(j) =>
               /\ IsFiniteSet(S) /\ Cardinality(S) \in Nat
               /\ Cardinality(S) <= Cardinality(Requeuers(j))
               /\ S # Requeuers(j) => Cardinality(S) < Cardinality(Requeuers(j))
<1>1. Requeuers(j) \subseteq Workers
  BY DEF Requeuers
<1>2. IsFiniteSet(Requeuers(j)) /\ Cardinality(Requeuers(j)) \in Nat
  BY <1>1, FS_Subset, FS_CardinalityType
<1> QED
  BY <1>2, FS_Subset, FS_CardinalityType

\* The bound on a job's attempts: what is left over for the workers that do
\* not hold the job.
LEMMA Limit ==
  ASSUME NEW w \in Workers, NEW S, S \subseteq Workers \ {w}
  PROVE  /\ AttemptLimit \in Nat /\ MaxAttempts <= AttemptLimit
         /\ Cardinality(S) \in Nat
         /\ SingleWorker \/ MaxAttempts + Cardinality(S) <= AttemptLimit
         /\ SingleWorker => AttemptLimit = MaxAttempts
<1>1. /\ IsFiniteSet(Workers \ {w})
      /\ Cardinality(Workers \ {w}) = Cardinality(Workers) - 1
      /\ Cardinality(Workers) \in Nat
  BY FS_RemoveElement, FS_CardinalityType
<1>2. Cardinality(Workers \ {w}) \in Nat
  BY <1>1, FS_CardinalityType
<1>3. Cardinality(S) \in Nat /\ Cardinality(S) <= Cardinality(Workers \ {w})
  BY <1>1, FS_Subset, FS_CardinalityType
<1> QED
  BY <1>1, <1>2, <1>3 DEF AttemptLimit

\* Each attempt beyond MaxAttempts uses up an old list.
LEMMA BudgetStep ==
  Typed /\ Typed' /\ CancelLegal /\ Fencing /\ Lone /\ Budget /\ [Next]_vars
  => Budget'
<1> SUFFICES ASSUME Typed, Typed', CancelLegal, Fencing, Lone, Budget,
                    [Next]_vars
             PROVE  Budget'
  OBVIOUS
<1>0. /\ \A j \in Jobs : /\ RowStep(j) /\ job[j] \in Row
                         /\ job[j].attempts \in Nat /\ job'[j].attempts \in Nat
      /\ \A w \in Workers : /\ LocalStep(w)
                            /\ wk[w].turn \in Nat /\ wk'[w].turn \in Nat
  BY Summary DEF Typed, TypeOK, Row, Worker
<1>1. \A w \in Workers : wk'[w].retry # {} => Recovering(w)'
  BY <1>0 DEF LocalStep, ListsStale, ClaimStep, Continues, Budget, Recovering,
     Executing
<1>2. ASSUME NEW w \in Workers, wk'[w].pc \in Executing, wk'[w].goal = "RETRY"
      PROVE  wk'[w].turn < MaxAttempts
  <2>1. CASE wk'[w] = wk[w]
    BY <1>2, <2>1 DEF Budget
  <2>2. CASE /\ wk[w].pc \in Executing /\ wk[w].goal = "RETRY"
             /\ wk'[w].turn = wk[w].turn
    BY <2>2 DEF Budget
  <2>3. CASE RetryGoal(w) = "RETRY" /\ wk'[w].turn = wk[w].turn
    BY <1>0, <2>3 DEF RetryGoal
  <2>4. LocalStep(w)
    BY <1>0
  <2> QED
    BY <1>2, <2>1, <2>2, <2>3, <2>4 DEF LocalStep, ClaimStep, Continues
<1>3. ASSUME NEW j \in Jobs, job'[j].attempts >= MaxAttempts
      PROVE  /\ job'[j].status = "RUNNING" =>
                  job'[j].attempts + Cardinality(Requeuers(j)') <= AttemptLimit
             /\ job'[j].status \in Waiting =>
                  job'[j].attempts + Cardinality(Requeuers(j)') < AttemptLimit
  <2> DEFINE S == Requeuers(j)
             T == Requeuers(j)'
             a == job[j].attempts
  <2>1. T = {w \in Workers : j \in wk'[w].retry} /\ T \subseteq Workers
    BY DEF Requeuers
  <2>2. a \in Nat
    BY <1>0
  <2>3. \A w \in T : w \in S \/ (job[j].status = "RUNNING" /\ a < MaxAttempts)
    <3> SUFFICES ASSUME NEW w \in T, w \notin S
                 PROVE  job[j].status = "RUNNING" /\ a < MaxAttempts
      OBVIOUS
    <3>1. w \in Workers /\ j \in wk'[w].retry /\ j \notin wk[w].retry
      BY <2>1 DEF Requeuers
    <3>2. LocalStep(w)
      BY <1>0, <3>1
    <3> QED
      BY <3>1, <3>2 DEF LocalStep, ListsStale, ClaimStep, Continues
  <2>4. a >= MaxAttempts \/ job[j].status # "RUNNING" => T \subseteq S
    BY <2>2, <2>3
  <2>5. /\ Cardinality(S) \in Nat
        /\ T \subseteq S => /\ Cardinality(T) \in Nat
                            /\ Cardinality(T) <= Cardinality(S)
                            /\ T # S => Cardinality(T) < Cardinality(S)
    BY RequeuersFinite
  <2>6. a >= MaxAttempts =>
          /\ job[j].status = "RUNNING" => a + Cardinality(S) <= AttemptLimit
          /\ job[j].status \in Waiting => a + Cardinality(S) < AttemptLimit
    BY DEF Budget
  <2>7. AttemptLimit \in Int
    <3>1. Cardinality(Workers) \in Nat
      BY FS_CardinalityType
    <3> QED
      BY <3>1 DEF AttemptLimit
  <2> HIDE DEF S, T, a
  <2>8. CASE job'[j].attempts = a /\ job'[j].status = job[j].status
    <3>1. a >= MaxAttempts
      BY <1>3, <2>8
    <3>2. T \subseteq S
      BY <2>4, <3>1
    <3> QED
      BY <2>2, <2>5, <2>6, <2>7, <2>8, <3>1, <3>2 DEF T
  <2>9. CASE \E w \in Workers : ClaimStep(w, j)
    <3>1. PICK w \in Workers : ClaimStep(w, j)
      BY <2>9
    <3>2. /\ job[j].status \in Waiting /\ job[j].status # "RUNNING"
          /\ job'[j].status = "RUNNING" /\ job'[j].status \notin Waiting
          /\ job'[j].attempts = a + 1
          /\ w \notin T
      BY <1>0, <2>1, <3>1 DEF ClaimStep, Claimed, Row, Waiting, a
    <3>3. T \subseteq S /\ Cardinality(T) \in Nat
          /\ Cardinality(T) <= Cardinality(S)
      BY <2>4, <2>5, <3>2
    <3>4. CASE a >= MaxAttempts
      BY <2>2, <2>5, <2>6, <2>7, <3>2, <3>3, <3>4 DEF T
    <3>5. CASE a < MaxAttempts
      <4>1. a + 1 = MaxAttempts
        BY <1>3, <2>2, <3>2, <3>5
      <4>2. /\ MaxAttempts <= AttemptLimit
            /\ SingleWorker \/ MaxAttempts + Cardinality(T) <= AttemptLimit
        BY <2>1, <3>2, Limit
      <4>3. SingleWorker => T = {}
        <5> SUFFICES ASSUME SingleWorker, NEW v \in T
                     PROVE  FALSE
          OBVIOUS
        <5>1. v \in Workers /\ v # w /\ wk[v].retry # {}
          BY <2>1, <3>2, <3>3 DEF S, Requeuers
        <5>2. Recovering(v) /\ wk[w].pc = "claim"
          BY <3>1, <5>1 DEF Budget, ClaimStep
        <5>3. ~ Gone(v) /\ ~ Gone(w)
          BY <5>2 DEF Gone, Recovering
        <5> QED
          BY <5>1, <5>3 DEF Lone
      <4>4. SingleWorker => MaxAttempts + Cardinality(T) <= AttemptLimit
        <5>1. Cardinality({}) = 0
          BY FS_EmptySet
        <5> QED
          BY <4>2, <4>3, <5>1
      <4> QED
        BY <3>2, <4>1, <4>2, <4>4 DEF T
    <3> QED
      BY <2>2, <3>4, <3>5
  <2>10. CASE /\ job[j].status = "RUNNING"
              /\ job'[j].status = "RETRY_WAITING"
              /\ job'[j].attempts = a
              /\ \E w \in Workers : RequeuedBy(w, j)
    <3>1. a >= MaxAttempts /\ T \subseteq S
      BY <1>3, <2>4, <2>10
    <3>2. PICK w \in Workers : RequeuedBy(w, j)
      BY <2>10
    <3>3. CASE j \in wk[w].retry /\ j \notin wk'[w].retry
      <4>1. w \in S /\ w \notin T
        BY <2>1, <3>3 DEF S, Requeuers
      <4>2. Cardinality(T) < Cardinality(S) /\ Cardinality(T) \in Nat
        BY <2>5, <3>1, <4>1
      <4>3. a + Cardinality(T) < AttemptLimit
        BY <2>2, <2>5, <2>6, <2>7, <2>10, <3>1, <4>2
      <4> QED
        BY <2>10, <4>3 DEF T
    <3>4. CASE /\ wk[w].pc = "settleWrite" /\ wk[w].task = j
               /\ wk[w].goal = "RETRY" /\ Owned(job[j], w, wk[w].now)
      <4>1. wk[w].pc \in Executing
        BY <3>4 DEF Executing
      <4>2. wk[w].turn = a /\ wk[w].turn < MaxAttempts
        BY <3>4, <4>1 DEF Fencing, Budget, Owned, a
      <4> QED
        BY <2>2, <3>1, <4>2
    <3> QED
      BY <3>2, <3>3, <3>4 DEF RequeuedBy
  <2>11. CASE job'[j] = NewRow("PENDING")
    <3>1. job'[j].attempts = 0
      BY <2>11 DEF NewRow
    <3> QED
      BY <1>3, <3>1
  <2>12. CASE job'[j].status \in Terminal
    BY <2>12 DEF Terminal, Waiting
  <2>13. CASE \E w \in Workers : CheckpointStep(w, j)
    <3>1. job'[j].attempts = a /\ job'[j].status = job[j].status
      BY <1>0, <2>13 DEF CheckpointStep, Row, a
    <3> QED
      BY <2>8, <3>1
  <2>14. RowStep(j)
    BY <1>0
  <2> QED
    BY <2>8, <2>9, <2>10, <2>11, <2>12, <2>13, <2>14
       DEF RowStep, SameProgress, SettleStep, Terminal, a
<1> QED
  BY <1>1, <1>2, <1>3 DEF Budget

\* Before the first step no job exists and no worker runs.
LEMMA InitHolds == Init => IInv
<1> SUFFICES ASSUME Init PROVE IInv
  OBVIOUS
<1>1. /\ \A j \in Jobs : /\ job[j].status = "ABSENT" /\ job[j].attempts = 0
                         /\ job[j].stage = 0
      /\ \A w \in Workers : /\ wk[w].pc \notin Executing
                            /\ wk[w].pc \notin {"written", "checkpoint"}
                            /\ wk[w].pc = "off"
                            /\ wk[w].retry = {} /\ wk[w].exhaust = {}
      /\ cancelling = NoCancel
  BY DEF Init, NewRow, Fresh, Executing
<1>2. Typed
  <2>1. \A w \in Workers : wk[w] \in Worker
    BY FreshType DEF Init, Live, Idling
  <2>2. wk \in [Workers -> Worker]
    BY <2>1 DEF Init
  <2>3. NewRow("ABSENT") \in Row
    BY RowTypes
  <2>4. job \in [Jobs -> Row] /\ cancelling \in [job : Jobs \cup {0}, seen : Row]
    BY <2>3 DEF Init, NoCancel
  <2>5. clock \in Nat /\ output \in [Jobs -> SUBSET (1 .. LastStage)]
    BY DEF Init
  <2>6. LocalsOK
    BY <1>1 DEF LocalsOK
  <2> QED
    BY <2>2, <2>4, <2>5, <2>6 DEF Typed, TypeOK
<1>3. CancelLegal /\ Fencing /\ Judged
  BY <1>1 DEF CancelLegal, Fencing, AttemptHasOneWorker, Judged,
     TransientFailureIsExhausted
<1>4. Progress
  <2>1. ASSUME NEW j \in Jobs, NEW s \in 1 .. LastStage
        PROVE  ~ (s <= job[j].stage)
    <3>1. job[j].stage = 0
      BY <1>1
    <3> QED
      BY <3>1
  <2>2. \A j \in Jobs : job[j].status # "SUCCEEDED"
    BY <1>1
  <2> QED
    BY <1>1, <2>1, <2>2 DEF Progress, CheckpointsBacked
<1>5. Lone /\ InStep
  BY <1>1 DEF Lone, InStep, WorkersSurvive, Gone, Recovering
<1>6. Budget
  BY <1>1 DEF Budget
<1> QED
  BY <1>2, <1>3, <1>4, <1>5, <1>6 DEF IInv

\* The invariant is kept by every step.
LEMMA Inductive == IInv /\ [Next]_vars => IInv'
<1> SUFFICES ASSUME IInv, [Next]_vars PROVE IInv'
  OBVIOUS
<1>1. /\ Typed /\ CancelLegal /\ Fencing /\ Progress /\ Judged
      /\ Lone /\ InStep /\ Budget
  BY DEF IInv
<1>2. Typed'
  BY <1>1, TypedStep
<1>3. CancelLegal'
  BY <1>1, Summary
<1>4. Fencing' /\ Progress' /\ Judged'
  BY <1>1, <1>2, FencingStep, ProgressStep, JudgedStep
<1>5. Lone' /\ InStep' /\ Budget'
  BY <1>1, <1>2, LoneStep, InStepStep, BudgetStep
<1> QED
  BY <1>2, <1>3, <1>4, <1>5 DEF IInv

\* IInv holds in every reachable state: the row, the outputs and what every
\* worker holds of its attempt agree, whatever the interleaving.
THEOREM InvariantHolds == Spec => []IInv
<1> QED
  BY InitHolds, Inductive, PTL DEF Spec

-----------------------------------------------------------------------------
(* The properties.                                                         *)

\* A checkpointed stage has its output: checkpoint() and the resume index of
\* MeetingProcessingService.process.
THEOREM CheckpointsAreBacked == Spec => []CheckpointsBacked
<1>1. IInv => CheckpointsBacked
  BY DEF IInv, Progress
<1> QED
  BY <1>1, InvariantHolds, PTL

\* A SUCCEEDED job has the output of every stage.
THEOREM SuccessesAreComplete == Spec => []SuccessIsComplete
<1>1. IInv => SuccessIsComplete
  <2> SUFFICES ASSUME IInv, NEW j \in Jobs, job[j].status = "SUCCEEDED"
               PROVE  output[j] = 1 .. LastStage
    BY DEF SuccessIsComplete
  <2>1. job[j].stage = LastStage + 1
    BY DEF IInv, Progress, Completed
  <2>2. \A s \in 1 .. LastStage : s <= LastStage + 1
    OBVIOUS
  <2>3. \A s \in 1 .. LastStage : s \in output[j]
    BY <2>1, <2>2 DEF IInv, Progress, CheckpointsBacked
  <2>4. output[j] \subseteq 1 .. LastStage
    BY DEF IInv, Typed, TypeOK
  <2> QED
    BY <2>3, <2>4
<1> QED
  BY <1>1, InvariantHolds, PTL

\* claim() hands an attempt to one worker only.
THEOREM AttemptsHaveOneWorker == Spec => []AttemptHasOneWorker
<1>1. IInv => AttemptHasOneWorker
  BY DEF IInv, Fencing
<1> QED
  BY <1>1, InvariantHolds, PTL

\* recover_stale and _retry_or_fail give a job up only when its attempts are
\* used up.
THEOREM TransientFailuresAreExhausted == Spec => []TransientFailureIsExhausted
<1>1. IInv => TransientFailureIsExhausted
  BY DEF IInv, Judged
<1> QED
  BY <1>1, InvariantHolds, PTL

\* A lone worker is ended by no exception: transition() finds the jobs it was
\* called for in the status they were listed or claimed in.
THEOREM LoneWorkerSurvives ==
  ASSUME SingleWorker = TRUE
  PROVE  Spec => []WorkersSurvive
<1>1. IInv => WorkersSurvive
  BY DEF IInv, Lone
<1> QED
  BY <1>1, InvariantHolds, PTL

\* A lone worker recovers no job whose lease still runs, although the list of
\* recover_stale was selected earlier and transition() does not look at leases.
THEOREM LiveLeasesAreKept ==
  ASSUME SingleWorker = TRUE
  PROVE  Spec => LiveLeaseKept
<1> DEFINE ByHolder ==
      \A j \in Jobs :
          /\ job[j].status = "RUNNING" /\ job[j].lease > clock
          /\ job'[j].status # "RUNNING"
          => \E w \in Workers : /\ w = job[j].worker
                                /\ wk[w].pc = "settleWrite"
                                /\ wk[w].task = j
<1>1. IInv /\ [Next]_vars => ByHolder
  <2> SUFFICES ASSUME IInv, [Next]_vars, NEW j \in Jobs,
                      job[j].status = "RUNNING", job[j].lease > clock,
                      job'[j].status # "RUNNING"
               PROVE  \E w \in Workers : /\ w = job[j].worker
                                         /\ wk[w].pc = "settleWrite"
                                         /\ wk[w].task = j
    OBVIOUS
  <2>1. RowStep(j) /\ job[j] \in Row /\ job[j].lease \in Nat /\ clock \in Nat
    BY Summary DEF IInv, Typed, TypeOK, Row
  <2>2. ASSUME NEW w \in Workers, j \in wk[w].retry \cup wk[w].exhaust,
               Recovering(w)
        PROVE  FALSE
    <3>1. /\ wk[w].now <= clock /\ Expired(job[j], wk[w].now)
          /\ wk[w].now \in Nat
      BY <2>2 DEF IInv, Lone, Typed, TypeOK, Worker
    <3> QED
      BY <2>1, <3>1 DEF Expired
  <2>3. PICK w \in Workers :
          \/ RequeuedBy(w, j)
          \/ FailedBy(w, j)
          \/ SettleStep(w, j, "SUCCEEDED")
    <3>1. ~ \E w \in Workers : ClaimStep(w, j)
      BY DEF ClaimStep, Waiting
    <3>2. ~ \E w \in Workers : CheckpointStep(w, j)
      BY <2>1 DEF CheckpointStep, Row
    <3> QED
      BY <2>1, <3>1, <3>2 DEF RowStep, Waiting
  <2>4. ~ (j \in wk[w].retry)
    BY <2>2 DEF IInv, Budget
  <2>5. ~ (wk[w].pc = "recoverWrite" /\ j \in wk[w].exhaust)
    BY <2>2 DEF Recovering
  <2> QED
    BY <2>3, <2>4, <2>5 DEF RequeuedBy, FailedBy, SettleStep, Owned
<1>2. IInv /\ [Next]_vars => [ByHolder]_vars
  BY <1>1
<1> QED
  BY <1>2, InvariantHolds, PTL DEF Spec, LiveLeaseKept

\* No step of anybody changes the row of a finished job.
THEOREM TerminalRowsAreFinal == Spec => TerminalFinal
<1> DEFINE Final == \A j \in Jobs : job[j].status \in Terminal => job'[j] = job[j]
<1>1. IInv /\ [Next]_vars => Final
  <2> SUFFICES ASSUME IInv, [Next]_vars, NEW j \in Jobs,
                      job[j].status \in Terminal
               PROVE  job'[j] = job[j]
    OBVIOUS
  <2>1. RowStep(j)
    BY Summary DEF IInv
  <2> QED
    BY <2>1 DEF RowStep, ClaimStep, CheckpointStep, SettleStep, Owned,
       Terminal, Waiting
<1>2. IInv /\ [Next]_vars => [Final]_vars
  BY <1>1
<1> QED
  BY <1>2, InvariantHolds, PTL DEF Spec, TerminalFinal

\* Every change of status is one of _ALLOWED_TRANSITIONS.
THEOREM TransitionsAreAllowed == Spec => OnlyAllowedTransitions
<1> DEFINE Legal ==
      \A j \in Jobs :
          \/ job'[j].status = job[j].status
          \/ Step(j, {"ABSENT"}, {"PENDING"})
          \/ job'[j].status \in Allowed(job[j].status)
<1>1. IInv /\ [Next]_vars => Legal
  <2> SUFFICES ASSUME IInv, [Next]_vars, NEW j \in Jobs
               PROVE  \/ job'[j].status = job[j].status
                      \/ Step(j, {"ABSENT"}, {"PENDING"})
                      \/ job'[j].status \in Allowed(job[j].status)
    OBVIOUS
  <2>1. RowStep(j) /\ job[j] \in Row
    BY Summary DEF IInv, Typed, TypeOK
  <2>2. CASE job'[j] = job[j]
    BY <2>2
  <2>3. CASE job[j].status = "ABSENT" /\ job'[j] = NewRow("PENDING")
    BY <2>3 DEF NewRow, Step
  <2>4. CASE /\ job[j].status \in Waiting
             /\ job'[j].status \in {"RUNNING", "CANCELLED"}
    BY <2>4 DEF Allowed, Waiting
  <2>5. CASE /\ job[j].status = "RUNNING"
             /\ job'[j].status \in {"SUCCEEDED", "RETRY_WAITING", "FAILED"}
    BY <2>5 DEF Allowed, Waiting
  <2>6. ASSUME NEW w \in Workers, ClaimStep(w, j)
        PROVE  job[j].status \in Waiting /\ job'[j].status = "RUNNING"
    BY <2>1, <2>6 DEF ClaimStep, Claimed, Row
  <2>7. ASSUME NEW w \in Workers, CheckpointStep(w, j)
        PROVE  job'[j].status = job[j].status
    BY <2>1, <2>7 DEF CheckpointStep, Row
  <2> QED
    BY <2>1, <2>2, <2>3, <2>4, <2>5, <2>6, <2>7
       DEF RowStep, SettleStep, Owned
<1>2. IInv /\ [Next]_vars => [Legal]_vars
  BY <1>1
<1> QED
  BY <1>2, InvariantHolds, PTL DEF Spec, OnlyAllowedTransitions

\* Only the worker of the current attempt completes a job or moves its
\* checkpoint.
THEOREM CurrentAttemptWrites == Spec => OnlyCurrentAttemptWrites
<1> DEFINE Current ==
      \A j \in Jobs :
          Step(j, {"RUNNING"}, {"SUCCEEDED"}) \/ job'[j].stage # job[j].stage
          => \E w \in Workers : /\ wk[w].pc \in {"checkpoint", "settleWrite"}
                                /\ wk[w].task = j
                                /\ wk[w].turn = job[j].attempts
<1>1. IInv /\ [Next]_vars => Current
  <2> SUFFICES ASSUME IInv, [Next]_vars, NEW j \in Jobs,
                      \/ Step(j, {"RUNNING"}, {"SUCCEEDED"})
                      \/ job'[j].stage # job[j].stage
               PROVE  \E w \in Workers :
                          /\ wk[w].pc \in {"checkpoint", "settleWrite"}
                          /\ wk[w].task = j
                          /\ wk[w].turn = job[j].attempts
    OBVIOUS
  <2>1. RowStep(j) /\ job[j] \in Row
    BY Summary DEF IInv, Typed, TypeOK
  <2>2. ASSUME NEW w \in Workers, Owned(job[j], w, wk[w].now),
               wk[w].pc \in {"checkpoint", "settleWrite"}, wk[w].task = j
        PROVE  wk[w].turn = job[j].attempts
    BY <2>2 DEF IInv, Fencing, Owned, Executing
  <2>3. \/ \E w \in Workers : CheckpointStep(w, j)
        \/ \E w \in Workers : SettleStep(w, j, "SUCCEEDED")
    <3>1. ASSUME NEW w \in Workers, ClaimStep(w, j)
          PROVE  job'[j].status = "RUNNING" /\ job'[j].stage = job[j].stage
      BY <2>1, <3>1 DEF ClaimStep, Claimed, Row
    <3>2. job[j].status = "ABSENT" => job[j].stage = 0
      BY DEF IInv, Fencing
    <3> QED
      BY <2>1, <3>1, <3>2 DEF RowStep, SameProgress, NewRow, Step
  <2> QED
    BY <2>2, <2>3 DEF CheckpointStep, SettleStep
<1>2. IInv /\ [Next]_vars => [Current]_vars
  BY <1>1
<1> QED
  BY <1>2, InvariantHolds, PTL DEF Spec, OnlyCurrentAttemptWrites

-----------------------------------------------------------------------------
(* The refinement of JobLifecycle.                                         *)

\* A step writes the output of one stage, or the row of at most one job.
LEMMA OneRowChanges ==
  ASSUME Typed, CancelLegal, [Next]_vars
  PROVE  \/ \E w \in Workers : HandlerWrites(w)
         \/ /\ output' = output
            /\ \/ job' = job
               \/ \E i \in Jobs : \A k \in Jobs : k # i => job'[k] = job[k]
<1> DEFINE Goal ==
      \/ \E w \in Workers : HandlerWrites(w)
      \/ /\ output' = output
         /\ \/ job' = job
            \/ \E i \in Jobs : \A k \in Jobs : k # i => job'[k] = job[k]
<1>0. /\ TypeOK
      /\ \A w \in Workers : wk[w].pc \in Executing => wk[w].task \in Jobs
  BY DEF Typed, LocalsOK
<1>1. ASSUME NEW j \in Jobs, Enqueue(j) \/ CancelRead(j)
      PROVE  Goal
  BY <1>0, <1>1 DEF Enqueue, CancelRead, TypeOK
<1>2. CASE CancelWrite
  <2>1. cancelling.job \in Jobs
    BY <1>2 DEF CancelWrite, CancelLegal
  <2> QED
    BY <1>0, <1>2, <2>1 DEF CancelWrite, TypeOK
<1>3. CASE Tick \/ UNCHANGED vars
  BY <1>3 DEF Tick, vars
<1>4. ASSUME NEW w \in Workers, Start(w) \/ Shutdown(w) \/ Crash(w)
      PROVE  Goal
  BY <1>4 DEF Start, Shutdown, Crash
<1>5. ASSUME NEW w \in Workers, Recover(w) \/ Acquire(w)
      PROVE  Goal
  <2>1. CASE RecoverWrite(w)
    BY <1>0, <2>1 DEF RecoverWrite, TypeOK
  <2>2. CASE Claim(w)
    BY <1>0, <2>2 DEF Claim, TypeOK
  <2> QED
    BY <1>5, <2>1, <2>2 DEF Recover, Acquire, RecoverScan, RecoverRead,
       ListCandidates, ClaimNothing
<1>6. ASSUME NEW w \in Workers, RunHandler(w) \/ Settle(w)
      PROVE  Goal
  <2>1. CASE Checkpoint(w)
    <3>1. wk[w].task \in Jobs
      BY <1>0, <2>1 DEF Checkpoint, Executing
    <3>2. \A stage : job' = [job EXCEPT ![wk[w].task].stage = stage] =>
            \A k \in Jobs : k # wk[w].task => job'[k] = job[k]
      BY <1>0 DEF TypeOK
    <3> QED
      BY <2>1, <3>1, <3>2 DEF Checkpoint
  <2>2. CASE SettleWrite(w)
    <3>1. wk[w].task \in Jobs
      BY <1>0, <2>2 DEF SettleWrite, Executing
    <3> QED
      BY <1>0, <2>2, <3>1 DEF SettleWrite, TypeOK
  <2> QED
    BY <1>6, <2>1, <2>2 DEF RunHandler, Settle, HandlerDisowned, StageDone,
       HandlerRaises, SettleInvalid, SettleDisowned, SettleRead
<1> QED
  BY <1>1, <1>2, <1>3, <1>4, <1>5, <1>6 DEF Next, RunOnce

\* The abstract variables, as functions of the rows.
Phases  == [j \in Jobs |-> PhaseOf(job[j])]
Tries   == [j \in Jobs |-> job[j].attempts]
Reached == [j \in Jobs |-> job[j].stage]

\* The update of one row updates each of them at one job.
LEMMA MapOne ==
  ASSUME NEW i \in Jobs, \A k \in Jobs : k # i => job'[k] = job[k]
  PROVE  /\ Phases' = [Phases EXCEPT ![i] = PhaseOf(job'[i])]
         /\ Tries' = [Tries EXCEPT ![i] = job'[i].attempts]
         /\ Reached' = [Reached EXCEPT ![i] = job'[i].stage]
         /\ SameProgress(i) => Tries' = Tries /\ Reached' = Reached
<1>1. Phases' = [Phases EXCEPT ![i] = PhaseOf(job'[i])]
  <2>1. Phases' = [j \in Jobs |-> PhaseOf(job'[j])]
    BY DEF Phases, PhaseOf
  <2>2. \A k \in Jobs : k # i => PhaseOf(job'[k]) = PhaseOf(job[k])
    OBVIOUS
  <2> QED
    BY <2>1, <2>2 DEF Phases
<1>2. Tries' = [Tries EXCEPT ![i] = job'[i].attempts]
  BY DEF Tries
<1>3. Reached' = [Reached EXCEPT ![i] = job'[i].stage]
  BY DEF Reached
<1>4. SameProgress(i) => Tries' = Tries /\ Reached' = Reached
  BY DEF SameProgress, Tries, Reached
<1> QED
  BY <1>1, <1>2, <1>3, <1>4

\* A waiting job has a try left, and so has a job that is requeued.
LEMMA TryLeft ==
  Typed /\ Budget /\ Workers # {} =>
      \A j \in Jobs :
          job[j].status \in Waiting => job[j].attempts < AttemptLimit
<1> SUFFICES ASSUME Typed, Budget, Workers # {},
                    NEW j \in Jobs, job[j].status \in Waiting
             PROVE  job[j].attempts < AttemptLimit
  OBVIOUS
<1>1. PICK w : w \in Workers
  OBVIOUS
<1>2. AttemptLimit \in Nat /\ MaxAttempts <= AttemptLimit
  BY <1>1, Limit
<1>3. job[j].attempts \in Nat /\ Cardinality(Requeuers(j)) \in Nat
  BY RequeuersFinite DEF Typed, TypeOK, Row
<1>4. job[j].attempts >= MaxAttempts =>
        job[j].attempts + Cardinality(Requeuers(j)) < AttemptLimit
  BY DEF Budget
<1> QED
  BY <1>2, <1>3, <1>4

\* Every step of the queue is one of the lifecycle, or none.
LEMMA LifecycleStep ==
  ASSUME IInv, IInv', [Next]_vars
  PROVE  [Lifecycle!Next]_(Lifecycle!vars)
<1> USE DEF Lifecycle!vars, Phases, Tries, Reached
<1>0. /\ \A j \in Jobs : job[j] \in Row /\ job'[j] \in Row
      /\ \A j \in Jobs : RowStep(j)
      /\ Typed /\ CancelLegal
  BY Summary DEF IInv, Typed, TypeOK
<1>1. CASE job' = job /\ output' = output
  <2>1. UNCHANGED <<Phases, Tries, Reached, output>>
    BY <1>1
  <2> QED
    BY <2>1
<1>2. ASSUME NEW w \in Workers, HandlerWrites(w)
      PROVE  Lifecycle!Next
  <2> DEFINE j == wk[w].task
  <2>1. /\ j \in Jobs /\ job[j].status = "RUNNING" /\ job[j].worker = w
        /\ wk[w].stage < LastStage
        /\ output' = [output EXCEPT ![j] = @ \cup {wk[w].stage + 1}]
        /\ job' = job
    BY <1>0, <1>2 DEF HandlerWrites, Owned, NextStage, Typed, LocalsOK, Executing
  <2>2. wk[w].stage = job[j].stage
    BY <1>2, <2>1 DEF IInv, InStep, HandlerWrites
  <2>3. Lifecycle!Produce(j)
    BY <2>1, <2>2 DEF Lifecycle!Produce, PhaseOf, Waiting
  <2> QED
    BY <2>1, <2>3 DEF Lifecycle!Next, Lifecycle!Advance
<1>3. ASSUME output' = output, NEW i \in Jobs, job'[i] # job[i],
             \A k \in Jobs : k # i => job'[k] = job[k]
      PROVE  Lifecycle!Next
  <2>0. /\ Phases' = [Phases EXCEPT ![i] = PhaseOf(job'[i])]
        /\ Tries' = [Tries EXCEPT ![i] = job'[i].attempts]
        /\ Reached' = [Reached EXCEPT ![i] = job'[i].stage]
        /\ SameProgress(i) => Tries' = Tries /\ Reached' = Reached
        /\ Phases[i] = PhaseOf(job[i])
        /\ Tries[i] = job[i].attempts /\ Reached[i] = job[i].stage
    BY <1>3, MapOne
  <2>m. PhaseOf(job'[i]) = PhaseOf(job[i]) => Phases' = Phases
    BY <1>3 DEF PhaseOf
  <2> HIDE DEF Phases, Tries, Reached
  <2>1. ASSUME job[i].status = "ABSENT", job'[i] = NewRow("PENDING")
        PROVE  Lifecycle!Submit(i)
    <3>1. SameProgress(i)
      BY <2>1 DEF IInv, Fencing, NewRow, SameProgress
    <3>2. PhaseOf(job[i]) = "ABSENT" /\ PhaseOf(job'[i]) = "WAITING"
      BY <2>1 DEF PhaseOf, NewRow, Waiting
    <3> QED
      BY <1>3, <2>0, <3>1, <3>2
         DEF Lifecycle!Submit, Lifecycle!Move, Phases, Tries, Reached
  <2>2. ASSUME job[i].status \in Waiting, job'[i].status = "CANCELLED",
               SameProgress(i)
        PROVE  Lifecycle!Withdraw(i)
    <3>1. PhaseOf(job[i]) = "WAITING" /\ PhaseOf(job'[i]) = "CANCELLED"
      BY <2>2 DEF PhaseOf, Waiting
    <3> QED
      BY <1>3, <2>0, <2>2, <3>1
         DEF Lifecycle!Withdraw, Lifecycle!Move, Phases, Tries, Reached
  <2>3. ASSUME job[i].status = "RUNNING", job'[i].status = "RETRY_WAITING",
               SameProgress(i), \E w \in Workers : RequeuedBy(w, i)
        PROVE  Lifecycle!Yield(i)
    <3>1. PhaseOf(job[i]) = "ACTIVE" /\ PhaseOf(job'[i]) = "WAITING"
      BY <2>3 DEF PhaseOf, Waiting
    <3>2. (Typed /\ Budget /\ Workers # {} =>
              \A j \in Jobs :
                  job[j].status \in Waiting => job[j].attempts < AttemptLimit)'
      BY TryLeft, PTL
    <3>3. job[i].attempts < AttemptLimit
      <4>1. Typed' /\ Budget' /\ job'[i].status \in Waiting /\ Workers # {}
        BY <2>3 DEF IInv, Waiting
      <4> QED
        BY <2>3, <3>2, <4>1 DEF SameProgress, AttemptLimit
    <3> QED
      BY <1>3, <2>0, <2>3, <3>1, <3>3
         DEF Lifecycle!Yield, Lifecycle!Move, Phases, Tries, Reached
  <2>4. ASSUME job[i].status = "RUNNING", job'[i].status = "FAILED",
               SameProgress(i)
        PROVE  Lifecycle!Fail(i)
    <3>1. PhaseOf(job[i]) = "ACTIVE" /\ PhaseOf(job'[i]) = "FAILED"
      BY <2>4 DEF PhaseOf, Waiting
    <3> QED
      BY <1>3, <2>0, <2>4, <3>1
         DEF Lifecycle!Fail, Lifecycle!Move, Phases, Tries, Reached
  <2>5. ASSUME NEW w \in Workers, ClaimStep(w, i)
        PROVE  Lifecycle!Begin(i)
    <3>1. /\ job[i].status \in Waiting /\ job'[i].status = "RUNNING"
          /\ job'[i].attempts = job[i].attempts + 1
          /\ job'[i].stage = job[i].stage
      BY <1>0, <2>5 DEF ClaimStep, Claimed, Row
    <3>2. PhaseOf(job[i]) = "WAITING" /\ PhaseOf(job'[i]) = "ACTIVE"
      BY <3>1 DEF PhaseOf, Waiting
    <3>3. job[i].attempts < AttemptLimit
      BY <3>1, TryLeft DEF IInv
    <3>4. Reached' = Reached
      BY <1>3, <3>1 DEF Reached
    <3> QED
      BY <1>3, <2>0, <3>1, <3>2, <3>3, <3>4
         DEF Lifecycle!Begin, Lifecycle!Move, Phases, Tries, Reached
  <2>6. ASSUME NEW w \in Workers, CheckpointStep(w, i)
        PROVE  Lifecycle!Record(i)
    <3>1. /\ job[i].status = "RUNNING" /\ job[i].worker = w
          /\ wk[w].pc = "checkpoint" /\ wk[w].task = i
          /\ job'[i] = [job[i] EXCEPT !.stage = Recorded(w)]
      BY <2>6 DEF CheckpointStep, Owned
    <3>2. wk[w].stage = job[i].stage /\ job[i].stage \in 0 .. Completed
      BY <1>0, <3>1 DEF IInv, InStep, Row
    <3>3. /\ job'[i].status = "RUNNING" /\ job'[i].stage = Recorded(w)
          /\ job'[i].attempts = job[i].attempts
      BY <1>0, <3>1 DEF Row
    <3>4. wk[w].stage # Completed
      <4>1. ASSUME wk[w].stage = Completed
            PROVE  job'[i] = job[i]
        <5> DEFINE row == job[i]
        <5>1. job'[i] = [row EXCEPT !.stage = row.stage] /\ row \in Row
          BY <1>0, <3>1, <3>2, <4>1 DEF Recorded
        <5> HIDE DEF row
        <5>2. job'[i] = row
          BY <5>1 DEF Row
        <5> QED
          BY <5>2 DEF row
      <4> QED
        BY <1>3, <4>1
    <3>5. Recorded(w) = job[i].stage + 1 /\ job[i].stage < LastStage + 1
      BY <3>2, <3>4 DEF Recorded, NextStage, Completed
    <3>6. job[i].stage < LastStage => job[i].stage + 1 \in output[i]
      BY <3>1, <3>2 DEF IInv, Progress, NextStage
    <3>7. PhaseOf(job[i]) = "ACTIVE" /\ Phases' = Phases
      BY <2>m, <3>1, <3>3 DEF PhaseOf, Waiting
    <3>8. Tries' = Tries
      BY <1>3, <3>3 DEF Tries
    <3> QED
      BY <1>3, <2>0, <3>3, <3>5, <3>6, <3>7, <3>8
         DEF Lifecycle!Record, Lifecycle!Done, Phases, Tries, Reached
  <2>7. ASSUME NEW w \in Workers, SettleStep(w, i, "SUCCEEDED")
        PROVE  Lifecycle!Succeed(i)
    <3>1. /\ wk[w].pc \in Executing /\ wk[w].task = i
          /\ wk[w].goal = "SUCCEED" /\ SameProgress(i)
          /\ job[i].status = "RUNNING" /\ job'[i].status = "SUCCEEDED"
      BY <2>7 DEF SettleStep, TargetOf, Owned, Executing
    <3>2. job[i].stage = LastStage + 1
      BY <3>1 DEF IInv, Progress, Completed
    <3>3. PhaseOf(job[i]) = "ACTIVE" /\ PhaseOf(job'[i]) = "SUCCEEDED"
      BY <3>1 DEF PhaseOf, Waiting
    <3> QED
      BY <1>3, <2>0, <3>1, <3>2, <3>3
         DEF Lifecycle!Succeed, Lifecycle!Move, Lifecycle!Done, Phases, Tries,
             Reached
  <2>8. RowStep(i)
    BY <1>0
  <2> QED
    BY <1>3, <2>1, <2>2, <2>3, <2>4, <2>5, <2>6, <2>7, <2>8
       DEF RowStep, Lifecycle!Next, Lifecycle!Advance
<1>4. \/ \E w \in Workers : HandlerWrites(w)
      \/ /\ output' = output
         /\ \/ job' = job
            \/ \E i \in Jobs : \A k \in Jobs : k # i => job'[k] = job[k]
  BY <1>0, OneRowChanges
<1>5. ASSUME NEW i \in Jobs, \A k \in Jobs : k # i => job'[k] = job[k],
             job'[i] = job[i]
      PROVE  job' = job
  <2>1. job \in [Jobs -> Row] /\ job' \in [Jobs -> Row]
    BY DEF IInv, Typed, TypeOK
  <2>2. job = [k \in Jobs |-> job[k]] /\ job' = [k \in Jobs |-> job'[k]]
    BY <2>1
  <2>3. [k \in Jobs |-> job'[k]] = [k \in Jobs |-> job[k]]
    BY <1>5
  <2> QED
    BY <2>2, <2>3
<1> QED
  BY <1>1, <1>2, <1>3, <1>4, <1>5

\* Workers, leases, stale lists and old reads amount to the lifecycle of
\* JobLifecycle: numbered tries, a limit on them, progress that is kept.
THEOREM Refinement == Spec => ImplementsLifecycle
<1>1. Init => Lifecycle!Init
  BY DEF Init, Lifecycle!Init, PhaseOf, NewRow, Waiting
<1>2. IInv /\ IInv' /\ [Next]_vars => [Lifecycle!Next]_(Lifecycle!vars)
  BY LifecycleStep
<1> QED
  BY <1>1, <1>2, InvariantHolds, PTL
     DEF Spec, ImplementsLifecycle, Lifecycle!Spec

=============================================================================
