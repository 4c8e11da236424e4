-------------------------- MODULE JobHistoryProofs --------------------------
(***************************************************************************)
(* Who records what about a job: its attempts, its outcome, the fencing    *)
(* token of its holder, and the ledger the orchestration implements, for   *)
(* every set of jobs, workers, watchdogs and clients and every bound.      *)
(***************************************************************************)
EXTENDS JobOrchestrationProofs

\* The states the services use, of those the table has.
StatesMet ==
  \A j \in Jobs :
    state[j] \in {"absent", "void", "queued", "leased", "running", "retrying",
                  "completed", "dead_lettered"}

\* A job that was never committed has no attempt, one that was given back has.
AttemptsBegin ==
  \A j \in Jobs :
    /\ state[j] \in {"absent", "void"} => attempts[j] = << >>
    /\ state[j] = "retrying" => attempts[j] # << >>

\* The attempt a worker executes is the last of its job.
HeldAttemptLast ==
  \A w \in Workers : Holding(w) => run[w].attempt = Len(attempts[run[w].job])

\* What the outcomes need beside IndInv.
HistoryInv == AttemptHistory /\ StatesMet /\ AttemptsBegin /\ HeldAttemptLast

-----------------------------------------------------------------------------
(***************************************************************************)
(* The effects a step can have on the jobs, their attempts and their       *)
(* holders.                                                                *)
(***************************************************************************)
SameHolders == \A j \in Jobs : lease'[j].worker = lease[j].worker

Quiet == UNCHANGED <<state, attempts>> /\ SameHolders

\* The API commits a job, or fails to.
Created(j) ==
  /\ state[j] = "absent"
  /\ \E s \in {"queued", "void"} : state' = [state EXCEPT ![j] = s]
  /\ UNCHANGED <<attempts, lease>>

\* Worker w leases its job.
Claimed(w) ==
  LET j == run[w].job
  IN  /\ state[j] = "queued" /\ state' = [state EXCEPT ![j] = "leased"]
      /\ attempts' = [attempts EXCEPT ![j] = Append(@, "running")]
      /\ lease'[j].worker = w /\ \A i \in Jobs \ {j} : lease'[i] = lease[i]

Started(j) ==
  /\ state[j] = "leased" /\ state' = [state EXCEPT ![j] = "running"]
  /\ UNCHANGED <<attempts, lease>>

\* The holder w closes its attempt.
Closed(w, to) ==
  LET j == run[w].job
  IN  /\ pc[w] = "commit" /\ pc'[w] \in {"finally", "unleased"}
      /\ OwnsLease(w) /\ run[w].attempt = Len(attempts[j])
      /\ state[j] \in IF to = "completed" THEN {"running"} ELSE {"leased", "running"}
      /\ state' = [state EXCEPT ![j] = to]
      /\ attempts' = [attempts EXCEPT ![j][run[w].attempt] = to]
      /\ SameHolders

\* Worker w, the holder or one whose COMMIT failed, buries its job.
Buried(w) ==
  LET j == run[w].job
  IN  /\ \/ pc[w] = "burying" /\ OwnsLease(w) /\ run[w].attempt = Len(attempts[j])
         \/ pc[w] = "unleased"
      /\ pc'[w] = "finally"
      /\ state[j] \in {"leased", "running", "retrying"}
      /\ state' = [state EXCEPT ![j] = "dead_lettered"]
      /\ UNCHANGED <<attempts, lease>>

\* The tick of d queues the jobs it took.
Requeued(d) ==
  /\ tick[d].done \subseteq Jobs /\ \A j \in tick[d].done : state[j] = "retrying"
  /\ state' = [j \in Jobs |-> IF j \in tick[d].done THEN "queued" ELSE state[j]]
  /\ UNCHANGED <<attempts, lease>>

Effect ==
  \/ Quiet
  \/ \E j \in Jobs : Created(j) \/ Started(j)
  \/ \E w \in Workers : run[w].job \in Jobs /\ (Claimed(w) \/ Buried(w))
  \/ \E w \in Workers, to \in {"completed", "retrying"} : run[w].job \in Jobs /\ Closed(w, to)
  \/ \E d \in Watchdogs : Requeued(d)

\* A row's holder survives a heartbeat, a clear and an expiry.
LEMMA HolderKept ==
  ASSUME TypeOK, NEW j \in Jobs, NEW f \in Nat, NEW b \in BOOLEAN,
         \/ lease' = [lease EXCEPT ![j].live = b]
         \/ lease' = [lease EXCEPT ![j].fence = f, ![j].live = b]
  PROVE  SameHolders
<1>1. lease \in [Jobs -> LeaseRow] /\ lease[j] \in LeaseRow
  BY DEF TypeOK
<1>2. \A l \in LeaseRow : /\ [l EXCEPT !.live = b].worker = l.worker
                          /\ [l EXCEPT !.fence = f, !.live = b].worker = l.worker
  BY DEF LeaseRow
<1> QED BY <1>1, <1>2 DEF SameHolders

\* The steps of one worker.
LEMMA WorkerEffect ==
  ASSUME IndInv, HistoryInv, NEW w \in Workers, WorkerNext(w)
  PROVE  Effect
<1> USE DEF IndInv, HistoryInv
<1> DEFINE j == run[w].job
<1>0. pc[w] # "idle" => j \in Jobs
  BY DEF RunKnown
<1>1. ASSUME NEW i \in Jobs, StartRun(w, i) \/ DropDelivery(w, i)
      PROVE  Effect
  BY <1>1 DEF StartRun, DropDelivery, dbVars, Effect, Quiet, SameHolders
<1>2. CASE AcquireLease(w)
  <2>1. j \in Jobs
    BY <1>0, <1>2 DEF AcquireLease
  <2>2. state[j] = "queued"
    BY <1>2 DEF AcquireLease, SnapshotAllows, AssertAllowed, Allowed, SnapshotSound
  <2>3. Claimed(w)
    BY <1>2, <2>1, <2>2 DEF AcquireLease, Transition, Claimed, TypeOK
  <2> QED BY <2>1, <2>3 DEF Effect
<1>3. CASE MarkRunning(w)
  <2>1. j \in Jobs
    BY <1>0, <1>3 DEF MarkRunning
  <2>2. CASE AssertAllowed(state[j], "running")
    <3>1. Started(j)
      BY <1>3, <2>1, <2>2 DEF MarkRunning, Transition, Started, AssertAllowed, Allowed
    <3> QED BY <2>1, <3>1 DEF Effect
  <2>3. CASE ~AssertAllowed(state[j], "running")
    BY <1>3, <2>3 DEF MarkRunning, Effect, Quiet, SameHolders
  <2> QED BY <2>2, <2>3
<1>4. CASE CommitComplete(w) \/ CommitRetry(w) \/ CommitUnacknowledged(w)
  <2>1. j \in Jobs /\ pc[w] = "commit" /\ w \in Workers
    BY <1>0, <1>4 DEF CommitComplete, CommitRetry, CommitUnacknowledged
  <2>2. /\ OwnsLease(w) /\ run[w].attempt = Len(attempts[j])
        /\ state[j] \in {"leased", "running", "dead_lettered"}
    BY <2>1 DEF Holding, HolderOwnsJob, HeldAttemptLast
  <2>3. CASE CommitRefused(w)
    BY <2>3 DEF CommitRefused, Effect, Quiet, SameHolders
  <2>4. ASSUME NEW to \in {"completed", "retrying"}, NEW due, SnapshotAllows(w, to),
               Transition(j, to, due), CloseAttempt(w, to), pc'[w] \in {"finally", "unleased"}
        PROVE  Effect
    <3>1. state[j] = run[w].seenState
      BY <2>1, <2>4 DEF SnapshotAllows, SnapshotSound
    <3>2. state[j] \in IF to = "completed" THEN {"running"} ELSE {"leased", "running"}
      BY <2>2, <2>4, <3>1 DEF SnapshotAllows, AssertAllowed, Allowed
    <3>3. SameHolders
      BY <2>1, <2>2, <2>4, HolderKept, 0 \in Nat DEF CloseAttempt
    <3>4. Closed(w, to)
      BY <2>1, <2>2, <2>4, <3>2, <3>3 DEF Closed, Transition, CloseAttempt
    <3> QED BY <2>1, <3>4 DEF Effect
  <2>5. CASE CommitComplete(w) /\ ~CommitRefused(w)
    BY <2>4, <2>5 DEF CommitComplete, TypeOK
  <2>6. CASE CommitRetry(w) /\ ~CommitRefused(w)
    BY <2>4, <2>6 DEF CommitRetry, TypeOK
  <2>7. CASE CommitUnacknowledged(w)
    BY <2>4, <2>7 DEF CommitUnacknowledged, TypeOK
  <2> QED BY <1>4, <2>3, <2>5, <2>6, <2>7
<1>5. CASE DeadLetter(w)
  <2>1. j \in Jobs /\ pc[w] \in {"burying", "unleased"} /\ pc'[w] = "finally"
    BY <1>0, <1>5 DEF DeadLetter, TypeOK
  <2>2. pc[w] = "burying" => OwnsLease(w) /\ run[w].attempt = Len(attempts[j])
    BY <2>1 DEF Holding, HolderOwnsJob, HeldAttemptLast
  <2>3. CASE AssertAllowed(state[j], "dead_lettered")
    <3>1. state[j] \in {"leased", "running", "retrying"}
      BY <2>1, <2>3 DEF AssertAllowed, Allowed, StatesMet
    <3>2. Buried(w)
      BY <1>5, <2>1, <2>2, <2>3, <3>1 DEF DeadLetter, Transition, Buried
    <3> QED BY <2>1, <3>2 DEF Effect
  <2>4. CASE ~AssertAllowed(state[j], "dead_lettered")
    BY <1>5, <2>4 DEF DeadLetter, Effect, Quiet, SameHolders
  <2> QED BY <2>3, <2>4
<1>6. CASE HeartbeatDb(w)
  <2>1. j \in Jobs
    BY <1>0, <1>6 DEF HeartbeatDb, RunKnown, IdleRun
  <2>2. lease[j].fence + 1 \in Nat
    BY <2>1 DEF TypeOK, LeaseRow
  <2>3. SameHolders
    BY <1>6, <2>1, <2>2, HolderKept DEF HeartbeatDb
  <2> QED BY <1>6, <2>3 DEF HeartbeatDb, Effect, Quiet
<1>7. CASE \/ LeasingRaises(w) \/ AcquireCommitFails(w) \/ AcquireLock(w) \/ LockContended(w)
           \/ HandlerReturns(w) \/ RaiseRetryable(w) \/ RaiseFatal(w) \/ FenceCheck(w)
           \/ ExceptBlockFails(w) \/ Finish(w) \/ HeartbeatLocal(w) \/ RegisterWorker(w)
           \/ Crash(w) \/ Redeliver(w)
  <2>1. UNCHANGED <<state, attempts, lease>>
    BY <1>7 DEF LeasingRaises, AcquireCommitFails, AcquireLock, LockContended, HandlerReturns,
                RaiseRetryable, RaiseFatal, FenceCheck, ExceptBlockFails, Finish, HeartbeatLocal,
                RegisterWorker, Crash, Redeliver, dbVars
  <2> QED BY <2>1 DEF Effect, Quiet, SameHolders
<1> QED
  BY <1>1, <1>2, <1>3, <1>4, <1>5, <1>6, <1>7 DEF WorkerNext, RunStep, AcquireLeaseFails

\* Every step has one of the effects.
LEMMA StepEffect ==
  ASSUME IndInv, HistoryInv, [Next]_vars
  PROVE  Effect
<1>1. ASSUME NEW j \in Jobs, ApiNext(j)
      PROVE  Effect
  <2>1. CASE BeginEnqueue(j)
    BY <2>1 DEF BeginEnqueue, dbVars, Effect, Quiet, SameHolders
  <2>2. CASE CommitEnqueue(j) \/ AbortEnqueue(j)
    BY <2>2 DEF CommitEnqueue, AbortEnqueue, Transition, IndInv, EnqueueAlone, Effect, Created
  <2> QED BY <1>1, <2>1, <2>2 DEF ApiNext, ReplayDlq
<1>2. ASSUME NEW j \in Jobs, TimeNext(j)
      PROVE  Effect
  <2>1. CASE LeaseExpires(j)
    BY <2>1, HolderKept, 0 \in Nat DEF LeaseExpires, IndInv, Effect, Quiet
  <2>2. CASE BackoffElapses(j) \/ LockExpires(j)
    BY <2>2 DEF BackoffElapses, LockExpires, dbVars, Effect, Quiet, SameHolders
  <2> QED BY <1>2, <2>1, <2>2 DEF TimeNext
<1>3. ASSUME NEW d \in Watchdogs, WatchdogNext(d)
      PROVE  Effect
  <2>1. CASE TickCommit(d)
    <3>1. /\ tick[d].done \subseteq Jobs
          /\ \A j \in tick[d].done : state[j] \in {"pending", "retrying", "paused"}
      BY DEF IndInv, TypeOK, TickLocals, RowsLocked, AssertAllowed, Allowed
    <3>2. \A j \in tick[d].done : state[j] = "retrying"
      BY <3>1 DEF HistoryInv, StatesMet
    <3> QED BY <2>1, <3>1, <3>2 DEF TickCommit, Effect, Requeued
  <2>2. CASE ~TickCommit(d)
    <3>1. UNCHANGED <<state, attempts, lease>>
      BY <1>3, <2>2 DEF WatchdogNext, TickStep, TickBegin, TickReclaim, TickFails, TickHangs,
                        TickEnqueue, TickCrash, dbVars
    <3> QED BY <3>1 DEF Effect, Quiet, SameHolders
  <2> QED BY <2>1, <2>2
<1>4. CASE LeaderExpires \/ UNCHANGED vars
  BY <1>4 DEF LeaderExpires, vars, dbVars, Effect, Quiet, SameHolders
<1> QED BY <1>1, <1>2, <1>3, <1>4, WorkerEffect DEF Next
-----------------------------------------------------------------------------
(***************************************************************************)
(* The history of a job.                                                   *)
(***************************************************************************)
\* Closing the last attempt changes just that one.
LEMMA CloseLast ==
  ASSUME NEW s \in Seq(AttemptStatus), s # << >>, NEW to \in AttemptStatus
  PROVE  LET t == [s EXCEPT ![Len(s)] = to]
         IN  /\ t \in Seq(AttemptStatus) /\ Len(t) = Len(s) /\ t[Len(s)] = to
             /\ \A i \in 1 .. (Len(s) - 1) : t[i] = s[i]
<1>1. Len(s) \in Nat /\ Len(s) \in DOMAIN s
  OBVIOUS
<1> QED BY <1>1, SeqAssign

\* Opening one keeps those before it.
LEMMA OpenNext ==
  ASSUME NEW s \in Seq(AttemptStatus)
  PROVE  LET t == Append(s, "running")
         IN  /\ Len(t) = Len(s) + 1 /\ t[Len(s) + 1] = "running"
             /\ \A i \in 1 .. Len(s) : t[i] = s[i]
OBVIOUS

\* The attempts of a job agree with its state after any effect.
LEMMA HistoryKept ==
  ASSUME IndInv, HistoryInv, Effect
  PROVE  AttemptHistory' /\ StatesMet' /\ AttemptsBegin'
<1> USE DEF IndInv, HistoryInv
<1> DEFINE Fits(i) ==
      LET n == Len(attempts[i])
      IN  /\ \A k \in 1 .. (n - 1) : attempts[i][k] = "retrying"
          /\ state[i] = "completed" => n > 0 /\ attempts[i][n] = "completed"
          /\ state[i] \in {"leased", "running"} => n > 0 /\ attempts[i][n] = "running"
          /\ state[i] = "dead_lettered"
               => n > 0 /\ attempts[i][n] \in {"running", "retrying"}
          /\ state[i] \in {"queued", "retrying"} /\ n > 0
               => attempts[i][n] = "retrying"
          /\ state[i] \in {"absent", "void", "queued", "leased", "running", "retrying",
                           "completed", "dead_lettered"}
          /\ state[i] \in {"absent", "void"} => attempts[i] = << >>
          /\ state[i] = "retrying" => attempts[i] # << >>
<1>1. \A i \in Jobs : Fits(i) /\ attempts[i] \in Seq(AttemptStatus)
  BY DEF AttemptHistory, StatesMet, AttemptsBegin, TypeOK
<1>2. SUFFICES ASSUME NEW i \in Jobs
               PROVE  Fits(i)'
  BY DEF AttemptHistory, StatesMet, AttemptsBegin
<1>3. CASE state'[i] = state[i] /\ attempts'[i] = attempts[i]
  BY <1>1, <1>3
<1>4. CASE Created(i)
  BY <1>1, <1>4 DEF Created, TypeOK
<1>5. CASE Started(i)
  BY <1>1, <1>5 DEF Started, TypeOK
<1>6. ASSUME NEW w \in Workers, run[w].job = i, Claimed(w)
      PROVE  Fits(i)'
  <2>1. /\ state[i] = "queued" /\ state'[i] = "leased"
        /\ attempts'[i] = Append(attempts[i], "running")
    BY <1>6 DEF Claimed, TypeOK
  <2>2. \A k \in 1 .. Len(attempts[i]) : attempts[i][k] = "retrying"
    BY <1>1, <2>1
  <2> QED BY <1>1, <2>1, <2>2, OpenNext
<1>7. ASSUME NEW w \in Workers, run[w].job = i, Buried(w)
      PROVE  Fits(i)'
  <2>1. /\ state[i] \in {"leased", "running", "retrying"} /\ state'[i] = "dead_lettered"
        /\ attempts'[i] = attempts[i]
    BY <1>7 DEF Buried, TypeOK
  <2>2. attempts[i] # << >> => Len(attempts[i]) > 0
    BY <1>1
  <2> QED BY <1>1, <2>1, <2>2
<1>8. ASSUME NEW w \in Workers, NEW to \in {"completed", "retrying"}, run[w].job = i,
             Closed(w, to)
      PROVE  Fits(i)'
  <2>1. /\ state[i] \in {"leased", "running"} /\ state'[i] = to
        /\ attempts'[i] = [attempts[i] EXCEPT ![Len(attempts[i])] = to]
    BY <1>8 DEF Closed, TypeOK
  <2>2. attempts[i] # << >> /\ to \in AttemptStatus
    BY <1>1, <2>1 DEF AttemptStatus
  <2>3. /\ attempts'[i] \in Seq(AttemptStatus) /\ Len(attempts'[i]) = Len(attempts[i])
        /\ attempts'[i][Len(attempts[i])] = to
        /\ \A k \in 1 .. (Len(attempts[i]) - 1) : attempts'[i][k] = attempts[i][k]
    BY <1>1, <2>1, <2>2, CloseLast
  <2> QED BY <1>1, <2>1, <2>3
<1>9. ASSUME NEW d \in Watchdogs, Requeued(d)
      PROVE  Fits(i)'
  BY <1>1, <1>9 DEF Requeued, TypeOK
<1>10. ASSUME NEW j \in Jobs \ {i}, Created(j) \/ Started(j)
       PROVE  Fits(i)'
  BY <1>1, <1>10 DEF Created, Started, TypeOK
<1>11. ASSUME NEW w \in Workers, run[w].job \in Jobs \ {i},
              Claimed(w) \/ Buried(w) \/ \E to \in {"completed", "retrying"} : Closed(w, to)
       PROVE  Fits(i)'
  <2>1. state'[i] = state[i] /\ attempts'[i] = attempts[i]
    BY <1>11 DEF Claimed, Buried, Closed, TypeOK
  <2> QED BY <1>3, <2>1
<1>12. CASE Quiet
  BY <1>3, <1>12 DEF Quiet
<1> QED
  BY <1>4, <1>5, <1>6, <1>7, <1>8, <1>9, <1>10, <1>11, <1>12 DEF Effect

\* A worker that holds a job after a step other than acquire_lease held it before, with
\* the same attempt.
LEMMA HolderFrame ==
  ASSUME IndInv, [Next]_vars, NEW w \in Workers, Holding(w)', ~AcquireLease(w)
  PROVE  /\ Holding(w) /\ run[w].job \in Jobs
         /\ run'[w].job = run[w].job /\ run'[w].attempt = run[w].attempt
<1> USE DEF IndInv
<1>1. Holding(w) => run[w].job \in Jobs
  BY DEF Holding, RunKnown
<1>2. CASE pc'[w] = pc[w] /\ run'[w] = run[w]
  BY <1>1, <1>2 DEF Holding
<1>3. ASSUME NEW v \in Workers \ {w}, WorkerNext(v)
      PROVE  pc'[w] = pc[w] /\ run'[w] = run[w]
  BY <1>3, WorkerFrame
<1>4. CASE WorkerNext(w)
  <2>1. CASE LockContended(w) \/ HandlerReturns(w) \/ RaiseRetryable(w)
    <3>1. PICK g \in Goals : Call(w, g)
      BY <2>1 DEF LockContended, HandlerReturns, RaiseRetryable, Goals
    <3>2. run'[w].job = run[w].job /\ run'[w].attempt = run[w].attempt
      BY <3>1 DEF Call, TypeOK, RunLocals
    <3>3. Holding(w)
      BY <2>1 DEF LockContended, HandlerReturns, RaiseRetryable, InTry, Holding
    <3> QED BY <1>1, <3>2, <3>3
  <2>2. CASE \/ AcquireLock(w) \/ FenceCheck(w) \/ HeartbeatDb(w) \/ HeartbeatLocal(w)
             \/ RegisterWorker(w) \/ Redeliver(w) \/ MarkRunning(w) \/ RaiseFatal(w)
             \/ CommitComplete(w) \/ CommitRetry(w)
    <3>1. run'[w].job = run[w].job /\ run'[w].attempt = run[w].attempt
      <4>1. CASE AcquireLock(w) \/ FenceCheck(w) \/ HeartbeatDb(w) \/ HeartbeatLocal(w)
        BY <4>1 DEF AcquireLock, FenceCheck, HeartbeatDb, HeartbeatLocal, TypeOK, RunLocals
      <4>2. CASE ~(AcquireLock(w) \/ FenceCheck(w) \/ HeartbeatDb(w) \/ HeartbeatLocal(w))
        BY <2>2, <4>2 DEF RegisterWorker, Redeliver, MarkRunning, RaiseFatal, CommitComplete,
                          CommitRetry, workerVars
      <4> QED BY <4>1, <4>2
    <3>2. Holding(w)
      BY <2>2 DEF AcquireLock, FenceCheck, HeartbeatDb, HeartbeatLocal, RegisterWorker,
                  Redeliver, MarkRunning, RaiseFatal, CommitComplete, CommitRetry, InTry,
                  workerVars, Holding
    <3> QED BY <1>1, <3>1, <3>2
  <2>3. ~(\/ LeasingRaises(w) \/ DeadLetter(w) \/ ExceptBlockFails(w) \/ Finish(w)
          \/ Crash(w) \/ AcquireCommitFails(w) \/ CommitUnacknowledged(w)
          \/ \E j \in Jobs : StartRun(w, j))
    BY DEF LeasingRaises, DeadLetter, ExceptBlockFails, Finish, Crash, StartRun,
           AcquireCommitFails, CommitUnacknowledged, Holding, TypeOK
  <2>4. CASE \E j \in Jobs : DropDelivery(w, j)
    BY <1>2, <2>4 DEF DropDelivery, workerVars
  <2> QED BY <1>4, <2>1, <2>2, <2>3, <2>4 DEF WorkerNext, RunStep, AcquireLeaseFails
<1>5. CASE ~\E v \in Workers : WorkerNext(v)
  <2>1. UNCHANGED <<pc, run>>
    BY <1>5 DEF Next, vars, ApiNext, BeginEnqueue, CommitEnqueue, AbortEnqueue, ReplayDlq,
                TimeNext, LeaseExpires, BackoffElapses, LockExpires, LeaderExpires,
                WatchdogNext, TickStep, TickBegin, TickReclaim, TickFails, TickHangs,
                TickEnqueue, TickCommit, TickCrash, workerVars
  <2> QED BY <1>2, <2>1
<1> QED BY <1>2, <1>3, <1>4, <1>5

\* The attempt of a holder stays the last one: only acquire_lease opens another, and the
\* job it finds queued has no holder.
LEMMA AttemptKept ==
  ASSUME IndInv, HistoryInv, [Next]_vars
  PROVE  HeldAttemptLast'
<1> USE DEF IndInv, HistoryInv
<1>1. SUFFICES ASSUME NEW w \in Workers, Holding(w)'
               PROVE  run'[w].attempt = Len(attempts'[run'[w].job])
  BY DEF HeldAttemptLast
<1>2. CASE AcquireLease(w)
  <2>1. run[w].job \in Jobs /\ attempts[run[w].job] \in Seq(AttemptStatus)
    BY <1>2 DEF AcquireLease, RunKnown, TypeOK
  <2>2. /\ run'[w].job = run[w].job /\ run'[w].attempt = Len(attempts[run[w].job]) + 1
        /\ attempts'[run[w].job] = Append(attempts[run[w].job], "running")
    BY <1>2, <2>1 DEF AcquireLease, IdleRun, TypeOK
  <2> QED BY <2>1, <2>2, OpenNext
<1>3. CASE ~AcquireLease(w)
  <2> DEFINE j == run[w].job
  <2>1. /\ Holding(w) /\ j \in Jobs
        /\ run'[w].job = j /\ run'[w].attempt = run[w].attempt
    BY <1>1, <1>3, HolderFrame
  <2>2. /\ state[j] \in {"leased", "running", "dead_lettered"} /\ run[w].attempt = Len(attempts[j])
        /\ attempts[j] \in Seq(AttemptStatus)
    BY <2>1 DEF HolderOwnsJob, HeldAttemptLast, TypeOK
  <2>3. Len(attempts'[j]) = Len(attempts[j])
    <3>1. CASE attempts'[j] = attempts[j]
      BY <3>1
    <3>2. ASSUME NEW v \in Workers, NEW to \in {"completed", "retrying"}, Closed(v, to),
                 run[v].job = j
          PROVE  Len(attempts'[j]) = Len(attempts[j])
      <4>1. attempts'[j] = [attempts[j] EXCEPT ![Len(attempts[j])] = to] /\ to \in AttemptStatus
        BY <2>1, <3>2 DEF Closed, TypeOK, AttemptStatus
      <4> QED BY <2>2, <4>1, SeqAssign
    <3>3. ASSUME NEW v \in Workers, run[v].job \in Jobs, Claimed(v)
          PROVE  attempts'[j] = attempts[j]
      BY <2>1, <2>2, <3>3 DEF Claimed, TypeOK
    <3>4. ASSUME NEW v \in Workers, NEW to \in {"completed", "retrying"}, Closed(v, to),
                 run[v].job # j
          PROVE  attempts'[j] = attempts[j]
      BY <2>1, <3>4 DEF Closed, TypeOK
    <3>5. CASE Quiet \/ (\E i \in Jobs : Created(i) \/ Started(i))
               \/ (\E v \in Workers : Buried(v)) \/ \E d \in Watchdogs : Requeued(d)
      BY <3>5 DEF Quiet, Created, Started, Buried, Requeued
    <3> QED BY <3>1, <3>2, <3>3, <3>4, <3>5, StepEffect DEF Effect
  <2> QED BY <2>1, <2>2, <2>3
<1> QED BY <1>2, <1>3

\* No job has a history at the start.
LEMMA HistoryInit == Init => HistoryInv
<1> SUFFICES ASSUME Init PROVE HistoryInv
  OBVIOUS
<1>1. AttemptHistory /\ StatesMet /\ AttemptsBegin
  BY DEF Init, AttemptHistory, StatesMet, AttemptsBegin
<1>2. HeldAttemptLast
  BY DEF Init, HeldAttemptLast, Holding
<1> QED BY <1>1, <1>2 DEF HistoryInv

\* Every step keeps it.
LEMMA HistoryNext == IndInv /\ HistoryInv /\ [Next]_vars => HistoryInv'
BY StepEffect, HistoryKept, AttemptKept DEF HistoryInv

\* The strengthening the outcomes rest on holds in every reachable state.
THEOREM HistoryInvariance == Spec => [](IndInv /\ HistoryInv)
BY Invariance, HistoryInit, HistoryNext, PTL DEF Spec

\* The rows of job_attempts tell the story of their job in every reachable state: closed
\* ones ended in a retry, and the last says whether the job is held, done or waiting.
THEOREM Attempts == Spec => []AttemptHistory
<1>1. HistoryInv => AttemptHistory
  BY DEF HistoryInv
<1> QED BY <1>1, HistoryInvariance, PTL

-----------------------------------------------------------------------------
(***************************************************************************)
(* Who records an outcome, and the ledger.                                 *)
(***************************************************************************)
\* complete_job and schedule_retry record an outcome only for the owner of the lease with
\* the last attempt, though they check its tokens several awaits before: what they compare
\* and swap was read after the checks.
THEOREM Outcomes == Spec => OutcomeByHolder
<1> DEFINE Recorded ==
      \A j \in Jobs :
        state[j] # state'[j] /\ state'[j] \in {"completed", "retrying", "dead_lettered"}
          => \E w \in Workers :
               /\ run[w].job = j /\ pc'[w] \in {"finally", "unleased"}
               /\ \/ /\ pc[w] = IF state'[j] = "dead_lettered" THEN "burying" ELSE "commit"
                     /\ OwnsLease(w) /\ run[w].attempt = Len(attempts[j])
                  \/ pc[w] = "unleased" /\ state'[j] = "dead_lettered"
<1>1. ASSUME IndInv, HistoryInv, [Next]_vars
      PROVE  Recorded
  <2>1. SUFFICES ASSUME NEW j \in Jobs, state[j] # state'[j],
                        state'[j] \in {"completed", "retrying", "dead_lettered"}
                 PROVE  \E w \in Workers :
               /\ run[w].job = j /\ pc'[w] \in {"finally", "unleased"}
               /\ \/ /\ pc[w] = IF state'[j] = "dead_lettered" THEN "burying" ELSE "commit"
                     /\ OwnsLease(w) /\ run[w].attempt = Len(attempts[j])
                  \/ pc[w] = "unleased" /\ state'[j] = "dead_lettered"
    OBVIOUS
  <2>2. state \in [Jobs -> JobStates \cup {"absent", "void"}]
    BY <1>1 DEF IndInv, TypeOK
  <2>3. CASE \E w \in Workers : run[w].job \in Jobs /\ Buried(w)
    <3>1. PICK w \in Workers : run[w].job \in Jobs /\ Buried(w)
      BY <2>3
    <3> QED BY <2>1, <2>2, <3>1 DEF Buried
  <2>4. CASE \E w \in Workers, to \in {"completed", "retrying"} :
               run[w].job \in Jobs /\ Closed(w, to)
    <3>1. PICK w \in Workers, to \in {"completed", "retrying"} :
            run[w].job \in Jobs /\ Closed(w, to)
      BY <2>4
    <3> QED BY <2>1, <2>2, <3>1 DEF Closed
  <2>5. ~(Quiet \/ (\E i \in Jobs : Created(i) \/ Started(i))
            \/ (\E w \in Workers : run[w].job \in Jobs /\ Claimed(w))
            \/ \E d \in Watchdogs : Requeued(d))
    BY <2>1, <2>2 DEF Quiet, Created, Started, Claimed, Requeued
  <2> QED BY <1>1, <2>3, <2>4, <2>5, StepEffect DEF Effect
<1> QED BY <1>1, HistoryInvariance, PTL DEF Spec, OutcomeByHolder

\* The refinement mapping of JobOrchestration!Ledger: status and holder as the tables give
\* them; the history is attempts.
Status == [j \in Jobs |-> StatusOf(state[j])]
Holder == [j \in Jobs |-> IF StatusOf(state[j]) = "held" THEN lease[j].worker ELSE Nobody]

\* An effect that writes one state, and nothing of the other jobs' holders, writes one
\* status and one holder.
LEMMA OneStatus ==
  ASSUME TypeOK, NEW j \in Jobs, NEW to, state' = [state EXCEPT ![j] = to]
  PROVE  Status' = [Status EXCEPT ![j] = StatusOf(to)]
<1>1. \A i \in Jobs : state'[i] = IF i = j THEN to ELSE state[i]
  BY DEF TypeOK
<1>2. \A i \in Jobs : StatusOf(state'[i]) = IF i = j THEN StatusOf(to) ELSE StatusOf(state[i])
  BY <1>1
<1> QED BY <1>2 DEF Status

\* The same for its holder.
LEMMA OneHolder ==
  ASSUME TypeOK, NEW j \in Jobs, NEW to, state' = [state EXCEPT ![j] = to],
         \A i \in Jobs \ {j} : lease'[i].worker = lease[i].worker
  PROVE  Holder' = [Holder EXCEPT ![j] = IF StatusOf(to) = "held" THEN lease'[j].worker
                                         ELSE Nobody]
<1>1. \A i \in Jobs : state'[i] = IF i = j THEN to ELSE state[i]
  BY DEF TypeOK
<1> QED BY <1>1 DEF Holder

\* Every effect is a step of the ledger or none.
LEMMA LedgerStep ==
  ASSUME IndInv, HistoryInv, Effect
  PROVE  [Ledger!Next]_(Ledger!ledgerVars)
<1> USE DEF IndInv, HistoryInv
<1> DEFINE Same == Status' = Status /\ Holder' = Holder /\ attempts' = attempts
<1>0. Same => [Ledger!Next]_(Ledger!ledgerVars)
  BY DEF Ledger!ledgerVars, Status, Holder
<1>1. CASE Quiet
  BY <1>0, <1>1 DEF Quiet, SameHolders, Status, Holder
<1>2. ASSUME NEW j \in Jobs, Created(j)
      PROVE  [Ledger!Next]_(Ledger!ledgerVars)
  <2>1. PICK s \in {"queued", "void"} : state' = [state EXCEPT ![j] = s]
    BY <1>2 DEF Created
  <2>2. /\ state[j] = "absent" /\ attempts' = attempts /\ lease' = lease
    BY <1>2 DEF Created
  <2>3. /\ Status' = [Status EXCEPT ![j] = StatusOf(s)]
        /\ Holder' = [Holder EXCEPT ![j] = Nobody]
    BY <2>1, <2>2, OneStatus, OneHolder DEF StatusOf
  <2>4. Status[j] = "none" /\ Holder[j] = Nobody
    BY <2>2 DEF Status, Holder, StatusOf
  <2>5. Holder' = Holder
    BY <2>3, <2>4 DEF Holder
  <2>6. CASE s = "void"
    <3>1. Status' = Status
      BY <2>3, <2>4, <2>6 DEF Status, StatusOf
    <3> QED BY <1>0, <2>2, <2>5, <3>1
  <2>7. CASE s = "queued"
    <3>1. Ledger!Admit(j)
      BY <2>2, <2>3, <2>4, <2>5, <2>7 DEF Ledger!Admit, Status, Holder, StatusOf
    <3> QED BY <3>1 DEF Ledger!Next
  <2> QED BY <2>6, <2>7
<1>3. ASSUME NEW j \in Jobs, Started(j)
      PROVE  [Ledger!Next]_(Ledger!ledgerVars)
  <2>1. state[j] = "leased" /\ state' = [state EXCEPT ![j] = "running"]
        /\ attempts' = attempts /\ lease' = lease
    BY <1>3 DEF Started
  <2>2. \A i \in Jobs : StatusOf(state'[i]) = StatusOf(state[i])
    BY <2>1 DEF StatusOf, TypeOK
  <2> QED BY <1>0, <2>1, <2>2 DEF Status, Holder
<1>4. ASSUME NEW w \in Workers, run[w].job \in Jobs, Claimed(w)
      PROVE  [Ledger!Next]_(Ledger!ledgerVars)
  <2>0. PICK j \in Jobs : j = run[w].job
    BY <1>4
  <2>1. /\ state[j] = "queued" /\ state' = [state EXCEPT ![j] = "leased"]
        /\ attempts' = [attempts EXCEPT ![j] = Append(@, "running")]
        /\ lease'[j].worker = w /\ \A i \in Jobs \ {j} : lease'[i].worker = lease[i].worker
    BY <1>4, <2>0 DEF Claimed
  <2>2. /\ Status' = [Status EXCEPT ![j] = "held"] /\ Holder' = [Holder EXCEPT ![j] = w]
        /\ Status[j] = "ready"
    <3>1. StatusOf("leased") = "held" /\ StatusOf("queued") = "ready"
      BY DEF StatusOf
    <3>2. Status' = [Status EXCEPT ![j] = StatusOf("leased")]
      BY <2>1, OneStatus
    <3>3. Holder' = [Holder EXCEPT ![j] = IF StatusOf("leased") = "held" THEN lease'[j].worker
                                          ELSE Nobody]
      BY <2>1, OneHolder
    <3>4. Status[j] = StatusOf(state[j])
      BY DEF Status
    <3> QED BY <2>1, <3>1, <3>2, <3>3, <3>4
  <2>3. Ledger!Claim(j, w)
    BY <2>1, <2>2 DEF Ledger!Claim, Status, Holder
  <2> QED BY <2>3 DEF Ledger!Next
<1>5. ASSUME NEW w \in Workers, run[w].job \in Jobs, Buried(w)
      PROVE  [Ledger!Next]_(Ledger!ledgerVars)
  <2>0. PICK j \in Jobs : j = run[w].job
    BY <1>5
  <2>1. /\ state[j] \in {"leased", "running", "retrying"}
        /\ state' = [state EXCEPT ![j] = "dead_lettered"]
        /\ attempts' = attempts /\ lease' = lease
    BY <1>5, <2>0 DEF Buried
  <2>2. /\ Status' = [Status EXCEPT ![j] = "buried"] /\ Holder' = [Holder EXCEPT ![j] = Nobody]
        /\ Status[j] \in {"ready", "held"}
    <3>1. /\ StatusOf("dead_lettered") = "buried" /\ StatusOf("retrying") = "ready"
          /\ StatusOf("leased") = "held" /\ StatusOf("running") = "held"
      BY DEF StatusOf
    <3>2. Status' = [Status EXCEPT ![j] = StatusOf("dead_lettered")]
      BY <2>1, OneStatus
    <3>3. Holder' = [Holder EXCEPT ![j] = IF StatusOf("dead_lettered") = "held"
                                          THEN lease'[j].worker ELSE Nobody]
      BY <2>1, OneHolder
    <3>4. Status[j] = StatusOf(state[j])
      BY DEF Status
    <3> QED BY <2>1, <3>1, <3>2, <3>3, <3>4
  <2>3. Ledger!Bury(j)
    <3>1. Status[j] = "ready" \/ Status[j] = "held"
      BY <2>2
    <3> QED BY <2>1, <2>2, <3>1 DEF Ledger!Bury, Status, Holder
  <2> QED BY <2>3 DEF Ledger!Next
<1>6. ASSUME NEW w \in Workers, NEW to \in {"completed", "retrying"}, run[w].job \in Jobs,
             Closed(w, to)
      PROVE  [Ledger!Next]_(Ledger!ledgerVars)
  <2>0. PICK j \in Jobs : j = run[w].job
    BY <1>6
  <2>1. /\ state[j] \in {"leased", "running"} /\ state' = [state EXCEPT ![j] = to]
        /\ attempts' = [attempts EXCEPT ![j][Len(attempts[j])] = to]
        /\ \A i \in Jobs : lease'[i].worker = lease[i].worker
    BY <1>6, <2>0 DEF Closed, SameHolders
  <2>2. /\ Status' = [Status EXCEPT ![j] = StatusOf(to)] /\ Holder' = [Holder EXCEPT ![j] = Nobody]
        /\ Status[j] = "held"
    <3>1. /\ StatusOf("completed") = "done" /\ StatusOf("retrying") = "ready"
          /\ StatusOf("leased") = "held" /\ StatusOf("running") = "held"
      BY DEF StatusOf
    <3>2. Status' = [Status EXCEPT ![j] = StatusOf(to)]
      BY <2>1, OneStatus
    <3>3. Holder' = [Holder EXCEPT ![j] = IF StatusOf(to) = "held" THEN lease'[j].worker
                                          ELSE Nobody]
      BY <2>1, OneHolder
    <3>4. Status[j] = StatusOf(state[j])
      BY DEF Status
    <3> QED BY <1>6, <2>1, <3>1, <3>2, <3>3, <3>4
  <2>3. Ledger!Complete(j) \/ Ledger!GiveBack(j)
    <3>1. CASE to = "completed"
      <4>1. Status' = [Status EXCEPT ![j] = "done"]
        BY <2>2, <3>1 DEF StatusOf
      <4> QED BY <2>1, <2>2, <3>1, <4>1 DEF Ledger!Complete, Ledger!End, Status, Holder
    <3>2. CASE to = "retrying"
      <4>1. Status' = [Status EXCEPT ![j] = "ready"]
        BY <2>2, <3>2 DEF StatusOf
      <4> QED BY <2>1, <2>2, <3>2, <4>1 DEF Ledger!GiveBack, Ledger!End, Status, Holder
    <3> QED BY <3>1, <3>2
  <2> QED BY <2>3 DEF Ledger!Next
<1>7. ASSUME NEW d \in Watchdogs, Requeued(d)
      PROVE  [Ledger!Next]_(Ledger!ledgerVars)
  <2>1. \A i \in Jobs : StatusOf(state'[i]) = StatusOf(state[i])
    BY <1>7 DEF Requeued, StatusOf
  <2>2. attempts' = attempts /\ lease' = lease
    BY <1>7 DEF Requeued
  <2> QED BY <1>0, <2>1, <2>2 DEF Status, Holder
<1> QED BY <1>1, <1>2, <1>3, <1>4, <1>5, <1>6, <1>7 DEF Effect

\* An empty database is an empty ledger.
LEMMA LedgerInit == Init => Ledger!Init
BY DEF Init, Ledger!Init, StatusOf

\* The orchestration implements JobLedger: read through the refinement mapping, each of its
\* steps admits, claims, completes, gives back or buries one job, or changes nothing.
THEOREM Refinement == Spec => ImplementsLedger
<1>1. IndInv /\ HistoryInv /\ [Next]_vars => [Ledger!Next]_(Ledger!ledgerVars)
  BY StepEffect, LedgerStep
<1> QED BY <1>1, LedgerInit, HistoryInvariance, PTL DEF Spec, ImplementsLedger, Ledger!Spec

-----------------------------------------------------------------------------
(***************************************************************************)
(* The fencing token.                                                      *)
(***************************************************************************)
\* FenceTracked for one worker.
Trails(w) == lease[run[w].job].fence = (IF run[w].hb = 0 THEN run[w].fence ELSE run[w].hb)

\* A step of another worker leaves the fencing token of a held lease alone.
LEMMA FenceAlone ==
  ASSUME IndInv, NEW w \in Workers, NEW v \in Workers \ {w}, WorkerNext(v), Holding(w)
  PROVE  lease'[run[w].job].fence = lease[run[w].job].fence
<1> USE DEF IndInv
<1> DEFINE j == run[w].job
<1>1. j \in Jobs /\ OwnsLease(w) /\ state[j] \in {"leased", "running", "dead_lettered"}
  BY DEF Holding, RunKnown, HolderOwnsJob
<1>2. CASE j # run[v].job
  BY <1>1, <1>2, WorkerFrame
<1>3. CASE j = run[v].job
  <2>1. ~Holding(v) /\ ~HeartbeatDb(v)
    BY <1>1, <1>3 DEF HolderOwnsJob, OwnsLease, HeartbeatDb
  <2>2. ~AcquireLease(v)
    BY <1>1, <1>3 DEF AcquireLease, SnapshotAllows, AssertAllowed, Allowed, SnapshotSound
  <2>3. lease' = lease
    BY <2>1, <2>2
    DEF WorkerNext, RunStep, AcquireLeaseFails, StartRun, DropDelivery, LeasingRaises, AcquireLock,
        LockContended, MarkRunning, HandlerReturns, RaiseRetryable, RaiseFatal, InTry,
        FenceCheck, CommitComplete, CommitRetry, DeadLetter, ExceptBlockFails, Finish,
        HeartbeatLocal, RegisterWorker, Crash, Redeliver, AcquireCommitFails,
        CommitUnacknowledged, dbVars, Holding
  <2> QED BY <2>3
<1> QED BY <1>2, <1>3

\* A holder's own steps keep it in step with its row.
LEMMA FenceOwn ==
  ASSUME IndInv, FenceTracked, NEW w \in Workers, WorkerNext(w), Holding(w)'
  PROVE  Trails(w)'
<1> USE DEF IndInv
<1> DEFINE j == run[w].job
<1>0. run[w] \in RunLocals /\ run \in [Workers -> RunLocals] /\ lease \in [Jobs -> LeaseRow]
  BY DEF TypeOK
<1>1. CASE AcquireLease(w)
  <2>1. j \in Jobs
    BY <1>1 DEF AcquireLease, RunKnown
  <2>2. /\ run'[w].job = j /\ run'[w].fence = run[w].seenFence + 1 /\ run'[w].hb = 0
        /\ lease'[j].fence = run[w].seenFence + 1
    BY <1>0, <1>1, <2>1 DEF AcquireLease, IdleRun
  <2> QED BY <2>2 DEF Trails
<1>2. CASE ~AcquireLease(w)
  <2>1. Holding(w) /\ j \in Jobs /\ run'[w].job = j /\ lease[j] \in LeaseRow
    BY <1>0, <1>2, HolderFrame DEF Next
  <2>2. Trails(w)
    BY <2>1 DEF FenceTracked, Trails
  <2>3. CASE HeartbeatDb(w)
    <3>1. lease[j].fence \in Nat
      BY <2>1 DEF LeaseRow
    <3>2. run'[w].hb = lease[j].fence + 1 /\ lease'[j].fence = lease[j].fence + 1
      BY <1>0, <2>1, <2>3 DEF HeartbeatDb, RunLocals, LeaseRow
    <3> QED BY <2>1, <3>1, <3>2 DEF Trails
  <2>4. CASE HeartbeatLocal(w)
    <3>1. run'[w].fence = run[w].hb /\ run'[w].hb = 0 /\ lease' = lease
      BY <1>0, <2>4 DEF HeartbeatLocal, RunLocals, dbVars
    <3> QED BY <2>1, <2>2, <2>4, <3>1 DEF HeartbeatLocal, Trails
  <2>5. CASE ~HeartbeatDb(w) /\ ~HeartbeatLocal(w)
    <3>1. run'[w].fence = run[w].fence /\ run'[w].hb = run[w].hb
      <4>1. CASE LockContended(w) \/ HandlerReturns(w) \/ RaiseRetryable(w)
        <5>1. PICK g \in Goals : Call(w, g)
          BY <4>1 DEF LockContended, HandlerReturns, RaiseRetryable, Goals
        <5> QED BY <1>0, <5>1 DEF Call, RunLocals
      <4>2. CASE AcquireLock(w) \/ FenceCheck(w)
        BY <1>0, <4>2 DEF AcquireLock, FenceCheck, RunLocals
      <4>3. CASE \/ MarkRunning(w) \/ RaiseFatal(w) \/ CommitComplete(w) \/ CommitRetry(w)
                 \/ RegisterWorker(w) \/ Redeliver(w) \/ \E i \in Jobs : DropDelivery(w, i)
        BY <4>3 DEF MarkRunning, RaiseFatal, CommitComplete, CommitRetry, RegisterWorker,
                    Redeliver, DropDelivery, workerVars
      <4>4. ~(\/ LeasingRaises(w) \/ DeadLetter(w) \/ ExceptBlockFails(w) \/ Finish(w)
              \/ Crash(w) \/ AcquireCommitFails(w) \/ CommitUnacknowledged(w)
              \/ \E i \in Jobs : StartRun(w, i))
        BY DEF LeasingRaises, DeadLetter, ExceptBlockFails, Finish, Crash, StartRun,
               AcquireCommitFails, CommitUnacknowledged, Holding, TypeOK
      <4> QED
        BY <1>2, <2>5, <4>1, <4>2, <4>3, <4>4 DEF WorkerNext, RunStep, AcquireLeaseFails
    <3>2. lease'[j].fence = lease[j].fence
      <4>1. CASE lease' = lease
        BY <4>1
      <4>2. CASE CommitComplete(w) \/ CommitRetry(w) \/ CommitUnacknowledged(w)
        <5>1. lease' = lease \/ lease' = [lease EXCEPT ![j].live = FALSE]
          BY <4>2 DEF CommitComplete, CommitRetry, CommitUnacknowledged, CommitRefused,
                      CloseAttempt
        <5> QED BY <1>0, <2>1, <5>1 DEF LeaseRow
      <4>3. ~(CommitComplete(w) \/ CommitRetry(w) \/ CommitUnacknowledged(w)) => lease' = lease
        BY <1>2, <2>5
        DEF WorkerNext, RunStep, AcquireLeaseFails, StartRun, DropDelivery, LeasingRaises,
            AcquireLock, LockContended, MarkRunning, HandlerReturns, RaiseRetryable, RaiseFatal,
            FenceCheck, DeadLetter, ExceptBlockFails, Finish, RegisterWorker, Crash, Redeliver,
            AcquireCommitFails, dbVars
      <4> QED BY <4>1, <4>2, <4>3
    <3> QED BY <2>1, <2>2, <3>1, <3>2 DEF Trails
  <2> QED BY <2>3, <2>4, <2>5
<1> QED BY <1>1, <1>2

\* So does every step of the system.
LEMMA FenceNext == IndInv /\ FenceTracked /\ [Next]_vars => FenceTracked'
<1> SUFFICES ASSUME IndInv, FenceTracked, [Next]_vars, NEW w \in Workers, Holding(w)'
             PROVE  Trails(w)'
  BY DEF FenceTracked, Trails
<1>1. CASE WorkerNext(w)
  BY <1>1, FenceOwn
<1>2. CASE ~WorkerNext(w)
  <2>1. ~AcquireLease(w)
    BY <1>2 DEF WorkerNext, RunStep
  <2>2. Holding(w) /\ run[w].job \in Jobs /\ Trails(w)
    BY <2>1, HolderFrame DEF FenceTracked, Trails
  <2>3. ASSUME NEW v \in Workers \ {w}, WorkerNext(v)
        PROVE  Trails(w)'
    <3>1. run'[w] = run[w]
      BY <2>3, WorkerFrame DEF IndInv
    <3>2. lease'[run[w].job].fence = lease[run[w].job].fence
      BY <2>2, <2>3, FenceAlone
    <3> QED BY <2>2, <3>1, <3>2 DEF Trails
  <2>4. CASE ~\E v \in Workers : WorkerNext(v)
    <3>1. run' = run
      BY <2>4 DEF Next, vars, ApiNext, BeginEnqueue, CommitEnqueue, AbortEnqueue, ReplayDlq,
                  TimeNext, LeaseExpires, BackoffElapses, LockExpires, LeaderExpires,
                  WatchdogNext, TickStep, TickBegin, TickReclaim, TickFails, TickHangs,
                  TickEnqueue, TickCommit, TickCrash, workerVars
    <3>2. lease' = lease \/ \E j \in Jobs : lease' = [lease EXCEPT ![j].live = FALSE]
      BY <2>4 DEF Next, vars, ApiNext, BeginEnqueue, CommitEnqueue, AbortEnqueue, ReplayDlq,
                  TimeNext, LeaseExpires, BackoffElapses, LockExpires, LeaderExpires,
                  WatchdogNext, TickStep, TickBegin, TickReclaim, TickFails, TickHangs,
                  TickEnqueue, TickCommit, TickCrash, dbVars
    <3>3. \A j \in Jobs : lease' = [lease EXCEPT ![j].live = FALSE]
            => lease'[run[w].job].fence = lease[run[w].job].fence
      <4>1. lease \in [Jobs -> LeaseRow]
        BY DEF IndInv, TypeOK
      <4>2. \A l \in LeaseRow : [l EXCEPT !.live = FALSE].fence = l.fence
        BY DEF LeaseRow
      <4> QED BY <2>2, <4>1, <4>2
    <3>4. lease'[run[w].job].fence = lease[run[w].job].fence
      BY <3>2, <3>3
    <3> QED BY <2>2, <3>1, <3>4 DEF Trails
  <2> QED BY <1>2, <2>3, <2>4
<1> QED BY <1>1, <1>2

\* The fencing token a holder knows is its row's, or trails it by its own heartbeat whose
\* result is under way: no other worker, registration or expiry moves it.
THEOREM Fences == Spec => []FenceTracked
<1>1. Init => FenceTracked
  BY DEF Init, FenceTracked, Holding
<1> QED BY <1>1, FenceNext, Invariance, PTL DEF Spec
=============================================================================
