----------------------- MODULE JobOrchestrationProofs -----------------------
(***************************************************************************)
(* Theorems about JobOrchestration, for every set of jobs, workers,        *)
(* watchdogs and clients and every value of the bounds.                    *)
(***************************************************************************)
EXTENDS JobOrchestration, SequenceTheorems, TLAPS

\* Assigning to a sequence keeps its type, also beyond its end.
LEMMA SeqAssign ==
  ASSUME NEW S, NEW s \in Seq(S), NEW i \in Nat, NEW e \in S
  PROVE  [s EXCEPT ![i] = e] \in Seq(S) /\ Len([s EXCEPT ![i] = e]) = Len(s)
<1>1. CASE i \in 1 .. Len(s)
  BY <1>1, ExceptSeq
<1>2. CASE i \notin 1 .. Len(s)
  <2>1. [s EXCEPT ![i] = e] = s
    BY <1>2
  <2> QED BY <2>1
<1> QED BY <1>1, <1>2

\* The locals of an idle worker are well typed.
LEMMA IdleRunType == IdleRun \in RunLocals
BY NobodyAssumption DEF IdleRun, RunLocals, JobStates, Goals

\* Updates of a lease row and of run_job's locals are well typed.
LEMMA LeaseUpdateType ==
  ASSUME NEW l \in LeaseRow, NEW b \in BOOLEAN, NEW f \in Nat
  PROVE  /\ [l EXCEPT !.live = b] \in LeaseRow
         /\ [l EXCEPT !.fence = f, !.live = b] \in LeaseRow
BY DEF LeaseRow

LEMMA TickType ==
  ASSUME NEW t \in TickLocals, NEW j \in Jobs
  PROVE  [t EXCEPT !.todo = t.todo \ {j}, !.done = t.done \cup {j}] \in TickLocals
BY DEF TickLocals

LEMMA LockedType ==
  ASSUME NEW r \in RunLocals
  PROVE  [r EXCEPT !.locked = TRUE] \in RunLocals
BY DEF RunLocals

LEMMA SnapshotType ==
  ASSUME NEW r \in RunLocals, NEW s \in JobStates \cup {"absent"}, NEW v \in Nat
  PROVE  /\ [r EXCEPT !.seenState = s, !.seenVersion = v] \in RunLocals
         /\ [r EXCEPT !.seenState = s, !.seenVersion = v].job = r.job
BY DEF RunLocals

LEMMA HeartbeatType ==
  ASSUME NEW r \in RunLocals, NEW a \in Nat
  PROVE  /\ [r EXCEPT !.hb = a] \in RunLocals
         /\ [r EXCEPT !.hb = a].job = r.job
         /\ [r EXCEPT !.fence = r.hb, !.hb = 0] \in RunLocals
         /\ [r EXCEPT !.fence = r.hb, !.hb = 0].job = r.job
BY DEF RunLocals

\* Preparing a call of complete_job or schedule_retry is well typed.
LEMMA CallType ==
  ASSUME TypeOK, NEW w \in Workers, NEW g \in Goals, Call(w, g)
  PROVE  /\ run' \in [Workers -> RunLocals] /\ run'[w].job = run[w].job
         /\ pc' = [pc EXCEPT ![w] = "fence"]
         /\ \A v \in Workers \ {w} : run'[v] = run[v]
<1>1. run[w] \in RunLocals /\ run[w].fence \in Nat
  BY DEF TypeOK, RunLocals
<1>2. [run[w] EXCEPT !.goal = g, !.arg = run[w].fence] \in RunLocals
  BY <1>1 DEF RunLocals
<1>3. run' \in [Workers -> RunLocals]
  BY <1>2, Zenon DEF Call, TypeOK
<1> QED BY <1>1, <1>3 DEF Call, TypeOK, RunLocals

\* So is a transition.
LEMMA TransitionType ==
  ASSUME TypeOK, NEW j \in Jobs, NEW to \in JobStates,
         NEW due \in {"none", "due", "later"}, Transition(j, to, due)
  PROVE  /\ state' \in [Jobs -> JobStates \cup {"absent", "void"}]
         /\ version' \in [Jobs -> Nat]
         /\ runAt' \in [Jobs -> {"none", "due", "later"}]
BY DEF Transition, TypeOK

\* The steps of the API process keep TypeOK.
LEMMA ApiType ==
  ASSUME TypeOK, NEW j \in Jobs, ApiNext(j)
  PROVE  TypeOK'
<1>1. CASE BeginEnqueue(j)
  <2>1. msgs' \in [Jobs -> Nat]
    BY <1>1, BoundAssumption DEF TypeOK, BeginEnqueue, Sent
  <2>2. apiTx' \in SUBSET Jobs
    BY <1>1 DEF TypeOK, BeginEnqueue
  <2> QED
    BY <1>1, <2>1, <2>2 DEF TypeOK, BeginEnqueue, dbVars, redisVars, workerVars
<1>2. CASE CommitEnqueue(j)
  BY <1>2 DEF TypeOK, CommitEnqueue, Transition, JobStates, redisVars, workerVars
<1>3. CASE AbortEnqueue(j)
  BY <1>3 DEF TypeOK, AbortEnqueue, redisVars, workerVars
<1> QED BY <1>1, <1>2, <1>3 DEF ApiNext, ReplayDlq

\* The clock keeps TypeOK.
LEMMA TimeType ==
  ASSUME TypeOK, (\E j \in Jobs : TimeNext(j)) \/ LeaderExpires
  PROVE  TypeOK'
<1>1. ASSUME NEW j \in Jobs, LeaseExpires(j)
      PROVE  TypeOK'
  <2>1. lease' \in [Jobs -> LeaseRow]
    <3>1. [lease[j] EXCEPT !.live = FALSE] \in LeaseRow
      BY LeaseUpdateType DEF TypeOK
    <3> QED BY <1>1, <3>1, Zenon DEF TypeOK, LeaseExpires
  <2> QED BY <1>1, <2>1 DEF TypeOK, LeaseExpires, redisVars, workerVars
<1>2. ASSUME NEW j \in Jobs, BackoffElapses(j)
      PROVE  TypeOK'
  BY <1>2 DEF TypeOK, BackoffElapses, redisVars, workerVars
<1>3. ASSUME NEW j \in Jobs, LockExpires(j)
      PROVE  TypeOK'
  BY <1>3 DEF TypeOK, LockExpires, dbVars, workerVars
<1>4. CASE LeaderExpires
  BY <1>4 DEF TypeOK, LeaderExpires, dbVars, workerVars
<1> QED BY <1>1, <1>2, <1>3, <1>4 DEF TimeNext

\* The watchdog keeps TypeOK.
LEMMA WatchdogType ==
  ASSUME TypeOK, NEW d \in Watchdogs, WatchdogNext(d)
  PROVE  TypeOK'
<1> USE DEF TypeOK
<1>0. IdleTick \in TickLocals
  BY DEF IdleTick, TickLocals
<1>1. CASE TickBegin(d)
  <2>1. tick' \in [Watchdogs -> TickLocals]
    BY <1>1 DEF TickBegin, TickLocals
  <2> QED BY <1>1, <2>1 DEF TickBegin, dbVars, workerVars
<1>2. ASSUME NEW j \in Jobs, TickReclaim(d, j)
      PROVE  TypeOK'
  <2>1. tick' \in [Watchdogs -> TickLocals]
    <3>1. [tick[d] EXCEPT !.todo = tick[d].todo \ {j}, !.done = tick[d].done \cup {j}]
            \in TickLocals
      BY TickType
    <3> QED BY <1>2, <3>1, Zenon DEF TickReclaim
  <2>2. msgs' \in [Jobs -> Nat]
    BY <1>2, BoundAssumption DEF TickReclaim, Sent
  <2> QED BY <1>2, <2>1, <2>2 DEF TickReclaim, dbVars, redisVars, workerVars
<1>3. CASE TickFails(d)
  BY <1>0, <1>3 DEF TickFails, ReleaseLeader, dbVars, workerVars
<1>4. CASE TickHangs(d)
  <2>1. tick' \in [Watchdogs -> TickLocals]
    <3>1. [tick[d] EXCEPT !.pc = "hung"] \in TickLocals
      <4>1. tick[d] \in TickLocals
        OBVIOUS
      <4> HIDE DEF TypeOK
      <4> QED BY <4>1 DEF TickLocals
    <3> QED BY <1>4, <3>1, Zenon DEF TickHangs
  <2> QED BY <1>4, <2>1 DEF TickHangs, dbVars, redisVars, workerVars
<1>5. ASSUME NEW o \in BOOLEAN, TickEnqueue(d, o)
      PROVE  TypeOK'
  <2>1. tick' \in [Watchdogs -> TickLocals]
    <3>1. [tick[d] EXCEPT !.pc = "commit"] \in TickLocals
      <4>1. tick[d] \in TickLocals
        OBVIOUS
      <4> HIDE DEF TypeOK
      <4> QED BY <4>1 DEF TickLocals
    <3> QED BY <1>5, <3>1, Zenon DEF TickEnqueue
  <2>2. msgs' \in [Jobs -> Nat]
    BY <1>5, BoundAssumption DEF TickEnqueue, Sent
  <2>3. leader' \in Watchdogs \cup {Nobody}
    BY <1>5 DEF TickEnqueue, ReleaseLeader
  <2> QED BY <1>5, <2>1, <2>2, <2>3 DEF TickEnqueue, dbVars, workerVars
<1>6. CASE TickCommit(d)
  <2>1. state' \in [Jobs -> JobStates \cup {"absent", "void"}]
    BY <1>6 DEF TickCommit, JobStates
  <2>2. version' \in [Jobs -> Nat] /\ runAt' \in [Jobs -> {"none", "due", "later"}]
    BY <1>6 DEF TickCommit
  <2> QED BY <1>0, <1>6, <2>1, <2>2 DEF TickCommit, redisVars, workerVars
<1>7. CASE TickCrash(d)
  BY <1>0, <1>7 DEF TickCrash, dbVars, redisVars, workerVars
<1> QED
  BY <1>1, <1>2, <1>3, <1>4, <1>5, <1>6, <1>7 DEF WatchdogNext, TickStep

\* A worker keeps TypeOK and RunKnown.
LEMMA WorkerType ==
  ASSUME TypeOK, RunKnown, HolderOwnsJob, NEW w \in Workers, WorkerNext(w)
  PROVE  TypeOK' /\ RunKnown'
<1> DEFINE Types == TypeOK' /\ RunKnown'
<1> USE DEF TypeOK, RunKnown, WorkerPc, Goals
<1>0. IdleRun \in RunLocals
  BY IdleRunType
<1>1. ASSUME NEW j \in Jobs, StartRun(w, j)
      PROVE  Types
  <2>1. run' \in [Workers -> RunLocals]
    BY <1>1 DEF StartRun, IdleRun, RunLocals, LeaseRow, Exists
  <2>2. run'[w].job = j
    BY <1>1 DEF StartRun, IdleRun
  <2>3. msgs' \in [Jobs -> Nat]
    BY <1>1 DEF StartRun
  <2>4. TypeOK'
    BY <1>1, <2>1, <2>3 DEF StartRun, dbVars, redisVars
  <2> QED BY <1>1, <2>2, <2>4 DEF StartRun
<1>2. ASSUME NEW j \in Jobs, DropDelivery(w, j)
      PROVE  Types
  BY <1>2 DEF DropDelivery, dbVars, redisVars, workerVars
<1>3. CASE AcquireLease(w)
  <2> DEFINE j == run[w].job
             n == Len(attempts[j]) + 1
             f == run[w].seenFence + 1
  <2>1. j \in Jobs /\ n \in Nat /\ f \in Nat /\ reg[w].gen \in Nat
    BY <1>3 DEF AcquireLease, RunLocals
  <2>2. lease' \in [Jobs -> LeaseRow]
    BY <1>3, <2>1 DEF AcquireLease, LeaseRow
  <2>3. run' \in [Workers -> RunLocals] /\ run'[w].job \in Jobs
    BY <1>3, <2>1 DEF AcquireLease, IdleRun, RunLocals, JobStates
  <2>4. attempts' \in [Jobs -> Seq(AttemptStatus)]
    BY <1>3, <2>1 DEF AcquireLease, AttemptStatus
  <2>5. /\ state' \in [Jobs -> JobStates \cup {"absent", "void"}]
        /\ version' \in [Jobs -> Nat]
        /\ runAt' \in [Jobs -> {"none", "due", "later"}]
    BY <1>3, <2>1 DEF AcquireLease, Transition, JobStates
  <2>6. TypeOK'
    BY <1>3, <2>2, <2>3, <2>4, <2>5 DEF AcquireLease, redisVars
  <2>7. /\ pc[w] # "idle" /\ pc' = [pc EXCEPT ![w] = "leased"]
        /\ \A v \in Workers \ {w} : run'[v] = run[v]
    BY <1>3 DEF AcquireLease
  <2>8. RunKnown'
    BY <2>3, <2>7
  <2> QED BY <2>6, <2>8
<1>4. CASE LeasingRaises(w)
  BY <1>0, <1>4 DEF LeasingRaises, dbVars, redisVars
<1>5. CASE AcquireLock(w)
  <2>1. [run[w] EXCEPT !.locked = TRUE] \in RunLocals
    BY LockedType
  <2>2. run' \in [Workers -> RunLocals]
    BY <1>5, <2>1, Zenon DEF AcquireLock
  <2>3. run'[w].job = run[w].job
    BY <1>5, <2>1 DEF AcquireLock, RunLocals
  <2>4. TypeOK'
    BY <1>5, <2>2 DEF AcquireLock, dbVars
  <2>5. /\ pc[w] # "idle" /\ pc' = [pc EXCEPT ![w] = "locked"]
        /\ \A v \in Workers \ {w} : run'[v] = run[v]
    BY <1>5 DEF AcquireLock
  <2>6. RunKnown'
    BY <2>3, <2>5
  <2> QED BY <2>4, <2>6
<1>6. CASE LockContended(w) \/ HandlerReturns(w) \/ RaiseRetryable(w)
  <2>1. PICK g \in Goals : Call(w, g)
    BY <1>6 DEF LockContended, HandlerReturns, RaiseRetryable
  <2>2. /\ pc[w] # "idle"
        /\ UNCHANGED <<dbVars, redisVars, msgs, apiTx, pid, faults, tick>>
    BY <1>6 DEF LockContended, HandlerReturns, RaiseRetryable, InTry
  <2>3. /\ run' \in [Workers -> RunLocals] /\ run'[w].job = run[w].job
        /\ pc' = [pc EXCEPT ![w] = "fence"]
        /\ \A v \in Workers \ {w} : run'[v] = run[v]
    BY <2>1, CallType
  <2>4. TypeOK'
    BY <2>2, <2>3 DEF dbVars, redisVars
  <2> QED BY <2>2, <2>3, <2>4
<1>7. CASE MarkRunning(w)
  <2>1. run[w].job \in Jobs
    BY <1>7 DEF MarkRunning
  <2>2. /\ state' \in [Jobs -> JobStates \cup {"absent", "void"}]
        /\ version' \in [Jobs -> Nat]
        /\ runAt' \in [Jobs -> {"none", "due", "later"}]
    <3>1. CASE Transition(run[w].job, "running", "none")
      BY <2>1, <3>1, TransitionType DEF JobStates
    <3>2. CASE UNCHANGED <<state, version, runAt>>
      BY <3>2
    <3> QED BY <1>7, <3>1, <3>2 DEF MarkRunning
  <2>3. /\ UNCHANGED <<lease, attempts, dlq, reg, redisVars, msgs, apiTx, run, pid, faults,
                      tick>>
        /\ pc[w] # "idle" /\ \E p \in {"handler", "burying"} : pc' = [pc EXCEPT ![w] = p]
    BY <1>7 DEF MarkRunning
  <2> QED BY <2>2, <2>3 DEF redisVars
<1>8. CASE RaiseFatal(w) \/ ExceptBlockFails(w) \/ AcquireCommitFails(w)
  <2>1. /\ pc[w] # "idle" /\ UNCHANGED <<dbVars, redisVars, msgs, apiTx, run, pid, tick>>
        /\ \E p \in WorkerPc \ {"idle"} : pc' = [pc EXCEPT ![w] = p]
        /\ faults' \in Nat
    BY <1>8 DEF RaiseFatal, ExceptBlockFails, AcquireCommitFails, InTry
  <2> QED BY <2>1 DEF dbVars, redisVars
<1>9. CASE FenceCheck(w)
  <2>0. /\ run[w].job \in Jobs
        /\ state[run[w].job] \in JobStates \cup {"absent"}
        /\ version[run[w].job] \in Nat
    BY <1>9 DEF FenceCheck, HolderOwnsJob, Holding, JobStates
  <2>1. run' \in [Workers -> RunLocals] /\ run'[w].job = run[w].job
    <3> DEFINE r == [run[w] EXCEPT !.seenState = state[run[w].job],
                                   !.seenVersion = version[run[w].job]]
    <3>0. run[w] \in RunLocals
      OBVIOUS
    <3>1. r \in RunLocals /\ r.job = run[w].job
      <4> DEFINE q == state[run[w].job]
                 v == version[run[w].job]
      <4>1. q \in JobStates \cup {"absent"} /\ v \in Nat
        BY <2>0
      <4> HIDE DEF q, v, TypeOK, RunKnown
      <4>2. /\ [run[w] EXCEPT !.seenState = q, !.seenVersion = v] \in RunLocals
            /\ [run[w] EXCEPT !.seenState = q, !.seenVersion = v].job = run[w].job
        BY <3>0, <4>1, SnapshotType
      <4> QED BY <4>2 DEF q, v
    <3>2. run' = [run EXCEPT ![w] = r]
      BY <1>9 DEF FenceCheck
    <3> QED BY <3>1, <3>2, Zenon
  <2>2. TypeOK'
    BY <1>9, <2>1 DEF FenceCheck, AfterRejection, dbVars, redisVars
  <2> QED BY <1>9, <2>1, <2>2 DEF FenceCheck, AfterRejection
<1>10. CASE CommitComplete(w) \/ CommitRetry(w) \/ CommitUnacknowledged(w)
  <2> DEFINE j == run[w].job
  <2>1. j \in Jobs /\ run[w].attempt \in Nat
    BY <1>10 DEF CommitComplete, CommitRetry, CommitUnacknowledged, RunLocals
  <2>2. [lease[j] EXCEPT !.live = FALSE] \in LeaseRow
    BY <2>1, LeaseUpdateType
  <2>3. lease' \in [Jobs -> LeaseRow]
    BY <1>10, <2>1, <2>2, Zenon
    DEF CommitComplete, CommitRetry, CommitUnacknowledged, CloseAttempt, CommitRefused
  <2>4. \A s \in AttemptStatus :
          [attempts[j] EXCEPT ![run[w].attempt] = s] \in Seq(AttemptStatus)
    BY <2>1, SeqAssign
  <2>5. attempts' \in [Jobs -> Seq(AttemptStatus)]
    BY <1>10, <2>1, <2>4
    DEF CommitComplete, CommitRetry, CommitUnacknowledged, CloseAttempt, CommitRefused,
        AttemptStatus
  <2>6. /\ state' \in [Jobs -> JobStates \cup {"absent", "void"}]
        /\ version' \in [Jobs -> Nat]
        /\ runAt' \in [Jobs -> {"none", "due", "later"}]
    BY <1>10, <2>1, TransitionType
    DEF CommitComplete, CommitRetry, CommitUnacknowledged, CommitRefused, JobStates
  <2>7. pc' \in [Workers -> WorkerPc] /\ \A v \in Workers \ {w} : pc'[v] = pc[v]
    BY <1>10
    DEF CommitComplete, CommitRetry, CommitUnacknowledged, CommitRefused, AfterRejection
  <2>8. TypeOK'
    BY <1>10, <2>3, <2>5, <2>6, <2>7
    DEF CommitComplete, CommitRetry, CommitUnacknowledged, redisVars
  <2> QED
    BY <1>10, <2>1, <2>7, <2>8
    DEF CommitComplete, CommitRetry, CommitUnacknowledged, CommitRefused, AfterRejection
<1>11. CASE DeadLetter(w)
  <2>1. run[w].job \in Jobs
    BY <1>11 DEF DeadLetter
  <2>2. /\ state' \in [Jobs -> JobStates \cup {"absent", "void"}]
        /\ version' \in [Jobs -> Nat]
        /\ runAt' \in [Jobs -> {"none", "due", "later"}]
    <3>1. CASE Transition(run[w].job, "dead_lettered", "none")
      BY <2>1, <3>1, TransitionType DEF JobStates
    <3>2. CASE UNCHANGED <<state, version, runAt>>
      BY <3>2
    <3> QED BY <1>11, <3>1, <3>2 DEF DeadLetter
  <2>3. dlq' \in SUBSET Jobs
    BY <1>11, <2>1 DEF DeadLetter
  <2> QED BY <1>11, <2>2, <2>3 DEF DeadLetter, redisVars
<1>12. CASE Finish(w)
  <2>1. lock' \in [Jobs -> Workers \cup {Nobody}]
    BY <1>12 DEF Finish, ReleasedLock
  <2> QED BY <1>0, <1>12, <2>1 DEF Finish, dbVars
<1>13. CASE HeartbeatDb(w)
  <2> DEFINE j == run[w].job
  <2>1. j \in Jobs
    BY <1>13 DEF HeartbeatDb, IdleRun
  <2>2. lease[j] \in LeaseRow /\ lease[j].fence + 1 \in Nat
    BY <2>1 DEF LeaseRow
  <2>3. [lease[j] EXCEPT !.fence = lease[j].fence + 1, !.live = TRUE] \in LeaseRow
    BY <2>2, LeaseUpdateType
  <2>4. lease' \in [Jobs -> LeaseRow]
    BY <1>13, <2>1, <2>3, Zenon DEF HeartbeatDb
  <2>5. run' \in [Workers -> RunLocals] /\ run'[w].job = run[w].job
    <3> DEFINE r == [run[w] EXCEPT !.hb = lease[j].fence + 1]
    <3>1. r \in RunLocals /\ r.job = run[w].job
      BY <2>2, HeartbeatType
    <3>2. run' = [run EXCEPT ![w] = r]
      BY <1>13 DEF HeartbeatDb
    <3> QED BY <3>1, <3>2, Zenon
  <2>6. TypeOK'
    BY <1>13, <2>4, <2>5 DEF HeartbeatDb, redisVars
  <2>7. pc[w] # "idle" /\ pc' = pc /\ \A v \in Workers \ {w} : run'[v] = run[v]
    BY <1>13 DEF HeartbeatDb, IdleRun
  <2> QED BY <2>1, <2>5, <2>6, <2>7
<1>14. CASE HeartbeatLocal(w)
  <2>1. run' \in [Workers -> RunLocals] /\ run'[w].job = run[w].job
    <3> DEFINE r == [run[w] EXCEPT !.fence = run[w].hb, !.hb = 0]
    <3>1. r \in RunLocals /\ r.job = run[w].job
      BY HeartbeatType, 0 \in Nat
    <3>2. run' = [run EXCEPT ![w] = r]
      BY <1>14 DEF HeartbeatLocal
    <3> QED BY <3>1, <3>2, Zenon
  <2>2. TypeOK'
    BY <1>14, <2>1 DEF HeartbeatLocal, dbVars, redisVars
  <2>3. pc[w] # "idle" /\ pc' = pc /\ \A v \in Workers \ {w} : run'[v] = run[v]
    BY <1>14 DEF HeartbeatLocal, IdleRun
  <2> QED BY <2>1, <2>2, <2>3
<1>15. CASE RegisterWorker(w)
  BY <1>15 DEF RegisterWorker, redisVars, workerVars
<1>16. CASE Crash(w)
  <2>1. msgs' \in [Jobs -> Nat]
    BY <1>16, BoundAssumption DEF Crash, Sent
  <2> QED BY <1>0, <1>16, <2>1 DEF Crash, dbVars, redisVars
<1>17. CASE Redeliver(w)
  <2>1. msgs' \in [Jobs -> Nat]
    BY <1>17, BoundAssumption DEF Redeliver, Sent
  <2> QED BY <1>17, <2>1 DEF Redeliver, dbVars, redisVars, workerVars
<1> QED
  BY <1>1, <1>2, <1>3, <1>4, <1>5, <1>6, <1>7, <1>8, <1>9, <1>10, <1>11, <1>12,
     <1>13, <1>14, <1>15, <1>16, <1>17 DEF WorkerNext, RunStep, AcquireLeaseFails
-----------------------------------------------------------------------------
(***************************************************************************)
(* What a worker's step can touch.                                         *)
(***************************************************************************)
\* The steps of w that write jobs.state, all under the row lock.
Moves(w) ==
  /\ pc[w] \in {"leasing", "locked", "commit", "burying", "unleased"}
  /\ RowFree(run[w].job)
  /\ pc[w] = "unleased" => AssertAllowed(state[run[w].job], "dead_lettered")

\* A step of w leaves other workers, open ticks and open enqueues alone; it
\* writes rows of its own job only; and it moves the job only by a transition.
LEMMA WorkerFrame ==
  ASSUME TypeOK, RunKnown, NEW w \in Workers, WorkerNext(w)
  PROVE  /\ UNCHANGED <<tick, apiTx>>
         /\ \A v \in Workers \ {w} : pc'[v] = pc[v] /\ run'[v] = run[v]
         /\ \A i \in Jobs : i # run[w].job => lease'[i] = lease[i]
         /\ \/ UNCHANGED <<state, version>>
            \/ /\ Moves(w) /\ pc'[w] # "leasing"
               /\ \E to \in JobStates, due \in {"none", "due", "later"} :
                    Transition(run[w].job, to, due)
<1> USE DEF TypeOK, RunKnown
<1>1. ASSUME NEW j \in Jobs, StartRun(w, j) \/ DropDelivery(w, j)
      PROVE  /\ UNCHANGED <<tick, apiTx, state, version, lease>>
             /\ \A v \in Workers \ {w} : pc'[v] = pc[v] /\ run'[v] = run[v]
  BY <1>1 DEF StartRun, DropDelivery, dbVars, workerVars
<1>2. CASE AcquireLease(w)
  BY <1>2 DEF AcquireLease, Moves, JobStates
<1>3. CASE \/ LeasingRaises(w) \/ AcquireCommitFails(w) \/ AcquireLock(w) \/ RaiseFatal(w)
           \/ FenceCheck(w)
  BY <1>3 DEF LeasingRaises, AcquireCommitFails, AcquireLock, RaiseFatal, FenceCheck, dbVars
<1>4. CASE LockContended(w) \/ HandlerReturns(w) \/ RaiseRetryable(w)
  BY <1>4 DEF LockContended, HandlerReturns, RaiseRetryable, Call, dbVars
<1>5. CASE MarkRunning(w)
  <2>1. CASE Transition(run[w].job, "running", "none") /\ pc' = [pc EXCEPT ![w] = "handler"]
    BY <1>5, <2>1 DEF MarkRunning, Moves, JobStates
  <2>2. CASE UNCHANGED <<state, version, runAt>>
    BY <1>5, <2>2 DEF MarkRunning
  <2> QED BY <1>5, <2>1, <2>2 DEF MarkRunning
<1>6. CASE CommitComplete(w) \/ CommitRetry(w) \/ CommitUnacknowledged(w)
  <2>1. /\ UNCHANGED <<tick, apiTx, run>> /\ pc[w] = "commit" /\ RowFree(run[w].job)
        /\ \A v \in Workers \ {w} : pc'[v] = pc[v]
        /\ pc'[w] # "leasing"
    BY <1>6 DEF CommitComplete, CommitRetry, CommitUnacknowledged, CommitRefused,
                AfterRejection, WorkerPc
  <2>2. \A i \in Jobs : i # run[w].job => lease'[i] = lease[i]
    BY <1>6 DEF CommitComplete, CommitRetry, CommitUnacknowledged, CommitRefused,
                CloseAttempt
  <2>3. \/ UNCHANGED <<state, version>>
        \/ \E to \in JobStates, due \in {"none", "due", "later"} :
             Transition(run[w].job, to, due)
    BY <1>6 DEF CommitComplete, CommitRetry, CommitUnacknowledged, CommitRefused, JobStates
  <2> QED BY <2>1, <2>2, <2>3 DEF Moves
<1>7. CASE DeadLetter(w)
  <2>1. CASE Transition(run[w].job, "dead_lettered", "none")
    BY <1>7, <2>1 DEF DeadLetter, Moves, JobStates
  <2>2. CASE UNCHANGED <<state, version, runAt, dlq>>
    BY <1>7, <2>2 DEF DeadLetter
  <2> QED BY <1>7, <2>1, <2>2 DEF DeadLetter
<1>8. CASE Finish(w) \/ ExceptBlockFails(w) \/ Crash(w)
  BY <1>8 DEF Finish, ExceptBlockFails, Crash, dbVars
<1>9. CASE HeartbeatDb(w)
  BY <1>9 DEF HeartbeatDb
<1>10. CASE HeartbeatLocal(w) \/ RegisterWorker(w) \/ Redeliver(w)
  BY <1>10 DEF HeartbeatLocal, RegisterWorker, Redeliver, dbVars, workerVars
<1> QED
  BY <1>1, <1>2, <1>3, <1>4, <1>5, <1>6, <1>7, <1>8, <1>9, <1>10
  DEF WorkerNext, RunStep, AcquireLeaseFails
-----------------------------------------------------------------------------
(***************************************************************************)
(* A worker keeps the invariant.                                           *)
(***************************************************************************)
\* A job being created or held by a tick is not the one w moves.
LEMMA WorkerRows ==
  ASSUME IndInv, NEW w \in Workers, WorkerNext(w)
  PROVE  EnqueueAlone' /\ RowsLocked'
<1> USE DEF IndInv
<1>1. UNCHANGED <<tick, apiTx>>
  BY WorkerFrame
<1>2. CASE UNCHANGED state
  BY <1>1, <1>2 DEF EnqueueAlone, RowsLocked
<1>3. CASE /\ Moves(w)
           /\ \E to \in JobStates, due \in {"none", "due", "later"} :
                Transition(run[w].job, to, due)
  <2> DEFINE j == run[w].job
  <2>1. j \in Jobs /\ RowFree(j)
    BY <1>3 DEF Moves, RunKnown
  <2>2. \A i \in Jobs : i # j => state'[i] = state[i]
    BY <1>3 DEF Transition, TypeOK
  <2>3. state[j] # "absent"
    <3>1. CASE pc[w] = "leasing"
      BY <3>1 DEF SnapshotSound, Exists
    <3>2. CASE pc[w] \in {"locked", "commit", "burying"}
      BY <3>2 DEF HolderOwnsJob, Holding
    <3>3. CASE pc[w] = "unleased"
      BY <1>3, <3>3 DEF Moves, AssertAllowed, Allowed
    <3> QED BY <1>3, <3>1, <3>2, <3>3 DEF Moves
  <2>4. EnqueueAlone'
    BY <1>1, <2>2, <2>3 DEF EnqueueAlone, TypeOK
  <2>5. RowsLocked'
    <3>1. ASSUME NEW d \in Watchdogs, NEW i \in tick[d].done
          PROVE  state'[i] = state[i]
      <4>1. i \in Jobs
        BY DEF TypeOK, TickLocals
      <4>2. i # j
        BY <2>1 DEF RowFree
      <4> QED BY <2>2, <4>1, <4>2
    <3> QED BY <1>1, <3>1 DEF RowsLocked
  <2> QED BY <2>4, <2>5
<1> QED BY <1>2, <1>3, WorkerFrame

\* The version grows with every transition, so no snapshot turns wrong.
LEMMA WorkerSnapshot ==
  ASSUME IndInv, NEW w \in Workers, WorkerNext(w)
  PROVE  SnapshotSound'
<1> USE DEF IndInv
<1> DEFINE Sound(v) == /\ Exists(run[v].job) /\ run[v].seenVersion <= version[run[v].job]
                       /\ run[v].seenVersion = version[run[v].job]
                            => run[v].seenState = state[run[v].job]
<1>1. \A v \in Workers \ {w} : pc'[v] = pc[v] /\ run'[v] = run[v]
  BY WorkerFrame
<1>2. ASSUME NEW v \in Workers \ {w}, pc[v] \in {"leasing", "commit"}
      PROVE  Sound(v)'
  <2> DEFINE i == run[v].job
  <2>1. Sound(v) /\ i \in Jobs /\ run[v].seenVersion \in Nat
    BY <1>2 DEF SnapshotSound, RunKnown, TypeOK, RunLocals
  <2>2. CASE UNCHANGED <<state, version>>
    BY <1>1, <2>1, <2>2 DEF Exists
  <2>3. CASE \E to \in JobStates, due \in {"none", "due", "later"} :
               Transition(run[w].job, to, due)
    <3>1. CASE i = run[w].job
      <4>1. version'[i] = version[i] + 2 /\ state'[i] \in JobStates
        BY <2>1, <2>3, <3>1 DEF Transition, TypeOK
      <4>2. version[i] \in Nat /\ state'[i] \notin {"absent", "void"}
        BY <2>1, <4>1 DEF TypeOK, JobStates
      <4> QED BY <1>1, <2>1, <4>1, <4>2 DEF Exists
    <3>2. CASE i # run[w].job
      <4>1. version'[i] = version[i] /\ state'[i] = state[i]
        BY <2>1, <2>3, <3>2 DEF Transition, TypeOK
      <4> QED BY <1>1, <2>1, <4>1 DEF Exists
    <3> QED BY <3>1, <3>2
  <2> QED BY <2>2, <2>3, WorkerFrame
<1>3. ASSUME pc'[w] \in {"leasing", "commit"}
      PROVE  Sound(w)'
  <2>1. ASSUME NEW j \in Jobs, StartRun(w, j)
        PROVE  Sound(w)'
    <3>1. /\ run'[w].job = j /\ run'[w].seenState = state[j]
          /\ run'[w].seenVersion = version[j]
      BY <2>1 DEF StartRun, IdleRun, TypeOK
    <3>2. UNCHANGED <<state, version>> /\ version[j] \in Nat /\ Exists(j)
      BY <2>1 DEF StartRun, dbVars, TypeOK
    <3> QED BY <3>1, <3>2 DEF Exists
  <2>2. CASE HeartbeatDb(w) \/ HeartbeatLocal(w)
    <3>1. /\ run'[w].job = run[w].job /\ run'[w].seenState = run[w].seenState
          /\ run'[w].seenVersion = run[w].seenVersion
      BY <2>2 DEF HeartbeatDb, HeartbeatLocal, TypeOK, RunLocals
    <3>2. UNCHANGED <<state, version, pc>>
      BY <2>2 DEF HeartbeatDb, HeartbeatLocal, dbVars
    <3> QED BY <1>3, <3>1, <3>2 DEF SnapshotSound, Exists
  <2>3. CASE RegisterWorker(w) \/ Redeliver(w) \/ \E j \in Jobs : DropDelivery(w, j)
    BY <1>3, <2>3 DEF RegisterWorker, Redeliver, DropDelivery, dbVars, workerVars, SnapshotSound, Exists
  <2>4. CASE FenceCheck(w)
    <3>1. /\ run'[w].job = run[w].job /\ run'[w].seenState = state[run[w].job]
          /\ run'[w].seenVersion = version[run[w].job]
      BY <2>4 DEF FenceCheck, TypeOK, RunLocals
    <3>2. /\ UNCHANGED <<state, version>>
          /\ version[run[w].job] \in Nat /\ Exists(run[w].job)
      BY <2>4 DEF FenceCheck, dbVars, TypeOK, RunKnown, HolderOwnsJob, Holding, Exists
    <3> QED BY <3>1, <3>2 DEF Exists
  <2>5. ~(\/ (RunStep(w) /\ ~FenceCheck(w)) \/ LeasingRaises(w) \/ RaiseRetryable(w) \/ RaiseFatal(w)
          \/ ExceptBlockFails(w) \/ Crash(w) \/ AcquireCommitFails(w)
          \/ CommitUnacknowledged(w))
    <3>1. ~(AcquireLease(w) \/ LeasingRaises(w) \/ AcquireLock(w) \/ LockContended(w)
             \/ HandlerReturns(w) \/ RaiseRetryable(w) \/ RaiseFatal(w)
             \/ ExceptBlockFails(w) \/ Crash(w) \/ Finish(w) \/ DeadLetter(w))
      BY <1>3 DEF AcquireLease, LeasingRaises, AcquireLock, LockContended,
                  HandlerReturns, RaiseRetryable, RaiseFatal, Call, ExceptBlockFails,
                  Crash, Finish, DeadLetter, TypeOK
    <3>2. ~(MarkRunning(w) \/ CommitComplete(w) \/ CommitRetry(w)
             \/ AcquireCommitFails(w) \/ CommitUnacknowledged(w))
      BY <1>3 DEF MarkRunning, CommitComplete, CommitRetry, CommitRefused,
                  AcquireCommitFails, CommitUnacknowledged, AfterRejection, TypeOK
    <3> QED BY <3>1, <3>2 DEF RunStep, AcquireLeaseFails
  <2> QED BY <2>1, <2>2, <2>3, <2>4, <2>5 DEF WorkerNext, RunStep
<1> QED BY <1>1, <1>2, <1>3 DEF SnapshotSound

\* Only the worker that owns the lease moves the job or its lease token while it
\* is held: acquire_lease meets a queued job, anyone else works on a job of its
\* own.
LEMMA WorkerHolder ==
  ASSUME IndInv, NEW w \in Workers, WorkerNext(w)
  PROVE  HolderOwnsJob'
<1> USE DEF IndInv
<1> DEFINE Owns(v) == /\ OwnsLease(v)
                      /\ state[run[v].job] \in {"leased", "running", "dead_lettered"}
<1>1. ASSUME NEW v \in Workers \ {w}, Holding(v)'
      PROVE  Owns(v)'
  <2> DEFINE i == run[v].job
  <2>1. pc'[v] = pc[v] /\ run'[v] = run[v]
    BY WorkerFrame
  <2>2. Owns(v) /\ i \in Jobs
    BY <1>1, <2>1 DEF Holding, HolderOwnsJob, RunKnown
  <2>3. CASE i # run[w].job
    <3>1. lease'[i] = lease[i]
      BY <2>2, <2>3, WorkerFrame
    <3>2. state'[i] = state[i]
      <4>1. CASE UNCHANGED <<state, version>>
        BY <4>1
      <4>2. CASE \E to \in JobStates, due \in {"none", "due", "later"} :
                   Transition(run[w].job, to, due)
        BY <2>2, <2>3, <4>2 DEF Transition, TypeOK
      <4> QED BY <4>1, <4>2, WorkerFrame
    <3> QED BY <2>1, <2>2, <3>1, <3>2 DEF OwnsLease
  <2>4. CASE i = run[w].job
    <3>1. ~Holding(w)
      BY <2>2, <2>4 DEF HolderOwnsJob, OwnsLease
    <3>2. ~AcquireLease(w)
      BY <2>2, <2>4 DEF AcquireLease, SnapshotAllows, AssertAllowed, Allowed, SnapshotSound
    <3>3. lease'[i].worker = lease[i].worker /\ lease'[i].attempt = lease[i].attempt
      <4>1. CASE HeartbeatDb(w)
        BY <2>2, <2>4, <4>1 DEF HeartbeatDb, TypeOK, LeaseRow
      <4>2. CASE ~HeartbeatDb(w)
        <5>1. lease' = lease
          BY <3>1, <3>2, <4>2
          DEF WorkerNext, RunStep, AcquireLeaseFails, StartRun, DropDelivery, LeasingRaises, AcquireLock,
              LockContended, MarkRunning, HandlerReturns, RaiseRetryable, RaiseFatal, InTry,
              FenceCheck, CommitComplete, CommitRetry, DeadLetter, ExceptBlockFails, Finish,
              HeartbeatLocal, RegisterWorker, Crash, Redeliver, AcquireCommitFails,
              CommitUnacknowledged, dbVars, Holding
        <5> QED BY <5>1
      <4> QED BY <4>1, <4>2
    <3>4. UNCHANGED state \/ Transition(i, "dead_lettered", "none")
      BY <2>4, <3>1, <3>2
      DEF WorkerNext, RunStep, AcquireLeaseFails, StartRun, DropDelivery, LeasingRaises, AcquireLock,
          LockContended, MarkRunning, HandlerReturns, RaiseRetryable, RaiseFatal, InTry,
          FenceCheck, CommitComplete, CommitRetry, DeadLetter, ExceptBlockFails, Finish,
          HeartbeatDb, HeartbeatLocal, RegisterWorker, Crash, Redeliver, AcquireCommitFails,
          CommitUnacknowledged, dbVars, Holding
    <3>5. state'[i] \in {"leased", "running", "dead_lettered"}
      BY <2>2, <3>4 DEF Transition, TypeOK
    <3> QED BY <2>1, <2>2, <3>3, <3>5 DEF OwnsLease
  <2> QED BY <2>3, <2>4
<1>2. ASSUME Holding(w)'
      PROVE  Owns(w)'
  <2>1. CASE AcquireLease(w)
    <3>1. run[w].job \in Jobs
      BY <2>1 DEF AcquireLease, RunKnown
    <3>2. /\ run'[w].job = run[w].job /\ run'[w].attempt = Len(attempts[run[w].job]) + 1
      BY <2>1 DEF AcquireLease, IdleRun, TypeOK
    <3>3. /\ lease'[run[w].job].worker = w
          /\ lease'[run[w].job].attempt = Len(attempts[run[w].job]) + 1
          /\ state'[run[w].job] = "leased"
      BY <2>1, <3>1 DEF AcquireLease, Transition, TypeOK
    <3> QED BY <3>2, <3>3 DEF OwnsLease
  <2>2. CASE HeartbeatDb(w)
    <3>1. Owns(w) /\ run[w].job \in Jobs
      BY <1>2, <2>2 DEF HeartbeatDb, Holding, HolderOwnsJob, RunKnown
    <3>2. run'[w].job = run[w].job /\ run'[w].attempt = run[w].attempt /\ state' = state
      BY <2>2 DEF HeartbeatDb, TypeOK, RunLocals
    <3>3. /\ lease'[run[w].job].worker = lease[run[w].job].worker
          /\ lease'[run[w].job].attempt = lease[run[w].job].attempt
      BY <2>2, <3>1 DEF HeartbeatDb, TypeOK, LeaseRow
    <3> QED BY <3>1, <3>2, <3>3 DEF OwnsLease
  <2>3. CASE MarkRunning(w)
    <3>1. Owns(w) /\ run[w].job \in Jobs
      BY <2>3 DEF MarkRunning, Holding, HolderOwnsJob, RunKnown
    <3>2. /\ lease' = lease /\ run' = run
          /\ state'[run[w].job] \in {"leased", "running", "dead_lettered"}
      BY <2>3, <3>1 DEF MarkRunning, Transition, TypeOK
    <3> QED BY <3>1, <3>2 DEF OwnsLease
  <2>4. CASE CommitComplete(w) \/ CommitRetry(w)
    <3>1. Owns(w) /\ CommitRefused(w) /\ run' = run
      BY <1>2, <2>4 DEF CommitComplete, CommitRetry, Holding, HolderOwnsJob, TypeOK
    <3> QED BY <3>1 DEF CommitRefused, OwnsLease
  <2>5. CASE \/ AcquireLock(w) \/ FenceCheck(w) \/ HeartbeatLocal(w) \/ RegisterWorker(w)
           \/ Redeliver(w)
    <3>1. Owns(w) /\ UNCHANGED <<state, lease>>
      BY <1>2, <2>5 DEF AcquireLock, FenceCheck, HeartbeatLocal, RegisterWorker, Redeliver, dbVars,
                        workerVars, Holding, HolderOwnsJob
    <3>2. run'[w].job = run[w].job /\ run'[w].attempt = run[w].attempt
      BY <2>5 DEF AcquireLock, FenceCheck, HeartbeatLocal, RegisterWorker, Redeliver, workerVars,
                  TypeOK, RunLocals
    <3> QED BY <3>1, <3>2 DEF OwnsLease
  <2>6. CASE LockContended(w) \/ HandlerReturns(w) \/ RaiseRetryable(w) \/ RaiseFatal(w)
    <3>1. Owns(w) /\ UNCHANGED <<state, lease>>
      BY <2>6 DEF LockContended, HandlerReturns, RaiseRetryable, RaiseFatal, InTry, dbVars,
                  Holding, HolderOwnsJob
    <3>2. run'[w].job = run[w].job /\ run'[w].attempt = run[w].attempt
      BY <2>6 DEF LockContended, HandlerReturns, RaiseRetryable, RaiseFatal, Call, TypeOK,
                  RunLocals
    <3> QED BY <3>1, <3>2 DEF OwnsLease
  <2>7. ~(\/ LeasingRaises(w) \/ DeadLetter(w) \/ ExceptBlockFails(w) \/ Finish(w)
          \/ Crash(w) \/ AcquireCommitFails(w) \/ CommitUnacknowledged(w)
          \/ \E j \in Jobs : StartRun(w, j) \/ DropDelivery(w, j))
    BY <1>2 DEF LeasingRaises, DeadLetter, ExceptBlockFails, Finish, Crash, StartRun,
                DropDelivery, AcquireCommitFails, CommitUnacknowledged, Holding, TypeOK,
                workerVars
  <2> QED BY <2>1, <2>2, <2>3, <2>4, <2>5, <2>6, <2>7 DEF WorkerNext, RunStep, AcquireLeaseFails
<1> QED BY <1>1, <1>2 DEF HolderOwnsJob
-----------------------------------------------------------------------------
(***************************************************************************)
(* The API, the clock and the watchdog keep the invariant.                 *)
(***************************************************************************)
\* A step of the API moves a job that is still absent: no snapshot, no holder
\* and no tick is about it.
LEMMA ApiKeeps ==
  ASSUME IndInv, NEW j \in Jobs, ApiNext(j)
  PROVE  IndInv'
<1> USE DEF IndInv
<1>0. TypeOK'
  BY ApiType
<1>1. CASE BeginEnqueue(j)
  BY <1>0, <1>1
  DEF BeginEnqueue, dbVars, workerVars, RunKnown, EnqueueAlone, RowsLocked, SnapshotSound,
      HolderOwnsJob, OwnsLease, Holding, Exists
<1>2. CASE CommitEnqueue(j) \/ AbortEnqueue(j)
  <2>1. /\ state[j] = "absent" /\ apiTx' = apiTx \ {j}
        /\ UNCHANGED <<lease, pc, run, tick>>
    BY <1>2 DEF CommitEnqueue, AbortEnqueue, EnqueueAlone, workerVars
  <2>2. \A i \in Jobs \ {j} : state'[i] = state[i] /\ version'[i] = version[i]
    BY <1>2 DEF CommitEnqueue, AbortEnqueue, Transition, TypeOK
  <2>3. RunKnown'
    BY <2>1 DEF RunKnown
  <2>4. EnqueueAlone'
    BY <2>1, <2>2 DEF EnqueueAlone, TypeOK
  <2>5. RowsLocked'
    <3>1. \A d \in Watchdogs : \A i \in tick[d].done : i \in Jobs \ {j}
      BY <2>1 DEF RowsLocked, AssertAllowed, Allowed, TypeOK, TickLocals
    <3>2. \A d \in Watchdogs : \A i \in tick[d].done : state'[i] = state[i]
      BY <2>2, <3>1
    <3> QED BY <2>1, <3>2 DEF RowsLocked
  <2>6. SnapshotSound'
    <3>1. \A w \in Workers : pc[w] \in {"leasing", "commit"} => run[w].job \in Jobs \ {j}
      BY <2>1 DEF SnapshotSound, RunKnown, Exists
    <3> QED BY <2>1, <2>2, <3>1 DEF SnapshotSound, Exists
  <2>7. HolderOwnsJob'
    <3>1. \A w \in Workers : Holding(w) => run[w].job \in Jobs \ {j}
      BY <2>1 DEF HolderOwnsJob, RunKnown, Holding
    <3> QED BY <2>1, <2>2, <3>1 DEF HolderOwnsJob, Holding, OwnsLease
  <2> QED BY <1>0, <2>3, <2>4, <2>5, <2>6, <2>7
<1> QED BY <1>1, <1>2 DEF ApiNext, ReplayDlq

\* An expired lease, backoff or Redis key changes no fact the invariant relates.
LEMMA TimeKeeps ==
  ASSUME IndInv, (\E j \in Jobs : TimeNext(j)) \/ LeaderExpires
  PROVE  IndInv'
<1> USE DEF IndInv
<1>0. TypeOK'
  BY TimeType
<1>1. UNCHANGED <<state, version, pc, run, tick, apiTx>>
  BY DEF TimeNext, LeaseExpires, BackoffElapses, LockExpires, LeaderExpires, dbVars,
         workerVars
<1>2. \A i \in Jobs : /\ lease'[i].worker = lease[i].worker
                      /\ lease'[i].attempt = lease[i].attempt
  <2>1. ASSUME NEW j \in Jobs, LeaseExpires(j), NEW i \in Jobs
        PROVE  lease'[i].worker = lease[i].worker /\ lease'[i].attempt = lease[i].attempt
    <3>1. lease[j] \in LeaseRow
      BY DEF TypeOK
    <3> QED BY <2>1, <3>1 DEF LeaseExpires, TypeOK, LeaseRow
  <2>2. ASSUME NEW j \in Jobs, BackoffElapses(j) \/ LockExpires(j)
        PROVE  lease' = lease
    BY <2>2 DEF BackoffElapses, LockExpires, dbVars
  <2>3. LeaderExpires => lease' = lease
    BY DEF LeaderExpires, dbVars
  <2> QED BY <2>1, <2>2, <2>3 DEF TimeNext
<1>3. HolderOwnsJob'
  <2>1. \A w \in Workers : Holding(w) => run[w].job \in Jobs
    BY DEF RunKnown, Holding
  <2> QED BY <1>1, <1>2, <2>1 DEF HolderOwnsJob, Holding, OwnsLease
<1>4. RunKnown' /\ EnqueueAlone' /\ RowsLocked'
  BY <1>1 DEF RunKnown, EnqueueAlone, RowsLocked
<1>5. SnapshotSound'
  BY <1>1 DEF SnapshotSound, Exists
<1> QED BY <1>0, <1>3, <1>4, <1>5

\* A tick takes jobs no worker holds and no other tick has, and its commit
\* moves just those.
LEMMA WatchdogKeeps ==
  ASSUME IndInv, NEW d \in Watchdogs, WatchdogNext(d)
  PROVE  IndInv'
<1> USE DEF IndInv
<1>0. TypeOK'
  BY WatchdogType
<1>1. UNCHANGED <<pc, run, apiTx, lease>>
  BY DEF WatchdogNext, TickStep, TickBegin, TickReclaim, TickFails, TickHangs, TickEnqueue,
         TickCommit, TickCrash, dbVars, workerVars
<1>2. RunKnown'
  BY <1>1 DEF RunKnown
<1>3. CASE TickCommit(d)
  <2> DEFINE done == tick[d].done
  <2>1. done \subseteq Jobs /\ tick' = [tick EXCEPT ![d] = IdleTick]
    BY <1>3 DEF TickCommit, TypeOK, TickLocals
  <2>2. \A i \in Jobs \ done : state'[i] = state[i] /\ version'[i] = version[i]
    BY <1>3 DEF TickCommit
  <2>3. \A i \in done : state'[i] = "queued" /\ version'[i] = version[i] + 2
    BY <1>3, <2>1 DEF TickCommit
  <2>4. \A i \in done : state[i] \in {"pending", "retrying", "paused"}
    BY DEF RowsLocked, AssertAllowed, Allowed
  <2>5. EnqueueAlone'
    BY <1>1, <2>2, <2>4 DEF EnqueueAlone, TypeOK
  <2>6. RowsLocked'
    <3>1. \A e \in Watchdogs \ {d} : tick'[e] = tick[e] /\ tick[e].done \subseteq Jobs \ done
      BY <2>1 DEF RowsLocked, TypeOK, TickLocals
    <3>2. tick'[d].done = {}
      BY <2>1 DEF IdleTick, TypeOK
    <3> QED BY <2>2, <3>1, <3>2 DEF RowsLocked
  <2>7. SnapshotSound'
    <3>1. ASSUME NEW w \in Workers, pc[w] \in {"leasing", "commit"}
          PROVE  /\ Exists(run[w].job)' /\ run[w].seenVersion <= version'[run[w].job]
                 /\ run[w].seenVersion = version'[run[w].job]
                      => run[w].seenState = state'[run[w].job]
      <4>1. /\ run[w].job \in Jobs /\ run[w].seenVersion \in Nat
            /\ version[run[w].job] \in Nat
            /\ Exists(run[w].job) /\ run[w].seenVersion <= version[run[w].job]
            /\ run[w].seenVersion = version[run[w].job]
                 => run[w].seenState = state[run[w].job]
        BY <3>1 DEF RunKnown, SnapshotSound, TypeOK, RunLocals
      <4>2. CASE run[w].job \in done
        BY <1>1, <2>3, <4>1, <4>2 DEF Exists
      <4>3. CASE run[w].job \notin done
        BY <1>1, <2>2, <4>1, <4>3 DEF Exists
      <4> QED BY <4>2, <4>3
    <3> QED BY <1>1, <3>1 DEF SnapshotSound
  <2>8. HolderOwnsJob'
    <3>1. \A w \in Workers : Holding(w) => run[w].job \in Jobs \ done
      BY <2>4 DEF HolderOwnsJob, RunKnown, Holding
    <3> QED BY <1>1, <2>2, <3>1 DEF HolderOwnsJob, Holding, OwnsLease
  <2> QED BY <1>0, <1>2, <2>5, <2>6, <2>7, <2>8
<1>4. CASE ~TickCommit(d)
  <2>1. UNCHANGED <<state, version>>
    BY <1>4 DEF WatchdogNext, TickStep, TickBegin, TickReclaim, TickFails, TickHangs,
                TickEnqueue, TickCrash, dbVars
  <2>2. EnqueueAlone' /\ SnapshotSound' /\ HolderOwnsJob'
    BY <1>1, <2>1 DEF EnqueueAlone, SnapshotSound, Exists, HolderOwnsJob, Holding, OwnsLease
  <2>3. \A e \in Watchdogs \ {d} : tick'[e] = tick[e]
    BY <1>4 DEF WatchdogNext, TickStep, TickBegin, TickReclaim, TickFails, TickHangs,
                TickEnqueue, TickCrash, TypeOK
  <2>4. RowsLocked'
    <3>1. CASE tick'[d].done \subseteq tick[d].done
      BY <2>1, <2>3, <3>1 DEF RowsLocked
    <3>2. ASSUME NEW j \in Jobs, TickReclaim(d, j)
          PROVE  RowsLocked'
      <4>1. /\ tick'[d].done = tick[d].done \cup {j} /\ AssertAllowed(state[j], "queued")
            /\ \A e \in Watchdogs \ {d} : j \notin tick[e].done
        BY <3>2 DEF TickReclaim, RowFreeFor, TypeOK, TickLocals
      <4> QED BY <2>1, <2>3, <4>1 DEF RowsLocked
    <3>3. CASE \A j \in Jobs : ~TickReclaim(d, j)
      <4>1. CASE TickBegin(d) \/ TickFails(d) \/ TickCrash(d)
        BY <3>1, <4>1 DEF TickBegin, TickFails, TickCrash, IdleTick, TypeOK
      <4>2. CASE TickHangs(d) \/ \E o \in BOOLEAN : TickEnqueue(d, o)
        <5>1. tick'[d].done = tick[d].done
          BY <4>2 DEF TickHangs, TickEnqueue, TypeOK, TickLocals
        <5> QED BY <3>1, <5>1
      <4> QED BY <1>4, <3>3, <4>1, <4>2 DEF WatchdogNext, TickStep
    <3> QED BY <3>2, <3>3
  <2> QED BY <1>0, <1>2, <2>2, <2>4
<1> QED BY <1>3, <1>4
-----------------------------------------------------------------------------
(***************************************************************************)
(* The theorems.                                                           *)
(***************************************************************************)
LEMMA InitHolds == Init => IndInv
<1> SUFFICES ASSUME Init PROVE IndInv
  OBVIOUS
<1>1. NoLease \in LeaseRow /\ IdleRun \in RunLocals /\ IdleTick \in TickLocals
  BY IdleRunType DEF NoLease, LeaseRow, IdleTick, TickLocals
<1>2. TypeOK
  BY <1>1 DEF Init, TypeOK, WorkerPc
<1>3. \A w \in Workers : pc[w] = "idle" /\ run[w] = IdleRun
  BY DEF Init
<1>4. RunKnown /\ SnapshotSound /\ HolderOwnsJob
  BY <1>3 DEF RunKnown, SnapshotSound, HolderOwnsJob, Holding
<1>5. EnqueueAlone /\ RowsLocked
  BY DEF Init, EnqueueAlone, RowsLocked, IdleTick
<1> QED BY <1>2, <1>4, <1>5 DEF IndInv

LEMMA NextKeeps == IndInv /\ [Next]_vars => IndInv'
<1> SUFFICES ASSUME IndInv, [Next]_vars
             PROVE  IndInv'
  OBVIOUS
<1>1. ASSUME NEW w \in Workers, WorkerNext(w)
      PROVE  IndInv'
  <2>1. TypeOK' /\ RunKnown'
    BY <1>1, WorkerType DEF IndInv
  <2>2. EnqueueAlone' /\ RowsLocked' /\ SnapshotSound' /\ HolderOwnsJob'
    BY <1>1, WorkerRows, WorkerSnapshot, WorkerHolder
  <2> QED BY <2>1, <2>2 DEF IndInv
<1>2. CASE UNCHANGED vars
  BY <1>2 DEF vars, dbVars, redisVars, workerVars, IndInv, TypeOK, RunKnown, EnqueueAlone,
              RowsLocked, SnapshotSound, Exists, HolderOwnsJob, Holding, OwnsLease
<1> QED
  BY <1>1, <1>2, ApiKeeps, TimeKeeps, WatchdogKeeps DEF Next

\* Every reachable state keeps the invariant: versions make snapshots sound, an
\* uncommitted reclaim keeps its rows to itself, and the lease of an executing
\* worker stays its own while the job is leased or running.
THEOREM Invariance == Spec => []IndInv
BY InitHolds, NextKeeps, PTL DEF Spec

\* The tables, keys, messages and locals of run_job keep their types.
THEOREM Typing == Spec => []TypeOK
<1>1. IndInv => TypeOK
  BY DEF IndInv
<1> QED BY <1>1, Invariance, PTL

\* No two workers execute the same job at the same time, for any number of jobs,
\* workers and watchdogs, any crash, duplicate message or expired lease or lock:
\* two holders would both own the one lease row.
THEOREM Exclusive == Spec => []ExclusiveExecution
<1>1. IndInv => ExclusiveExecution
  BY DEF IndInv, HolderOwnsJob, OwnsLease, ExclusiveExecution
<1> QED BY <1>1, Invariance, PTL
=============================================================================
