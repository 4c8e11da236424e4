-------------------------- MODULE JobOrchestration --------------------------
(***************************************************************************)
(* The durable job orchestration of gst_automation.                        *)
(*                                                                         *)
(* API processes create jobs (OrchestratorService.create_and_enqueue),     *)
(* worker processes run them (WorkerRuntime.run_job, a Celery task), and a *)
(* periodic watchdog (WatchdogService.tick) reclaims expired leases and    *)
(* re-enqueues runnable jobs.  They meet in three places: PostgreSQL       *)
(* (tables jobs, job_leases, job_attempts, dead_letter_jobs, workers),     *)
(* Redis (one lock per job and the watchdog's leader lock) and the Celery  *)
(* broker.                                                                 *)
(*                                                                         *)
(* One action is one database transaction, one Redis command or one step   *)
(* of a coroutine between two awaits.  A transaction's reads and its       *)
(* commit are separate actions wherever another process can commit in      *)
(* between and the code acts on what it read.  Time is not counted: a TTL  *)
(* or a backoff may elapse at any moment after it was set.                 *)
(***************************************************************************)
EXTENDS Integers, Sequences, FiniteSets, JobFsm

CONSTANTS
  Jobs,                  \* job ids (UUIDs; each is created at most once)
  Workers,               \* worker names (compute_worker_name)
  Watchdogs,             \* processes that execute the watchdog_tick task
  Clients,               \* client ids
  ClientOf,              \* client of each job, or Nobody for client_id None
  LowPriority,           \* jobs with priority >= 4 (paused by backpressure)
  PerClientConcurrency,  \* settings.scheduler_per_client_concurrency
  Pids,                  \* process ids a worker may be (re)started with
  Nobody,                \* SQL NULL / missing Redis key
  MaxAttempts,           \* bound: deliveries stop once a job used this many
  MaxFence,              \* bound: heartbeats stop at this fencing token
  MaxMessages,           \* bound: identical broker messages counted per job
  MaxFaults              \* bound: crashes, failed COMMITs, early redeliveries

ASSUME NobodyAssumption ==
  Nobody \notin Jobs \cup Workers \cup Watchdogs \cup Clients
ASSUME ClientAssumption ==
  /\ ClientOf \in [Jobs -> Clients \cup {Nobody}]
  /\ LowPriority \subseteq Jobs
ASSUME BoundAssumption ==
  /\ PerClientConcurrency \in Nat /\ MaxAttempts \in Nat /\ MaxFence \in Nat
  /\ MaxMessages \in Nat /\ MaxFaults \in Nat
  /\ Pids # {}

VARIABLES
  state,     \* jobs.state; "absent" before the insert commits, "void" if never
  version,   \* jobs.version
  runAt,     \* jobs.next_run_at against now: "none", "due" or "later"
  lease,     \* job_leases, one row per job
  attempts,  \* job_attempts: attempts[j][n] is the status of attempt_no n
  dlq,       \* jobs with a dead_letter_jobs row
  reg,       \* workers: generation and pid last registered (0: no row)
  lock,      \* Redis key lock:job:<id>: the worker whose token it stores
  leader,    \* Redis key lock:watchdog:leader
  msgs,      \* run_job messages in the broker, per job
  apiTx,     \* jobs whose create_and_enqueue transaction is open
  pc,        \* where each worker is in run_job
  run,       \* run_job's local variables
  pid,       \* process id each worker runs under
  tick,      \* the open watchdog transaction of each watchdog process
  faults     \* crashes, failed COMMITs and early redeliveries so far

dbVars     == <<state, version, runAt, lease, attempts, dlq, reg>>
redisVars  == <<lock, leader>>
workerVars == <<pc, run, pid, faults>>
vars == <<dbVars, redisVars, msgs, apiTx, workerVars, tick>>

AttemptStatus == {"running", "completed", "retrying"}
WorkerPc == {"idle", "leasing", "leased", "locked", "handler", "fence",
             "commit", "burying", "unleased", "finally"}
Goals == {"none", "complete", "contend", "retry"}

\* A job_leases row.  lease_token is a fresh UUID: the pair of the worker and
\* the attempt it was created with identifies it.
LeaseRow == [worker : Workers \cup {Nobody}, attempt : Nat, gen : Nat,
             fence : Nat, live : BOOLEAN]
NoLease == [worker |-> Nobody, attempt |-> 0, gen |-> 0, fence |-> 0,
            live |-> FALSE]

\* run_job's locals: the job, attempt_no, fencing_token (fence), the fencing
\* token passed to a pending call (arg), the ORM snapshot of the job and the
\* lease row taken at the start (seen*; seenFence 0: no row), the lock handle
\* (locked) and a heartbeat result not yet assigned (hb, 0: none).
RunLocals == [job : Jobs \cup {Nobody}, attempt : Nat, fence : Nat, arg : Nat,
              seenState : JobStates \cup {"absent"}, seenVersion : Nat,
              seenFence : Nat, goal : Goals, locked : BOOLEAN, hb : Nat]
IdleRun == [job |-> Nobody, attempt |-> 0, fence |-> 0, arg |-> 0,
            seenState |-> "absent", seenVersion |-> 0, seenFence |-> 0,
            goal |-> "none", locked |-> FALSE, hb |-> 0]

\* A watchdog tick: expired leases still to reclaim (todo) and jobs already
\* moved to queued in the open transaction (done), whose rows stay locked.
TickLocals == [pc : {"idle", "reclaim", "hung", "commit"},
               todo : SUBSET Jobs, done : SUBSET Jobs]
IdleTick == [pc |-> "idle", todo |-> {}, done |-> {}]

TypeOK ==
  /\ state \in [Jobs -> JobStates \cup {"absent", "void"}]
  /\ version \in [Jobs -> Nat]
  /\ runAt \in [Jobs -> {"none", "due", "later"}]
  /\ lease \in [Jobs -> LeaseRow]
  /\ attempts \in [Jobs -> Seq(AttemptStatus)]
  /\ dlq \in SUBSET Jobs
  /\ reg \in [Workers -> [gen : Nat, pid : Pids]]
  /\ lock \in [Jobs -> Workers \cup {Nobody}]
  /\ leader \in Watchdogs \cup {Nobody}
  /\ msgs \in [Jobs -> Nat]
  /\ apiTx \in SUBSET Jobs
  /\ pc \in [Workers -> WorkerPc]
  /\ run \in [Workers -> RunLocals]
  /\ pid \in [Workers -> Pids]
  /\ tick \in [Watchdogs -> TickLocals]
  /\ faults \in Nat

Init ==
  /\ state = [j \in Jobs |-> "absent"]
  /\ version = [j \in Jobs |-> 0]
  /\ runAt = [j \in Jobs |-> "none"]
  /\ lease = [j \in Jobs |-> NoLease]
  /\ attempts = [j \in Jobs |-> << >>]
  /\ dlq = {}
  /\ pid \in [Workers -> Pids]
  /\ reg = [w \in Workers |-> [gen |-> 0, pid |-> pid[w]]]
  /\ lock = [j \in Jobs |-> Nobody]
  /\ leader = Nobody
  /\ msgs = [j \in Jobs |-> 0]
  /\ apiTx = {}
  /\ pc = [w \in Workers |-> "idle"]
  /\ run = [w \in Workers |-> IdleRun]
  /\ tick = [d \in Watchdogs |-> IdleTick]
  /\ faults = 0
-----------------------------------------------------------------------------
(***************************************************************************)
(* Shared steps: the row lock of a transition, the transition itself, the  *)
(* broker.                                                                 *)
(***************************************************************************)
\* Whether the row of jobs, and the one of job_leases, is committed.
Exists(j) == state[j] \notin {"absent", "void"}
HasLease(j) == lease[j].worker # Nobody

\* SELECT ... FOR UPDATE on jobs blocks while a watchdog transaction holds the
\* row; every other transition commits in the action that takes the lock.
RowFree(j) == \A d \in Watchdogs : j \notin tick[d].done

\* The UPDATE of TransitionService.transition.  jobs.version grows by two: the
\* ORM-enabled UPDATE already refreshes the loaded row to version + 1, and the
\* in-memory increment that follows it is flushed as a second UPDATE.
Transition(j, to, due) ==
  /\ state' = [state EXCEPT ![j] = to]
  /\ version' = [version EXCEPT ![j] = @ + 2]
  /\ runAt' = [runAt EXCEPT ![j] = due]

\* celery.send_task(run_job); identical messages beyond MaxMessages are not
\* counted.
Sent(j) == IF msgs[j] < MaxMessages THEN msgs[j] + 1 ELSE msgs[j]

\* lease_repo.get_fencing_token / heartbeat / clear all address the row by
\* job_id and lease_token.
OwnsLease(w) ==
  LET l == lease[run[w].job]
  IN  l.worker = w /\ l.attempt = run[w].attempt
-----------------------------------------------------------------------------
(***************************************************************************)
(* API process: OrchestratorService.create_and_enqueue under the route     *)
(* that commits after it returns, and DlqReplayService.replay.             *)
(***************************************************************************)
\* create_and_enqueue up to its return: the insert and pending -> queued are
\* in the open transaction, the message is already in the broker.
BeginEnqueue(j) ==
  /\ state[j] = "absent" /\ j \notin apiTx
  /\ apiTx' = apiTx \cup {j}
  /\ msgs' = [msgs EXCEPT ![j] = Sent(j)]
  /\ UNCHANGED <<dbVars, redisVars, workerVars, tick>>

\* The route's session.commit().
CommitEnqueue(j) ==
  /\ j \in apiTx
  /\ apiTx' = apiTx \ {j}
  /\ Transition(j, "queued", "due")
  /\ UNCHANGED <<lease, attempts, dlq, reg, redisVars, msgs, workerVars, tick>>

\* The commit fails: the row never exists, its message stays in the broker.
AbortEnqueue(j) ==
  /\ j \in apiTx
  /\ apiTx' = apiTx \ {j}
  /\ state' = [state EXCEPT ![j] = "void"]
  /\ UNCHANGED <<version, runAt, lease, attempts, dlq, reg, redisVars, msgs,
                 workerVars, tick>>

\* replay: a new job with the dead letter's kind and payload and no client.
\* The dead letter stays, so it can be replayed again.
ReplayDlq(d, j) ==
  /\ d \in dlq
  /\ ClientOf[j] = Nobody
  /\ BeginEnqueue(j)
-----------------------------------------------------------------------------
(***************************************************************************)
(* Worker process: WorkerRuntime.run_job.                                  *)
(***************************************************************************)
\* Mutant of DropDelivery: a message is acknowledged that was not delivered.
DropDeliveryUnguarded(w, j) ==
  /\ pc[w] = "idle" /\ ~Exists(j) /\ msgs[j] > -1
  /\ msgs' = [msgs EXCEPT ![j] = @ - 1]
  /\ UNCHANGED <<dbVars, redisVars, apiTx, workerVars, tick>>

\* The broker delivers a message whose job row is not (or not yet) committed:
\* acquire_lease raises before there is a lease token, nothing is recorded
\* and the message is acknowledged.
DropDelivery(w, j) ==
  /\ pc[w] = "idle" /\ msgs[j] > 0 /\ ~Exists(j)
  /\ msgs' = [msgs EXCEPT ![j] = @ - 1]
  /\ UNCHANGED <<dbVars, redisVars, apiTx, workerVars, tick>>

\* acquire_lease: JobRepo.get and LeaseRepo.get load the rows into the session
\* before anything is locked.
StartRun(w, j) ==
  /\ pc[w] = "idle" /\ msgs[j] > 0 /\ Exists(j)
  /\ state[j] = "queued" => Len(attempts[j]) < MaxAttempts
  /\ msgs' = [msgs EXCEPT ![j] = @ - 1]
  /\ pc' = [pc EXCEPT ![w] = "leasing"]
  /\ run' = [run EXCEPT ![w] =
               [IdleRun EXCEPT !.job = j, !.seenState = state[j],
                               !.seenVersion = version[j],
                               !.seenFence = lease[j].fence]]
  /\ UNCHANGED <<dbVars, redisVars, apiTx, pid, faults, tick>>

\* Mutant of SnapshotAllows: UPDATE without WHERE version = ...
SnapshotAllowsNoCas(w, to) == AssertAllowed(run[w].seenState, to)

\* The compare-and-swap of TransitionService.transition on a row the session
\* loaded earlier: SELECT FOR UPDATE returns the loaded object, so assert_allowed
\* sees the old state, and UPDATE ... WHERE version = ... decides.
SnapshotAllows(w, to) ==
  /\ AssertAllowed(run[w].seenState, to)
  /\ version[run[w].job] = run[w].seenVersion

\* LeaseRepo.upsert inserts when the snapshot showed no row; a row inserted
\* meanwhile breaks the unique constraint.
UpsertAllows(w) == run[w].seenFence = 0 => ~HasLease(run[w].job)

\* The rest of acquire_lease and its commit: lease row, attempt row and
\* queued -> leased in one transaction.
AcquireLease(w) ==
  LET j == run[w].job
      n == Len(attempts[j]) + 1
      f == run[w].seenFence + 1
  IN  /\ pc[w] = "leasing" /\ RowFree(j)
      /\ SnapshotAllows(w, "leased") /\ UpsertAllows(w)
      /\ Transition(j, "leased", "none")
      /\ lease' = [lease EXCEPT ![j] =
                     [worker |-> w, attempt |-> n, gen |-> reg[w].gen,
                      fence |-> f, live |-> TRUE]]
      /\ attempts' = [attempts EXCEPT ![j] = Append(@, "running")]
      /\ pc' = [pc EXCEPT ![w] = "leased"]
      /\ run' = [run EXCEPT ![w] = [IdleRun EXCEPT !.job = j, !.attempt = n,
                                                   !.fence = f]]
      /\ UNCHANGED <<dlq, reg, redisVars, msgs, apiTx, pid, faults, tick>>

\* run_job assigns lease_token before the COMMIT.  When that fails, the rows are
\* rolled back, but the except block believes it has a lease.
AcquireCommitFails(w) ==
  /\ faults < MaxFaults
  /\ faults' = faults + 1
  /\ pc[w] = "leasing" /\ RowFree(run[w].job)
  /\ SnapshotAllows(w, "leased") /\ UpsertAllows(w)
  /\ pc' = [pc EXCEPT ![w] = "unleased"]
  /\ UNCHANGED <<dbVars, redisVars, msgs, apiTx, run, pid, tick>>

\* acquire_lease raises: rolled back, lease_token is None, the exception is only
\* logged and the message acknowledged.
LeasingRaises(w) ==
  /\ pc[w] = "leasing"
  /\ pc' = [pc EXCEPT ![w] = "idle"]
  /\ run' = [run EXCEPT ![w] = IdleRun]
  /\ UNCHANGED <<dbVars, redisVars, msgs, apiTx, pid, faults, tick>>

\* It does so when the job is not queued, for a competing writer and for a
\* duplicate lease row (a database error may make it raise at any point).
AcquireLeaseFails(w) ==
  /\ RowFree(run[w].job)
  /\ ~(SnapshotAllows(w, "leased") /\ UpsertAllows(w))
  /\ LeasingRaises(w)

\* lock_mgr.acquire succeeds (SET NX); the heartbeat and renew tasks start.
AcquireLock(w) ==
  /\ pc[w] = "leased" /\ lock[run[w].job] = Nobody
  /\ lock' = [lock EXCEPT ![run[w].job] = w]
  /\ pc' = [pc EXCEPT ![w] = "locked"]
  /\ run' = [run EXCEPT ![w].locked = TRUE]
  /\ UNCHANGED <<dbVars, leader, msgs, apiTx, pid, faults, tick>>

\* complete_job or schedule_retry is called with the fencing token known now.
Call(w, goal) ==
  /\ pc' = [pc EXCEPT ![w] = "fence"]
  /\ run' = [run EXCEPT ![w].goal = goal, ![w].arg = run[w].fence]

\* lock_mgr.acquire returns None: schedule_retry is called at once.
LockContended(w) ==
  /\ pc[w] = "leased" /\ lock[run[w].job] # Nobody
  /\ Call(w, "contend")
  /\ UNCHANGED <<dbVars, redisVars, msgs, apiTx, pid, faults, tick>>

\* The transition leased -> running, which looks at no token.
MarkRunning(w) ==
  LET j == run[w].job
  IN  /\ pc[w] = "locked" /\ RowFree(j)
      /\ IF AssertAllowed(state[j], "running")
         THEN /\ Transition(j, "running", "none")
              /\ pc' = [pc EXCEPT ![w] = "handler"]
         ELSE /\ pc' = [pc EXCEPT ![w] = "burying"]
              /\ UNCHANGED <<state, version, runAt>>
      /\ UNCHANGED <<lease, attempts, dlq, reg, redisVars, msgs, apiTx, run, pid,
                     faults, tick>>

\* The handler returns within its budget.
HandlerReturns(w) ==
  /\ pc[w] = "handler"
  /\ Call(w, "complete")
  /\ UNCHANGED <<dbVars, redisVars, msgs, apiTx, pid, faults, tick>>

\* Where the try block of run_job awaits: an exception there enters the except
\* block with a lease token in hand.
InTry(w) ==
  \/ pc[w] \in {"leased", "locked", "handler"}
  \/ pc[w] \in {"fence", "commit"} /\ run[w].goal # "retry"

\* An exception RetryEngine._classify finds retryable (a TimeoutError, of the
\* handler's budget or of a database connection; a StorageError;
\* GstAuthRequired).
RaiseRetryable(w) ==
  /\ InTry(w)
  /\ Call(w, "retry")
  /\ UNCHANGED <<dbVars, redisVars, msgs, apiTx, pid, faults, tick>>

\* Any other exception, database and Redis errors included: unknown_failure.
RaiseFatal(w) ==
  /\ InTry(w)
  /\ pc' = [pc EXCEPT ![w] = "burying"]
  /\ UNCHANGED <<dbVars, redisVars, msgs, apiTx, run, pid, faults, tick>>

\* complete_job and schedule_retry admit a caller whose lease token is on the
\* row, with the row's fencing token and its worker's current generation.
FenceAdmits(w) ==
  LET l == lease[run[w].job]
  IN  OwnsLease(w) /\ l.fence = run[w].arg /\ reg[l.worker].gen = l.gen

\* Mutant of AfterRejection: the except block calls schedule_retry again.
AfterRejectionAgain(w) == IF run[w].goal = "retry" THEN "fence" ELSE "burying"

\* After a rejected or illegal call: inside the try block the exception is
\* classified unknown_failure and the job is buried; inside the except block it
\* leaves run_job.
AfterRejection(w) == IF run[w].goal = "retry" THEN "finally" ELSE "burying"

\* The token checks, and JobRepo.get, which loads the row the transition uses.
FenceCheck(w) ==
  LET j == run[w].job
  IN  /\ pc[w] = "fence"
      /\ pc' = [pc EXCEPT ![w] = IF FenceAdmits(w) THEN "commit"
                                 ELSE AfterRejection(w)]
      /\ run' = [run EXCEPT ![w].seenState = state[j],
                            ![w].seenVersion = version[j]]
      /\ UNCHANGED <<dbVars, redisVars, msgs, apiTx, pid, faults, tick>>

\* Mutant of CloseAttempt: finish_attempt is forgotten.
CloseAttemptForgotten(w, status) ==
  /\ attempts' = attempts
  /\ lease' = IF OwnsLease(w) THEN [lease EXCEPT ![run[w].job].live = FALSE]
              ELSE lease

\* finish_attempt and LeaseRepo.clear, which only sets expires_at to now.
CloseAttempt(w, status) ==
  LET j == run[w].job
  IN  /\ attempts' = [attempts EXCEPT ![j][run[w].attempt] = status]
      /\ lease' = IF OwnsLease(w) THEN [lease EXCEPT ![j].live = FALSE] ELSE lease

\* The transition of complete_job or schedule_retry is refused.
CommitRefused(w) ==
  /\ pc' = [pc EXCEPT ![w] = AfterRejection(w)]
  /\ UNCHANGED <<state, version, runAt, lease, attempts>>

\* The rest of complete_job.
CommitComplete(w) ==
  /\ pc[w] = "commit" /\ run[w].goal = "complete" /\ RowFree(run[w].job)
  /\ IF SnapshotAllows(w, "completed")
     THEN /\ Transition(run[w].job, "completed", "none")
          /\ CloseAttempt(w, "completed")
          /\ pc' = [pc EXCEPT ![w] = "finally"]
     ELSE CommitRefused(w)
  /\ UNCHANGED <<dlq, reg, redisVars, msgs, apiTx, run, pid, faults, tick>>

\* The rest of schedule_retry; next_run_at lies in the future.
CommitRetry(w) ==
  /\ pc[w] = "commit" /\ run[w].goal \in {"contend", "retry"}
  /\ RowFree(run[w].job)
  /\ IF SnapshotAllows(w, "retrying")
     THEN /\ Transition(run[w].job, "retrying", "later")
          /\ CloseAttempt(w, "retrying")
          /\ pc' = [pc EXCEPT ![w] = "finally"]
     ELSE CommitRefused(w)
  /\ UNCHANGED <<dlq, reg, redisVars, msgs, apiTx, run, pid, faults, tick>>

\* The COMMIT of schedule_retry for a contended lock takes effect but is answered
\* with an error: the except block treats a job it gave back.  (After complete_job
\* it finds a completed job, which cannot be moved.)
CommitUnacknowledged(w) ==
  /\ faults < MaxFaults
  /\ faults' = faults + 1
  /\ pc[w] = "commit" /\ run[w].goal = "contend" /\ RowFree(run[w].job)
  /\ SnapshotAllows(w, "retrying")
  /\ Transition(run[w].job, "retrying", "later")
  /\ CloseAttempt(w, "retrying")
  /\ pc' = [pc EXCEPT ![w] = "unleased"]
  /\ UNCHANGED <<dlq, reg, redisVars, msgs, apiTx, run, pid, tick>>

\* DlqService.dead_letter: checks no token, and leaves the attempt and the lease
\* as they are.
DeadLetter(w) ==
  LET j == run[w].job
  IN  /\ pc[w] \in {"burying", "unleased"} /\ RowFree(j)
      /\ IF AssertAllowed(state[j], "dead_lettered")
         THEN Transition(j, "dead_lettered", "none") /\ dlq' = dlq \cup {j}
         ELSE UNCHANGED <<state, version, runAt, dlq>>
      /\ pc' = [pc EXCEPT ![w] = "finally"]
      /\ UNCHANGED <<lease, attempts, reg, redisVars, msgs, apiTx, run, pid, faults,
                     tick>>

\* A database error inside the except block, or its schedule_retry without a
\* lease: nothing is recorded.
ExceptBlockFails(w) ==
  /\ \/ pc[w] \in {"fence", "commit"} /\ run[w].goal = "retry"
     \/ pc[w] \in {"burying", "unleased"}
  /\ pc' = [pc EXCEPT ![w] = "finally"]
  /\ UNCHANGED <<dbVars, redisVars, msgs, apiTx, run, pid, faults, tick>>

\* RedisLockManager.release: delete the key if it still holds this token.  A
\* worker with a lock handle never meets a key left by an earlier run of its
\* own, since SET NX needed that key gone.
ReleasedLock(w) ==
  IF run[w].locked /\ lock[run[w].job] = w
  THEN [lock EXCEPT ![run[w].job] = Nobody] ELSE lock

\* The finally block: tasks cancelled, lock released (or the release raises and
\* is logged), message acknowledged.
Finish(w) ==
  /\ pc[w] = "finally"
  /\ lock' \in {lock, ReleasedLock(w)}
  /\ pc' = [pc EXCEPT ![w] = "idle"]
  /\ run' = [run EXCEPT ![w] = IdleRun]
  /\ UNCHANGED <<dbVars, leader, msgs, apiTx, pid, faults, tick>>
-----------------------------------------------------------------------------
(***************************************************************************)
(* Tasks beside run_job in the same process: the lease heartbeat and the   *)
(* worker registration.  The lock renewal moves nothing but a deadline.    *)
(***************************************************************************)
\* Mutant of HeartbeatDb: LeaseRepo.upsert instead of the update by token.
HeartbeatDbUpsert(w) ==
  LET j == run[w].job
  IN  /\ run[w].locked /\ run[w].hb = 0
      /\ HasLease(j) /\ lease[j].fence < MaxFence
      /\ lease' = [lease EXCEPT ![j].fence = @ + 1, ![j].live = TRUE,
                               ![j].worker = w, ![j].attempt = run[w].attempt]
      /\ run' = [run EXCEPT ![w].hb = lease[j].fence + 1]
      /\ UNCHANGED <<state, version, runAt, attempts, dlq, reg, redisVars, msgs,
                     apiTx, pc, pid, faults, tick>>

\* LeaseRepo.heartbeat and its commit: the row's fencing token grows before the
\* coroutine learns it.  expires_at is not looked at: a cleared lease revives.
HeartbeatDb(w) ==
  LET j == run[w].job
  IN  /\ run[w].locked /\ run[w].hb = 0
      /\ OwnsLease(w) /\ lease[j].fence < MaxFence
      /\ lease' = [lease EXCEPT ![j].fence = @ + 1, ![j].live = TRUE]
      /\ run' = [run EXCEPT ![w].hb = lease[j].fence + 1]
      /\ UNCHANGED <<state, version, runAt, attempts, dlq, reg, redisVars, msgs,
                     apiTx, pc, pid, faults, tick>>

\* Mutant of HeartbeatLocal: no nonlocal declaration, the result is lost.
HeartbeatLocalLost(w) ==
  /\ run[w].hb # 0
  /\ run' = [run EXCEPT ![w].hb = 0]
  /\ UNCHANGED <<dbVars, redisVars, msgs, apiTx, pc, pid, faults, tick>>

\* fencing_token = int(new_fence).
HeartbeatLocal(w) ==
  /\ run[w].hb # 0
  /\ run' = [run EXCEPT ![w].fence = run[w].hb, ![w].hb = 0]
  /\ UNCHANGED <<dbVars, redisVars, msgs, apiTx, pc, pid, faults, tick>>

\* heartbeat_tick: WorkerRepo.upsert_worker counts a generation per process id.
RegisterWorker(w) ==
  /\ reg' = [reg EXCEPT ![w] =
               [gen |-> IF reg[w].gen = 0 \/ reg[w].pid # pid[w]
                        THEN reg[w].gen + 1 ELSE reg[w].gen,
                pid |-> pid[w]]]
  /\ reg' # reg
  /\ UNCHANGED <<state, version, runAt, lease, attempts, dlq, redisVars, msgs,
                 apiTx, workerVars, tick>>

\* The process dies and is restarted under the same worker name; the broker
\* redelivers the message it had not acknowledged (task_acks_late).
Crash(w) ==
  /\ faults < MaxFaults
  /\ faults' = faults + 1
  /\ pc[w] # "idle"
  /\ msgs' = [msgs EXCEPT ![run[w].job] = Sent(run[w].job)]
  /\ pc' = [pc EXCEPT ![w] = "idle"]
  /\ run' = [run EXCEPT ![w] = IdleRun]
  /\ \E p \in Pids : pid' = [pid EXCEPT ![w] = p]
  /\ UNCHANGED <<dbVars, redisVars, apiTx, tick>>
\* The visibility timeout of the broker elapses under a running worker: its
\* message, acknowledged only at the end, is offered again.
Redeliver(w) ==
  /\ faults < MaxFaults
  /\ faults' = faults + 1
  /\ pc[w] # "idle"
  /\ msgs' = [msgs EXCEPT ![run[w].job] = Sent(run[w].job)]
  /\ UNCHANGED <<dbVars, redisVars, apiTx, pc, run, pid, tick>>
-----------------------------------------------------------------------------
(***************************************************************************)
(* Time.                                                                   *)
(***************************************************************************)
LeaseExpires(j) ==
  /\ lease[j].live
  /\ lease' = [lease EXCEPT ![j].live = FALSE]
  /\ UNCHANGED <<state, version, runAt, attempts, dlq, reg, redisVars, msgs, apiTx,
                 workerVars, tick>>

BackoffElapses(j) ==
  /\ runAt[j] = "later"
  /\ runAt' = [runAt EXCEPT ![j] = "due"]
  /\ UNCHANGED <<state, version, lease, attempts, dlq, reg, redisVars, msgs, apiTx,
                 workerVars, tick>>

LockExpires(j) ==
  /\ lock[j] # Nobody
  /\ lock' = [lock EXCEPT ![j] = Nobody]
  /\ UNCHANGED <<dbVars, leader, msgs, apiTx, workerVars, tick>>

LeaderExpires ==
  /\ leader # Nobody
  /\ leader' = Nobody
  /\ UNCHANGED <<dbVars, lock, msgs, apiTx, workerVars, tick>>
-----------------------------------------------------------------------------
(***************************************************************************)
(* Watchdog: WorkerRuntime.watchdog_tick around WatchdogService.tick, one  *)
(* transaction from the first query to the commit.                         *)
(***************************************************************************)
\* The leader lock is acquired and LeaseRecoveryService.find_expired_job_ids
\* returns every expired row, whatever the state of its job.
TickBegin(d) ==
  /\ tick[d].pc = "idle" /\ leader = Nobody
  /\ leader' = d
  /\ tick' = [tick EXCEPT ![d] =
                [pc |-> "reclaim", done |-> {},
                 todo |-> {j \in Jobs : HasLease(j) /\ ~lease[j].live}]]
  /\ UNCHANGED <<dbVars, lock, msgs, apiTx, workerVars>>

RowFreeFor(d, j) == \A e \in Watchdogs \ {d} : j \notin tick[e].done

\* reclaim_expired_job moves the job to queued, and the message is sent while
\* the transaction is still open.
TickReclaim(d, j) ==
  /\ tick[d].pc = "reclaim" /\ j \in tick[d].todo /\ RowFreeFor(d, j)
  /\ AssertAllowed(state[j], "queued")
  /\ tick' = [tick EXCEPT ![d].todo = @ \ {j}, ![d].done = @ \cup {j}]
  /\ msgs' = [msgs EXCEPT ![j] = Sent(j)]
  /\ UNCHANGED <<dbVars, redisVars, apiTx, workerVars>>

\* The reclaim loop raises at the first job it may not requeue, or when the
\* database picks it as the victim of a deadlock with another tick.
ReclaimRaises(d) ==
  \E j \in tick[d].todo :
    \/ RowFreeFor(d, j) /\ ~AssertAllowed(state[j], "queued")
    \/ \E e \in Watchdogs \ {d} :
         j \in tick[e].done /\ tick[e].todo \cap tick[d].done # {}

\* RedisLockManager.release of the leader lock in tick's finally block.
ReleaseLeader(d) == leader' = IF leader = d THEN Nobody ELSE leader

\* The exception leaves watchdog_tick: everything is rolled back, for the jobs
\* reclaimed before it too; the messages already sent are not.
TickFails(d) ==
  /\ tick[d].pc = "reclaim" /\ ReclaimRaises(d)
  /\ ReleaseLeader(d)
  /\ tick' = [tick EXCEPT ![d] = IdleTick]
  /\ UNCHANGED <<dbVars, lock, msgs, apiTx, workerVars>>

\* Mutant of Runnable: find_runnable looks for retrying jobs only.
RunnableRetryingOnly(d) ==
  {j \in Jobs : \/ j \in tick[d].done
                \/ state[j] = "retrying" /\ runAt[j] # "later"}

\* JobRepo.find_runnable as the tick's own transaction sees the table.
Runnable(d) ==
  {j \in Jobs : \/ j \in tick[d].done
                \/ state[j] \in {"queued", "retrying"} /\ runAt[j] # "later"}

\* _inflight_by_client counts every lease row of a client, expired or not; jobs
\* without a client are not counted.
Inflight(c) ==
  Cardinality({j \in Jobs : c # Nobody /\ ClientOf[j] = c /\ HasLease(j)})

\* FairScheduler.select never returns once a client that still has its bucket in
\* the rotation reaches the limit (the loop is in module FairScheduler); below
\* it, every runnable job is selected.  max_enqueue_per_tick exceeds |Jobs|.
SelectDiverges(d) ==
  \E c \in Clients \cup {Nobody} :
    LET mine == {j \in Runnable(d) : ClientOf[j] = c}
    IN  mine # {} /\ Inflight(c) + Cardinality(mine) >= PerClientConcurrency

\* The process spins inside select, its transaction open.
TickHangs(d) ==
  /\ tick[d].pc = "reclaim" /\ tick[d].todo = {} /\ SelectDiverges(d)
  /\ tick' = [tick EXCEPT ![d].pc = "hung"]
  /\ UNCHANGED <<dbVars, redisVars, msgs, apiTx, workerVars>>

\* The selected jobs are sent, less the low-priority ones of an overloaded
\* queue; then tick's finally block releases the leader lock, before the commit.
TickEnqueue(d, overloaded) ==
  LET sent == Runnable(d) \ (IF overloaded THEN LowPriority ELSE {})
  IN  /\ tick[d].pc = "reclaim" /\ tick[d].todo = {} /\ ~SelectDiverges(d)
      /\ msgs' = [j \in Jobs |-> IF j \in sent THEN Sent(j) ELSE msgs[j]]
      /\ ReleaseLeader(d)
      /\ tick' = [tick EXCEPT ![d].pc = "commit"]
      /\ UNCHANGED <<dbVars, lock, apiTx, workerVars>>

\* watchdog_tick's session.commit().
TickCommit(d) ==
  LET done == tick[d].done
  IN  /\ tick[d].pc = "commit"
      /\ state' = [j \in Jobs |-> IF j \in done THEN "queued" ELSE state[j]]
      /\ version' = [j \in Jobs |-> IF j \in done THEN version[j] + 2 ELSE version[j]]
      /\ runAt' = [j \in Jobs |-> IF j \in done THEN "due" ELSE runAt[j]]
      /\ tick' = [tick EXCEPT ![d] = IdleTick]
      /\ UNCHANGED <<lease, attempts, dlq, reg, redisVars, msgs, apiTx, workerVars>>

\* The watchdog process dies or loses its connection: the transaction is rolled
\* back, the leader lock is left to its TTL.
TickCrash(d) ==
  /\ tick[d].pc # "idle"
  /\ tick' = [tick EXCEPT ![d] = IdleTick]
  /\ UNCHANGED <<dbVars, redisVars, msgs, apiTx, workerVars>>
-----------------------------------------------------------------------------
ApiNext(j) ==
  \/ BeginEnqueue(j) \/ CommitEnqueue(j) \/ AbortEnqueue(j)
  \/ \E d \in Jobs : ReplayDlq(d, j)

\* run_job's own steps once a message was taken, exceptions aside.
RunStep(w) ==
  \/ AcquireLease(w) \/ AcquireLeaseFails(w)
  \/ AcquireLock(w) \/ LockContended(w)
  \/ MarkRunning(w) \/ HandlerReturns(w)
  \/ FenceCheck(w) \/ CommitComplete(w) \/ CommitRetry(w)
  \/ DeadLetter(w) \/ Finish(w)

WorkerNext(w) ==
  \/ \E j \in Jobs : StartRun(w, j) \/ DropDelivery(w, j)
  \/ RunStep(w) \/ LeasingRaises(w) \/ RaiseRetryable(w) \/ RaiseFatal(w)
  \/ ExceptBlockFails(w) \/ AcquireCommitFails(w) \/ CommitUnacknowledged(w)
  \/ HeartbeatDb(w) \/ HeartbeatLocal(w) \/ RegisterWorker(w) \/ Crash(w)
  \/ Redeliver(w)

TickStep(d) ==
  \/ \E j \in Jobs : TickReclaim(d, j)
  \/ TickFails(d) \/ TickHangs(d)
  \/ \E overloaded \in BOOLEAN : TickEnqueue(d, overloaded)
  \/ TickCommit(d)

WatchdogNext(d) == TickBegin(d) \/ TickStep(d) \/ TickCrash(d)

TimeNext(j) == LeaseExpires(j) \/ BackoffElapses(j) \/ LockExpires(j)

Next ==
  \/ \E j \in Jobs : ApiNext(j) \/ TimeNext(j)
  \/ \E w \in Workers : WorkerNext(w)
  \/ \E d \in Watchdogs : WatchdogNext(d)
  \/ LeaderExpires

Spec == Init /\ [][Next]_vars

(***************************************************************************)
(* Fairness.  A Celery process that took a message runs its coroutine to   *)
(* the end, waiting for a row lock in a queue that is served in order (SF: *)
(* the lock comes and goes), and no exception is needed for that; the      *)
(* broker keeps offering a waiting message (SF); beat keeps starting ticks *)
(* (SF: the leader key comes and goes); of the ticks begun, and of those   *)
(* that get as far as enqueuing, not every one is killed (SF); TTLs        *)
(* elapse.  Nothing is assumed of faults, exceptions, heartbeats or        *)
(* registrations.                                                          *)
(***************************************************************************)
Fairness ==
  /\ \A w \in Workers : SF_vars(RunStep(w))
  /\ \A j \in Jobs :
       /\ SF_vars(\E w \in Workers : StartRun(w, j))
       /\ WF_vars(CommitEnqueue(j) \/ AbortEnqueue(j))
       /\ WF_vars(LeaseExpires(j)) /\ WF_vars(BackoffElapses(j))
       /\ WF_vars(LockExpires(j))
  /\ \A d \in Watchdogs :
       /\ SF_vars(TickBegin(d)) /\ SF_vars(TickStep(d))
       /\ SF_vars(\E overloaded \in BOOLEAN : TickEnqueue(d, overloaded))
  /\ WF_vars(LeaderExpires)

FairSpec == Spec /\ Fairness
-----------------------------------------------------------------------------
(***************************************************************************)
(* Properties.                                                             *)
(***************************************************************************)
\* A worker is executing a job from the commit of its lease to the commit of
\* the outcome (or the point where the except block gives up).
Holding(w) == pc[w] \in {"leased", "locked", "handler", "fence", "commit", "burying"}

\* No two workers are ever between acquire_lease and the recorded outcome of the
\* same job: duplicate deliveries, watchdog re-sends and reclaims, expired
\* leases and expired Redis locks notwithstanding.
ExclusiveExecution ==
  \A v, w \in Workers :
    v # w /\ Holding(v) /\ Holding(w) => run[v].job # run[w].job

\* While a worker executes a job, the lease row carries its token, and nobody
\* requeues the job; it can only be buried, by a worker with no lease.
HolderOwnsJob ==
  \A w \in Workers :
    Holding(w) => /\ OwnsLease(w)
                  /\ state[run[w].job] \in {"leased", "running", "dead_lettered"}

(***************************************************************************)
(* Why they hold: what every reachable state keeps (module                 *)
(* JobOrchestrationProofs proves it inductive).                            *)
(***************************************************************************)
\* An idle worker has no locals; any other is about a job.
RunKnown ==
  \A w \in Workers :
    /\ pc[w] = "idle" => run[w] = IdleRun
    /\ pc[w] # "idle" => run[w].job \in Jobs

\* An open create_and_enqueue is the only writer of its job.
EnqueueAlone == \A j \in apiTx : state[j] = "absent"

\* Rows a tick has moved but not committed: each by one tick, from a state that
\* no worker holds.
RowsLocked ==
  \A d \in Watchdogs : \A j \in tick[d].done :
    /\ AssertAllowed(state[j], "queued")
    /\ \A e \in Watchdogs \ {d} : j \notin tick[e].done

\* A snapshot that a transition will compare, with the current version, is current:
\* jobs.version grows with every change of jobs.state.
SnapshotSound ==
  \A w \in Workers :
    pc[w] \in {"leasing", "commit"} =>
      LET j == run[w].job
      IN  /\ Exists(j) /\ run[w].seenVersion <= version[j]
          /\ run[w].seenVersion = version[j] => run[w].seenState = state[j]

\* Under it, a successful compare-and-swap finds the job queued, where nobody
\* holds it.
IndInv ==
  TypeOK /\ RunKnown /\ EnqueueAlone /\ RowsLocked /\ SnapshotSound /\ HolderOwnsJob

\* job_attempts tells the story of the job: attempts before the last ended in a
\* retry; the last one is open while the job is held, completed exactly when the
\* job is, and retried while the job waits; a buried job keeps what it had.
AttemptHistory ==
  \A j \in Jobs :
    LET n == Len(attempts[j])
    IN  /\ \A i \in 1 .. (n - 1) : attempts[j][i] = "retrying"
        /\ state[j] = "completed" => n > 0 /\ attempts[j][n] = "completed"
        /\ state[j] \in {"leased", "running"} => n > 0 /\ attempts[j][n] = "running"
        /\ state[j] = "dead_lettered"
             => n > 0 /\ attempts[j][n] \in {"running", "retrying"}
        /\ state[j] \in {"queued", "retrying"} /\ n > 0
             => attempts[j][n] = "retrying"

\* A job is completed or given back only by the worker that still owns the lease
\* row and whose attempt is the last, though complete_job and schedule_retry check
\* the tokens several awaits before their transition.  dead_letter checks no token:
\* a job is buried by such a worker too, or by one whose COMMIT failed.
OutcomeByHolder ==
  [][\A j \in Jobs :
       state[j] # state'[j] /\ state'[j] \in {"completed", "retrying", "dead_lettered"}
         => \E w \in Workers :
              /\ run[w].job = j /\ pc'[w] \in {"finally", "unleased"}
              /\ \/ /\ pc[w] = IF state'[j] = "dead_lettered" THEN "burying" ELSE "commit"
                    /\ OwnsLease(w) /\ run[w].attempt = Len(attempts[j])
                 \/ pc[w] = "unleased" /\ state'[j] = "dead_lettered"]_vars

\* The fencing token an executing worker knows is the one on its lease row, or
\* trails it by the one heartbeat whose result is still on its way.
FenceTracked ==
  \A w \in Workers :
    Holding(w) => lease[run[w].job].fence =
                    (IF run[w].hb = 0 THEN run[w].fence ELSE run[w].hb)

\* How the tables read as a ledger: the holder is the worker on the lease row
\* while the job is leased or running.
StatusOf(s) ==
  CASE s \in {"queued", "retrying"} -> "ready"
    [] s \in {"leased", "running"} -> "held"
    [] s = "completed" -> "done"
    [] s = "dead_lettered" -> "buried"
    [] OTHER -> "none"

Ledger == INSTANCE JobLedger WITH
  status  <- [j \in Jobs |-> StatusOf(state[j])],
  holder  <- [j \in Jobs |-> IF StatusOf(state[j]) = "held"
                             THEN lease[j].worker ELSE Nobody],
  history <- attempts

\* The orchestration implements the ledger: no step of a worker, a watchdog, the
\* API or the clock gives a held job to another worker, ends an attempt twice or
\* moves a completed or buried job.
ImplementsLedger == Ledger!Spec

\* Every delivered message ends: run_job returns, whatever it raised.
RunReturns == \A w \in Workers : pc[w] # "idle" ~> pc[w] = "idle"

\* A committed job whose first message was lost (delivered before the commit) is
\* found by the watchdog's find_runnable and leased in the end.  Only as long as no
\* job has a lease row: an expired one can fail every tick (LostLeaseRecovered).
FreshJobLeased ==
  \A j \in Jobs :
    state[j] = "queued" /\ ~HasLease(j) ~> \E i \in Jobs : HasLease(i)

\* "Requeue any job that was leased/running but lost its lease"
\* (lease_recovery_service.py): a job whose worker died is queued again, or its
\* outcome is recorded.
LostLeaseRecovered ==
  \A j \in Jobs :
    state[j] \in {"leased", "running"} /\ (\A w \in Workers : run[w].job # j)
      ~> state[j] \notin {"leased", "running"}

\* "stale worker cannot commit" (job_service.py): complete_job turns away only a
\* worker whose lease token was replaced.
OnlyStaleWorkersRejected ==
  \A w \in Workers :
    pc[w] = "fence" /\ run[w].goal = "complete" /\ ~FenceAdmits(w) => ~OwnsLease(w)

=============================================================================
