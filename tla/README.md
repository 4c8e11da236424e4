# gst_automation in TLA+

A verification development for `gst_automation`, a service that fetches GST
returns through a browser and mails them: a FastAPI application and Celery
workers around PostgreSQL, Redis and Playwright. What decides whether a return is
fetched once, twice or never is the durable job orchestration, and that is
modelled in the greatest detail. Around it stand the runs that wait for an
operator, and ten services, each with the transactions that may overlap in it.

Paths are relative to the package, `src/gst_automation/` of the repository.

## The system

| Component | State | Operations | Hard part |
|---|---|---|---|
| Job FSM, transitions (`orchestration/fsm.py`, `services/transition_service.py`) | `jobs.state`, `jobs.version` | `transition` | compare-and-swap on an ORM snapshot that may be stale |
| Job service, repositories (`services/job_service.py`, `repositories/*`) | `job_leases`, `job_attempts` | `acquire_lease`, `complete_job`, `schedule_retry`, `heartbeat`, `clear` | token checks several awaits before the transition they guard |
| Worker runtime (`worker_runtime.py`, `celery_app/signals.py`) | `run_job`'s locals, `workers` | `run_job`, heartbeat and renew tasks, `heartbeat_tick` | exceptions at every await, crashes, failed COMMITs, concurrent heartbeats |
| Orchestrator, API (`services/orchestrator_service.py`, `app/routes`) | open transaction, broker | `create_and_enqueue` | message sent before the commit |
| Dead letters (`services/dlq_service.py`, `dlq_replay_service.py`) | `dead_letter_jobs` | `dead_letter`, `replay` | no token check; replay is not idempotent |
| Watchdog (`watchdog/service.py`, `services/lease_recovery_service.py`) | leader lock, one transaction a tick | `tick` | reclaim loop raises; leader lock released before the commit |
| Fair scheduler (`scheduler/fairness.py`) | buckets, rotation | `select` | termination, limits, index over a shrinking list |
| Redis locks (`locks/redis_lock.py`) | `lock:*` keys | `acquire`, `renew`, `release` | expiry under a live owner |
| Retry engine (`retry/engine.py`) | - | `decide` | no bound on attempts |
| Operator checkpoints, GST login, observation, assisted run (`gst/`) | checkpoint rows, Redis lists, session rows, login lock | run, poll, resolve, submit | an identity map that keeps answering; a deadline racing an answer |
| GSTR-2B download, tracker, overnight tick, batch (`gst/`) | month lock, tracker rows, client folders | handler, `run_overnight_tick`, batch | effects inside transactions that roll back; one session for all clients |
| Email (`orchestration/handlers/email_delivery.py`, `email/`) | `email_deliveries` | send, reconcile | sent before the commit |
| Browser pool and contexts (`browser/`) | browsers, contexts, rows | allocate, close, retire | leaks between failures; rows against reality |
| Anomalies (`watchdog/anomaly.py`) | a state row per type | `record` | cooldown and flood cap over racing callers |
| Client import and vault (`clients/`, `vault/`) | client and credential rows, the vault file | upload, import | two stores, of which one does not roll back |
| Selector promotion (`gst/selector_promotion.py`) | versions of a key | promote, latest | read, then insert, without a lock |
| Run evidence, replay audit, retention (`browser/artifacts.py`, `validation/`, `gst/forensics.py`) | files, index rows, replay logs | capture, sweep, audit, bundle | files at once, rows with the transaction |
| Telegram (`telegram_bot/`) | user rows, captcha file, lists | register, disable, text, remind, relay | a text upserts the row a disable writes; one file for all captchas |
| Validation, stability (`validation/`, `stability/`) | runs, scores, certificates | validate, score, certify | verdicts over rows nobody deletes |
| Lease guard, drift, gates, probes' pages, archive, portal DSL, routes, command line | | | see "Not modelled" |

They meet in the three stores. A caller creates a job and sends a Celery message;
a worker takes the message, leases the job in one transaction, takes a Redis lock,
marks the job running, runs the handler, and completes it, gives it back or buries
it in another transaction. Beside it a task renews the lease every 20 s, raising
its fencing token, and a thread registers the process and its generation. Every
15 s beat starts a tick that requeues expired leases and sends runnable jobs again.
A handler runs in the worker's session: what it writes is committed with its
success and rolled back by its exception, while files, mails, Redis keys and vault
entries stay. Most hazards of the services come from that difference.

What makes each correct:

- orchestration: a job never runs on two workers at once; only the worker with the
  current lease records a result; attempts and job state agree; nothing final
  moves; a delivered message ends; a committed job is leased; a lost lease recovers;
- scheduler: returns, respects the per-client limit, serves clients in turn;
- checkpoint runs: one login of a GSTIN at a time; a decision stands; a rejection that
  was read is heeded, and an approval is heard; a session is stored only after a login;
  every wait ends;
- downloads: one run works on a client's month; the tracker tells the truth about the
  file; a tick provides for all its clients or does nothing;
- email: a second mail only for a transaction that was lost;
- contexts: leaks are bounded; a row that says closed is right;
- anomalies: alerts of a type keep their distance;
- imports: a committed user name has its password, until two processes write the vault
  at a time;
- selectors: an acknowledged promotion is the newest version, the one runs load if it
  was promoted as active;
- evidence: files and index rows come and go together; the audit raises no false alarm;
- operators: a disable is not undone by what was under way;
- captchas: approved means this captcha's text was typed; the wait keeps its timeout,
  but for one that is reached between two readings of the clock;
- verdicts: a validation ends, and what a certificate says is what the rows say.

## Modules

| Module | Models |
|---|---|
| `JobFsm` | the transition table and `assert_allowed` |
| `JobOrchestration` | API, workers, watchdog, clock over PostgreSQL, Redis and the broker; its properties |
| `JobLedger` | abstract specification: what the orchestration promises of a job |
| `MCJobOrchestration` | the clients, symmetry and creation constraint of the TLC instances |
| `FairScheduler` | the loop of `FairScheduler.select` |
| `OperatorCheckpoints` | login, observation and assisted runs that wait for operators |
| `Gstr2bDownload` | overnight ticks, batch, download handler, tracker rows, month lock |
| `EmailDelivery` | the executions of one mail |
| `BrowserContexts` | the browser of a worker process and the contexts of its jobs |
| `AnomalyAlerts` | `AnomalyService.record`, several times in each of concurrent transactions |
| `ClientImport` | imports of a sheet, credential rows, the vault file |
| `SelectorPromotion` | versions of one selector key |
| `RunEvidence` | evidence of a smoke run, a probe, a bundle; retention and audit |
| `TelegramOperators` | the row of one Telegram user |
| `CaptchaRelay` | the way of a captcha's text to a list and a page |
| `ValidationCampaigns` | validation runs, scans, scores, gate, certificate |
| `Services` | the ten services above side by side, and what is claimed of them |
| `MCServices` | `Services` on small instances, one service at a time |
| `JobOrchestrationProofs`, `JobHistoryProofs` | theorems about `JobOrchestration` |
| `FairSchedulerProofs`, `OperatorCheckpointsProofs`, `Gstr2bDownloadProofs`, `CaptchaRelayProofs` | theorems about the module they are named for |
| `ServiceRowsProofs` | theorems about `Services`: mails, selectors, alerts, imports, operators - services whose argument is who holds a row |
| `ServicesProofs` | theorems about the other services, the carry-over of downloads and captchas, the types of all |

Everywhere, one action is one database transaction or flush, one Redis command, or
one step of a coroutine between two awaits that matter. Where the code acts on
something it read earlier, reading and acting are separate actions. Time is
abstracted to "may have elapsed" except where a length is what is in question.

### JobOrchestration

`run_job` is the program counter `pc[w]`:

| `pc` | in `run_job` |
|---|---|
| `leasing` | in `acquire_lease`, rows loaded, nothing locked |
| `leased`, `locked` | lease committed; Redis lock taken |
| `handler` | job marked running, handler under way |
| `fence`, `commit` | in `complete_job` or `schedule_retry`, before and after the token checks (`goal` says which call) |
| `burying` | about to `dead_letter` |
| `unleased` | in the except block with a lease token but no lease, after a COMMIT failed or was not acknowledged |
| `finally` | outcome recorded, or given up |

`StartRun` keeps the ORM snapshot that `AcquireLease` compares and swaps against,
`FenceCheck` keeps the one of `CommitComplete` and `CommitRetry`, and `HeartbeatDb`
commits a fencing token that `HeartbeatLocal` assigns later. A transition that locks
and reads the row in one transaction (`MarkRunning`, `DeadLetter`) is one action, and
waits for a tick that holds the row (`RowFree`). `jobs.version` grows by two per
transition: the ORM-enabled UPDATE refreshes the loaded object, whose in-memory
increment is then flushed as a second UPDATE.

A tick is one transaction (`TickBegin` ... `TickCommit`); the jobs it moved (`done`)
stay locked and invisible to others until it commits, its messages do not. An
exception rolls it back (`TickFails`); a `select` that does not return hangs it
(`TickHangs`), with its locks. The condition is the negation of the one module
`FairScheduler` shows exact.

Abstracted: time (a TTL or backoff may elapse at any moment after it was set),
payloads, queues and priorities beyond "low", history and audit rows (append-only),
handlers (they return or raise anything, at any time), tokens (a lease token is
the pair of worker and attempt). A worker name belongs to one process at a time:
`compute_worker_name` puts the pid in it unless `WORKER_NAME` is set.

### JobLedger

Statuses none, ready, held, done, buried; the holder of a held job; the outcomes of
its attempts. `JobOrchestration!Ledger` is the refinement mapping: `queued` and
`retrying` are ready, `leased` and `running` are held by the worker on the lease
row. A held job changes hands only by being given back, an attempt ends at most
once, and done and buried are final. It says who may complete a job nowhere:
that is `OutcomeByHolder`. Burying leaves the last attempt open, and may hit a job
somebody holds, because `dead_letter` checks no token.

### OperatorCheckpoints

A run is one execution of a handler in its own session. `stage` says whether it is
inside `GstAuthSessionEngine.run` (a login of its own, or the inline login of an
observation, whose exceptions are caught) or in the wait of the observation or the
assisted run. `pc` follows the coroutine:

| `pc` | in the engine |
|---|---|
| `begun` | before the session row, the Redis lock or the start page |
| `opening`, `filling` | login page and credentials |
| `creating` | `OperatorCheckpointService.request`, committed before the wait |
| `poll`, `pop` | the loop: the row through the identity map, then `HitlChannel.pop` |
| `submitting`, `resolving` | an action of the operator; the row approved by the run itself |
| `verify`, `persisting` | the final detection; the session row added |
| `continuing`, `closing` | the continuation of the login; what `run_job` commits at the end |

`cp` is the committed status of a row, `seen[r]` what the identity map of the run
answers: once `pending`, always `pending`. `Resolve` requests read and write in two
steps without a lock. `lock` is `gst_auth:{gstin}`, `expired` the holders it outlived.
An action that submits a captcha sends the loop round: the page is looked at again
only after the next action or at the end of the wait.

`RejectionHonoured` is about a rejection that a poll read, and has three exceptions, each
the code's: a login whose page shows it is logged in goes on, because `resolve` leaves a
rejected row as it is (`auth_session.py:305-308`); the assisted run does not look for a
rejection; an observation goes on after its inline login was rejected, with a checkpoint
of its own. A rejection the poll never sees is `stale_approval`'s subject.

### The services

**Gstr2bDownload.** A tick works through its clients in one session: `TickLook` reads
the tracker row and the file, `TickMark`, `TickEnqueue` and `TickTrack` flush behind
the row's or the key's writer, `TickCommit` commits everything. A flush that collides
leaves a session that only raises (`broken`, `TickRaises`). `StartRun` ... `Finalize`
are the handler: the check for an existing file, the Redis lock, the tracker row that
is flushed and stays locked to the end, the download, the copy and its verification.
`RunEnds` rolls back or commits, and releases. Failures, the budget, and crashes end
a run anywhere.

**EmailDelivery.** `Select`, `Insert` (behind an uncommitted insert of the same key),
`Send`, `Commit`; `RollsBack` is every way not to commit, with or without the mail
gone. What is lost with a mail sent is counted in `lost`.

**BrowserContexts.** Launch, reuse, retirement after `MaxContexts` allocations, the
retry of an allocation, the close in `finally`, what fails in each and what the
session commits. The directories of the sandbox are not modelled: `sandbox.py:46`
ignores every error of their removal, so a closed row promises nothing about them.

**AnomalyAlerts.** A caller is a transaction, which records one anomaly after another,
several of one type among them, as a watchdog tick does. Each record reads the row of its
type (`Read`) and, if the type is due, those of all types (`Count`): what this transaction
wrote, what is committed, or the copy the session's identity map still has from an earlier
record (`Loaded`). `Write` flushes, behind the row's writer; an insert that finds a row
fails. `Commit` and `RollBack` are the caller's. Cooldown and flood window are lengths on a
clock. `first` and `base` keep a transaction's first alert of a type and what the session
had before it.

**ClientImport.** Sheets of up to two rows go through the parser's checks; rows are
upserted under row locks, each password is in the vault file at once. To set one is four
steps: `ReadVault`, `OpenTmp` and `WriteTmp` for `vault.tmp`, which every process names
alike, and `Replace`, the rename. `vault` and `tmp` are files that may be missing,
truncated, whole or mixed of two writes; an open file keeps its writer after it was renamed
(`at`). Imports of the API's one process take turns at this, since it does not await; other
processes do not, and `clashed` says that two were at it at a time.

**SelectorPromotion.** Read the versions, insert the next one behind another of the
same number, commit or roll back.

**RunEvidence.** Captures write files at once and rows with the transaction of their run. A
name that is taken again is the same file and another row (`Entries` number them), and each
row expires for itself. A sweep unlinks, then commits. `log` is what the audit can tell of a
replay file: events, screenshots it names, a line written in part, a stamp before the one
above it, and whether there are more lines than the 5000 it reads for anything but
screenshots. `Issues` has every check of `validate_context`.

**TelegramOperators.** Registrations, disables and texts load, flush and commit the
row of one user; the UPDATE names only the columns that differ from what was loaded.
A broken session of the bot is committed all the same and loses the message too.

**CaptchaRelay.** A login describes its captcha in one file for all logins; the bot
puts a text on the list of the checkpoint that file names if it says waiting. A
handler with `HandlerCaptchaSupport` waits in slices on a list of its own, types,
submits, and resolves its row. The loop's condition and the argument of its wait read the
clock one after the other (`StayInLoop`, `StartPop`), and the process may be held up before
each (`HeldUp`). The arithmetic is modelled in half seconds, `int()`, the zero that means
"default" and the negative number Redis refuses (`PopRefused`) included.

**ValidationCampaigns.** A validation run as a coroutine beside the jobs it waits for;
scans, scores, gate and certificate read the lease and context rows that jobs and
heartbeats left.

**Services** composes them: an instance of each module, over variables of its own, since
they share no state of these models. `Spec` is the conjunction of their specifications, so
the services move in any interleaving, and the theorems are about it. **MCServices** is its
restriction for TLC: `focus` picks one service for a behaviour and the others stay as they
start. Their states add up instead of multiplying, and one run checks them all.

## Runs

| Run | Instance | Shows |
|---|---|---|
| `orchestration_safety` | 1 job, 2 workers, 2 attempts, 1 fault, symmetry on workers | `TypeOK`, `IndInv`, `ExclusiveExecution`, `AttemptHistory`, `OutcomeByHolder`, `ImplementsLedger` |
| `orchestration_heartbeat` | the same with one heartbeat, workers registered first | `OutcomeByHolder` with late heartbeats |
| `orchestration_replay` | 2 jobs (the second a replay), 1 worker, limit 2 | `ImplementsLedger` with replays, low priority and a hanging tick |
| `orchestration_liveness` | 1 job, 1 worker, fencing token up to 2, 1 fault | `FenceTracked`, `RunReturns`, `FreshJobLeased` |
| `scheduler` | 4 buckets of up to 3 jobs, limits 1, 3, 9, caps 3, 50 | `ClientLimit`, `FairTurns`, `ReturnsOnlyWhen`, `ReturnsWhen` |
| `operator_checkpoints` | a run of any kind, a competing login, 1 GSTIN, 1 request, 1 queued action (226,814 states) | `TypeOK`, `LoginMutex`, `ResultsDurable`, `RejectionHonoured`, `SessionFromLogin`, `DecisionStands`, `RunEnds` |
| `services` | the ten services, 2 or 3 actors each (214,817 states) | the 18 properties below |
| `lost_lease` | 1 job, 1 worker | violates `LostLeaseRecovered` |
| `fencing` | 1 job, 1 worker, 2 pids | violates `OnlyStaleWorkersRejected` |
| `scheduler_hang` | 2 buckets, limit 1 | violates `SelectReturns` |
| `stale_approval` | 1 run, 1 request | violates `ApprovalEndsWait` |
| `stored_copy` | 1 client, 1 tick | violates `IntactCopyStored` |

Properties of `services`:

| Service | Instance | Properties |
|---|---|---|
| `Gstr2bDownload` | 2 clients, 2 ticks, 3 jobs | `ExclusiveDownload`, `OutcomeTruthful`, `TickAllOrNothing`, `TickEnds` |
| `EmailDelivery` | 3 executions | `MailOnce` |
| `BrowserContexts` | 3 jobs, 2 contexts a browser | `OpenBounded`, `ClosedMeansGone` |
| `AnomalyAlerts` | 2 types, 2 callers, 2 records each, cooldown 3, window 1, cap 1 | `AlertsSpaced` |
| `ClientImport` | 2 clients, 2 imports in 2 processes | `CredentialsMatch` |
| `SelectorPromotion` | 3 promotions | `AcknowledgedIsNewest` |
| `RunEvidence` | a smoke run, a probe, a bundle, a capture taken up to twice, 2 sweeps | `FilesMatchRows`, `AuditTrue` |
| `TelegramOperators` | 1 registration, 2 disables, 2 texts, 1 reminder | `DisableHolds` |
| `ValidationCampaigns` | 2 cases, another job, a login | `PassOnlyBeforeCompletion`, `ValidationEnds` |
| `CaptchaRelay` | 1 login, 1 handler, 2 texts, timeout 2 s, slice 1 s, held up to 1.5 s | `ApprovedMeansTyped`, `StopsInTime` |

and `TypeOK` of all ten: that the tracker's `running` and `failed` and a mail's
`queued` and `failed` are written and never found committed is part of their types.

### Bounds

Orchestration. `MaxAttempts` stops deliveries of a queued job that used its attempts
(the code has no such bound); two attempts let a first owner's late steps meet a second
owner. `MaxFence` stops heartbeats (every lease and every heartbeat adds one to the
fencing token): 1 means none, in the safety run. The heartbeat run takes 3 with
`OneHeartbeat`, one heartbeat in the life of a lease row: by its owner, by the owner
after `clear`, so that a cleared lease revives, or under the second attempt. It pays
for that with `RegisteredFirst`: the workers register before a job exists, so
registrations that race a job are in the other runs. The theorems have no bound.
`MaxMessages` counts identical messages once: a message taken is counted again, so
duplicates still run in parallel. `MaxFaults` bounds together the crashes, the
failed COMMITs and the redeliveries of a message still being worked on. Pids: one in
most runs, two in `fencing`, where a restart changes the generation.
`CreatedByReplay` creates the second job only from the first one's dead letter. No
bound stops expiries, exceptions, ticks or watchdog crashes.

Checkpoints. `Competitors` are logins of the same GSTIN left alone by operators: they
contend for the lock and nothing else. `MaxActions` bounds a queue; one action at a
time reaches every branch, since a run pops one per turn. Operators turn only to rows
of runs that still wait, and a list no run will pop any more is forgotten (`Forget`).

Downloads. `BatchClients` and `HandCopied` are one of the two clients. `TickOrBatch`:
the second tick and the batch job are not in one behaviour, so three transactions at
most meet at a client's row; two of them are what a lock and a unique index arbitrate,
the third is the one that comes after. A hand-copied file that does not verify is the
same to the code as none.

Other services. Sheets have at most two rows and no UUID in `client_id`. Requests for
bundles of one job are not in the same second. `OneRun`: a smoke run, a probe and a
bundle share nothing but the retention, which is there with each. A Telegram user is an
operator. `MaxNow`, `MaxContexts`, `Cooldown`, `Window` and `Cap` are as small as lets a
limit be reached and passed once; `MaxRecords` and `MaxTakes` are 2, enough for a
transaction to meet its own row and for a file to have two. `OneFlaw`: a replay file has
one of a torn line, a clock set back and 5000 lines, and then nothing of its run
expires; the theorems have all of it. `HeldUpOrTexts`: in behaviours in which the
handler is held up, one text is sent and no login meets a captcha, since the clock and
the texts meet only in the pop. `FewJobs`: beside a validation only its own jobs run,
without retries and late heartbeats; without one, one of the two other jobs runs, with
both. Nobody else asks for a verdict during a validation, one scan runs at a time, and a
chaos validation, whose verdict alone differs from smoke, is left out. At most one text
is empty. A timeout of two seconds and a slice of one pass through a full slice, a
shorter last one and, with a `Pause` of three half seconds, a rest of zero and one below
it.

Deadlock checking is off in every run, because a finished system may stop: jobs,
requests, ticks and runs of an instance are each made once, and the scheduler's
`select` ends with `return`.
Symmetry is used in the safety and heartbeat runs only, which have no liveness property.

### Fairness

`JobOrchestration!FairSpec` assumes strong fairness of a worker's own steps (a row lock
it waits for comes and goes with the ticks, and PostgreSQL serves waiters in order; no
exception is needed for progress), of message delivery, of the ticks beat starts and of
the ticks that get as far as enqueuing (not every one is killed), and weak fairness of
TTLs, backoffs and the API's commit. `FairScheduler!Spec` is weakly fair: a thread in a
loop keeps running it. `OperatorCheckpoints!FairSpec` and `ValidationCampaigns!Fairness`
are weakly fair to the steps of coroutines and to their deadlines, which need nobody
else. `Gstr2bDownload!Fairness` is strongly fair to a tick that was started, since the
row it waits for comes and goes as runs are retried, and weakly fair to the budget of a
run, which is what ends a wait for a download. Nothing is assumed of operators,
exceptions, crashes, heartbeats or registrations.

### What does not hold

- `lost_lease`: `reclaim_expired_job` says "Requeue any job that was leased/running
  but lost its lease", but asks for `leased -> queued`, which the table does not
  have. The tick rolls back, and so does every later one: the expired row stays.
  The same happens for the expired lease of a completed, buried or requeued job,
  since `clear` only sets `expires_at`, so one such row starves all other jobs. For
  that reason `FreshJobLeased` promises a lease only as long as there is no lease row.
- `fencing`: `complete_job` rejects a "stale worker" that is the live holder, when
  its heartbeat committed a new fencing token the coroutine has not yet assigned, or
  its registration changed the generation; the successful job is dead-lettered.
- `scheduler_hang`: a client at its limit stays in the rotation, and `select` spins
  on the input of the repository's own test. With the default limit of 1 every tick
  with a runnable job hangs.
- `stale_approval`: an approval (or rejection) made after the first poll is never seen,
  because `session.get` answers from the identity map that the loop's own `row` keeps
  alive; the wait ends with an action or its deadline. Comments in `auth_session.py` and
  `assisted_gstr2b.py` say that approving is enough.
- `stored_copy`: the copy is verified under its `.xlsx.tmp` name, which the verifier
  refuses, so every intact download is quarantined and retried. `OutcomeTruthful` is
  therefore met by files somebody copied in by hand; its proof covers both.

Other disagreements that show in the models and are not runs of their own: a
validation waits for `failed` or `dead_letter` while jobs end as `dead_lettered`, so one
that expects failures ends at its deadline and never says ok; lease rows are never
deleted, so gate and certificate pass only before a job has completed, or after a late
heartbeat revived every cleared lease (`PassOnlyBeforeCompletion`); the bot puts texts
on `telegram:action` lists that no login reads; `send_photo` is handed a string where it
expects a path, so no captcha photo is sent, while the request counts as delivered;
sheets with `YES` or `1` in the active column import inactive clients; two processes that
import at a time share `vault.tmp`, so that one can rename what the other is writing: the
vault may be left torn, and a vault that cannot be parsed can be neither read nor written
any more; a captcha whose timeout is reached between the two readings of the clock is waited
for once more, as long as the timeout or a minute; `start_campaign` reads `cfg.__dict__` of
a dataclass with slots and always raises, so that no soak campaign starts; the audit calls a
replay file a violation because the wall clock was set back, or because it has 5000 lines
before its end.

## Proofs

Eight modules of theorems, for all values of the constants. The assumptions are named, in
the modules that declare the constants, and TLC evaluates each of them:

- `NobodyAssumption`, `ClientAssumption`, `BoundAssumption`, `CheckpointAssumption`: NULL is
  nobody's name, clients are well formed, bounds are naturals, there is a pid;
- `SchedulerAssumption`: bounds, limits and caps are naturals, and `Period`, modulo which
  `idx` is kept, is a multiple of every length of the rotation, so that nothing is lost by it;
- `NamesAssumption` of `Services`: things of different kinds (ticks and jobs, logins and
  handlers, smoke runs and bundles, captures and the lines of a log) have different
  names, as they have different tables, keys or types in the code; NULL and "never" are
  none of them; batch clients are clients; screenshots are captures; times and limits
  are numbers, and a captcha's slice is positive (the code has 30 s). A cooldown or a
  maximum of contexts may be zero or less: the code takes any setting.

`Gstr2bDownloadProofs` and `CaptchaRelayProofs` prove about their module alone, from the
hypotheses `Names` and `Setting`; `ServicesProofs` instantiates them, derives the hypotheses
from `NamesAssumption`, and carries the theorems over. Every invariant and every action
property a passing run checks is the statement of a theorem here.

**Exclusive execution** (`JobOrchestrationProofs`: `Invariance`, `Typing`, `Exclusive`).
`ExclusiveExecution` alone is not inductive: two workers in `leasing` might both
lease. `IndInv` adds why they cannot. `HolderOwnsJob`: the lease row of a job being
executed names its worker, and the job is leased, running or dead-lettered - so not
queued. `SnapshotSound`: a snapshot with the current version shows the current state,
in `leasing` and in `commit`; so a successful compare-and-swap from `queued` finds the
job queued, hence held by nobody. `RowsLocked`: a tick requeues only jobs the table lets
it, which no worker holds. `EnqueueAlone` and `RunKnown` say that an open creation has
no other writer and that only idle workers have no locals. Exclusion follows since one
row names one worker. The Redis lock, the token checks and the leader lock appear
nowhere in the argument: the version and the transition table carry it. There is a
typing part (one lemma per group of actions) and a preservation part (`WorkerRows`,
`WorkerSnapshot`, `WorkerHolder`, `ApiKeeps`, `TimeKeeps`, `WatchdogKeeps`).

**History** (`JobHistoryProofs`: `Attempts`, `Outcomes`, `Refinement`, `Fences`). Every
step is shown to have one of seven effects on one job: quiet, created, claimed, started,
closed, buried, requeued. `HistoryInv` strengthens `IndInv` by what the effects need: the
states each attempt list goes with (`StatesMet`), that a job past `queued` has an attempt
(`AttemptsBegin`), and that the attempt in a holder's hands is the last
(`HeldAttemptLast`). From the effects follow the agreement of attempts and state, that an
outcome is recorded by the owner with the last attempt although the tokens were checked
earlier (the snapshot was taken after the checks), the refinement of `JobLedger` - each
effect is one of the ledger's steps or a stutter - and that only a holder's own heartbeat
moves its fencing token.

**Scheduler** (`FairSchedulerProofs`: `Counting`, `Limit`, `RoundRobin`, `ReturnCondition`).
`Counted`: in flight is what was there plus what was taken, and what was taken from was not
above its limit. `FairTurns` needs more than counts: `TurnsEven` says that no client is ahead
of an eligible one but by the turn it has had in this round and by one for each client that
has left. A removal may repeat a turn, as `idx` is not adjusted when the list shrinks, but it
pays for that by adding one client that left. That `idx` comes round is a page of arithmetic
(`NextTurn`); that who left had no jobs is `GoneEmpty`. `ReturnsOnlyWhen` follows: at the
return the cap is reached, or the list is empty, hence everybody has left without jobs and
below its limit.

**Checkpoint runs** (`OperatorCheckpointsProofs`: `Invariance`, `Typing`, `Mutex`,
`Durable`, `Rejection`, `SessionAfterLogin`, `Decisions`). `LoginMutex` is inductive as it
stands: a login enters with the key free, a release deletes only its own token, and a key
that expires under a login puts it into `expired`. The other conjuncts of `IndInv` tie the
place of a run to its rows: `StagesFit`, `CheckpointFresh` (no row before it is created),
`LoginShown` and `SessionStored` (where a session is added a login was seen),
`SeenRejection`, `RequestsRead`. The two action properties follow from a lemma per group
of steps that leaves their variables alone (`QuietSteps`).

**Downloads** (`Gstr2bDownloadProofs`: `Exclusive`, `Truthful`, `AllOrNothing`). Every step
has the effect of a run, of a tick or of somebody else (`RunEffect`, `TickEffect`,
`ElseEffect`). `LockHeld`: a run past the lock is its holder, which only it and the TTL take
away, and the TTL only when the budget has ended the run. `TickSound` ties what a tick has
flushed to the file and to the jobs it has made; `Provided` says why a client it is through
with needs nothing more, and stays true whatever others commit: whoever takes a settled row
away from a client gives it a job (`TrackerKept`).

**Mail** (`MailsAccounted`, `OneMail`). Between insert and end of transaction an execution is
the key's only writer, so every mail is lost or answered for by the row: `mails` is the number
of lost transactions plus at most one.

**Selectors** (`VersionsNumbered`, `NewestAcknowledged`). The committed versions are `1..n`
without a gap, and at most one flushed row, of version `n + 1`, waits for its commit.

**Alerts** (`AlertRowsHeld`, `AlertsKeepCooldown`). A transaction that has alerted a type holds
its row to the end (`Sound`), so what it reads of it later is its own, and its own alerts keep
the cooldown. The first of them was due by what the session had (`base`), and if that is still
committed at the commit, it keeps the cooldown to it. If the session had found no row, it
inserts one, and holds a row that does not exist until it commits.

**Imports** (`LedgersKept`, `CredentialsHavePasswords`). `CredentialsMatch` says what two stores
show once nothing is under way on a client; `Kept` says what is under way. `Ledger`: the rows an
import holds, has pending and has stored a password for are those of the same clients, the row
in hand apart. `Safe`: a password it stored is in the vault, and is its own, unless `torn` names
the client - one that was rolled back, or that two imports had in hand. `OnFile`: who is writing
has a copy of the vault as it is, with its own password set, and at the rename that copy is what
is in `vault.tmp`. Both hold until `clashed`, because until then one import writes at a time.

**Operators** (`StatusRowHeld`, `DisabledStays`). Whoever is to commit holds the user's row
unless its flush changes nothing; so what a registration or a text had loaded is still
committed when it commits, and it cannot find a user active that was disabled meanwhile.

**Contexts** (`ContextsPlaced`, `ContextsBounded`, `ClosedRowsTrue`). One execution at a time
is between its begin and its end, and its place says what exists: before `record` no row, at
`commit` no open context. `created` is counted before the context is there, so
the number of contexts stays at or below it, and no context is asked of a browser whose count
is at its maximum.

**Evidence** (`EvidenceKept`, `FilesHaveRows`, `AuditsTrue`). Until a run commits, each of its
flushed rows has its file and none is indexed or expired; afterwards each row is indexed or has
expired, and its file is there only while it is indexed (`RunRows`). What the audit reads of a
run was written, and written whole, before the run could commit: a line left in part raises
(`RunLog`). A sweep holds expired rows only, and the files of those it deleted are gone
(`SweepRows`), with them those of other rows of the same name, so a row without file is one
whose file had an expired row. The audit of a committed smoke run therefore finds something
missing only where evidence has expired.

**Verdicts** (`LeasesParted`, `NoPassAfterCompletion`). The lease row of a completed job is
cleared, expired or revived, and stays so: no step deletes it. A gate or certificate that counts
it therefore fails, except for the revived ones, which the property names.

**Captchas** (`CaptchaRelayProofs`: `Approved`, `InTime`). What a handler types was on its
own list, which only answers to its captcha reach; `PopInTime` is the arithmetic: a rest of a
second or more ends less than a second after the timeout; a rest of zero was
read in the second in which the timeout was reached, adds the default once, and lets nothing
follow; one below zero is refused at once. What the process was held up (`held`) is counted apart.

**Types** (`TypesKept`). Each service's types are part of its invariant, and hold together.

Model-checked only: liveness under fairness, which the prover cannot handle - `RunReturns`,
`FreshJobLeased`, `ReturnsWhen`, `RunEnds`, `TickEnds`, `ValidationEnds`. Everything else the
passing runs check is proved. Not proved, as it is about the instance and not the system, is
that a behaviour of `MCServices` is one of `Services`: each of its steps is a step of the
service in focus and leaves the others alone.

In the modules proved about, nested EXCEPTs name the record they change instead of
writing `@`, which TLC and the proof manager do not read alike when nested.

## Not modelled, and the plan

- Drift and reliability queries, gates, `ExecutionValidator.validate` and
  `refresh_run_counters` pass `else_` to `func.case` and raise on every call: they have no
  state change to model. What calls them is modelled with that exception where it changes
  state. `reconcile_failed` looks for a status that is never committed and does nothing.
- Soak campaigns: `start_campaign` raises before it has changed anything, and nothing else
  makes a campaign that the loop could run.
- The sandbox's directories (see `BrowserContexts`), and the checksums of evidence: the first
  row of a name taken twice has those of a file that was overwritten, and nobody compares them.
- `LeaseGuard` only reads; its effect, a handler that raises, is in `JobOrchestration`.
- `DbLockManager` has no caller. Nor have `handle_captcha_response`,
  `handle_reminder_response` and `HandlerCaptchaSupport` in the package; the last two of
  the captcha's way are modelled as `TELEGRAM_DEPLOYMENT_GUIDE.md` and the module's usage
  pattern have them used.
- Page objects, the portal DSL, probes' and profiles' readings of a page: their states are
  the remote page's. The models let a page show anything the detectors can answer.
- Storage and archive: copies and hashes in directories of one client, whose only
  concurrent writer, the download, is modelled with its own copy.
- Reports, `doctor`, `timeline`, `replay_diff`, the commands, thin routes, settings and
  metrics read or print. Routes that change something are modelled with their services.
- Audit, history, event and message rows are append-only and left out, unless a property
  is about them.

Next, in this order: a ledger of a client's month (wanted, under way, provided) that
`Gstr2bDownload` is proved to implement, as `JobLedger` is of the orchestration; the same for
a credential and the vault; the handler of `JobOrchestration` refined to that of
`Gstr2bDownload`, so that lease and month lock meet in one model; `CaptchaRelay` joined with the
login of `OperatorCheckpoints` through the file they share; the mail job of a download once a
copy can be accepted.
`PROJECT.json` lists every component, and under `hazards` what is hard to test, each
at its line, with the property that covers it.
