--------------------------- MODULE Gstr2bDownload ---------------------------
(***************************************************************************)
(* One month of GSTR-2B downloads: the overnight tick (gst/overnight.py)   *)
(* and the batch (gst/batch.py) create jobs, the download handler          *)
(* (gst/gstr2b_download.py) runs them, and both write the month's tracker  *)
(* row of a client (gst/monthly_tracker.py) in transactions of their own.  *)
(* Leases, fences and attempts of a job are JobOrchestration's; here a job *)
(* that runs again is a run again.                                         *)
(***************************************************************************)
EXTENDS Integers, FiniteSets

CONSTANTS
  Clients,
  BatchClients,  \* bound: those that also have a job of a batch
  HandCopied,    \* bound: those into whose folder somebody copies files
  Ticks,      \* invocations of overnight-tick, each in its own process
  Nobody      \* no tick, no job, no client

VARIABLES
  due,        \* clients that are active
  file,       \* the client folder's GSTR2B_{gstin}_{period}.xlsx
  job,        \* committed state of a job row
  tracker,    \* committed status of the tracker row
  writer,     \* who wrote a tracker row and has not committed: it holds the row's lock
  lock,       \* Redis gstr2b:{gstin}:{period} -> job
  tick,       \* locals and uncommitted rows of a tick
  run         \* where the handler of a job is

vars == <<due, file, job, tracker, writer, lock, tick, run>>

\* Bound: one overnight and one batch (or prover, or API) job per client.
Jobs == (Clients \X {"overnight"}) \cup (BatchClients \X {"batch"})
Client(j) == j[1]

JobStates == {"absent", "queued", "running", "retrying", "completed", "dead_lettered"}
Trackers == {"none", "queued", "ok", "skipped"}
Contents == {"good", "bad"}

\* The locals of a tick: picked are the clients it selected, todo those left, at the one
\* in hand, saw its tracker row as loaded; made and rows are what it has flushed.
IdleTick == [pc |-> "idle", picked |-> {}, todo |-> {}, at |-> Nobody, saw |-> "none",
             made |-> {}, rows |-> [c \in Clients |-> "none"]]

\* Of the statuses the code writes, running and failed are never committed.
TypeOK ==
  /\ due \subseteq Clients
  /\ file \in [Clients -> Contents \cup {"absent"}]
  /\ job \in [Jobs -> JobStates] /\ tracker \in [Clients -> Trackers]
  /\ writer \in [Clients -> Ticks \cup Jobs \cup {Nobody}]
  /\ lock \in [Clients -> Jobs \cup {Nobody}]
  /\ tick \in [Ticks -> [pc : {"idle", "next", "mark", "enqueue", "track", "broken", "done"},
                         picked : SUBSET Clients, todo : SUBSET Clients,
                         at : Clients \cup {Nobody}, saw : Trackers,
                         made : SUBSET Clients, rows : [Clients -> Trackers]]]
  /\ run \in [Jobs -> {"idle", "checking", "locked", "portal", "verified"}]

Init ==
  /\ due \in SUBSET Clients
  /\ file = [c \in Clients |-> "absent"]
  /\ job = [j \in Jobs |-> "absent"] /\ tracker = [c \in Clients |-> "none"]
  /\ writer = [c \in Clients |-> Nobody] /\ lock = [c \in Clients |-> Nobody]
  /\ tick = [t \in Ticks |-> IdleTick] /\ run = [j \in Jobs |-> "idle"]

\* Release of the row locks at the end of a transaction.
Unwritten(w) == [c \in Clients |-> IF writer[c] = w THEN Nobody ELSE writer[c]]

-----------------------------------------------------------------------------
\* The overnight tick, inside its window.

TickBegin(t) ==
  /\ tick[t].pc = "idle"
  /\ tick' = [tick EXCEPT ![t] = [tick[t] EXCEPT !.pc = "next", !.picked = due, !.todo = due]]
  /\ UNCHANGED <<due, file, job, tracker, writer, lock, run>>

\* On to the next client; or the session only raises from now on.
Onward(t, pc) == [tick[t] EXCEPT !.pc = pc, !.at = Nobody, !.saw = "none"]

\* The next client: done if its row says ok, marked ok if its file verifies.
TickLook(t, c) ==
  /\ tick[t].pc = "next" /\ c \in tick[t].todo
  /\ tick' = [tick EXCEPT ![t] =
       IF tracker[c] = "ok" THEN [tick[t] EXCEPT !.todo = @ \ {c}]
       ELSE [tick[t] EXCEPT !.pc = IF file[c] = "good" THEN "mark" ELSE "enqueue",
                            !.todo = @ \ {c}, !.at = c, !.saw = tracker[c]]]
  /\ UNCHANGED <<due, file, job, tracker, writer, lock, run>>

\* A flush of a tracker row waits for the row's writer.  An insert finds a row that has
\* appeared since it looked: IntegrityError, after which the session only raises.
Collides(t) == LET c == tick[t].at IN tick[t].saw = "none" /\ tracker[c] # "none"

\* The status is written only if it differs from the one the session loaded.
Upserted(t, status) == IF tick[t].saw = status THEN tracker[tick[t].at] ELSE status

TickUpsert(t, status) ==
  LET c == tick[t].at IN
  /\ writer[c] = Nobody
  /\ \/ /\ Collides(t)
        /\ tick' = [tick EXCEPT ![t] = Onward(t, "broken")] /\ UNCHANGED writer
     \/ /\ ~Collides(t)
        /\ writer' = [writer EXCEPT ![c] = t]
        /\ tick' = [tick EXCEPT ![t] = [Onward(t, "next") EXCEPT !.rows[c] = Upserted(t, status)]]
  /\ UNCHANGED <<due, file, job, tracker, lock, run>>

TickMark(t) == tick[t].pc = "mark" /\ TickUpsert(t, "ok")

\* create_and_enqueue under the key gstr2b:{client}:{period}: waits for a tick that has
\* inserted the key and not committed; a committed key is an IntegrityError.  When only the
\* send fails, the error is noted and the job's row stays.  The upsert that follows looks
\* for the tracker row again if there was none.
TickEnqueue(t) ==
  LET c == tick[t].at IN
  /\ tick[t].pc = "enqueue"
  /\ \A u \in Ticks : c \notin tick[u].made
  /\ \/ /\ job[<<c, "overnight">>] # "absent"
        /\ tick' = [tick EXCEPT ![t] = Onward(t, "broken")]
     \/ /\ job[<<c, "overnight">>] = "absent"
        /\ \/ tick' = [tick EXCEPT ![t] = [tick[t] EXCEPT !.pc = "track", !.made = @ \cup {c},
                                                  !.saw = IF @ = "none" THEN tracker[c] ELSE @]]
           \/ tick' = [tick EXCEPT ![t] = [Onward(t, "next") EXCEPT !.made = @ \cup {c}]]
  /\ UNCHANGED <<due, file, job, tracker, writer, lock, run>>

TickTrack(t) == tick[t].pc = "track" /\ TickUpsert(t, "queued")

\* Mutant of MayCommit: a failed insert is undone alone (a savepoint), the rest commits.
MayCommitPart(t) == tick[t].pc = "broken" \/ (tick[t].pc = "next" /\ tick[t].todo = {})
MayCommit(t) == tick[t].pc = "next" /\ tick[t].todo = {}

TickCommit(t) ==
  /\ MayCommit(t)
  /\ job' = [j \in Jobs |-> IF Client(j) \in tick[t].made /\ j[2] = "overnight" THEN "queued"
                            ELSE job[j]]
  /\ tracker' = [c \in Clients |-> IF writer[c] = t THEN tick[t].rows[c] ELSE tracker[c]]
  /\ writer' = Unwritten(t)
  /\ tick' = [tick EXCEPT ![t] = [IdleTick EXCEPT !.pc = "done"]]
  /\ UNCHANGED <<due, file, lock, run>>

\* PendingRollbackError at the next statement of a broken session, be it the next
\* client's look or the commit.
TickRaises(t) ==
  /\ tick[t].pc = "broken"
  /\ writer' = Unwritten(t)
  /\ tick' = [tick EXCEPT ![t] = [IdleTick EXCEPT !.pc = "done"]]
  /\ UNCHANGED <<due, file, job, tracker, lock, run>>

\* The key or the row a tick waits for, in the hands of another tick.
WaitsFor(t, u) ==
  LET c == tick[t].at IN
  \/ tick[t].pc = "enqueue" /\ c \in tick[u].made
  \/ tick[t].pc \in {"mark", "track"} /\ writer[c] = u

\* Two ticks that hold each other's rows (clients are selected in no order): the
\* database aborts one.
TickDeadlocked(t) ==
  /\ \E u \in Ticks \ {t} : WaitsFor(t, u) /\ WaitsFor(u, t)
  /\ tick' = [tick EXCEPT ![t] = Onward(t, "broken")]
  /\ UNCHANGED <<due, file, job, tracker, writer, lock, run>>

\* The process dies, or is stopped.
TickDies(t) ==
  /\ tick[t].pc \notin {"idle", "done"}
  /\ writer' = Unwritten(t)
  /\ tick' = [tick EXCEPT ![t] = [IdleTick EXCEPT !.pc = "done"]]
  /\ UNCHANGED <<due, file, job, tracker, lock, run>>

\* Gstr2bBatchService, the prover, POST /jobs: no key, one transaction.
EnqueueBatch(c) ==
  /\ c \in due \cap BatchClients /\ job[<<c, "batch">>] = "absent"
  /\ job' = [job EXCEPT ![<<c, "batch">>] = "queued"]
  /\ UNCHANGED <<due, file, tracker, writer, lock, tick, run>>

-----------------------------------------------------------------------------
\* The handler.

\* The run is over: its session is rolled back or committed, its lock released.
RunEnds(j, state) ==
  /\ run' = [run EXCEPT ![j] = "idle"] /\ job' = [job EXCEPT ![j] = state]
  /\ writer' = Unwritten(j)
  /\ lock' = [c \in Clients |-> IF lock[c] = j /\ run[j] # "checking" THEN Nobody ELSE lock[c]]
  /\ UNCHANGED <<due, tick>>

StartRun(j) ==
  /\ job[j] \in {"queued", "retrying"} /\ run[j] = "idle"
  /\ run' = [run EXCEPT ![j] = "checking"] /\ job' = [job EXCEPT ![j] = "running"]
  /\ UNCHANGED <<due, file, tracker, writer, lock, tick>>

\* already_downloaded, before the lock: the tracker says skipped, the job completes.
SkipDownloaded(j) ==
  /\ run[j] = "checking" /\ file[Client(j)] = "good" /\ writer[Client(j)] = Nobody
  /\ tracker' = [tracker EXCEPT ![Client(j)] = "skipped"]
  /\ RunEnds(j, "completed") /\ UNCHANGED file

LockFree(c) == lock[c] = Nobody

AcquireLock(j) ==
  /\ run[j] = "checking" /\ file[Client(j)] # "good" /\ LockFree(Client(j))
  /\ lock' = [lock EXCEPT ![Client(j)] = j]
  /\ run' = [run EXCEPT ![j] = "locked"]
  /\ UNCHANGED <<due, file, job, tracker, writer, tick>>

\* "gstr2b lock contention (duplicate run)": a RuntimeError is not retried.
LockContended(j) ==
  /\ run[j] = "checking" /\ file[Client(j)] # "good" /\ ~LockFree(Client(j))
  /\ RunEnds(j, "dead_lettered") /\ UNCHANGED <<file, tracker>>

\* The tracker says running: flushed, and committed only if the run gets to its end.
MarkRunning(j) ==
  /\ run[j] = "locked" /\ writer[Client(j)] = Nobody
  /\ writer' = [writer EXCEPT ![Client(j)] = j]
  /\ run' = [run EXCEPT ![j] = "portal"]
  /\ UNCHANGED <<due, file, job, tracker, lock, tick>>

\* Login, navigation, download, verification of the artifact.
Download(j) ==
  /\ run[j] = "portal"
  /\ run' = [run EXCEPT ![j] = "verified"]
  /\ UNCHANGED <<due, file, job, tracker, writer, lock, tick>>

\* What Gstr2bDownloadVerifier accepts: load_workbook opens no other suffix.
VerifierAccepts(content, suffix) == content = "good" /\ suffix = ".xlsx"

\* Mutant of Accepted: the finalized copy is not verified.
AcceptedUnverified(copy) == TRUE

\* The copy is made beside dest, as {dest}.xlsx.tmp, and verified under that name.
Accepted(copy) == VerifierAccepts(copy, ".tmp")

\* The copy, its verification and, if it is accepted, the replace, the tracker's ok and
\* the commit; otherwise GstDownloadCorrupt, which is retried.
Finalize(j, copy) ==
  /\ run[j] = "verified"
  /\ IF Accepted(copy)
     THEN /\ file' = [file EXCEPT ![Client(j)] = copy]
          /\ tracker' = [tracker EXCEPT ![Client(j)] = "ok"]
          /\ RunEnds(j, "completed")
     ELSE RunEnds(j, "retrying") /\ UNCHANGED <<file, tracker>>

\* Mutant of FailsFatally: the tracker's failed outlives the exception.
FailsRecorded(j) ==
  /\ run[j] # "idle"
  /\ tracker' = [tracker EXCEPT ![Client(j)] = "failed"]
  /\ RunEnds(j, "dead_lettered") /\ UNCHANGED file

\* GstAuthRequired, a timeout, a corrupt download: retried.  The tracker's failed is
\* flushed in the session the exception rolls back.
FailsRetryably(j) ==
  /\ run[j] # "idle"
  /\ RunEnds(j, "retrying") /\ UNCHANGED <<file, tracker>>

\* A click that fails, a small file, an invalid one, any other exception: not retried.
FailsFatally(j) ==
  /\ run[j] # "idle"
  /\ RunEnds(j, "dead_lettered") /\ UNCHANGED <<file, tracker>>

\* The budget of 900 s: wait_for cancels the handler; a timeout is retried.
BudgetExceeded(j) ==
  /\ run[j] # "idle"
  /\ RunEnds(j, "retrying") /\ UNCHANGED <<file, tracker>>

\* The worker dies: the database rolls back, the lock stays, the job is reclaimed.
Crash(j) ==
  /\ run[j] # "idle"
  /\ run' = [run EXCEPT ![j] = "idle"] /\ job' = [job EXCEPT ![j] = "queued"]
  /\ writer' = Unwritten(j)
  /\ UNCHANGED <<due, file, tracker, lock, tick>>

\* Mutant of MayExpire: a TTL shorter than the budget.
MayExpireEarly(c) == lock[c] # Nobody

\* A TTL of 900 s, from the acquisition on: the budget, counted from the start of the
\* handler, has ended the run by then.
MayExpire(c) == lock[c] # Nobody /\ run[lock[c]] \in {"idle", "checking"}

LockExpires(c) ==
  /\ MayExpire(c)
  /\ lock' = [lock EXCEPT ![c] = Nobody]
  /\ UNCHANGED <<due, file, job, tracker, writer, tick, run>>

-----------------------------------------------------------------------------
\* Everything else that writes: an import activates a client; somebody copies the
\* month's file into the client's folder by hand.  One that does not verify is the same to
\* everyone as none.
Activate(c) ==
  /\ c \notin due /\ due' = due \cup {c}
  /\ UNCHANGED <<file, job, tracker, writer, lock, tick, run>>

PlaceFile(c) ==
  /\ c \in HandCopied /\ file[c] # "good"
  /\ file' = [file EXCEPT ![c] = "good"]
  /\ UNCHANGED <<due, job, tracker, writer, lock, tick, run>>

TickStep(t) ==
  \/ TickBegin(t) \/ (\E c \in Clients : TickLook(t, c))
  \/ TickMark(t) \/ TickEnqueue(t) \/ TickTrack(t) \/ TickCommit(t)
  \/ TickRaises(t) \/ TickDeadlocked(t)

RunStep(j) ==
  \/ StartRun(j) \/ SkipDownloaded(j) \/ AcquireLock(j) \/ LockContended(j)
  \/ MarkRunning(j) \/ Download(j) \/ (\E copy \in Contents : Finalize(j, copy))
  \/ FailsRetryably(j) \/ FailsFatally(j) \/ Crash(j)

\* Mutant of Budgeted: no budget for the handler.
Unbudgeted(j) == FALSE
Budgeted(j) == BudgetExceeded(j)

Next ==
  \/ \E t \in Ticks : TickStep(t) \/ TickDies(t)
  \/ \E j \in Jobs : RunStep(j) \/ Budgeted(j)
  \/ \E c \in Clients : EnqueueBatch(c) \/ LockExpires(c) \/ Activate(c) \/ PlaceFile(c)

\* A tick that was started goes on; the budget of a run elapses; nothing else must happen.
\* Strong: the row a tick waits for comes and goes as runs are retried.
Fairness ==
  /\ \A t \in Ticks : SF_vars(tick[t].pc # "idle" /\ TickStep(t))
  /\ \A j \in Jobs : WF_vars(Budgeted(j))

Spec == Init /\ [][Next]_vars
FairSpec == Spec /\ Fairness

-----------------------------------------------------------------------------
\* Properties.

\* At most one run of a client's month is at the portal or writes into the client's
\* folder, crashes and redeliveries included: the lock outlives the run's budget.
ExclusiveDownload ==
  \A i, j \in Jobs :
    (Client(i) = Client(j) /\ {run[i], run[j]} \subseteq {"locked", "portal", "verified"})
      => i = j

\* The committed row says ok or skipped only of a month whose file in the client's folder
\* is good, whatever order ticks, runs and hand-copied files come in.
OutcomeTruthful == \A c \in Clients : tracker[c] \in {"ok", "skipped"} => file[c] = "good"

\* A tick commits all its clients or none: when it commits, every client it selected has
\* a job, or its row says that the file is there (one session for the whole loop, flushed
\* per client), whatever runs and other ticks wrote since it looked at the row.
TickAllOrNothing ==
  [][\A t \in Ticks : TickCommit(t) =>
       \A c \in tick[t].picked :
         job'[<<c, "overnight">>] # "absent" \/ tracker'[c] \in {"ok", "skipped"}]_vars

\* A tick ends: it waits only for row locks of runs and other ticks, which the budget of
\* a run and the database's deadlock detection bound.
TickEnds == \A t \in Ticks : tick[t].pc # "idle" ~> tick[t].pc = "done"

\* "Verify finalized tmp before commit (corruption/partial detection)": the check of the
\* copy refuses damaged copies only.
IntactCopyStored ==
  [][\A j \in Jobs : Finalize(j, "good") => file'[Client(j)] = "good"]_vars
=============================================================================
