-------------------------- MODULE BrowserContexts --------------------------
(***************************************************************************)
(* The browser of one Celery worker process and the isolated context each  *)
(* job execution gets from it: browser/pool.py, browser/session.py,        *)
(* browser/sandbox.py and browser/watchdog.py, as worker_runtime.py calls  *)
(* them.  Executions follow one another; what a failed one leaves behind   *)
(* stays for the next.                                                     *)
(***************************************************************************)
EXTENDS Integers, FiniteSets

CONSTANTS
  Tasks,        \* job executions of the process, each once
  MaxContexts,  \* browser_max_contexts_per_browser
  Nobody        \* no task

VARIABLES
  browser,    \* the pooled browser: absent, live, or stale (its connection is gone)
  old,        \* it is past browser_browser_ttl_seconds
  created,    \* contexts created in it
  open,       \* tasks whose Playwright context is open in it
  task,       \* the execution under way
  pc,
  row,        \* browser_contexts row of a task as its session sees it
  committed   \* ... and as committed

vars == <<browser, old, created, open, task, pc, row, committed>>

RowStates == {"none", "active", "closed"}

TypeOK ==
  /\ browser \in {"absent", "live", "stale"} /\ old \in BOOLEAN /\ created \in Nat
  /\ open \subseteq Tasks
  /\ task \in Tasks \cup {Nobody}
  /\ pc \in [Tasks -> {"idle", "acquire", "workspace", "context", "record", "handler", "close",
                       "commit", "over"}]
  /\ row \in [Tasks -> RowStates] /\ committed \in [Tasks -> RowStates]

Init ==
  /\ browser = "absent" /\ old = FALSE /\ created = 0 /\ open = {} /\ task = Nobody
  /\ pc = [t \in Tasks |-> "idle"]
  /\ row = [t \in Tasks |-> "none"] /\ committed = [t \in Tasks |-> "none"]

Goto(t, label) == pc' = [pc EXCEPT ![t] = label]

\* An exception: the session is rolled back, the job fails.
Over(t) ==
  /\ Goto(t, "over") /\ task' = Nobody
  /\ row' = [row EXCEPT ![t] = committed[t]]
  /\ UNCHANGED committed

\* A browser that closes takes its contexts along.
Launched == browser' = "live" /\ old' = FALSE /\ created' = 0 /\ open' = {}
Gone == browser' = "absent" /\ old' = FALSE /\ created' = 0 /\ open' = {}

Begin(t) ==
  /\ task = Nobody /\ pc[t] = "idle"
  /\ task' = t /\ Goto(t, "acquire")
  /\ UNCHANGED <<browser, old, created, open, row, committed>>

-----------------------------------------------------------------------------
\* ContextIsolationEngine.allocate.

Retire == old \/ created >= MaxContexts

\* acquire_browser: the pooled browser, unless it is to be retired.
Reuse(t) ==
  /\ pc[t] = "acquire" /\ browser # "absent" /\ ~Retire
  /\ Goto(t, "workspace")
  /\ UNCHANGED <<browser, old, created, open, task, row, committed>>

Launch(t) ==
  /\ pc[t] = "acquire" /\ (browser # "absent" => Retire)
  /\ \/ Launched /\ Goto(t, "workspace") /\ UNCHANGED <<task, row, committed>>
     \/ Gone /\ Over(t)

\* The sandbox's directories and the job's artifacts directory; either mkdir may fail.
\* The directories themselves are not modelled: cleanup ignores every error, so nothing is
\* promised of them.
MakeWorkspace(t) ==
  /\ pc[t] = "workspace"
  /\ \/ Goto(t, "context") /\ UNCHANGED <<task, row, committed>>
     \/ Over(t)
  /\ UNCHANGED <<browser, old, created, open>>

\* new_context counts first.
NewContext(t) ==
  /\ pc[t] = "context" /\ browser = "live"
  /\ created' = created + 1
  /\ \/ open' = open \cup {t} /\ Goto(t, "record") /\ UNCHANGED <<task, row, committed>>
     \/ UNCHANGED open /\ Over(t)
  /\ UNCHANGED <<browser, old>>

\* A stale connection: the pool is restarted and the context made once more.
NewContextRetried(t) ==
  /\ pc[t] = "context" /\ browser = "stale"
  /\ \/ /\ browser' = "live" /\ old' = FALSE /\ created' = 1
        /\ \/ /\ open' = {t} /\ Goto(t, "record")
              /\ UNCHANGED <<task, row, committed>>
           \/ /\ open' = {} /\ Over(t)
     \/ /\ Gone /\ Over(t)

\* Mutant of RecordFails: only the failures of new_context are counted against the browser.
RecordFailsUncounted(t) ==
  /\ pc[t] = "record"
  /\ Over(t)
  /\ created' = created - 1
  /\ UNCHANGED <<browser, old, open>>

\* Tracing or the row's flush fails: the context stays open.
RecordFails(t) ==
  /\ pc[t] = "record"
  /\ Over(t)
  /\ UNCHANGED <<browser, old, created, open>>

Record(t) ==
  /\ pc[t] = "record"
  /\ row' = [row EXCEPT ![t] = "active"] /\ Goto(t, "handler")
  /\ UNCHANGED <<browser, old, created, open, task, committed>>

-----------------------------------------------------------------------------
\* The handler and ContextIsolationEngine.close.

\* A login, an observation and an assisted run commit the session while they wait.
HandlerCommits(t) ==
  /\ pc[t] = "handler" /\ committed[t] # row[t]
  /\ committed' = [committed EXCEPT ![t] = row[t]]
  /\ UNCHANGED <<browser, old, created, open, task, pc, row>>

\* The finally of run_job: the handler returned, or raised (then "over" follows).
CloseContext(t) ==
  /\ pc[t] = "handler"
  /\ open' = open \ {t}
  /\ \/ /\ row' = [row EXCEPT ![t] = "closed"] /\ Goto(t, "commit")
        /\ UNCHANGED <<task, committed>>
     \/ Over(t)
  /\ UNCHANGED <<browser, old, created>>

\* Mutant of CloseRaises: the exception of context.close is swallowed.
CloseSwallows(t) ==
  /\ pc[t] = "handler"
  /\ row' = [row EXCEPT ![t] = "closed"] /\ Goto(t, "commit")
  /\ UNCHANGED <<browser, old, created, open, task, committed>>

\* context.close raises; so does close, and the context stays open.
CloseRaises(t) ==
  /\ pc[t] = "handler"
  /\ Over(t)
  /\ UNCHANGED <<browser, old, created, open>>

CommitSession(t) ==
  /\ pc[t] = "commit"
  /\ \/ committed' = [committed EXCEPT ![t] = row[t]] /\ UNCHANGED row
     \/ row' = [row EXCEPT ![t] = committed[t]] /\ UNCHANGED committed
  /\ Goto(t, "over") /\ task' = Nobody
  /\ UNCHANGED <<browser, old, created, open>>

-----------------------------------------------------------------------------
\* The environment.

\* The next task of the process has an event loop of its own: the pooled connection
\* may be useless to it.
GoesStale ==
  /\ browser = "live" /\ task = Nobody
  /\ browser' = "stale"
  /\ UNCHANGED <<old, created, open, task, pc, row, committed>>

Ages ==
  /\ browser # "absent" /\ ~old /\ old' = TRUE
  /\ UNCHANGED <<browser, created, open, task, pc, row, committed>>

\* BrowserWatchdog.tick over browser_max_rss_mb: pool.restart; rows stay online.
WatchdogRestart ==
  /\ browser # "absent" /\ task = Nobody
  /\ Gone /\ UNCHANGED <<task, pc, row, committed>>

\* The worker process dies; another takes the next task.
Crash(t) ==
  /\ task = t
  /\ Gone /\ Over(t)

Next ==
  \/ \E t \in Tasks :
       \/ Begin(t) \/ Reuse(t) \/ Launch(t) \/ MakeWorkspace(t)
       \/ NewContext(t) \/ NewContextRetried(t) \/ RecordFails(t) \/ Record(t)
       \/ HandlerCommits(t) \/ CloseContext(t) \/ CloseRaises(t) \/ CommitSession(t)
       \/ Crash(t)
  \/ GoesStale \/ Ages \/ WatchdogRestart

Spec == Init /\ [][Next]_vars

-----------------------------------------------------------------------------
\* Properties.

\* The contexts failures leave open are bounded: never more than MaxContexts in one
\* browser, which is retired by the count of attempts, failed ones included.  (A setting
\* below 1, which nothing refuses, gives each execution a browser of its own.)
OpenBounded == Cardinality(open) <= IF MaxContexts > 0 THEN MaxContexts ELSE 1

\* A row committed as closed names a context that is closed, whatever raised, was rolled back,
\* retried or restarted between the handler and the commit.
ClosedMeansGone == \A t \in Tasks : committed[t] = "closed" => t \notin open
=============================================================================
