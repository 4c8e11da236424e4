------------------------ MODULE ValidationCampaigns ------------------------
(***************************************************************************)
(* What the platform says about itself: a validation run of the command    *)
(* line (validation/validate_runner.py, executor.py, run_service.py) and   *)
(* the verdicts anybody may ask for, cleanup scan, stability score,        *)
(* readiness gate and certificate, over the rows that jobs and earlier     *)
(* verdicts have left.  Jobs are those of JobOrchestration, as far as      *)
(* these verdicts see them.  No soak campaign ever starts: start_campaign  *)
(* (stability/soak_campaign.py) raises, reading __dict__ of a class with   *)
(* slots.                                                                  *)
(***************************************************************************)
EXTENDS Integers, FiniteSets

CONSTANTS
  OkCases,    \* portal_smoke jobs a validation expects to complete
  FailCases,  \* ... and to fail
  Others,     \* portal_smoke jobs nobody validates
  Logins      \* ... and jobs whose handler commits while it holds its browser context

Jobs == OkCases \cup FailCases \cup Others \cup Logins
Cases == OkCases \cup FailCases
Validations == {"smoke", "chaos", "recovery"}
Scanners == {"run", "certify", "watchdog"}
LastHour == [crash : {0}, replay : 0..1, cleanup : 0..2, retention : {0}, high : 0..1]
  \cup [crash : {1}, replay : {0}, cleanup : {0}, retention : 0..1, high : {0}]

VARIABLES
  kind,      \* the validation that is started: none, or one of Validations
  pc,        \* its coroutine
  run,       \* its row in validation_runs, as committed
  pending, completed, failed,   \* locals of wait_for_jobs
  late,      \* its deadline has passed
  found,     \* its other locals: what replay, cleanup and assertions said
  result,    \* what it returned
  job, lease, beating, context, intact,   \* job row, lease row, heartbeat task, context row, evidence
  scan,      \* locals of the cleanup scan under way
  doubt,     \* a low score, or too large a share of bad audits, in the last 12 hours
  scored,    \* there is a score of the last 12 hours
  said       \* the latest verdict of the gate or of a certificate

runVars == <<kind, pc, run, pending, completed, failed, late, found, result>>
jobVars == <<job, lease, beating, context, intact>>
rowVars == <<scan, doubt, scored, said>>
vars == <<runVars, jobVars, rowVars>>

NothingFound == [replay |-> FALSE, cleanup |-> TRUE, assertions |-> TRUE, low |-> FALSE]
NoScan == [by |-> "nobody", stale |-> FALSE, active |-> {}]

TypeOK ==
  /\ kind \in Validations \cup {"none"} /\ late \in BOOLEAN
  /\ pc \in {"start", "wait", "audit", "scan", "assert", "verdict", "over", "dead"}
  /\ run \in {"none", "running", "finished"} /\ result \in {"none", "ok", "fail"}
  /\ pending \subseteq Cases /\ completed \subseteq Cases
  /\ failed = {} \* see FailureStates: no job that failed is ever seen to fail
  /\ found \in [replay : BOOLEAN, cleanup : BOOLEAN, assertions : BOOLEAN, low : BOOLEAN]
  /\ job \in [Jobs -> {"absent", "queued", "running", "retrying", "completed", "dead_lettered"}]
  /\ lease \in [Jobs -> {"none", "held", "expired", "cleared", "revived"}]
  /\ beating \subseteq Jobs /\ intact \subseteq Jobs
  /\ context \in [Jobs -> SUBSET {"active", "left", "closed"}]
  /\ scan \in [by : Scanners \cup {"nobody"}, stale : BOOLEAN, active : SUBSET Jobs]
  /\ doubt \in BOOLEAN /\ scored \in BOOLEAN
  /\ said \in [by : {"nobody", "gate", "certificate"}, ok : BOOLEAN]

Init ==
  /\ kind \in Validations \cup {"none"} /\ pc = "start" /\ run = "none"
  /\ pending = {} /\ completed = {} /\ failed = {} /\ late = FALSE
  /\ found = NothingFound /\ result = "none"
  /\ job = [j \in Jobs |-> IF j \in Cases THEN "absent" ELSE "queued"]
  /\ lease = [j \in Jobs |-> "none"] /\ beating = {} /\ intact = {}
  /\ context = [j \in Jobs |-> {}]
  /\ scan = NoScan /\ doubt = FALSE /\ scored = FALSE
  /\ said = [by |-> "nobody", ok |-> FALSE]

-----------------------------------------------------------------------------
\* Jobs.  Lease rows are never deleted.

Lease(j) ==
  /\ job[j] \in {"queued", "retrying"} /\ j \notin beating
  /\ job' = [job EXCEPT ![j] = "running"] /\ lease' = [lease EXCEPT ![j] = "held"]
  /\ beating' = beating \cup {j}
  /\ UNCHANGED <<context, intact, runVars, rowVars>>

\* A handler that waits for an operator commits the row of its context.
ShowContext(j) ==
  /\ job[j] = "running" /\ j \in Logins /\ context[j] \cap {"active", "closed"} = {}
  /\ context' = [context EXCEPT ![j] = @ \cup {"active"}]
  /\ UNCHANGED <<job, lease, beating, intact, runVars, rowVars>>

\* The handler's transaction: its closed context, and evidence that may be incomplete.
\* Only a smoke run writes a replay file.
CommitHandler(j) ==
  /\ job[j] = "running" /\ "closed" \notin context[j]
  /\ context' = [context EXCEPT ![j] = (@ \ {"active"}) \cup {"closed"}]
  /\ \/ j \notin Logins /\ intact' = intact \cup {j}
     \/ UNCHANGED intact
  /\ UNCHANGED <<job, lease, beating, runVars, rowVars>>

\* What failed rolls its close back: a row that was committed as active stays active.
LeaveContext(j) ==
  context' = [context EXCEPT ![j] = IF "active" \in @ THEN (@ \ {"active"}) \cup {"left"} ELSE @]

Active(j) == context[j] \cap {"active", "left"} # {}

\* Mutant of Cleared: the row of a lease that was given up is deleted.
Deleted(j) == lease' = [lease EXCEPT ![j] = "none"]

\* LeaseRepo.clear: expires_at becomes now.
Cleared(j) == lease' = [lease EXCEPT ![j] = "cleared"]

Complete(j) ==
  /\ job[j] = "running" /\ "closed" \in context[j]
  /\ job' = [job EXCEPT ![j] = "completed"] /\ Cleared(j)
  /\ UNCHANGED <<beating, context, intact, runVars, rowVars>>

Retry(j) ==
  /\ job[j] = "running"
  /\ job' = [job EXCEPT ![j] = "retrying"] /\ Cleared(j) /\ LeaveContext(j)
  /\ UNCHANGED <<beating, intact, runVars, rowVars>>

DeadLetter(j) ==
  /\ job[j] = "running"
  /\ job' = [job EXCEPT ![j] = "dead_lettered"] /\ LeaveContext(j)
  /\ UNCHANGED <<lease, beating, intact, runVars, rowVars>>

\* LeaseRepo.heartbeat asks for the token only, and the task is cancelled after the commit.
Heartbeat(j) ==
  /\ j \in beating /\ lease[j] \notin {"held", "revived"}
  /\ lease' = [lease EXCEPT ![j] = IF job[j] = "running" THEN "held" ELSE "revived"]
  /\ UNCHANGED <<job, beating, context, intact, runVars, rowVars>>

CancelHeartbeat(j) ==
  /\ j \in beating /\ job[j] # "running"
  /\ beating' = beating \ {j}
  /\ UNCHANGED <<job, lease, context, intact, runVars, rowVars>>

Expire(j) ==
  /\ lease[j] \in {"held", "revived"}
  /\ lease' = [lease EXCEPT ![j] = "expired"]
  /\ UNCHANGED <<job, beating, context, intact, runVars, rowVars>>

StaleLease(j) == lease[j] \in {"expired", "cleared"}

-----------------------------------------------------------------------------
\* Verdicts.

Least(a, b) == IF a < b THEN a ELSE b

\* CleanupInvariantScanner.scan: leases and active contexts first, ...
\* Bound: one scan at a time.
ScanRead(s) ==
  /\ scan.by = "nobody"
  /\ scan' = [by |-> s, stale |-> \E j \in Jobs : StaleLease(j), active |-> {j \in Jobs : Active(j)}]

\* ... then the job of each context, and files and database locks, which may be left over.
Orphans == {j \in scan.active : job[j] = "completed"}

ScanOk(leftovers) == ~scan.stale /\ Orphans = {} /\ ~leftovers

ScanJudge(s, ok) ==
  /\ scan.by = s /\ scan' = NoScan
  /\ \E leftovers \in BOOLEAN : ok = ScanOk(leftovers)

\* A violation is an audit row.  It shows in the share of 12 hours unless a hundred good
\* ones outweigh it.
Audited(ok) == doubt' \in {doubt, doubt \/ ~ok}

\* The watchdog's scan, and the one operators ask for.
WatchdogScans ==
  /\ ScanRead("watchdog")
  /\ UNCHANGED <<doubt, scored, said, jobVars, runVars>>

WatchdogJudges ==
  /\ \E ok \in BOOLEAN : ScanJudge("watchdog", ok) /\ Audited(ok)
  /\ UNCHANGED <<scored, said, jobVars, runVars>>

\* StabilityScoreService.compute over what the last hour left, at most 100 of a kind and in
\* sum: 25 a crash, 20 a bad replay or cleanup, 10 the rest.
Penalty(rows) ==
  25 * rows.crash + 20 * rows.replay + 20 * rows.cleanup + 10 * rows.retention + 10 * rows.high
  + 10 * Cardinality({j \in Jobs : StaleLease(j)})
Score(rows) == 100 - Least(100, Penalty(rows))
Low(rows) == Score(rows) < 80

ComputeScore ==
  /\ scored' = TRUE
  /\ \E rows \in LastHour : doubt' = (doubt \/ Low(rows))
  /\ UNCHANGED <<scan, said, jobVars, runVars>>

\* ReadinessGateService.evaluate.
GateOpen(allowlist) ==
  /\ scored /\ ~doubt /\ allowlist
  /\ \A j \in Jobs : ~StaleLease(j) /\ ~Active(j)

EvaluateGate ==
  /\ \E allowlist \in BOOLEAN : said' = [by |-> "gate", ok |-> GateOpen(allowlist)]
  /\ UNCHANGED <<scan, doubt, scored, jobVars, runVars>>

\* CertificationService.certify_job, when the job has a context: the scan, ...
Certify(j) ==
  /\ context[j] # {} /\ ScanRead("certify")
  /\ UNCHANGED <<doubt, scored, said, jobVars, runVars>>

\* ... then replay and artifacts.
CertifyJudges(j) ==
  /\ context[j] # {}
  /\ \E ok \in BOOLEAN :
       /\ ScanJudge("certify", ok) /\ Audited(ok)
       /\ said' = [by |-> "certificate", ok |-> ok /\ j \in intact]
  /\ UNCHANGED <<scored, jobVars, runVars>>

HalfDayPasses ==
  /\ doubt' = FALSE /\ scored' = FALSE
  /\ UNCHANGED <<scan, said, jobVars, runVars>>

-----------------------------------------------------------------------------
\* SimulationValidationRunner, one coroutine with one session.

Goto(label) == pc' = label

\* validate_smoke, validate_chaos and validate_recovery: the run, its jobs, their messages
\* (sent before the commit; a worker that is too early finds no job).
StartValidation ==
  /\ pc = "start" /\ kind # "none" /\ scan = NoScan
  /\ Goto("wait") /\ run' = "running"
  /\ pending' = IF kind = "recovery" THEN FailCases ELSE Cases
  /\ job' = [j \in Jobs |-> IF j \in pending' THEN "queued" ELSE job[j]]
  /\ UNCHANGED <<kind, completed, failed, late, found, result, lease, beating, context, intact, rowVars>>

\* The states wait_for_jobs and the comparison take for a failure.  The one that jobs have
\* is "dead_lettered".
FailureStates == {"failed", "dead_letter"}

Done(j) == job[j] = "completed"
Failed(j) == job[j] \in FailureStates

Poll ==
  /\ pc = "wait" /\ ~late
  /\ \E j \in pending : Done(j) \/ Failed(j)
  /\ completed' = completed \cup {j \in pending : Done(j)}
  /\ failed' = failed \cup {j \in pending : Failed(j)}
  /\ pending' = {j \in pending : ~Done(j) /\ ~Failed(j)}
  /\ UNCHANGED <<kind, pc, run, late, found, result, jobVars, rowVars>>

Deadline ==
  /\ pc = "wait" /\ ~late /\ late' = TRUE
  /\ UNCHANGED <<kind, pc, run, pending, completed, failed, found, result, jobVars, rowVars>>

\* Mutant of StopsWaiting: only the end of the jobs ends the wait.
WaitsForAll == pending = {}
StopsWaiting == pending = {} \/ late

EndWait ==
  /\ pc = "wait" /\ StopsWaiting
  /\ Goto(IF kind = "recovery" THEN "scan" ELSE "audit")
  /\ UNCHANGED <<kind, run, pending, completed, failed, late, found, result, jobVars, rowVars>>

\* ReplayIntegrityValidator over the jobs that have a context.
AuditReplays ==
  /\ pc = "audit" /\ Goto("scan")
  /\ found' = [found EXCEPT !.replay = \E j \in Cases : context[j] # {} /\ j \notin intact]
  /\ UNCHANGED <<kind, run, pending, completed, failed, late, result, jobVars, rowVars>>

RunScans ==
  /\ pc = "scan" /\ ScanRead("run")
  /\ UNCHANGED <<doubt, scored, said, jobVars, runVars>>

RunJudges ==
  /\ pc = "scan"
  /\ \E ok \in BOOLEAN : ScanJudge("run", ok) /\ found' = [found EXCEPT !.cleanup = ok]
  /\ Goto(IF kind = "recovery" THEN "verdict" ELSE "assert")
  /\ UNCHANGED <<kind, run, pending, completed, failed, late, result, doubt, scored, said, jobVars>>

\* ExecutionAssertionEngine.run_for_jobs: stale leases of any job, active contexts of these,
\* and, once the wait was long enough, these jobs in a state they have not left; the
\* findings about artifacts and heartbeats are warnings.  Then the score.
Assert ==
  /\ pc = "assert" /\ Goto("verdict")
  /\ \E stuck \in SUBSET {j \in Cases : late /\ job[j] \in {"queued", "retrying"}} :
     \E rows \in {r \in LastHour : (found.replay => r.replay > 0) /\ (~found.cleanup => r.cleanup > 0)} :
       found' = [found EXCEPT !.low = Low(rows),
                              !.assertions = /\ \A j \in Jobs : ~StaleLease(j)
                                             /\ \A j \in Cases : ~Active(j) /\ j \notin stuck]
  /\ UNCHANGED <<kind, run, pending, completed, failed, late, result, jobVars, rowVars>>

Mismatches == {j \in OkCases : ~Done(j)} \cup {j \in FailCases : ~Failed(j)}

\* The summary, the run and everything found are one commit; validate_recovery leaves its
\* run as it is, and has neither score nor verdict.
Verdict ==
  /\ pc = "verdict" /\ Goto("over")
  /\ doubt' \in {doubt \/ found.low, doubt \/ found.low \/ found.replay \/ ~found.cleanup}
  /\ IF kind = "recovery" THEN UNCHANGED <<run, result, scored>>
     ELSE /\ run' = "finished" /\ scored' = TRUE
          /\ result' = IF /\ pending = {} /\ Mismatches = {} /\ found.assertions /\ found.cleanup
                          /\ kind = "smoke" => ~found.replay
                       THEN "ok" ELSE "fail"
  /\ UNCHANGED <<kind, pending, completed, failed, late, found, jobVars, scan, said>>

\* The process dies, or an exception leaves the command: what was not committed is gone, the
\* row says running for good.
Dies ==
  /\ pc \notin {"start", "over", "dead"} /\ Goto("dead")
  /\ UNCHANGED <<kind, run, pending, completed, failed, late, found, result, jobVars, rowVars>>

RunStep ==
  \/ StartValidation \/ Poll \/ EndWait \/ AuditReplays \/ RunScans \/ RunJudges \/ Assert \/ Verdict

JobStep(j) ==
  \/ Lease(j) \/ ShowContext(j) \/ CommitHandler(j) \/ Complete(j) \/ Retry(j) \/ DeadLetter(j)
  \/ Heartbeat(j) \/ CancelHeartbeat(j) \/ Expire(j)

Asked ==
  \/ WatchdogScans \/ WatchdogJudges \/ ComputeScore \/ EvaluateGate \/ HalfDayPasses
  \/ \E j \in Jobs : Certify(j) \/ CertifyJudges(j)

\* Bound: others ask in behaviours without a validation.
Next ==
  \/ RunStep \/ Deadline \/ Dies
  \/ \E j \in Jobs : JobStep(j)
  \/ kind = "none" /\ Asked

Fairness == WF_vars(RunStep) /\ WF_vars(Deadline)

Spec == Init /\ [][Next]_vars /\ Fairness

-----------------------------------------------------------------------------
\* Properties.

Revived == \A j \in Jobs : job[j] = "completed" => lease[j] = "revived"

\* A certificate or the gate says pass only while no job of the whole database has completed,
\* but for jobs whose lease a heartbeat that crossed their completion has revived: a lease
\* row is never deleted, so each job that ends well counts as a stale lease for good.
PassOnlyBeforeCompletion ==
  [][/\ said' # said /\ said' = [by |-> "gate", ok |-> TRUE] => Revived
     /\ said' # said /\ said' = [by |-> "certificate", ok |-> TRUE] => ~scan.stale
     /\ scan.by = "nobody" /\ scan'.by # "nobody" /\ ~scan'.stale => Revived]_vars

\* A validation that was started ends, although it never learns that a job failed: its
\* deadline, or its process, ends it.
ValidationEnds == pc = "wait" ~> pc \in {"over", "dead"}
=============================================================================
