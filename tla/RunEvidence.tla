---------------------------- MODULE RunEvidence ----------------------------
(***************************************************************************)
(* The evidence a portal run leaves: files under browser_artifacts_dir,    *)
(* their rows in browser_artifacts, and the replay file of a smoke run     *)
(* (validation/portal_smoke.py, validation/recorder.py, gst/safe_probe.py, *)
(* browser/artifacts.py, the end of browser/session.py), and the bundles   *)
(* gst/forensics.py packs of it.  Files are there at once; rows only when  *)
(* the run commits, and one for each time a file was written: a name that  *)
(* a payload repeats is one file with two rows, which age separately.      *)
(* Retention (validation/retention.py) removes both, the replay audit      *)
(* (validation/replay_integrity.py) compares them.                         *)
(***************************************************************************)
EXTENDS Integers

CONSTANTS
  Smokes,     \* portal_smoke executions
  Probes,     \* gst_safe_probe executions: no replay file
  Bundles,    \* requests to package a job
  Captures,   \* screenshots, downloads and pages a run may take, by name
  Screenshots,\* those of them the replay file and its audit look for
  MaxTakes,   \* bound: times a run takes a name
  Sweeps      \* invocations of the retention

Runs == Smokes \cup Probes \cup Bundles
Names == Captures \cup {"replay", "trace", "bundle"}
Files == Runs \X Names
Entries == Names \X (1..MaxTakes)
Rows == Runs \X Entries

\* The file of a row (relpath).
FileOf(row) == <<row[1], row[2][1]>>

VARIABLES
  pc,        \* of a run
  disk,      \* files that exist
  flushed,   \* rows a run's session has, by name and number
  log,       \* what the audit would see of a smoke's replay file
  done,      \* runs that committed
  index,     \* committed rows
  aged,      \* rows past the ttl_days of their kind
  sweep      \* locals of a sweep: rows it selected, rows it deleted and has not committed

vars == <<pc, disk, flushed, log, done, index, aged, sweep>>

Events == {"workflow.start", "workflow.completed"}

\* A line written in part, and one stamped before the line above it.
Flaws == {"torn", "earlier"}

\* many: the file has the 5000 lines after which only screenshots are looked for.
Lines == Events \cup Flaws \cup {"many"} \cup Captures
NoSweep == [pc |-> "idle", rows |-> {}, gone |-> {}]

TypeOK ==
  /\ pc \in [Runs -> {"idle", "running", "indexing", "returned", "failing", "closed", "over"}]
  /\ disk \subseteq Files /\ index \subseteq Rows /\ aged \subseteq Rows /\ done \subseteq Runs
  /\ flushed \in [Runs -> SUBSET Entries] /\ log \in [Runs -> SUBSET Lines]
  /\ sweep \in [Sweeps -> [pc : {"idle", "deleting", "over"},
                           rows : SUBSET Rows, gone : SUBSET Rows]]

Init ==
  /\ pc = [r \in Runs |-> "idle"] /\ disk = {} /\ flushed = [r \in Runs |-> {}]
  /\ log = [r \in Runs |-> {}] /\ done = {} /\ index = {} /\ aged = {}
  /\ sweep = [s \in Sweeps |-> NoSweep]

Goto(r, label) == pc' = [pc EXCEPT ![r] = label]
Writes(r, k) == disk' = disk \cup {<<r, k>>}

\* A row of its own for each time.
Flush(r, k) ==
  \E n \in 1..MaxTakes :
    /\ <<k, n>> \notin flushed[r] /\ \A m \in 1..(n - 1) : <<k, m>> \in flushed[r]
    /\ flushed' = [flushed EXCEPT ![r] = flushed[r] \cup {<<k, n>>}]

Logs(r, e) ==
  log' = IF r \in Smokes /\ ("many" \in log[r] => e \in Captures)
         THEN [log EXCEPT ![r] = log[r] \cup {e}] ELSE log

-----------------------------------------------------------------------------
\* A run.

StartWorkflow(r) ==
  /\ r \notin Bundles /\ pc[r] = "idle" /\ Goto(r, "running")
  /\ disk' = IF r \in Smokes THEN disk \cup {<<r, "replay">>} ELSE disk
  /\ Logs(r, "workflow.start")
  /\ UNCHANGED <<flushed, done, index, aged, sweep>>

\* The disk is full, or the worker dies, at the first line of the replay file.
StartFails(r) ==
  /\ r \in Smokes /\ pc[r] = "idle" /\ Goto(r, "failing") /\ Writes(r, "replay")
  /\ Logs(r, "torn") \/ UNCHANGED log
  /\ UNCHANGED <<flushed, done, index, aged, sweep>>

\* The wall clock is set back between two lines.
ClockBack(r) ==
  /\ pc[r] = "running" /\ "earlier" \notin log[r] /\ Logs(r, "earlier")
  /\ UNCHANGED <<pc, disk, flushed, done, index, aged, sweep>>

\* A payload of thousands of actions.
LogsMany(r) ==
  /\ r \in Smokes /\ pc[r] = "running" /\ "many" \notin log[r]
  /\ log' = [log EXCEPT ![r] = log[r] \cup {"many"}]
  /\ UNCHANGED <<pc, disk, flushed, done, index, aged, sweep>>

\* Mutant of Capture: the row is best-effort.
CaptureMaybeIndexed(r, k) ==
  /\ pc[r] = "running"
  /\ Writes(r, k) /\ (Flush(r, k) \/ UNCHANGED flushed) /\ Logs(r, k)
  /\ UNCHANGED <<pc, done, index, aged, sweep>>

\* The file and its row (record_file).
Record(r, k) == Writes(r, k) /\ Flush(r, k)

\* The file, over one of the same name, its row, the replay line.
Capture(r, k) ==
  /\ pc[r] = "running"
  /\ Record(r, k) /\ Logs(r, k)
  /\ UNCHANGED <<pc, done, index, aged, sweep>>

\* An exception of an action, the lease guard, the chaos injector or, once the file is
\* there, of record_file or of a line, which may be there in part.
ActionFails(r) ==
  /\ pc[r] = "running" /\ Goto(r, "failing")
  /\ disk' \in {disk} \cup {disk \cup {<<r, k>>} : k \in Captures}
  /\ Logs(r, "torn") \/ UNCHANGED log
  /\ UNCHANGED <<flushed, done, index, aged, sweep>>

Completed(r) ==
  /\ pc[r] = "running" /\ Goto(r, IF r \in Smokes THEN "indexing" ELSE "returned")
  /\ Logs(r, "workflow.completed")
  /\ UNCHANGED <<disk, flushed, done, index, aged, sweep>>

\* Best-effort rows of the console log and the replay file.  The warning swallows the
\* error, but a flush that failed has broken the session.
IndexReplay(r) ==
  /\ pc[r] = "indexing"
  /\ \/ Goto(r, "returned") /\ (Flush(r, "replay") \/ UNCHANGED flushed)
     \/ Goto(r, "failing") /\ UNCHANGED flushed
  /\ UNCHANGED <<disk, log, done, index, aged, sweep>>

\* ContextIsolationEngine.close, whether the handler returned or raised: the trace (and
\* the HAR), best-effort in the same way; then context.close may raise.
CloseContext(r) ==
  /\ pc[r] \in {"returned", "failing"}
  /\ \/ Writes(r, "trace") /\ (Flush(r, "trace") \/ UNCHANGED flushed)
     \/ UNCHANGED <<disk, flushed>>
  /\ \/ pc[r] = "returned" /\ Goto(r, "closed")
     \/ Goto(r, "over")
  /\ UNCHANGED <<log, done, index, aged, sweep>>

\* GstForensicsPackager.package_job: a zip of the job's rows and files, and its row.  A file
\* that the retention removes while it is packed, and any other error, leaves the zip.
\* Bound: two requests for a job are not in the same second, which names the zip.
Package(b) ==
  /\ b \in Bundles /\ pc[b] = "idle"
  /\ \/ Record(b, "bundle") /\ Goto(b, "closed")
     \/ Writes(b, "bundle") /\ Goto(b, "over") /\ UNCHANGED flushed
  /\ UNCHANGED <<log, done, index, aged, sweep>>

Commit(r) ==
  /\ pc[r] = "closed" /\ Goto(r, "over")
  /\ done' = done \cup {r}
  /\ index' = index \cup {<<r, e>> : e \in flushed[r]}
  /\ UNCHANGED <<disk, flushed, log, aged, sweep>>

\* complete_job rejects the worker, the commit fails, the worker dies.
RollBack(r) ==
  /\ pc[r] \notin {"idle", "over"} /\ Goto(r, "over")
  /\ UNCHANGED <<disk, flushed, log, done, index, aged, sweep>>

-----------------------------------------------------------------------------
\* Retention.  A dry run only says what it keeps; a sweep here is not dry.

\* The ttl_days of the row's kind pass; a kind without a policy stays.
Expire(f) ==
  /\ f \in index \ aged
  /\ aged' = aged \cup {f}
  /\ UNCHANGED <<pc, disk, flushed, log, done, index, sweep>>

Expired == aged \cap index

\* The rows past the cutoff, at most `limit` of a kind, oldest first.
SweepSelect(s) ==
  /\ sweep[s].pc = "idle"
  /\ \E rows \in SUBSET Expired \ {{}} :
       sweep' = [sweep EXCEPT ![s] = [NoSweep EXCEPT !.pc = "deleting", !.rows = rows]]
  /\ UNCHANGED <<pc, disk, flushed, log, done, index, aged>>

\* Mutant of SweepDelete: an unlink that fails does not keep the row.
SweepDeleteAnyway(s, f) ==
  /\ sweep[s].pc = "deleting" /\ f \in sweep[s].rows
  /\ \A u \in Sweeps : f \notin sweep[u].gone
  /\ sweep' = [sweep EXCEPT ![s] = [sweep[s] EXCEPT !.rows = sweep[s].rows \ {f},
                                                       !.gone = sweep[s].gone \cup {f}]]
  /\ disk' \in {disk, disk \ {FileOf(f)}}
  /\ UNCHANGED <<pc, flushed, log, done, index, aged>>

\* The file, if it is still there, then the row, whose lock another sweep may hold; when
\* the unlink fails the row stays and the error is recorded.
SweepDelete(s, f) ==
  /\ sweep[s].pc = "deleting" /\ f \in sweep[s].rows
  /\ \A u \in Sweeps : f \notin sweep[u].gone
  /\ \/ /\ disk' = disk \ {FileOf(f)}
        /\ sweep' = [sweep EXCEPT ![s] = [sweep[s] EXCEPT !.rows = sweep[s].rows \ {f},
                                                       !.gone = sweep[s].gone \cup {f}]]
     \/ /\ FileOf(f) \in disk /\ UNCHANGED disk
        /\ sweep' = [sweep EXCEPT ![s] = [sweep[s] EXCEPT !.rows = sweep[s].rows \ {f}]]
  /\ UNCHANGED <<pc, flushed, log, done, index, aged>>

SweepCommit(s) ==
  /\ sweep[s].pc = "deleting" /\ sweep[s].rows = {}
  /\ index' = index \ sweep[s].gone
  /\ sweep' = [sweep EXCEPT ![s] = [NoSweep EXCEPT !.pc = "over"]]
  /\ UNCHANGED <<pc, disk, flushed, log, done, aged>>

\* An error of the database, or the process dies: the rows are back, the files are not.
SweepRollBack(s) ==
  /\ sweep[s].pc = "deleting"
  /\ sweep' = [sweep EXCEPT ![s] = [NoSweep EXCEPT !.pc = "over"]]
  /\ UNCHANGED <<pc, disk, flushed, log, done, index, aged>>

-----------------------------------------------------------------------------
\* ReplayIntegrityValidator.validate_context: what it finds wrong with a context.
Issues(r) ==
  IF <<r, "replay">> \notin disk THEN {"missing_replay"}
  ELSE IF log[r] = {} THEN {"empty_replay"}
  ELSE (Events \ log[r]) \cup (Flaws \cap log[r])
       \cup {k \in log[r] \cap Screenshots : \A n \in 1..MaxTakes : <<r, <<k, n>>>> \notin index}

Next ==
  \/ \E r \in Runs :
       \/ StartWorkflow(r) \/ StartFails(r) \/ ClockBack(r) \/ LogsMany(r)
       \/ (\E k \in Captures : Capture(r, k)) \/ ActionFails(r)
       \/ Completed(r) \/ IndexReplay(r) \/ CloseContext(r) \/ Package(r)
       \/ Commit(r) \/ RollBack(r)
  \/ \E f \in Rows : Expire(f)
  \/ \E s \in Sweeps :
       SweepSelect(s) \/ (\E f \in Rows : SweepDelete(s, f)) \/ SweepCommit(s) \/ SweepRollBack(s)

Spec == Init /\ [][Next]_vars

-----------------------------------------------------------------------------
\* Properties.

\* A committed row has its file until a row of that file expires: its own, or one of the same
\* name (a sweep unlinks the file with the first of them, and one that is rolled back after
\* its unlinks leaves rows without files).  A file of a run that committed is still there only
\* while all its rows are indexed, sweeps that overlap, fail to unlink or roll back included:
\* nothing indexed can turn into a file nobody will remove.
FilesMatchRows ==
  /\ \A f \in index : FileOf(f) \notin disk => \E g \in aged : FileOf(g) = FileOf(f)
  /\ \A r \in done : \A e \in flushed[r] : <<r, e[1]>> \in disk => <<r, e>> \in index

\* Of a smoke run that committed, and of whose evidence nothing has expired, the audit finds
\* no more than stamps that go back, if the clock was set back meanwhile, and an end it does
\* not see, after 5000 lines: the replay file and the index agree, although one is written at
\* once and the other with the transaction, and no run commits with a line written in part.
AuditTrue ==
  \A r \in done \cap Smokes :
    (\A e \in Entries : <<r, e>> \notin aged) =>
      Issues(r) \subseteq {"earlier"} \cup (IF "many" \in log[r] THEN {"workflow.completed"} ELSE {})
=============================================================================
