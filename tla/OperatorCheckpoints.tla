------------------------ MODULE OperatorCheckpoints ------------------------
(***************************************************************************)
(* The runs that wait for an operator: the GST login (gst/auth_session.py),*)
(* the observation session (gst/observation.py), which may log in first,   *)
(* and the assisted GSTR-2B run (gst/assisted_gstr2b.py).  A run waits on a*)
(* checkpoint row (gst/operator_checkpoints.py), which operators resolve   *)
(* through the API, and on a Redis list of actions (gst/hitl_channel.py).  *)
(* A run is one execution of the job's handler in its own database session;*)
(* a step is what happens between two of its awaits that matter.           *)
(***************************************************************************)
EXTENDS Integers, Sequences, FiniteSets

CONSTANTS
  Runs,        \* handler executions; a retried job is another run
  Gstins,
  Requests,    \* concurrent POST /operator/checkpoints/{id}/resolve
  Competitors, \* bound: the runs that are logins of some GSTIN and left alone by operators
  Nobody,      \* no gstin, no run, no request under way
  MaxActions   \* bound: actions queued at a checkpoint

ASSUME CheckpointAssumption ==
  /\ Nobody \notin Runs /\ Nobody \notin Gstins
  /\ MaxActions \in Nat /\ Competitors \subseteq Runs

VARIABLES
  \* the runs
  kind,      \* job.kind
  gstin,     \* the GSTIN of the login, Nobody when the payload or the job has none
  stage,     \* "auth": inside GstAuthSessionEngine.run; "work": the run's own wait
  pc,        \* where the coroutine is
  late,      \* runs whose checkpoint_timeout_seconds elapsed
  loggedIn,  \* the login's last detection said authenticated
  seen,      \* status of the checkpoint row in the session's identity map
  \* what they share
  lock,      \* Redis gst_auth:{gstin} -> run
  expired,   \* runs whose lock outlived its TTL
  cp,        \* committed status of the checkpoint row of a run and stage
  queue,     \* Redis hitl:checkpoint:{id}:actions
  stored,    \* the portal session row a run wrote
  obs,       \* committed status of gst_observation_sessions
  api        \* resolve requests under way

runVars == <<kind, gstin, stage, pc, late, loggedIn, seen>>
vars == <<runVars, lock, expired, cp, queue, stored, obs, api>>

Kinds == {"gst_auth_session", "gst_observation_session", "assisted_gstr2b_execution"}
Stages == {"auth", "work"}
Resolutions == {"approved", "rejected"}
Statuses == {"absent", "pending"} \cup Resolutions
Actions == {"supported", "unsupported"}

Pcs == {"begun", "opening", "filling", "creating", "poll", "pop",
        "submitting", "resolving", "verify", "persisting", "continuing", "closing"}
Ended == {"returned", "failed"}

\* A checkpoint is named by its run and stage.
Row(r) == <<r, stage[r]>>
Rows == Runs \X Stages

TypeOK ==
  /\ kind \in [Runs -> Kinds] /\ gstin \in [Runs -> Gstins \cup {Nobody}]
  /\ stage \in [Runs -> Stages] /\ pc \in [Runs -> Pcs \cup Ended]
  /\ late \subseteq Runs /\ expired \subseteq Runs
  /\ loggedIn \in [Runs -> BOOLEAN] /\ seen \in [Runs -> Statuses]
  /\ lock \in [Gstins -> Runs \cup {Nobody}]
  /\ cp \in [Rows -> Statuses] /\ queue \in [Rows -> Seq(Actions)]
  /\ stored \in [Runs -> {"no", "added", "committed"}]
  /\ obs \in [Runs -> {"none", "running", "finished"}]
  /\ api \in [Requests -> {Nobody} \cup [row : Rows, status : Resolutions, read : Statuses]]

\* kind and gstin are inputs: the job's kind and payload.
Init ==
  /\ kind \in [Runs -> Kinds] /\ gstin \in [Runs -> Gstins \cup {Nobody}]
  /\ \A r \in Runs : kind[r] = "assisted_gstr2b_execution" => gstin[r] = Nobody
  /\ \A r \in Competitors : kind[r] = "gst_auth_session" /\ gstin[r] # Nobody
  /\ stage = [r \in Runs |-> IF kind[r] = "gst_auth_session" THEN "auth" ELSE "work"]
  /\ pc = [r \in Runs |-> "begun"] /\ late = {} /\ expired = {}
  /\ loggedIn = [r \in Runs |-> FALSE] /\ seen = [r \in Runs |-> "absent"]
  /\ lock = [g \in Gstins |-> Nobody]
  /\ cp = [c \in Rows |-> "absent"] /\ queue = [c \in Rows |-> << >>]
  /\ stored = [r \in Runs |-> "no"] /\ obs = [r \in Runs |-> "none"]
  /\ api = [o \in Requests |-> Nobody]

-----------------------------------------------------------------------------
\* How a run's step ends.

Active(r) == pc[r] \in Pcs
Goto(r, label) == pc' = [pc EXCEPT ![r] = label]
Detects(r, b) == loggedIn' = [loggedIn EXCEPT ![r] = b]

\* A login inside an observation session: the caller catches its exceptions.
Inline(r) == stage[r] = "auth" /\ kind[r] = "gst_observation_session"

\* lock_mgr.release: deletes the key only if it still holds this run's token.
Released(r) == [g \in Gstins |-> IF lock[g] = r THEN Nobody ELSE lock[g]]

\* Mutant of Unlock: the key is deleted whoever holds it.
UnlockBlindly(r) ==
  lock' = IF stage[r] = "auth" /\ gstin[r] # Nobody
          THEN [lock EXCEPT ![gstin[r]] = Nobody] ELSE lock

\* The finally of GstAuthSessionEngine.run.
Unlock(r) == lock' = IF stage[r] = "auth" THEN Released(r) ELSE lock

\* Abstraction: a list that no run will pop any more is forgotten; no checkpoint has its id again.
Forget(r) == queue' = [queue EXCEPT ![Row(r)] = << >>]

\* The coroutine is over, and its locals with it; its session rolls back what it did
\* not commit.
Ends(r, how) ==
  /\ Goto(r, how)
  /\ seen' = [seen EXCEPT ![r] = "absent"] /\ loggedIn' = [loggedIn EXCEPT ![r] = FALSE]
  /\ late' = late \ {r} /\ expired' = expired \ {r} /\ Forget(r)
  /\ stored' = [stored EXCEPT ![r] = IF @ = "added" THEN "no" ELSE @]

\* The login stage of an observation is over; its own checkpoint comes next.
LeaveInline(r) ==
  /\ Goto(r, "creating")
  /\ stage' = [stage EXCEPT ![r] = "work"]
  /\ seen' = [seen EXCEPT ![r] = "absent"] /\ loggedIn' = [loggedIn EXCEPT ![r] = FALSE]
  /\ late' = late \ {r} /\ expired' = expired \ {r} /\ Forget(r)

\* An exception: an inline login's is logged and the observation goes on; any other
\* fails the job.
Fails(r) ==
  /\ Unlock(r)
  /\ \/ Inline(r) /\ LeaveInline(r) /\ UNCHANGED stored
     \/ ~Inline(r) /\ Ends(r, "failed") /\ UNCHANGED stage
  /\ UNCHANGED <<kind, gstin, cp, obs, api>>

-----------------------------------------------------------------------------
\* Before the wait.

\* The assisted run, once a stored session was found, looks at the start page:
\* authenticated, it has nothing to wait for.
StartAssisted(r) ==
  /\ pc[r] = "begun" /\ kind[r] = "assisted_gstr2b_execution"
  /\ Goto(r, "closing") \/ Goto(r, "creating")
  /\ UNCHANGED <<kind, gstin, stage, loggedIn, late, seen, lock, expired, cp, queue, stored, obs, api>>

\* An observation logs in when its start page is not authenticated and the job has a client.
DetectAtStart(r) ==
  /\ pc[r] = "begun" /\ stage[r] = "work" /\ kind[r] = "gst_observation_session"
  /\ \/ Goto(r, "creating") /\ UNCHANGED stage
     \/ gstin[r] # Nobody /\ stage' = [stage EXCEPT ![r] = "auth"] /\ UNCHANGED pc
  /\ UNCHANGED <<kind, gstin, loggedIn, late, seen, lock, expired, cp, queue, stored, obs, api>>

LockFree(r) == gstin[r] # Nobody => lock[gstin[r]] = Nobody

AcquireLogin(r) ==
  /\ pc[r] = "begun" /\ stage[r] = "auth"
  /\ LockFree(r)
  /\ lock' = IF gstin[r] = Nobody THEN lock ELSE [lock EXCEPT ![gstin[r]] = r]
  /\ Goto(r, "opening")
  /\ UNCHANGED <<kind, gstin, stage, late, loggedIn, seen, expired, cp, queue, stored, obs, api>>

\* "gst auth mutex busy": raised before the try block.
LoginBusy(r) ==
  /\ pc[r] = "begun" /\ stage[r] = "auth"
  /\ ~LockFree(r)
  /\ Fails(r)

\* goto, detect: logged in, at the login page of a client with credentials, or neither.
OpenLogin(r) ==
  /\ pc[r] = "opening"
  /\ \/ Detects(r, TRUE) /\ Goto(r, "persisting")
     \/ Detects(r, FALSE) /\ (Goto(r, "filling") \/ Goto(r, "creating"))
  /\ UNCHANGED <<kind, gstin, stage, late, seen, lock, expired, cp, queue, stored, obs, api>>

\* Autofill, detect and, unless a wall shows, submit and detect; a field or a button that
\* is not there raises.
FillLogin(r) ==
  /\ pc[r] = "filling"
  /\ \E b \in BOOLEAN : Detects(r, b) /\ Goto(r, IF b THEN "persisting" ELSE "creating")
  /\ UNCHANGED <<kind, gstin, stage, late, seen, lock, expired, cp, queue, stored, obs, api>>

\* The loop of the login pops an action first and polls the row when there is none;
\* the other two poll first.
LoopHead(r) == IF stage[r] = "auth" THEN "pop" ELSE "poll"

\* checkpoints.create and commit, which commits whatever else the session holds.
CreateCheckpoint(r) ==
  /\ pc[r] = "creating"
  /\ cp' = [cp EXCEPT ![Row(r)] = "pending"]
  /\ stored' = [stored EXCEPT ![r] = IF @ = "added" THEN "committed" ELSE @]
  /\ obs' = [obs EXCEPT ![r] = IF kind[r] = "gst_observation_session" THEN "running" ELSE @]
  /\ Goto(r, LoopHead(r))
  /\ UNCHANGED <<kind, gstin, stage, late, loggedIn, seen, lock, expired, queue, api>>

-----------------------------------------------------------------------------
\* The wait.

\* Mutant of Expired: the deadline is not looked at.
NeverExpired(r) == FALSE
Expired(r) == r \in late

DeadlinePasses(r) ==
  /\ pc[r] \in {"poll", "pop", "submitting", "resolving"} /\ r \notin late
  /\ late' = late \cup {r}
  /\ UNCHANGED <<kind, gstin, stage, pc, loggedIn, seen, lock, expired, cp, queue, stored, obs, api>>

\* After the loop: the observation is written up, the others detect once more.
AfterLoop(r) == IF kind[r] = "gst_observation_session" /\ stage[r] = "work" THEN "closing" ELSE "verify"

TimesOut(r) ==
  /\ pc[r] = LoopHead(r) /\ Expired(r)
  /\ Goto(r, AfterLoop(r))
  /\ UNCHANGED <<kind, gstin, stage, late, loggedIn, seen, lock, expired, cp, queue, stored, obs, api>>

\* session.get: the identity map answers when it holds the row, and the loop's local
\* keeps it there; only the first read goes to the database.
Loaded(r) == IF seen[r] = "absent" THEN cp[Row(r)] ELSE seen[r]

\* Mutant of Rejects: a rejection is not told from a pending checkpoint.
RejectsNever(r) == FALSE

\* The assisted run looks for an approval only.
Rejects(r) == Loaded(r) = "rejected" /\ kind[r] # "assisted_gstr2b_execution"

\* One look at the row: leave the loop, raise, or go on (to the pop, or to the head).
Poll(r) ==
  /\ pc[r] = "poll" /\ (LoopHead(r) = "poll" => ~Expired(r))
  /\ \/ /\ Rejects(r)
        /\ Fails(r)
     \/ /\ ~Rejects(r)
        /\ seen' = [seen EXCEPT ![r] = Loaded(r)]
        /\ Goto(r, IF Loaded(r) = "approved" THEN AfterLoop(r) ELSE "pop")
        /\ UNCHANGED <<kind, gstin, stage, late, loggedIn, lock, expired, cp, queue, stored, obs, api>>

\* The BLPOP timed out.
PopNothing(r) ==
  /\ pc[r] = "pop" /\ queue[Row(r)] = << >> /\ (LoopHead(r) = "pop" => ~Expired(r))
  /\ Goto(r, "poll")
  /\ UNCHANGED <<kind, gstin, stage, late, loggedIn, seen, lock, expired, cp, queue, stored, obs, api>>

Popped(r) == queue' = [queue EXCEPT ![Row(r)] = Tail(@)]

\* _apply_operator_action raises ValueError; the assisted run ignores what it does not know.
Unsupported(r, a) == a = "unsupported" /\ kind[r] # "assisted_gstr2b_execution"

\* The action raises: unsupported, or the page does.
ActionRaises(r) ==
  /\ pc[r] = "pop" /\ queue[Row(r)] # << >> /\ (LoopHead(r) = "pop" => ~Expired(r))
  /\ Fails(r)

\* An action at the login page: a login recognised loads the row, to resolve it.
LoginAction(r) ==
  /\ pc[r] = "pop" /\ stage[r] = "auth" /\ queue[Row(r)] # << >> /\ ~Expired(r)
  /\ ~Unsupported(r, Head(queue[Row(r)]))
  /\ Popped(r)
  /\ \/ /\ Detects(r, TRUE) /\ Goto(r, "resolving")
        /\ seen' = [seen EXCEPT ![r] = Loaded(r)]
     \/ /\ Detects(r, FALSE) /\ Goto(r, "submitting") /\ UNCHANGED seen
  /\ UNCHANGED <<kind, gstin, stage, late, lock, expired, cp, stored, obs, api>>

\* Otherwise the form is filled in again where it is empty and, at a wall, submitted; the
\* page that follows is looked at after the next action or after the wait only.
SubmitAfterHuman(r) ==
  /\ pc[r] = "submitting" /\ Goto(r, "pop")
  /\ UNCHANGED <<kind, gstin, stage, late, loggedIn, seen, lock, expired, cp, queue, stored, obs, api>>

\* An action in an observation or an assisted run; back to the head.
WorkAction(r) ==
  /\ pc[r] = "pop" /\ stage[r] = "work" /\ queue[Row(r)] # << >>
  /\ ~Unsupported(r, Head(queue[Row(r)]))
  /\ Popped(r) /\ Goto(r, "poll")
  /\ UNCHANGED <<kind, gstin, stage, late, loggedIn, seen, lock, expired, cp, stored, obs, api>>

\* checkpoints.resolve(status="approved", resolved_by="operator_action"): written if the
\* loaded row says pending, whatever the database says by now.
ResolveOwn(r) ==
  /\ pc[r] = "resolving"
  /\ cp' = [cp EXCEPT ![Row(r)] = IF seen[r] = "pending" THEN "approved" ELSE @]
  /\ seen' = [seen EXCEPT ![r] = IF @ = "pending" THEN "approved" ELSE @]
  /\ Goto(r, "verify")
  /\ UNCHANGED <<kind, gstin, stage, late, loggedIn, lock, expired, queue, stored, obs, api>>

-----------------------------------------------------------------------------
\* After the wait.

\* Mutant of Verified: an approval is taken for a login.
VerifiedByApproval(r, b) == b \/ seen[r] = "approved"
Verified(r, b) == b

\* The final detection.
Verify(r) ==
  /\ pc[r] = "verify"
  /\ \E b \in BOOLEAN :
       \/ /\ Verified(r, b) /\ Detects(r, b)
          /\ Goto(r, IF stage[r] = "auth" THEN "persisting" ELSE "closing")
          /\ UNCHANGED <<kind, gstin, stage, late, seen, lock, expired, cp, queue, stored, obs, api>>
       \/ /\ ~Verified(r, b)
          /\ Fails(r)

\* _post_auth_stabilize, _persist_session and _validate_persisted_session.
Persist(r) ==
  /\ pc[r] = "persisting"
  /\ stored' = [stored EXCEPT ![r] = "added"]
  /\ Goto(r, "continuing")
  /\ UNCHANGED <<kind, gstin, stage, late, loggedIn, seen, lock, expired, cp, queue, obs, api>>

\* _post_auth_continue enqueues an observation and commits; without a client, or when
\* the broker refuses, it does not commit and does not raise.
PostAuthContinue(r) ==
  /\ pc[r] = "continuing"
  /\ \/ stored' = [stored EXCEPT ![r] = "committed"]
     \/ UNCHANGED stored
  /\ Unlock(r)
  /\ \/ Inline(r) /\ LeaveInline(r)
     \/ ~Inline(r) /\ Goto(r, "closing") /\ UNCHANGED <<stage, seen, loggedIn, late, expired, queue>>
  /\ UNCHANGED <<kind, gstin, cp, obs, api>>

\* Mutant of Close: the runtime completes the job without the session's commit.
CloseWithoutCommit(r) ==
  /\ pc[r] = "closing"
  /\ Ends(r, "returned")
  /\ UNCHANGED <<kind, gstin, stage, lock, cp, obs, api>>

\* The handler returned; the runtime commits its session.
Close(r) ==
  /\ pc[r] = "closing"
  /\ Goto(r, "returned")
  /\ stored' = [stored EXCEPT ![r] = IF @ = "added" THEN "committed" ELSE @]
  /\ obs' = [obs EXCEPT ![r] = IF kind[r] = "gst_observation_session" THEN "finished" ELSE @]
  /\ seen' = [seen EXCEPT ![r] = "absent"] /\ loggedIn' = [loggedIn EXCEPT ![r] = FALSE]
  /\ late' = late \ {r} /\ expired' = expired \ {r} /\ Forget(r)
  /\ UNCHANGED <<kind, gstin, stage, lock, cp, api>>

\* Any await may raise.
Raises(r) == Active(r) /\ Fails(r)

\* The job's time budget: wait_for cancels the handler, which nothing catches.
BudgetExceeded(r) ==
  /\ Active(r) /\ pc[r] # "closing"
  /\ Unlock(r) /\ Ends(r, "failed")
  /\ UNCHANGED <<kind, gstin, stage, cp, obs, api>>

\* The worker dies: nothing is released.
Crash(r) ==
  /\ Active(r)
  /\ Ends(r, "failed")
  /\ UNCHANGED <<kind, gstin, stage, lock, cp, obs, api>>

-----------------------------------------------------------------------------
\* Operators and time.

\* Mutant of MayResolve: resolve without the status # "pending" test.
MayResolveAny(c) == cp[c] # "absent"
MayResolve(c) == cp[c] = "pending"

\* Bound: operators turn to the rows of runs that still wait; nobody reads the others.
Attended == {Row(r) : r \in {q \in Runs \ Competitors : Active(q) /\ cp[Row(q)] # "absent"}}

\* POST .../resolve loads the row; nothing is locked.  A row already resolved is
\* answered with ok and left alone, which is no step.
ReadForResolve(o, c, status) ==
  /\ api[o] = Nobody /\ MayResolve(c)
  /\ api' = [api EXCEPT ![o] = [row |-> c, status |-> status, read |-> cp[c]]]
  /\ UNCHANGED <<runVars, lock, expired, cp, queue, stored, obs>>

CommitResolve(o) ==
  /\ api[o] # Nobody
  /\ cp' = [cp EXCEPT ![api[o].row] = api[o].status]
  /\ api' = [api EXCEPT ![o] = Nobody]
  /\ UNCHANGED <<runVars, lock, expired, queue, stored, obs>>

\* POST /auth/checkpoints/{id}/actions: the row is not looked at; an operator has the id
\* once the row is listed.
EnqueueAction(c, a) ==
  /\ cp[c] # "absent" /\ Len(queue[c]) < MaxActions
  /\ queue' = [queue EXCEPT ![c] = Append(@, a)]
  /\ UNCHANGED <<runVars, lock, expired, cp, stored, obs, api>>

\* Mutant of LockExpires: the holder is looked up after the key is gone.
LockExpiresFirst(g) ==
  /\ lock[g] # Nobody
  /\ lock' = [lock EXCEPT ![g] = Nobody]
  /\ expired' = expired \cup {lock'[g]}
  /\ UNCHANGED <<runVars, cp, queue, stored, obs, api>>

\* checkpoint_timeout_seconds + 60 from the lock's acquisition, which the steps before
\* the wait and after it can outlast.
LockExpires(g) ==
  /\ lock[g] # Nobody
  /\ lock' = [lock EXCEPT ![g] = Nobody]
  /\ expired' = expired \cup {r \in {lock[g]} : Active(r)}
  /\ UNCHANGED <<runVars, cp, queue, stored, obs, api>>

Step(r) ==
  \/ StartAssisted(r) \/ DetectAtStart(r)
  \/ AcquireLogin(r) \/ LoginBusy(r) \/ OpenLogin(r) \/ FillLogin(r)
  \/ CreateCheckpoint(r)
  \/ TimesOut(r) \/ Poll(r) \/ PopNothing(r)
  \/ ActionRaises(r) \/ LoginAction(r) \/ SubmitAfterHuman(r) \/ WorkAction(r) \/ ResolveOwn(r)
  \/ Verify(r) \/ Persist(r) \/ PostAuthContinue(r) \/ Close(r)

Interrupted(r) == Raises(r) \/ BudgetExceeded(r) \/ Crash(r)

Operators ==
  \/ \E o \in Requests : CommitResolve(o)
  \/ \E o \in Requests, c \in Attended, status \in Resolutions : ReadForResolve(o, c, status)
  \/ \E c \in Attended, a \in Actions : EnqueueAction(c, a)

Time ==
  \/ \E r \in Runs : DeadlinePasses(r)
  \/ \E g \in Gstins : LockExpires(g)

Next == (\E r \in Runs : Step(r) \/ Interrupted(r)) \/ Operators \/ Time

\* A coroutine keeps running and the clock keeps going; nothing is assumed of operators,
\* exceptions, crashes or the budget.
Fairness == \A r \in Runs : WF_vars(Step(r)) /\ WF_vars(DeadlinePasses(r))

Spec == Init /\ [][Next]_vars
FairSpec == Spec /\ Fairness

-----------------------------------------------------------------------------
\* Properties.

\* At most one login per GSTIN works at a time, unless a lock outlives its TTL: a run
\* inside GstAuthSessionEngine.run whose lock has not expired is the one the key names
\* (RedisLockManager.acquire, release with the token).
InLogin(r) ==
  /\ stage[r] = "auth" /\ gstin[r] # Nobody
  /\ pc[r] \in Pcs \ {"begun", "closing"}
LoginMutex == \A r \in Runs : InLogin(r) /\ r \notin expired => lock[gstin[r]] = r

\* A portal session is stored only after the portal showed a logged-in page, whatever an
\* operator approved before (the final detection in GstAuthSessionEngine.run).
SessionFromLogin ==
  [][\A r \in Runs : stored[r] = "no" /\ stored'[r] # "no" => loggedIn[r]]_vars

\* A job reported done has durable results: the session of a login, the finished row of
\* an observation (the commit of run_job after the handler).
ResultsDurable ==
  \A r \in Runs : pc[r] = "returned" =>
    /\ kind[r] = "gst_auth_session" => stored[r] = "committed"
    /\ kind[r] = "gst_observation_session" => obs[r] = "finished"
    /\ stored[r] # "added"

\* A decision of an operator is replaced only by a request that also read the row as
\* pending, or by the run's own approval after a login (OperatorCheckpointService.resolve
\* reads, then writes, without a lock).
DecisionStands ==
  [][\A c \in Rows : cp[c] \in Resolutions /\ cp'[c] # cp[c] =>
       \/ \E o \in Requests : api[o] # Nobody /\ api[o].row = c /\ api[o].read = "pending"
       \/ pc[c[1]] = "resolving" /\ stage[c[1]] = c[2] /\ loggedIn[c[1]]]_vars

\* A rejection that a run's poll read ends the run's work on that checkpoint: no such run goes
\* on to be done, with three exceptions that are the code's.  A login whose page shows
\* authenticated goes on: it read the row when it resolved it, and resolve leaves a row that was
\* rejected as it is (auth_session.py:305-308).  The assisted run does not look for a rejection.
\* And an observation goes on after its inline login was rejected, with a checkpoint of its own,
\* for which nothing has been read yet.  Nothing is said of a rejection made after the first
\* poll, which the poll never sees (ApprovalEndsWait).
RejectionHonoured ==
  \A r \in Runs : pc[r] = "closing" /\ seen[r] = "rejected" =>
    kind[r] = "assisted_gstr2b_execution" \/ (stage[r] = "auth" /\ loggedIn[r])

\* Every run ends, whatever operators do or leave undone: each wait has a deadline.
RunEnds == \A r \in Runs : <>(pc[r] \in Ended)

\* "Also allow "approve" resolution without actions" (auth_session.py), "Wait for operator
\* to approve" (assisted_gstr2b.py): a poll made after an approval ends the wait.
ApprovalEndsWait ==
  [][\A r \in Runs : Poll(r) /\ cp[Row(r)] = "approved" => pc'[r] # "pop"]_vars
=============================================================================
