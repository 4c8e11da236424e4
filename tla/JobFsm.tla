------------------------------- MODULE JobFsm -------------------------------
(***************************************************************************)
(* The finite-state machine of a durable job: JobStateMachine in           *)
(* orchestration/fsm.py.  TransitionService.transition consults it before  *)
(* every write of jobs.state, so every module that moves a job goes        *)
(* through AssertAllowed.                                                  *)
(***************************************************************************)

\* JOB_STATES (db/models/orchestration/enums.py).
JobStates == {"pending", "queued", "leased", "running", "retrying", "paused",
              "completed", "failed", "dead_lettered", "cancelled"}

\* JobStateMachine._allowed: the pairs <<from, to>> a transition may use.
Allowed ==
  { <<"pending", "queued">>,     <<"pending", "cancelled">>,
    <<"queued", "leased">>,      <<"queued", "paused">>,
    <<"queued", "cancelled">>,
    <<"leased", "running">>,     <<"leased", "retrying">>,
    <<"leased", "dead_lettered">>,
    <<"running", "completed">>,  <<"running", "retrying">>,
    <<"running", "failed">>,     <<"running", "dead_lettered">>,
    <<"retrying", "queued">>,    <<"retrying", "dead_lettered">>,
    <<"paused", "queued">>,      <<"paused", "cancelled">>,
    <<"failed", "retrying">>,    <<"failed", "dead_lettered">> }

\* Mutants of AssertAllowed: the table also has the pairs that
\* reclaim_expired_job's comment speaks of; or lets a completed or a
\* dead-lettered job be queued again.
AssertAllowedRequeue(from, to) ==
  <<from, to>> \in Allowed \cup {<<"leased", "queued">>, <<"running", "queued">>}
AssertAllowedReopen(from, to) == <<from, to>> \in Allowed \cup {<<"completed", "queued">>}
AssertAllowedRevive(from, to) ==
  <<from, to>> \in Allowed \cup {<<"dead_lettered", "queued">>}

\* JobStateMachine.assert_allowed: a no-op transition is rejected first, then
\* any pair that is not in the table; FALSE stands for InvalidJobTransition.
AssertAllowed(from, to) ==
  /\ from # to
  /\ <<from, to>> \in Allowed
=============================================================================
